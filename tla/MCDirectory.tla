---------------------------- MODULE MCDirectory ----------------------------
(* Two clients that publish, release and set flags, come and go.           *)
EXTENDS NT4Properties, TLC

CONSTANTS c1, c2

MCValues      == { ValueOf("int", "other"), ValueOf("string", "other") }
MCRequests    == [c \in Clients |-> {"publish", "release", "setflags", "value", "getvalues", "drop"}]
MCMaxRequests == (c1 :> 2) @@ (c2 :> 2)
Symmetry      == Permutations(Clients)
=============================================================================
