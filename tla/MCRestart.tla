----------------------------- MODULE MCRestart -----------------------------
(* Two clients that make topics persistent, over a restart of the server.  *)
EXTENDS NT4Properties, TLC

CONSTANTS c1, c2

MCValues      == { ValueOf("int[]", x) : x \in {"wide", "binary"} }
MCRequests    == (c1 :> {"publish", "setflags", "value", "drop"})
                 @@ (c2 :> {"publish", "setflags", "time", "leave"})
MCMaxRequests == (c1 :> 3) @@ (c2 :> 1)
=============================================================================
