---------------------------- MODULE MCDelivery -----------------------------
(* A client that publishes values, alone or in frames of two, and one that *)
(* subscribes to them.                                                     *)
EXTENDS NT4Properties, TLC

CONSTANTS writer, reader

MCValues      == { ValueOf("int", x) : x \in {"default", "other"} }
MCRequests    == (writer :> {"publish", "release", "value"})
                 @@ (reader :> {"subscribe", "unsubscribe", "getvalues", "drop"})
MCMaxRequests == (writer :> 3) @@ (reader :> 2)

Option(immediate, periodic) ==
    [prefixes |-> <<{"x"}>>, immediate |-> immediate, periodic |-> periodic, logging |-> FALSE]
MCSubOptions  == { Option(TRUE, "custom"), Option(FALSE, "default") }
=============================================================================
