------------------------------ MODULE MCClaims -----------------------------
(* The smallest systems in which the claims of the documentation fail.     *)
EXTENDS NT4Claims, TLC

CONSTANTS a, b

MCValues      == { ValueOf("int", "other") }
MCMaxRequests == (a :> 3) @@ (b :> 2)

Option(periodic, logging) ==
    [prefixes |-> <<{"x"}>>, immediate |-> FALSE, periodic |-> periodic, logging |-> logging]
MCSubOptions  == { Option(p, l) : p \in {"default", "custom"}, l \in BOOLEAN }
Plain         == { Option("default", FALSE) }
LongRequests  == [c \in Clients |-> 3]

Updating      == (a :> {"publish", "value", "release"}) @@ (b :> {"subscribe", "unsubscribe"})
Releasing     == [c \in Clients |-> {"publish", "release", "leave"}]
Resubscribing == (a :> {"publish", "value"}) @@ (b :> {"subscribe", "unsubscribe"})
Logging       == (a :> {"publish", "value"}) @@ (b :> {"subscribe"})
=============================================================================
