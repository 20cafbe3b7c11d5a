---------------------------- MODULE MCLiveness -----------------------------
(* A publisher, and a subscriber that changes its mind.                    *)
EXTENDS NT4Properties, TLC

CONSTANTS writer, reader

MCValues   == { ValueOf("int", "other") }
MCRequests == (writer :> {"publish", "value"}) @@ (reader :> {"subscribe", "unsubscribe"})

Option(periodic, immediate, logging) ==
    [prefixes |-> <<{"x"}>>, immediate |-> immediate, periodic |-> periodic, logging |-> logging]
Plain     == Option("default", FALSE, FALSE)
AtOnce    == Option("default", TRUE, FALSE)
Timed     == Option("custom", FALSE, TRUE)

\* One value, and three requests of either period.
ShortRequests == (writer :> 2) @@ (reader :> 3)
Periods       == {Plain, Timed}

\* Two values, and three requests for the default period.
LongRequests == (writer :> 3) @@ (reader :> 3)
Defaults     == {Plain, AtOnce}
=============================================================================
