---------------------------- MODULE MCTransport ----------------------------
(* Two connections through a channel with room for one message; one client *)
(* subscribes to a custom period and reads, the other does not read.       *)
EXTENDS TransportProperties, TLC

CONSTANTS a, b

MCPort      == [c \in Clients |-> "tls"]
MCFaults    == (a :> {"accept", "tls", "handshake", "header", "silence"}) @@ (b :> {})
MCFrames    == (a :> {"subscribe", "unsubscribe"})
               @@ (b :> {"request", "control", "bad", "broken", "lost"})
MCMaxFrames == (a :> 2) @@ (b :> 1)
=============================================================================
