-------------------------- MODULE CodecProperties --------------------------
(***************************************************************************)
(* What the binary codec keeps of the messages it carries.                 *)
(***************************************************************************)
EXTENDS BinaryCodec

WellTyped(m) ==
    /\ m = Message(m.id, m.timestamp, m.value)
    /\ IsId(m.id) /\ m.timestamp \in 0 .. 2 * Half64 - 1 /\ IsValue(m.value)

\* Every message has the width of its Rust fields, after all casts.
CodecTypeOK ==
    /\ \A m \in ToSet(submitted) \cup ToSet(queue) \cup ToSet(received) : WellTyped(m)
    /\ \A i \in DOMAIN packets : \A m \in ToSet(packets[i]) : WellTyped(m)
    /\ \A i \in DOMAIN packets : Len(packets[i]) \in 1 .. BatchSize
    /\ reader \in {"reading", "panicked"}
    /\ foreign \in 0 .. Len(ForeignItems)

\* The received messages that a handler submitted.
OwnPart(m) == IF m.timestamp > 0 THEN << m >> ELSE << >>
Own == FlattenSeq([i \in DOMAIN received |-> OwnPart(received[i])])

\* Whatever a handler submits arrives once, in order and with the value and type
\* it had, through the chunks of batch_messages, both directions of the codec
\* and frames that hold invalid messages at any place (net.rs ignores those).
OwnMessagesArrive ==
    /\ Len(Own) <= Len(submitted)
    /\ reader = "reading" => IsPrefix(Own, submitted)
    /\ reader = "reading" /\ queue = << >> /\ packets = << >> /\ wire = << >> => Own = submitted

\* What was accepted from a peer, however it wrote it, can be sent on to
\* subscribers and means the same to them (from_slice, Serialize).
RelayedUnchanged ==
    \A m \in ToSet(received) : Result(Serialized(m)) = <<"ok", m>>
=============================================================================
