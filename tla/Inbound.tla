------------------------------ MODULE Inbound ------------------------------
(***************************************************************************)
(* What the way from a client to channel_loop promises: the requests of a  *)
(* client are handled in the order it sent them, none is lost or handled   *)
(* twice while the connection lasts, and the end of the connection comes   *)
(* after what was kept of them.  It is the inbound queue of NT4Server.     *)
(***************************************************************************)
EXTENDS Integers, Sequences

CONSTANTS Clients, Kinds, Ignored

VARIABLES
    status,     \* "fresh", "open" or "closed"
    sent,       \* how many frames a client has sent
    inbound,    \* those it sent that are to be handled, with their numbers
    served      \* the number of the last one handled

ivars == <<status, sent, inbound, served>>

InboundInit ==
    /\ status  = [c \in Clients |-> "fresh"]
    /\ sent    = [c \in Clients |-> 0]
    /\ inbound = [c \in Clients |-> << >>]
    /\ served  = [c \in Clients |-> 0]

Open(c) ==
    /\ status[c] = "fresh"
    /\ status' = [status EXCEPT ![c] = "open"]
    /\ UNCHANGED <<sent, inbound, served>>

Send(c, kind) ==
    /\ status[c] = "open"
    /\ sent' = [sent EXCEPT ![c] = @ + 1]
    /\ inbound' = IF kind \in Ignored THEN inbound
                  ELSE [inbound EXCEPT ![c] = Append(@, [kind |-> kind, n |-> sent[c] + 1])]
    /\ UNCHANGED <<status, served>>

\* The end of the stream, after the first requests on their way.
Close(c) ==
    /\ status[c] = "open"
    /\ status' = [status EXCEPT ![c] = "closed"]
    /\ sent' = [sent EXCEPT ![c] = @ + 1]
    /\ \E kept \in 0 .. Len(inbound[c]) :
          inbound' = [inbound EXCEPT ![c] = Append(SubSeq(@, 1, kept),
                                                   [kind |-> "disconnect", n |-> sent[c] + 1])]
    /\ UNCHANGED served

Serve(c) ==
    /\ served[c] < served'[c]
    /\ inbound[c] # << >>
    /\ served' = [served EXCEPT ![c] = Head(inbound[c]).n]
    /\ inbound' = [inbound EXCEPT ![c] = Tail(@)]
    /\ UNCHANGED <<status, sent>>

InboundNext ==
    \E c \in Clients :
        \/ Open(c)
        \/ \E kind \in Kinds : Send(c, kind)
        \/ Close(c)
        \/ Serve(c)

InboundSpec == InboundInit /\ [][InboundNext]_ivars
=============================================================================
