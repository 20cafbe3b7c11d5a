------------------------ MODULE TransportProperties ------------------------
(***************************************************************************)
(* What holds between the sockets and the handlers, and what the           *)
(* documentation says of it that does not hold.                            *)
(***************************************************************************)
EXTENDS Transport

MessageKinds == { "request", "subscribe", "unsubscribe", "disconnect" }
Messages == [cid : Clients, kind : MessageKinds, n : Nat]
Tasks    == { Free, <<"channel_loop">>, <<"broadcast_loop">> }
            \cup ({"update_new_client", "broadcast_with_period"} \X Clients)

\* Every variable has the type of what it stands for, and no queue is longer
\* than its capacity.
ListenTypes ==
    /\ stage \in [Clients -> {"backlog", "tls", "ws", "open", "closed", "refused", "silent"}]
    /\ listener \in [Ports -> SUBSET Clients] /\ ended \subseteq Ports

SocketTypes ==
    /\ wire \in [Clients -> Seq([kind : FrameKinds, n : Nat])]
    /\ sent \in [Clients -> Nat]
    /\ sock \in [Clients -> 0 .. SocketSize]

ReaderTypes ==
    /\ reader \in [Clients -> {"none", "reading", "deaf", "sending", "done", "panicked"}]
    /\ holding \in [Clients -> Messages \cup {Nothing}]
    /\ \A c \in Clients : holding[c] # Nothing <=> reader[c] = "sending"

ChannelTypes == channel \in Seq(Messages) /\ Len(channel) <= ChannelSize

ServerTypes ==
    /\ clients \subseteq Clients /\ greeting \subseteq Clients
    /\ taken \in Messages \cup {Nothing}
    /\ alive \in BOOLEAN
    /\ handled \in [Clients -> Nat]

MutexTypes == mutex \in Tasks /\ todo \in Seq([op : {"send", "stop"}, cid : Clients])

LoopTypes ==
    /\ custom \in [Clients -> {"none", "select", "due", "serving", "ended"}]
    /\ sender \in [Clients -> BOOLEAN]
    /\ told \in [Clients -> 0 .. 1]

TransportTypeOK ==
    /\ ListenTypes /\ SocketTypes /\ ReaderTypes /\ ChannelTypes
    /\ ServerTypes /\ MutexTypes /\ LoopTypes

----------------------------------------------------------------------------
(* Order                                                                   *)

\* The frames that were not read yet.
WireInOrder(c) ==
    /\ \A i, j \in DOMAIN wire[c] : i < j => wire[c][i].n < wire[c][j].n
    /\ \A i \in DOMAIN wire[c] : handled[c] < wire[c][i].n /\ wire[c][i].n <= sent[c]

\* The message of client_loop comes before them.
HeldInOrder(c) ==
    holding[c] # Nothing =>
        /\ holding[c].cid = c
        /\ handled[c] < holding[c].n /\ holding[c].n <= sent[c]
        /\ \A i \in DOMAIN wire[c] : holding[c].n < wire[c][i].n

\* Those in the channel come before both.
ChannelInOrder(c) ==
    \A i \in DOMAIN channel : channel[i].cid = c =>
        /\ handled[c] < channel[i].n /\ channel[i].n <= sent[c]
        /\ \A j \in DOMAIN channel : i < j /\ channel[j].cid = c => channel[i].n < channel[j].n
        /\ holding[c] # Nothing => channel[i].n < holding[c].n
        /\ \A j \in DOMAIN wire[c] : channel[i].n < wire[c][j].n

\* The one that channel_loop has taken comes before all.
TakenInOrder(c) ==
    taken # Nothing /\ taken.cid = c =>
        /\ handled[c] <= taken.n /\ taken.n <= sent[c]
        /\ \A i \in DOMAIN channel : channel[i].cid = c => taken.n < channel[i].n
        /\ holding[c] # Nothing => taken.n < holding[c].n
        /\ \A i \in DOMAIN wire[c] : taken.n < wire[c][i].n

\* The messages on their way are in the order the client sent the frames, from
\* the handler back to the socket, and none is there twice: client_loop takes
\* one frame at a time and waits for room with it in its hand.
FramesInOrder ==
    \A c \in Clients : WireInOrder(c) /\ HeldInOrder(c) /\ ChannelInOrder(c) /\ TakenInOrder(c)

\* The requests of a client that are not handled yet, in the order of their way:
\* the one that waits for its handler, those in the channel, the one in the hand
\* of client_loop, and those on the wire that are for channel_loop.
AsRequest(frame) ==
    Frame(IF frame.kind \in {"close", "lost"} THEN "disconnect" ELSE frame.kind, frame.n)

RequestIf(test, frame) == IF test THEN << AsRequest(frame) >> ELSE << >>

Handling(c) == RequestIf(taken # Nothing /\ taken.cid = c /\ taken.n > handled[c], taken)
Queued(c)   == FlattenSeq([i \in DOMAIN channel |-> RequestIf(channel[i].cid = c, channel[i])])
Held(c)     == RequestIf(holding[c] # Nothing, holding[c])
Unread(c)   == FlattenSeq([i \in DOMAIN wire[c] |->
                              RequestIf(wire[c][i].kind \in Forwarded, wire[c][i])])

Unhandled(c) == Handling(c) \o (Queued(c) \o (Held(c) \o Unread(c)))

\* The whole way is one queue for each client, as NT4Server has it: nothing is
\* lost when the channel is full, nothing overtakes, and the disconnection comes
\* once, and last.
Statuses == [c \in Clients |-> IF stage[c] \in {"open", "closed"} THEN stage[c] ELSE "fresh"]
Waiting  == [c \in Clients |-> Unhandled(c)]

Queue == INSTANCE Inbound WITH
           Kinds   <- FrameKinds \ {"close", "lost"},
           Ignored <- FrameKinds \ Forwarded,
           status  <- Statuses,
           inbound <- Waiting,
           served  <- handled

InboundKept == Queue!InboundSpec

----------------------------------------------------------------------------
(* Waiting                                                                 *)

\* The holder of the mutex can only be waiting for a client that does not read.
\* In particular unsubscribe, which sends on the channel(1) of a loop that may
\* itself be waiting for the mutex, always finds room in it.
OnlyReadersBlock ==
    todo # << >> /\ ~ENABLED Work =>
        \E c \in Clients : Head(todo) = SendTo(c) /\ stage[c] = "open" /\ sock[c] = SocketSize

----------------------------------------------------------------------------
(* Progress, and all that the code lets stand in its way                   *)

\* send_message waits, with the mutex held, for a client that does not read.
HeldByClient ==
    /\ todo # << >>
    /\ \E c \in Clients \ Readers :
          Head(todo) = SendTo(c) /\ stage[c] = "open" /\ sock[c] = SocketSize

\* In the end every request and disconnection of a client is handled, unless
\* channel_loop has panicked, a client that does not read holds up the server,
\* or the client itself has sent a control frame (nothing wakes poll_next) or
\* one on which from_slice panics.  The full channel, the held mutex and the
\* stop channels of custom loops never wait for each other.
EverythingServed ==
    \A c \in Clients :
        <>[]( \/ Unhandled(c) = << >>
             \/ ~alive \/ HeldByClient
             \/ reader[c] \in {"deaf", "panicked"})

\* In the end a listener has got to each of its clients, however busy the mutex
\* is, unless the listener never started, an error has ended it (of accept, or
\* of one TLS handshake) or a panic (at one malformed header), a client fell
\* silent in its handshake, or the mutex is held as above.
ConnectionsServed ==
    \A c \in Clients :
        <>[]( \/ stage[c] \notin {"backlog", "tls", "ws"}
                /\ \A p \in Ports : c \notin listener[p]
             \/ Port[c] \in ended \/ HeldByClient
             \/ \E d \in listener[Port[c]] : stage[d] = "silent")
=============================================================================
