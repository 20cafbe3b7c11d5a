----------------------------- MODULE Transport -----------------------------
(***************************************************************************)
(* What lies between the sockets and the handlers: the listeners           *)
(* (server.rs), one client_loop for each connection (client.rs) with       *)
(* NTSocket::poll_next (net.rs), the channel of 32, and the tasks that     *)
(* wait for full sockets while they hold the mutex.  NT4Server has         *)
(* unbounded queues and atomic handlers in their place.                    *)
(*                                                                         *)
(* Which messages a handler sends is left open; that it sends them one by  *)
(* one under the mutex, and what it waits for, is not.                     *)
(***************************************************************************)
EXTENDS Integers, Sequences, FiniteSets, SequencesExt

CONSTANTS
    Clients,      \* connections; each is made once
    Ports,        \* the listeners: "tcp" and "tls"
    Port,         \* the listener that a client connects to
    Faults,       \* what can go wrong while a client connects
    Readers,      \* clients that go on reading
    Frames,       \* the kinds of frame each client sends
    MaxFrames,    \* bound: how many frames each client sends
    ChannelSize,  \* the capacity of the channel to channel_loop
    SocketSize,   \* how many messages a socket takes that nobody reads
    MaxReplies    \* bound: how many messages a handler or a round sends

\* "request" is any text or binary frame but a subscription to a custom period
\* and its end; "bad" is text that is no JSON, "broken" a binary frame on which
\* from_slice panics, "control" a ping or pong.
FrameKinds == { "request", "subscribe", "unsubscribe", "bad", "broken", "control",
                "close", "lost" }

ASSUME ClientsFinite == IsFiniteSet(Clients)
ASSUME PortsKnown    == Ports \subseteq {"tcp", "tls"} /\ Port \in [Clients -> Ports]
ASSUME FaultsKnown   == Faults \in [Clients -> SUBSET {"accept", "tls", "handshake", "header",
                                                       "silence"}]
ASSUME ReadersKnown  == Readers \subseteq Clients
ASSUME FramesKnown   == Frames \in [Clients -> SUBSET FrameKinds]
ASSUME SizesPositive == /\ MaxFrames \in [Clients -> Nat]
                        /\ ChannelSize \in Nat \ {0}
                        /\ SocketSize \in Nat \ {0}
ASSUME RepliesBound  == MaxReplies \in Nat

VARIABLES
    \* connections
    stage,      \* "backlog", "tls", "ws", "open", "closed", "refused" or "silent"
    listener,   \* what a listener works on: a set of at most one client
    ended,      \* the listeners whose task has ended
    wire,       \* frames from a client that were not read yet
    sent,       \* how many frames it has sent
    sock,       \* how many messages to it were not read yet
    \* client_loop, by client
    reader,     \* "none", "reading", "deaf", "sending", "done" or "panicked"
    holding,    \* the message it waits to put into the channel
    \* shared
    channel,    \* messages to channel_loop
    clients,    \* the keys of NTServer.clients
    mutex,      \* the task that holds it, and for which client
    todo,       \* what the holder still has to send
    \* tasks
    taken,      \* the message that channel_loop has received
    alive,      \* whether channel_loop has not panicked
    handled,    \* the number of the last frame handled, by client
    greeting,   \* clients whose update_new_client has not begun
    custom,     \* their broadcast_with_period: "none", "select", "due", "serving", "ended"
    sender,     \* whether sub_loop_channels has its sender
    told        \* how many () its channel(1) holds

listenVars == <<stage, listener, ended>>
wireVars   == <<wire, sent>>
loopVars   == <<custom, sender, told>>
mutexVars  == <<mutex, todo>>
serverVars == <<clients, taken, alive, handled, greeting>>
readVars   == <<reader, holding>>
vars == <<listenVars, wireVars, sock, readVars, channel, mutexVars, serverVars, loopVars>>

Nothing == << >>
Free    == <<"free">>

\* A frame, or the message made of it.
Frame(kind, n)       == [kind |-> kind, n |-> n]
Message(c, kind, n)  == [cid |-> c, kind |-> kind, n |-> n]

SendTo(c) == [op |-> "send", cid |-> c]
Stop(c)   == [op |-> "stop", cid |-> c]

Init ==
    /\ stage = [c \in Clients |-> "backlog"] /\ listener = [p \in Ports |-> {}]
    /\ ended \in SUBSET Ports   \* those that cannot bind, or have no TLS configuration
    /\ wire = [c \in Clients |-> << >>] /\ sent = [c \in Clients |-> 0]
    /\ sock = [c \in Clients |-> 0]
    /\ reader = [c \in Clients |-> "none"] /\ holding = [c \in Clients |-> Nothing]
    /\ channel = << >> /\ clients = {} /\ mutex = Free /\ todo = << >>
    /\ taken = Nothing /\ alive = TRUE /\ handled = [c \in Clients |-> 0] /\ greeting = {}
    /\ custom = [c \in Clients |-> "none"] /\ sender = [c \in Clients |-> FALSE]
    /\ told = [c \in Clients |-> 0]

----------------------------------------------------------------------------
(* The listeners: tcp_loop and tls_loop.  Each serves one connection at a  *)
(* time, from accept to insertion.                                         *)

Accept(p, c) ==
    /\ p \notin ended /\ listener[p] = {}
    /\ stage[c] = "backlog" /\ Port[c] = p
    /\ listener' = [listener EXCEPT ![p] = {c}]
    /\ stage' = [stage EXCEPT ![c] = IF p = "tls" THEN "tls" ELSE "ws"]
    /\ UNCHANGED <<ended, wireVars, sock, readVars, channel, mutexVars, serverVars, loopVars>>

\* `while let Ok(..) = listener.accept().await` ends with the first error.
AcceptFails(p, c) ==
    /\ "accept" \in Faults[c]
    /\ p \notin ended /\ listener[p] = {}
    /\ stage[c] = "backlog" /\ Port[c] = p
    /\ ended' = ended \cup {p}
    /\ UNCHANGED <<stage, listener, wireVars, sock, readVars, channel, mutexVars,
                   serverVars, loopVars>>

TlsHandshake(p, c) ==
    /\ c \in listener[p] /\ stage[c] = "tls"
    /\ \/ /\ stage' = [stage EXCEPT ![c] = "ws"]
          /\ UNCHANGED <<listener, ended>>
       \/ \* acceptor.accept(sock).await? returns from tls_loop.
          /\ "tls" \in Faults[c]
          /\ stage' = [stage EXCEPT ![c] = "refused"]
          /\ listener' = [listener EXCEPT ![p] = {}]
          /\ ended' = ended \cup {p}
    /\ UNCHANGED <<wireVars, sock, readVars, channel, mutexVars, serverVars, loopVars>>

\* External: a client that says nothing more; no handshake has a timeout.
FallSilent(c) ==
    /\ "silence" \in Faults[c]
    /\ stage[c] \in {"tls", "ws"}
    /\ stage' = [stage EXCEPT ![c] = "silent"]
    /\ UNCHANGED <<listener, ended, wireVars, sock, readVars, channel, mutexVars, serverVars,
                   loopVars>>

\* Faulty: after a refusal the listener still waits for the client.
WsHandshake_Waiting(p, c) ==
    /\ c \in listener[p] /\ stage[c] = "ws"
    /\ \/ /\ stage' = [stage EXCEPT ![c] = "open"]
          /\ reader' = [reader EXCEPT ![c] = "reading"]
       \/ /\ {"handshake", "header"} \cap Faults[c] # {}
          /\ stage' = [stage EXCEPT ![c] = "refused"]
          /\ UNCHANGED reader
    /\ UNCHANGED <<listener, ended, wireVars, sock, holding, channel, mutexVars, serverVars,
                   loopVars>>

\* The client is gone, and the listener free for the next one.
Refuse(p, c) ==
    /\ stage' = [stage EXCEPT ![c] = "refused"]
    /\ listener' = [listener EXCEPT ![p] = {}]
    /\ UNCHANGED reader

\* try_accept; ConnectedClient::new spawns the client_loop.
WsHandshake(p, c) ==
    /\ c \in listener[p] /\ stage[c] = "ws"
    /\ \/ /\ stage' = [stage EXCEPT ![c] = "open"]
          /\ reader' = [reader EXCEPT ![c] = "reading"]
          /\ UNCHANGED <<listener, ended>>
       \/ /\ "handshake" \in Faults[c]
          /\ Refuse(p, c)
          /\ UNCHANGED ended
       \/ \* to_str().unwrap() on a header that is not visible ASCII panics the task.
          /\ "header" \in Faults[c]
          /\ Refuse(p, c)
          /\ ended' = ended \cup {p}
    /\ UNCHANGED <<wireVars, sock, holding, channel, mutexVars, serverVars, loopVars>>

Insert(p, c) ==
    /\ c \in listener[p] /\ stage[c] \in {"open", "closed"}
    /\ mutex = Free
    /\ clients' = clients \cup {c}
    /\ greeting' = greeting \cup {c}
    /\ listener' = [listener EXCEPT ![p] = {}]
    /\ UNCHANGED <<stage, ended, wireVars, sock, readVars, channel, mutexVars,
                   taken, alive, handled, loopVars>>

----------------------------------------------------------------------------
(* The clients (external).  A client that asks for a custom period does so *)
(* with its first frame.                                                   *)

SendFrame(c, kind) ==
    /\ stage[c] = "open"
    /\ sent[c] < MaxFrames[c]
    /\ kind \in Frames[c] \ {"close", "lost"}
    /\ kind = "subscribe" => sent[c] = 0
    /\ wire' = [wire EXCEPT ![c] = Append(@, Frame(kind, sent[c] + 1))]
    /\ sent' = [sent EXCEPT ![c] = @ + 1]
    /\ UNCHANGED <<listenVars, sock, readVars, channel, mutexVars, serverVars, loopVars>>

\* A CLOSE frame behind all it has sent, or a lost connection, and with it some
\* of what was on the wire.
Leave(c, kind, kept) ==
    /\ stage[c] = "open"
    /\ kind \in Frames[c] \cap {"close", "lost"}
    /\ kind = "close" => kept = Len(wire[c])
    /\ stage' = [stage EXCEPT ![c] = "closed"]
    /\ wire' = [wire EXCEPT ![c] = Append(SubSeq(@, 1, kept), Frame(kind, sent[c] + 1))]
    /\ sent' = [sent EXCEPT ![c] = @ + 1]
    /\ sock' = [sock EXCEPT ![c] = 0]
    /\ UNCHANGED <<listener, ended, readVars, channel, mutexVars, serverVars, loopVars>>

ReadSocket(c) ==
    /\ sock[c] > 0
    /\ sock' = [sock EXCEPT ![c] = @ - 1]
    /\ UNCHANGED <<listenVars, wireVars, readVars, channel, mutexVars, serverVars, loopVars>>
----------------------------------------------------------------------------
(* client_loop, with poll_next under it.                                   *)

\* The message for channel_loop that client_loop makes of a frame: both ways
\* for a stream to end become a ClientDisconnected.
ServerMessage(c, frame) ==
    Message(c, IF frame.kind \in {"close", "lost"} THEN "disconnect" ELSE frame.kind, frame.n)

Forwarded == {"request", "subscribe", "unsubscribe", "close", "lost"}

Stopped(c, how) == reader' = [reader EXCEPT ![c] = how] /\ UNCHANGED holding

Hold(c, frame) ==
    /\ reader' = [reader EXCEPT ![c] = "sending"]
    /\ holding' = [holding EXCEPT ![c] = ServerMessage(c, frame)]

\* Faulty: what finds no room in the channel is dropped.
TakeFrame_Dropping(c, frame) ==
    CASE frame.kind \in Forwarded -> IF Len(channel) < ChannelSize THEN Hold(c, frame)
                                     ELSE UNCHANGED readVars
      [] frame.kind = "bad"       -> UNCHANGED readVars
      [] frame.kind = "control"   -> Stopped(c, "deaf")
      [] frame.kind = "broken"    -> Stopped(c, "panicked")

\* Faulty: an error ends the loop.
TakeFrame_Strict(c, frame) ==
    CASE frame.kind \in Forwarded -> Hold(c, frame)
      [] frame.kind = "bad"       -> Stopped(c, "done")
      [] frame.kind = "control"   -> Stopped(c, "deaf")
      [] frame.kind = "broken"    -> Stopped(c, "panicked")

\* What does not decode is logged; a control frame is answered with Pending,
\* which leaves no waker with the socket.
TakeFrame(c, frame) ==
    CASE frame.kind \in Forwarded -> Hold(c, frame)
      [] frame.kind = "bad"       -> UNCHANGED readVars
      [] frame.kind = "control"   -> Stopped(c, "deaf")
      [] frame.kind = "broken"    -> Stopped(c, "panicked")

\* A frame that arrives wakes the task, if the poll before left a waker.
client_loop(c) ==
    /\ reader[c] = "reading" /\ wire[c] # << >>
    /\ TakeFrame(c, Head(wire[c]))
    /\ wire' = [wire EXCEPT ![c] = Tail(@)]
    /\ UNCHANGED <<listenVars, sent, sock, channel, mutexVars, serverVars, loopVars>>

\* Faulty: it does not wait for room.
Forward_Unbounded(c) ==
    /\ reader[c] = "sending"
    /\ channel' = Append(channel, holding[c])
    /\ holding' = [holding EXCEPT ![c] = Nothing]
    /\ reader' = [reader EXCEPT ![c] = IF holding[c].kind = "disconnect" THEN "done"
                                       ELSE "reading"]
    /\ UNCHANGED <<listenVars, wireVars, sock, mutexVars, serverVars, loopVars>>

\* Faulty: the message is sent again after it was sent.
Forward_Repeated(c) ==
    /\ reader[c] = "sending"
    /\ Len(channel) < ChannelSize
    /\ channel' = Append(channel, holding[c])
    /\ UNCHANGED <<listenVars, wireVars, sock, readVars, mutexVars, serverVars, loopVars>>

\* tx.send(..).await: it waits for room.
Forward(c) ==
    /\ reader[c] = "sending"
    /\ Len(channel) < ChannelSize
    /\ channel' = Append(channel, holding[c])
    /\ holding' = [holding EXCEPT ![c] = Nothing]
    /\ reader' = [reader EXCEPT ![c] = IF holding[c].kind = "disconnect" THEN "done"
                                       ELSE "reading"]
    /\ UNCHANGED <<listenVars, wireVars, sock, mutexVars, serverVars, loopVars>>

----------------------------------------------------------------------------
(* channel_loop                                                            *)

Receive ==
    /\ alive /\ taken = Nothing /\ channel # << >>
    /\ taken' = Head(channel)
    /\ channel' = Tail(channel)
    /\ UNCHANGED <<listenVars, wireVars, sock, readVars, mutexVars, clients, alive, handled,
                   greeting, loopVars>>

\* What a handler or a round of a periodic task sends: batches to any of some
\* clients, in any order.
Replies(to) == SeqOf({ SendTo(d) : d \in to }, MaxReplies)

\* The mutex is taken and the handler begins.  Most unwrap the client; PublishRel
\* and SetFlags do not look it up.
Handle ==
    /\ alive /\ taken # Nothing /\ mutex = Free
    /\ LET c == taken.cid
       IN  \/ /\ taken.kind = "disconnect"
              /\ clients' = clients \ {c}
              /\ sender' = [sender EXCEPT ![c] = FALSE]
              /\ todo' \in IF c \in clients THEN Replies(clients') ELSE {<< >>}
              /\ UNCHANGED <<alive, custom, told>>
           \/ /\ taken.kind = "request"
              /\ todo' \in Replies(clients)
              /\ UNCHANGED <<clients, alive, loopVars>>
           \/ /\ taken.kind = "subscribe" /\ c \in clients
              /\ custom' = [custom EXCEPT ![c] = "select"]
              /\ sender' = [sender EXCEPT ![c] = TRUE]
              /\ todo' \in Replies({c})
              /\ UNCHANGED <<clients, alive, told>>
           \/ /\ taken.kind = "unsubscribe" /\ c \in clients
              /\ todo' = IF sender[c] THEN << Stop(c) >> ELSE << >>
              /\ UNCHANGED <<clients, alive, loopVars>>
           \/ /\ taken.kind # "disconnect" /\ c \notin clients
              /\ alive' = FALSE
              /\ todo' = << >>
              /\ UNCHANGED <<clients, loopVars>>
    /\ mutex' = IF alive' THEN <<"channel_loop">> ELSE Free
    /\ handled' = [handled EXCEPT ![taken.cid] = taken.n]
    /\ UNCHANGED <<listenVars, wireVars, sock, readVars, channel, taken, greeting>>

----------------------------------------------------------------------------
(* The holder of the mutex                                                 *)

\* send_message: a socket that is gone takes everything.  Both halves are one
\* socket, so the write half may wake a client_loop that poll_next left without
\* a waker.
Send(c) ==
    /\ stage[c] = "open" => sock[c] < SocketSize
    /\ sock' = [sock EXCEPT ![c] = IF stage[c] = "open" THEN @ + 1 ELSE @]
    /\ reader' \in { reader, [reader EXCEPT ![c] = IF @ = "deaf" THEN "reading" ELSE @] }
    /\ UNCHANGED loopVars

\* Faulty: it waits until the loop takes what it is sent.
StopLoop_Rendezvous(c) ==
    /\ custom[c] = "select"
    /\ custom' = [custom EXCEPT ![c] = "ended"]
    /\ sender' = [sender EXCEPT ![c] = FALSE]
    /\ UNCHANGED <<told, sock, reader>>

\* unsubscribe: the sender is removed and used once, on a channel(1).
StopLoop(c) ==
    /\ told[c] < 1
    /\ told' = [told EXCEPT ![c] = @ + 1]
    /\ sender' = [sender EXCEPT ![c] = FALSE]
    /\ UNCHANGED <<custom, sock, reader>>

Work ==
    /\ todo # << >>
    /\ LET next == Head(todo)
       IN  IF next.op = "send" THEN Send(next.cid) ELSE StopLoop(next.cid)
    /\ todo' = Tail(todo)
    /\ UNCHANGED <<listenVars, wireVars, holding, channel, mutex, serverVars>>

\* The guard is dropped at the end of the handler or round.
Release ==
    /\ mutex # Free /\ todo = << >>
    /\ mutex' = Free
    /\ taken' = IF mutex = <<"channel_loop">> THEN Nothing ELSE taken
    /\ custom' = [c \in Clients |-> IF custom[c] = "serving" THEN "select" ELSE custom[c]]
    /\ UNCHANGED <<listenVars, wireVars, sock, readVars, channel, todo, clients, alive,
                   handled, greeting, sender, told>>

Lock(task, messages) ==
    /\ mutex = Free
    /\ mutex' = task
    /\ todo' = messages

\* update_new_client; without its client the task panics, and only that task.
update_new_client(c) ==
    /\ c \in greeting
    /\ greeting' = greeting \ {c}
    /\ IF c \in clients
       THEN \E messages \in Replies({c}) : Lock(<<"update_new_client", c>>, messages)
       ELSE mutex = Free /\ UNCHANGED mutexVars
    /\ UNCHANGED <<listenVars, wireVars, sock, readVars, channel, clients, taken, alive,
                   handled, loopVars>>

\* A tick of broadcast_loop that has something to send.
broadcast_loop ==
    /\ \E messages \in Replies(clients) \ {<< >>} : Lock(<<"broadcast_loop">>, messages)
    /\ UNCHANGED <<listenVars, wireVars, sock, readVars, channel, serverVars, loopVars>>

\* broadcast_with_period: the timer fires; then the task waits for the mutex and
\* unwraps its client; or the stop channel ends it.
LoopTick(c) ==
    /\ custom[c] = "select"
    /\ custom' = [custom EXCEPT ![c] = "due"]
    /\ UNCHANGED <<listenVars, wireVars, sock, readVars, channel, mutexVars, serverVars,
                   sender, told>>

LoopRun(c) ==
    /\ custom[c] = "due"
    /\ IF c \in clients
       THEN /\ \E messages \in Replies({c}) : Lock(<<"broadcast_with_period", c>>, messages)
            /\ custom' = [custom EXCEPT ![c] = "serving"]
       ELSE /\ mutex = Free
            /\ custom' = [custom EXCEPT ![c] = "ended"]
            /\ UNCHANGED mutexVars
    /\ UNCHANGED <<listenVars, wireVars, sock, readVars, channel, serverVars, sender, told>>

LoopEnd(c) ==
    /\ custom[c] = "select"
    /\ told[c] > 0 \/ ~sender[c]
    /\ custom' = [custom EXCEPT ![c] = "ended"]
    /\ told' = [told EXCEPT ![c] = 0]
    /\ UNCHANGED <<listenVars, wireVars, sock, readVars, channel, mutexVars, serverVars, sender>>

----------------------------------------------------------------------------
(* The whole                                                               *)

Connecting(p, c) == Accept(p, c) \/ TlsHandshake(p, c) \/ WsHandshake(p, c) \/ Insert(p, c)

ClientStep(c) ==
    \/ \E kind \in FrameKinds : SendFrame(c, kind)
    \/ \E kind \in {"close", "lost"}, kept \in 0 .. Len(wire[c]) : Leave(c, kind, kept)
    \/ ReadSocket(c) \/ FallSilent(c)

Next ==
    \/ \E c \in Clients :
          \/ ClientStep(c)
          \/ \E p \in Ports : Connecting(p, c) \/ AcceptFails(p, c)
          \/ client_loop(c) \/ Forward(c)
          \/ update_new_client(c) \/ LoopTick(c) \/ LoopRun(c) \/ LoopEnd(c)
    \/ Receive \/ Handle \/ Work \/ Release \/ broadcast_loop

Spec == Init /\ [][Next]_vars

----------------------------------------------------------------------------
(* Fairness.  Every task that can run is polled, a task that asks for the  *)
(* mutex or for room in the channel again and again gets it, and the       *)
(* clients in Readers read.  Connections and frames are finite in number,  *)
(* so it is enough that these steps together are fair; timers and clients  *)
(* that send owe nothing.                                                  *)

Progress(c) ==
    \/ \E p \in Ports : Connecting(p, c)
    \/ client_loop(c) \/ Forward(c) \/ update_new_client(c)

Fairness ==
    /\ SF_vars(Handle \/ \E c \in Clients : Progress(c))
    /\ WF_vars(Receive) /\ WF_vars(Work \/ Release)
    /\ \A c \in Readers : WF_vars(ReadSocket(c))

FairSpec == Spec /\ Fairness
=============================================================================
