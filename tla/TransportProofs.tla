-------------------------- MODULE TransportProofs --------------------------
(***************************************************************************)
(* The way from the sockets to the handlers, for any number of clients,    *)
(* frames and any capacities: the types of its state, that no frame is     *)
(* overtaken or repeated, that a handler never waits for a custom loop,    *)
(* and that the whole of it is the queue of requests of Inbound.           *)
(***************************************************************************)
EXTENDS TransportProperties, CollectionLemmas

----------------------------------------------------------------------------
(* Sequences and messages                                                  *)

\* A message is not the absence of one.
LEMMA MessagesAreSomething == ASSUME NEW m \in Messages PROVE m # Nothing
<1>1. m = [cid |-> m.cid, kind |-> m.kind, n |-> m.n]
  BY DEF Messages
<1>2. "n" \in DOMAIN m
  BY <1>1
<1>3. "n" \notin DOMAIN Nothing
  BY DEF Nothing
<1> QED
  BY <1>2, <1>3

\* An update with the value that was there is none.
LEMMA SameUpdate ==
  ASSUME NEW S, NEW T, NEW f \in [S -> T], NEW x \in S
  PROVE  [f EXCEPT ![x] = f[x]] = f
  OBVIOUS

\* What the end and the beginning of a sequence are.
LEMMA TailOf ==
  ASSUME NEW S, NEW s \in Seq(S), s # << >>
  PROVE  /\ Tail(s) \in Seq(S) /\ Len(Tail(s)) = Len(s) - 1
         /\ \A i \in DOMAIN Tail(s) : i \in Nat /\ i + 1 \in DOMAIN s /\ Tail(s)[i] = s[i + 1]
         /\ 1 \in DOMAIN s /\ Head(s) = s[1] /\ s[1] \in S
  OBVIOUS

\* What is in a sequence with one more element.
LEMMA AppendOf ==
  ASSUME NEW S, NEW s \in Seq(S), NEW x \in S
  PROVE  /\ Append(s, x) \in Seq(S) /\ Len(Append(s, x)) = Len(s) + 1
         /\ \A i \in DOMAIN Append(s, x) :
               /\ i \in Nat
               /\ \/ i \in DOMAIN s /\ Append(s, x)[i] = s[i]
                  \/ i = Len(s) + 1 /\ Append(s, x)[i] = x
<1>1. Append(s, x) \in Seq(S) /\ Len(Append(s, x)) = Len(s) + 1
  OBVIOUS
<1>2. ASSUME NEW i \in DOMAIN Append(s, x)
      PROVE  /\ i \in Nat
             /\ \/ i \in DOMAIN s /\ Append(s, x)[i] = s[i]
                \/ i = Len(s) + 1 /\ Append(s, x)[i] = x
  <2>1. i \in 1 .. Len(s) + 1
    BY <1>1
  <2>2. CASE i \in 1 .. Len(s)
    BY <2>2
  <2>3. CASE i = Len(s) + 1
    BY <2>3
  <2> QED
    BY <2>1, <2>2, <2>3
<1> QED
  BY <1>1, <1>2

\* What is in the beginning of a sequence.
LEMMA PrefixOf ==
  ASSUME NEW S, NEW s \in Seq(S), NEW k \in 0 .. Len(s)
  PROVE  /\ SubSeq(s, 1, k) \in Seq(S) /\ Len(SubSeq(s, 1, k)) = k
         /\ \A i \in DOMAIN SubSeq(s, 1, k) : i \in DOMAIN s /\ SubSeq(s, 1, k)[i] = s[i]
  OBVIOUS

----------------------------------------------------------------------------
(* What a handler sends                                                    *)

Jobs == [op : {"send", "stop"}, cid : Clients]

\* Whatever a handler sends in reply is work for the holder of the mutex.
LEMMA RepliesAreJobs ==
  ASSUME NEW to \in SUBSET Clients, NEW msgs \in Replies(to)
  PROVE  msgs \in Seq(Jobs)
<1>1. PICK m \in 0 .. MaxReplies : msgs \in [1 .. m -> { SendTo(d) : d \in to }]
  BY DEF Replies, SeqOf
<1>2. m \in Nat
  BY RepliesBound
<1>3. msgs \in [1 .. m -> Jobs]
  BY <1>1 DEF SendTo, Jobs
<1> QED
  BY <1>2, <1>3, FunctionSeq

----------------------------------------------------------------------------
(* Types                                                                   *)

\* A client without a connection has no client_loop.
ReadersConnected == \A c \in Clients : reader[c] = "none" \/ stage[c] \in {"open", "closed"}

TypeInv == TransportTypeOK /\ ReadersConnected

\* What client_loop does with a frame.
LEMMA TakenFrames ==
  ASSUME NEW c \in Clients, NEW frame \in [kind : FrameKinds, n : Nat], TakeFrame(c, frame)
  PROVE  \/ UNCHANGED readVars \/ Stopped(c, "deaf") \/ Stopped(c, "panicked")
         \/ frame.kind \in Forwarded /\ Hold(c, frame)
BY DEF TakeFrame, FrameKinds, Forwarded

\* The frame that client_loop reads is one of those that are sent.
LEMMA NextFrame ==
  ASSUME TypeInv, NEW c \in Clients, client_loop(c)
  PROVE  Head(wire[c]) \in [kind : FrameKinds, n : Nat] /\ TakeFrame(c, Head(wire[c]))
<1> DEFINE F == [kind : FrameKinds, n : Nat]
<1>1. wire[c] \in Seq(F) /\ wire[c] # << >>
  BY DEF TypeInv, TransportTypeOK, SocketTypes, client_loop
<1> HIDE DEF F
<1>2. Head(wire[c]) \in F
  BY <1>1, TailOf
<1>3. TakeFrame(c, Head(wire[c]))
  BY DEF client_loop
<1> QED
  BY <1>2, <1>3 DEF F

\* Every action keeps the types and capacities.  One lemma per action: those of
\* the listener, of the client and its socket, of client_loop and the channel,
\* of channel_loop and the mutex, and of the tasks beside them.
LEMMA Type_Accept ==
  ASSUME TypeInv, NEW p \in Ports, NEW c \in Clients, Accept(p, c)
  PROVE  TypeInv'
<1> USE DEF TypeInv, TransportTypeOK
<1>1. UNCHANGED <<wireVars, sock, readVars, channel, serverVars, mutexVars, loopVars>>
  BY DEF Accept
<1>2. SocketTypes' /\ ReaderTypes' /\ ChannelTypes' /\ ServerTypes' /\ MutexTypes' /\ LoopTypes'
  BY <1>1 DEF SocketTypes, ReaderTypes, ChannelTypes, ServerTypes, MutexTypes, LoopTypes, wireVars, readVars, serverVars, mutexVars, loopVars
<1>3. ListenTypes'
  BY DEF Accept, ListenTypes
<1>4. ReadersConnected'
  BY DEF Accept, ReadersConnected, ListenTypes, ReaderTypes, listenVars, readVars
<1> QED
  BY <1>2, <1>3, <1>4

LEMMA Type_AcceptFails ==
  ASSUME TypeInv, NEW p \in Ports, NEW c \in Clients, AcceptFails(p, c)
  PROVE  TypeInv'
<1> USE DEF TypeInv, TransportTypeOK
<1>1. UNCHANGED <<wireVars, sock, readVars, channel, serverVars, mutexVars, loopVars>>
  BY DEF AcceptFails
<1>2. SocketTypes' /\ ReaderTypes' /\ ChannelTypes' /\ ServerTypes' /\ MutexTypes' /\ LoopTypes'
  BY <1>1 DEF SocketTypes, ReaderTypes, ChannelTypes, ServerTypes, MutexTypes, LoopTypes, wireVars, readVars, serverVars, mutexVars, loopVars
<1>3. ListenTypes'
  BY DEF AcceptFails, ListenTypes
<1>4. ReadersConnected'
  BY DEF AcceptFails, ReadersConnected, ListenTypes, ReaderTypes, listenVars, readVars
<1> QED
  BY <1>2, <1>3, <1>4

LEMMA Type_TlsHandshake ==
  ASSUME TypeInv, NEW p \in Ports, NEW c \in Clients, TlsHandshake(p, c)
  PROVE  TypeInv'
<1> USE DEF TypeInv, TransportTypeOK
<1>1. UNCHANGED <<wireVars, sock, readVars, channel, serverVars, mutexVars, loopVars>>
  BY DEF TlsHandshake
<1>2. SocketTypes' /\ ReaderTypes' /\ ChannelTypes' /\ ServerTypes' /\ MutexTypes' /\ LoopTypes'
  BY <1>1 DEF SocketTypes, ReaderTypes, ChannelTypes, ServerTypes, MutexTypes, LoopTypes, wireVars, readVars, serverVars, mutexVars, loopVars
<1>3. ListenTypes'
  BY DEF TlsHandshake, ListenTypes
<1>4. ReadersConnected'
  BY DEF TlsHandshake, ReadersConnected, ListenTypes, ReaderTypes, listenVars, readVars
<1> QED
  BY <1>2, <1>3, <1>4

LEMMA Type_FallSilent ==
  ASSUME TypeInv, NEW c \in Clients, FallSilent(c)
  PROVE  TypeInv'
<1> USE DEF TypeInv, TransportTypeOK
<1>1. UNCHANGED <<wireVars, sock, readVars, channel, serverVars, mutexVars, loopVars>>
  BY DEF FallSilent
<1>2. SocketTypes' /\ ReaderTypes' /\ ChannelTypes' /\ ServerTypes' /\ MutexTypes' /\ LoopTypes'
  BY <1>1 DEF SocketTypes, ReaderTypes, ChannelTypes, ServerTypes, MutexTypes, LoopTypes, wireVars, readVars, serverVars, mutexVars, loopVars
<1>3. ListenTypes'
  BY DEF FallSilent, ListenTypes
<1>4. ReadersConnected'
  BY DEF FallSilent, ReadersConnected, ListenTypes, ReaderTypes, listenVars, readVars
<1> QED
  BY <1>2, <1>3, <1>4

LEMMA Type_WsHandshake ==
  ASSUME TypeInv, NEW p \in Ports, NEW c \in Clients, WsHandshake(p, c)
  PROVE  TypeInv'
<1> USE DEF TypeInv, TransportTypeOK
<1>1. UNCHANGED <<wireVars, sock, channel, serverVars, mutexVars, loopVars>>
  BY DEF WsHandshake
<1>2. SocketTypes' /\ ChannelTypes' /\ ServerTypes' /\ MutexTypes' /\ LoopTypes'
  BY <1>1 DEF SocketTypes, ChannelTypes, ServerTypes, MutexTypes, LoopTypes, wireVars, serverVars, mutexVars, loopVars
<1>3. ListenTypes'
  BY DEF WsHandshake, Refuse, ListenTypes
<1>4. ReaderTypes'
  <2>1. stage[c] = "ws" /\ reader[c] = "none"
    BY DEF WsHandshake, Refuse, ReadersConnected
  <2>2. holding' = holding /\ reader' \in {reader, [reader EXCEPT ![c] = "reading"]}
    BY DEF WsHandshake, Refuse
  <2> QED
    BY <2>1, <2>2 DEF ReaderTypes
<1>5. ReadersConnected'
  BY DEF WsHandshake, Refuse, ReadersConnected, ListenTypes, ReaderTypes, listenVars, readVars
<1> QED
  BY <1>2, <1>3, <1>4, <1>5

LEMMA Type_Insert ==
  ASSUME TypeInv, NEW p \in Ports, NEW c \in Clients, Insert(p, c)
  PROVE  TypeInv'
<1> USE DEF TypeInv, TransportTypeOK
<1>1. UNCHANGED <<wireVars, sock, readVars, channel, mutexVars, loopVars>>
  BY DEF Insert
<1>2. SocketTypes' /\ ReaderTypes' /\ ChannelTypes' /\ MutexTypes' /\ LoopTypes'
  BY <1>1 DEF SocketTypes, ReaderTypes, ChannelTypes, MutexTypes, LoopTypes, wireVars, readVars, mutexVars, loopVars
<1>3. ListenTypes'
  BY DEF Insert, ListenTypes
<1>4. ServerTypes'
  BY DEF Insert, ServerTypes
<1>5. ReadersConnected'
  BY DEF Insert, ReadersConnected, ListenTypes, ReaderTypes, listenVars, readVars
<1> QED
  BY <1>2, <1>3, <1>4, <1>5

LEMMA Type_SendFrame ==
  ASSUME TypeInv, NEW c \in Clients, NEW kind \in FrameKinds, SendFrame(c, kind)
  PROVE  TypeInv'
<1> USE DEF TypeInv, TransportTypeOK
<1>1. UNCHANGED <<listenVars, readVars, channel, serverVars, mutexVars, loopVars>>
  BY DEF SendFrame
<1>2. ListenTypes' /\ ReaderTypes' /\ ChannelTypes' /\ ServerTypes' /\ MutexTypes' /\ LoopTypes'
  BY <1>1 DEF ListenTypes, ReaderTypes, ChannelTypes, ServerTypes, MutexTypes, LoopTypes, listenVars, readVars, serverVars, mutexVars, loopVars
<1>3. SocketTypes'
  <2>1. wire[c] \in Seq([kind : FrameKinds, n : Nat]) /\ sent[c] \in Nat
    BY DEF SocketTypes
  <2>2. Frame(kind, sent[c] + 1) \in [kind : FrameKinds, n : Nat]
    BY <2>1 DEF Frame
  <2>3. Append(wire[c], Frame(kind, sent[c] + 1)) \in Seq([kind : FrameKinds, n : Nat])
    BY <2>1, <2>2, AppendOf
  <2>4. /\ wire' = [wire EXCEPT ![c] = Append(wire[c], Frame(kind, sent[c] + 1))]
        /\ sent' = [sent EXCEPT ![c] = sent[c] + 1] /\ sock' = sock
    BY DEF SendFrame
  <2>5. sent[c] + 1 \in Nat
    BY <2>1
  <2> QED
    BY <2>3, <2>4, <2>5 DEF SocketTypes
<1>4. ReadersConnected'
  BY DEF SendFrame, ReadersConnected, ListenTypes, ReaderTypes, listenVars, readVars
<1> QED
  BY <1>2, <1>3, <1>4

LEMMA Type_Leave ==
  ASSUME TypeInv, NEW c \in Clients, NEW kind \in FrameKinds, NEW kept \in 0 .. Len(wire[c]), Leave(c, kind, kept)
  PROVE  TypeInv'
<1> USE DEF TypeInv, TransportTypeOK
<1>1. UNCHANGED <<readVars, channel, serverVars, mutexVars, loopVars>>
  BY DEF Leave
<1>2. ReaderTypes' /\ ChannelTypes' /\ ServerTypes' /\ MutexTypes' /\ LoopTypes'
  BY <1>1 DEF ReaderTypes, ChannelTypes, ServerTypes, MutexTypes, LoopTypes, readVars, serverVars, mutexVars, loopVars
<1>3. ListenTypes'
  BY DEF Leave, ListenTypes
<1>4. SocketTypes'
  <2>1. wire[c] \in Seq([kind : FrameKinds, n : Nat]) /\ sent[c] \in Nat
    BY DEF SocketTypes
  <2>2. Frame(kind, sent[c] + 1) \in [kind : FrameKinds, n : Nat]
    BY <2>1 DEF Frame
  <2>3. SubSeq(wire[c], 1, kept) \in Seq([kind : FrameKinds, n : Nat])
    BY <2>1, PrefixOf
  <2>4. Append(SubSeq(wire[c], 1, kept), Frame(kind, sent[c] + 1))
           \in Seq([kind : FrameKinds, n : Nat])
    BY <2>2, <2>3, AppendOf
  <2>5. 0 \in 0 .. SocketSize
    BY SizesPositive
  <2>6. /\ wire' = [wire EXCEPT ![c] = Append(SubSeq(wire[c], 1, kept), Frame(kind, sent[c] + 1))]
        /\ sent' = [sent EXCEPT ![c] = sent[c] + 1] /\ sock' = [sock EXCEPT ![c] = 0]
    BY DEF Leave
  <2>7. sent[c] + 1 \in Nat
    BY <2>1
  <2> QED
    BY <2>4, <2>5, <2>6, <2>7 DEF SocketTypes
<1>5. ReadersConnected'
  BY DEF Leave, ReadersConnected, ListenTypes, ReaderTypes, listenVars, readVars
<1> QED
  BY <1>2, <1>3, <1>4, <1>5

LEMMA Type_ReadSocket ==
  ASSUME TypeInv, NEW c \in Clients, ReadSocket(c)
  PROVE  TypeInv'
<1> USE DEF TypeInv, TransportTypeOK
<1>1. UNCHANGED <<listenVars, readVars, channel, serverVars, mutexVars, loopVars>>
  BY DEF ReadSocket
<1>2. ListenTypes' /\ ReaderTypes' /\ ChannelTypes' /\ ServerTypes' /\ MutexTypes' /\ LoopTypes'
  BY <1>1 DEF ListenTypes, ReaderTypes, ChannelTypes, ServerTypes, MutexTypes, LoopTypes, listenVars, readVars, serverVars, mutexVars, loopVars
<1>3. SocketTypes'
  <2>1. sock[c] - 1 \in 0 .. SocketSize
    BY SizesPositive DEF ReadSocket, SocketTypes
  <2> QED
    BY <2>1 DEF ReadSocket, SocketTypes, wireVars
<1>4. ReadersConnected'
  BY DEF ReadSocket, ReadersConnected, ListenTypes, ReaderTypes, listenVars, readVars
<1> QED
  BY <1>2, <1>3, <1>4

LEMMA Type_client_loop ==
  ASSUME TypeInv, NEW c \in Clients, client_loop(c)
  PROVE  TypeInv'
<1> USE DEF TypeInv, TransportTypeOK
<1>1. UNCHANGED <<listenVars, channel, serverVars, mutexVars, loopVars>>
  BY DEF client_loop
<1>2. ListenTypes' /\ ChannelTypes' /\ ServerTypes' /\ MutexTypes' /\ LoopTypes'
  BY <1>1 DEF ListenTypes, ChannelTypes, ServerTypes, MutexTypes, LoopTypes, listenVars, serverVars, mutexVars, loopVars
<1>3. SocketTypes'
  <2>1. wire[c] \in Seq([kind : FrameKinds, n : Nat]) /\ wire[c] # << >>
    BY DEF SocketTypes, client_loop
  <2>2. Tail(wire[c]) \in Seq([kind : FrameKinds, n : Nat])
    BY <2>1, TailOf
  <2> QED
    BY <2>2 DEF client_loop, SocketTypes
<1>4. ReaderTypes'
  <2>1. Head(wire[c]) \in [kind : FrameKinds, n : Nat] /\ TakeFrame(c, Head(wire[c]))
    BY NextFrame
  <2>2. reader[c] = "reading" /\ holding[c] = Nothing
    BY DEF client_loop, ReaderTypes
  <2>3. CASE UNCHANGED readVars
    BY <2>3 DEF ReaderTypes, readVars
  <2>4. CASE Stopped(c, "deaf") \/ Stopped(c, "panicked")
    BY <2>2, <2>4 DEF ReaderTypes, Stopped
  <2>5. CASE Head(wire[c]).kind \in Forwarded /\ Hold(c, Head(wire[c]))
    <3> DEFINE m == ServerMessage(c, Head(wire[c]))
    <3>1. m \in Messages
      BY <2>1, <2>5 DEF ServerMessage, Message, Messages, MessageKinds, Forwarded
    <3>2. m # Nothing
      BY <3>1, MessagesAreSomething
    <3>3. reader' = [reader EXCEPT ![c] = "sending"] /\ holding' = [holding EXCEPT ![c] = m]
      BY <2>5 DEF Hold
    <3> HIDE DEF m
    <3> QED
      BY <3>1, <3>2, <3>3 DEF ReaderTypes
  <2> QED
    BY <2>1, <2>3, <2>4, <2>5, TakenFrames
<1>5. ReadersConnected'
  <2>1. /\ UNCHANGED stage /\ reader[c] = "reading"
        /\ \E how \in {"reading", "deaf", "panicked", "sending"} : reader' = [reader EXCEPT ![c] = how]
    <3>1. Head(wire[c]) \in [kind : FrameKinds, n : Nat] /\ TakeFrame(c, Head(wire[c]))
      BY NextFrame
    <3>2. reader' = reader => reader' = [reader EXCEPT ![c] = "reading"]
      BY DEF client_loop, ReaderTypes
    <3> QED
      BY <3>1, <3>2, TakenFrames DEF client_loop, listenVars, readVars, Stopped, Hold
  <2> QED
    BY <2>1 DEF ReadersConnected, ReaderTypes
<1> QED
  BY <1>2, <1>3, <1>4, <1>5

LEMMA Type_Forward ==
  ASSUME TypeInv, NEW c \in Clients, Forward(c)
  PROVE  TypeInv'
<1> USE DEF TypeInv, TransportTypeOK
<1>1. UNCHANGED <<listenVars, wireVars, sock, serverVars, mutexVars, loopVars>>
  BY DEF Forward
<1>2. ListenTypes' /\ SocketTypes' /\ ServerTypes' /\ MutexTypes' /\ LoopTypes'
  BY <1>1 DEF ListenTypes, SocketTypes, ServerTypes, MutexTypes, LoopTypes, listenVars, wireVars, serverVars, mutexVars, loopVars
<1>3. ReaderTypes'
  BY DEF Forward, ReaderTypes
<1>4. ChannelTypes'
  <2>1. holding[c] \in Messages
    BY DEF Forward, ReaderTypes
  <2>2. channel \in Seq(Messages) /\ Len(channel) < ChannelSize
    BY DEF Forward, ChannelTypes
  <2>3. Append(channel, holding[c]) \in Seq(Messages)
        /\ Len(Append(channel, holding[c])) = Len(channel) + 1
    BY <2>1, <2>2, AppendOf
  <2>4. channel' = Append(channel, holding[c])
    BY DEF Forward
  <2>5. Len(channel) \in Nat /\ ChannelSize \in Nat
    BY <2>2, SizesPositive
  <2> QED
    BY <2>2, <2>3, <2>4, <2>5 DEF ChannelTypes
<1>5. ReadersConnected'
  BY DEF Forward, ReadersConnected, ListenTypes, ReaderTypes, listenVars, readVars
<1> QED
  BY <1>2, <1>3, <1>4, <1>5

LEMMA Type_Receive ==
  ASSUME TypeInv, Receive
  PROVE  TypeInv'
<1> USE DEF TypeInv, TransportTypeOK
<1>1. UNCHANGED <<listenVars, wireVars, sock, readVars, mutexVars, loopVars>>
  BY DEF Receive
<1>2. ListenTypes' /\ SocketTypes' /\ ReaderTypes' /\ MutexTypes' /\ LoopTypes'
  BY <1>1 DEF ListenTypes, SocketTypes, ReaderTypes, MutexTypes, LoopTypes, listenVars, wireVars, readVars, mutexVars, loopVars
<1>3. ChannelTypes'
  <2>1. channel \in Seq(Messages) /\ channel # << >> /\ Len(channel) <= ChannelSize
    BY DEF Receive, ChannelTypes
  <2>2. Tail(channel) \in Seq(Messages) /\ Len(Tail(channel)) = Len(channel) - 1
    BY <2>1, TailOf
  <2>3. Len(channel) \in Nat /\ ChannelSize \in Nat
    BY <2>1, SizesPositive
  <2> QED
    BY <2>1, <2>2, <2>3 DEF Receive, ChannelTypes
<1>4. ServerTypes'
  <2>1. channel \in Seq(Messages) /\ channel # << >>
    BY DEF Receive, ChannelTypes
  <2>2. Head(channel) \in Messages
    BY <2>1, TailOf
  <2> QED
    BY <2>2 DEF Receive, ServerTypes
<1>5. ReadersConnected'
  BY DEF Receive, ReadersConnected, ListenTypes, ReaderTypes, listenVars, readVars
<1> QED
  BY <1>2, <1>3, <1>4, <1>5

LEMMA Type_Handle ==
  ASSUME TypeInv, Handle
  PROVE  TypeInv'
<1> USE DEF TypeInv, TransportTypeOK
<1>1. UNCHANGED <<listenVars, wireVars, sock, readVars, channel>>
  BY DEF Handle
<1>2. ListenTypes' /\ SocketTypes' /\ ReaderTypes' /\ ChannelTypes'
  BY <1>1 DEF ListenTypes, SocketTypes, ReaderTypes, ChannelTypes, listenVars, wireVars, readVars
<1>3. ServerTypes'
  <2>1. taken \in Messages /\ taken.cid \in Clients /\ taken.n \in Nat
    BY DEF Handle, ServerTypes, Messages
  <2>2. clients' \in {clients, clients \ {taken.cid}} /\ alive' \in BOOLEAN
    BY DEF Handle, ServerTypes
  <2>3. handled' = [handled EXCEPT ![taken.cid] = taken.n] /\ taken' = taken /\ greeting' = greeting
    BY DEF Handle
  <2> QED
    BY <2>1, <2>2, <2>3 DEF ServerTypes
<1>4. MutexTypes'
  <2>1. taken \in Messages /\ taken.cid \in Clients /\ taken.n \in Nat
    BY DEF Handle, ServerTypes, Messages
  <2>2. clients \in SUBSET Clients /\ clients' \in SUBSET Clients /\ {taken.cid} \in SUBSET Clients
    BY <2>1 DEF Handle, ServerTypes
  <2>3. << Stop(taken.cid) >> \in Seq(Jobs) /\ << >> \in Seq(Jobs)
    BY <2>1 DEF Stop, Jobs
  <2>4. \/ \E to \in {clients, clients', {taken.cid}} : todo' \in Replies(to)
        \/ todo' \in {<< Stop(taken.cid) >>, << >>}
    BY DEF Handle
  <2>5. todo' \in Seq(Jobs)
    BY <2>1, <2>2, <2>3, <2>4, RepliesAreJobs
  <2>6. mutex' \in {<<"channel_loop">>, Free}
    BY DEF Handle
  <2> QED
    BY <2>5, <2>6 DEF MutexTypes, Tasks, Jobs
<1>5. LoopTypes'
  <2>1. taken \in Messages /\ taken.cid \in Clients /\ taken.n \in Nat
    BY DEF Handle, ServerTypes, Messages
  <2>2. /\ custom' \in {custom, [custom EXCEPT ![taken.cid] = "select"]}
        /\ \/ UNCHANGED sender
           \/ \E b \in BOOLEAN : sender' = [sender EXCEPT ![taken.cid] = b]
        /\ UNCHANGED told
    BY DEF Handle, loopVars
  <2> QED
    BY <2>1, <2>2 DEF LoopTypes
<1>6. ReadersConnected'
  BY DEF Handle, ReadersConnected, ListenTypes, ReaderTypes, listenVars, readVars
<1> QED
  BY <1>2, <1>3, <1>4, <1>5, <1>6

LEMMA Type_Work ==
  ASSUME TypeInv, Work
  PROVE  TypeInv'
<1> USE DEF TypeInv, TransportTypeOK
<1>1. UNCHANGED <<listenVars, channel, serverVars>>
  BY DEF Work
<1>2. ListenTypes' /\ ChannelTypes' /\ ServerTypes'
  BY <1>1 DEF ListenTypes, ChannelTypes, ServerTypes, listenVars, serverVars
<1>3. SocketTypes'
  <2>1. todo \in Seq(Jobs) /\ todo # << >>
    BY DEF Work, MutexTypes, Jobs
  <2>2. Head(todo) \in Jobs
    BY <2>1, TailOf
  <2>3. PICK c \in Clients : c = Head(todo).cid /\ (Send(c) \/ StopLoop(c))
    BY <2>2 DEF Work, Jobs
  <2>4. sock' = sock \/ (sock' = [sock EXCEPT ![c] = sock[c] + 1] /\ sock[c] < SocketSize)
    <3>1. CASE StopLoop(c)
      BY <3>1 DEF StopLoop
    <3>2. CASE Send(c) /\ stage[c] = "open"
      BY <3>2 DEF Send, SocketTypes
    <3>3. CASE Send(c) /\ stage[c] # "open"
      <4>1. sock' = [sock EXCEPT ![c] = sock[c]]
        BY <3>3 DEF Send
      <4> QED
        BY <4>1, SameUpdate DEF SocketTypes
    <3> QED
      BY <2>3, <3>1, <3>2, <3>3
  <2>5. sock[c] < SocketSize => sock[c] + 1 \in 0 .. SocketSize
    BY SizesPositive DEF SocketTypes
  <2> QED
    BY <2>4, <2>5 DEF Work, SocketTypes, wireVars
<1>4. ReaderTypes'
  <2>1. todo \in Seq(Jobs) /\ todo # << >>
    BY DEF Work, MutexTypes, Jobs
  <2>2. Head(todo) \in Jobs
    BY <2>1, TailOf
  <2>3. PICK c \in Clients : c = Head(todo).cid /\ (Send(c) \/ StopLoop(c))
    BY <2>2 DEF Work, Jobs
  <2>4. reader' = reader \/ (reader[c] = "deaf" /\ reader' = [reader EXCEPT ![c] = "reading"])
    <3>1. CASE StopLoop(c) \/ reader' = reader
      BY <3>1 DEF StopLoop
    <3>2. CASE reader' = [reader EXCEPT ![c] = IF reader[c] = "deaf" THEN "reading" ELSE reader[c]]
      <4>1. CASE reader[c] = "deaf"
        BY <3>2, <4>1
      <4>2. CASE reader[c] # "deaf"
        <5>1. reader' = [reader EXCEPT ![c] = reader[c]]
          BY <3>2, <4>2
        <5> QED
          BY <5>1, SameUpdate DEF ReaderTypes
      <4> QED
        BY <4>1, <4>2
    <3> QED
      BY <2>3, <3>1, <3>2 DEF Send
  <2> QED
    BY <2>4 DEF Work, ReaderTypes
<1>5. MutexTypes'
  <2>1. todo \in Seq(Jobs) /\ todo # << >>
    BY DEF Work, MutexTypes, Jobs
  <2>2. Tail(todo) \in Seq(Jobs)
    BY <2>1, TailOf
  <2> QED
    BY <2>2 DEF Work, MutexTypes, Jobs
<1>6. LoopTypes'
  <2>1. todo \in Seq(Jobs) /\ todo # << >>
    BY DEF Work, MutexTypes, Jobs
  <2>2. Head(todo) \in Jobs
    BY <2>1, TailOf
  <2>3. PICK c \in Clients : c = Head(todo).cid /\ (Send(c) \/ StopLoop(c))
    BY <2>2 DEF Work, Jobs
  <2>4. CASE UNCHANGED loopVars
    BY <2>4 DEF LoopTypes, loopVars
  <2>5. CASE StopLoop(c)
    <3>1. told[c] + 1 \in 0 .. 1
      BY <2>5 DEF StopLoop, LoopTypes
    <3> QED
      BY <2>5, <3>1 DEF StopLoop, LoopTypes
  <2> QED
    BY <2>3, <2>4, <2>5 DEF Send
<1>7. ReadersConnected'
  <2>1. todo \in Seq(Jobs) /\ todo # << >>
    BY DEF Work, MutexTypes, Jobs
  <2>2. Head(todo) \in Jobs
    BY <2>1, TailOf
  <2>3. PICK c \in Clients : c = Head(todo).cid /\ (Send(c) \/ StopLoop(c))
    BY <2>2 DEF Work, Jobs
  <2>4. reader' = reader \/ (reader[c] = "deaf" /\ reader' = [reader EXCEPT ![c] = "reading"])
    <3>1. CASE StopLoop(c) \/ reader' = reader
      BY <3>1 DEF StopLoop
    <3>2. CASE reader' = [reader EXCEPT ![c] = IF reader[c] = "deaf" THEN "reading" ELSE reader[c]]
      <4>1. CASE reader[c] = "deaf"
        BY <3>2, <4>1
      <4>2. CASE reader[c] # "deaf"
        <5>1. reader' = [reader EXCEPT ![c] = reader[c]]
          BY <3>2, <4>2
        <5> QED
          BY <5>1, SameUpdate DEF ReaderTypes
      <4> QED
        BY <4>1, <4>2
    <3> QED
      BY <2>3, <3>1, <3>2 DEF Send
  <2> QED
    BY <2>4 DEF Work, ReadersConnected, ReaderTypes, listenVars
<1> QED
  BY <1>2, <1>3, <1>4, <1>5, <1>6, <1>7

LEMMA Type_Release ==
  ASSUME TypeInv, Release
  PROVE  TypeInv'
<1> USE DEF TypeInv, TransportTypeOK
<1>1. UNCHANGED <<listenVars, wireVars, sock, readVars, channel>>
  BY DEF Release
<1>2. ListenTypes' /\ SocketTypes' /\ ReaderTypes' /\ ChannelTypes'
  BY <1>1 DEF ListenTypes, SocketTypes, ReaderTypes, ChannelTypes, listenVars, wireVars, readVars
<1>3. ServerTypes'
  BY DEF Release, ServerTypes
<1>4. MutexTypes'
  <2>1. mutex' = Free /\ todo' = todo
    BY DEF Release
  <2> QED
    BY <2>1 DEF MutexTypes, Tasks
<1>5. LoopTypes'
  BY DEF Release, LoopTypes
<1>6. ReadersConnected'
  BY DEF Release, ReadersConnected, ListenTypes, ReaderTypes, listenVars, readVars
<1> QED
  BY <1>2, <1>3, <1>4, <1>5, <1>6

LEMMA Type_update_new_client ==
  ASSUME TypeInv, NEW c \in Clients, update_new_client(c)
  PROVE  TypeInv'
<1> USE DEF TypeInv, TransportTypeOK
<1>1. UNCHANGED <<listenVars, wireVars, sock, readVars, channel, loopVars>>
  BY DEF update_new_client
<1>2. ListenTypes' /\ SocketTypes' /\ ReaderTypes' /\ ChannelTypes' /\ LoopTypes'
  BY <1>1 DEF ListenTypes, SocketTypes, ReaderTypes, ChannelTypes, LoopTypes, listenVars, wireVars, readVars, loopVars
<1>3. ServerTypes'
  BY DEF update_new_client, ServerTypes
<1>4. MutexTypes'
  <2>1. \/ UNCHANGED mutexVars
        \/ mutex' = <<"update_new_client", c>> /\ todo' \in Replies({c})
    BY DEF update_new_client, Lock
  <2>2. todo' \in Replies({c}) => todo' \in Seq(Jobs)
    BY RepliesAreJobs
  <2>3. <<"update_new_client", c>> \in Tasks
    BY DEF Tasks
  <2> QED
    BY <2>1, <2>2, <2>3 DEF MutexTypes, Jobs, mutexVars
<1>5. ReadersConnected'
  BY DEF update_new_client, ReadersConnected, ListenTypes, ReaderTypes, listenVars, readVars
<1> QED
  BY <1>2, <1>3, <1>4, <1>5

LEMMA Type_broadcast_loop ==
  ASSUME TypeInv, broadcast_loop
  PROVE  TypeInv'
<1> USE DEF TypeInv, TransportTypeOK
<1>1. UNCHANGED <<listenVars, wireVars, sock, readVars, channel, serverVars, loopVars>>
  BY DEF broadcast_loop
<1>2. ListenTypes' /\ SocketTypes' /\ ReaderTypes' /\ ChannelTypes' /\ ServerTypes' /\ LoopTypes'
  BY <1>1 DEF ListenTypes, SocketTypes, ReaderTypes, ChannelTypes, ServerTypes, LoopTypes, listenVars, wireVars, readVars, serverVars, loopVars
<1>3. MutexTypes'
  <2>1. PICK messages \in Replies(clients) : Lock(<<"broadcast_loop">>, messages)
    BY DEF broadcast_loop
  <2>2. clients \in SUBSET Clients
    BY DEF ServerTypes
  <2>3. todo' \in Seq(Jobs)
    BY <2>1, <2>2, RepliesAreJobs DEF Lock
  <2>4. mutex' = <<"broadcast_loop">>
    BY <2>1 DEF Lock
  <2> QED
    BY <2>3, <2>4 DEF MutexTypes, Tasks, Jobs
<1>4. ReadersConnected'
  BY DEF broadcast_loop, ReadersConnected, ListenTypes, ReaderTypes, listenVars, readVars
<1> QED
  BY <1>2, <1>3, <1>4

LEMMA Type_LoopTick ==
  ASSUME TypeInv, NEW c \in Clients, LoopTick(c)
  PROVE  TypeInv'
<1> USE DEF TypeInv, TransportTypeOK
<1>1. UNCHANGED <<listenVars, wireVars, sock, readVars, channel, serverVars, mutexVars>>
  BY DEF LoopTick
<1>2. ListenTypes' /\ SocketTypes' /\ ReaderTypes' /\ ChannelTypes' /\ ServerTypes' /\ MutexTypes'
  BY <1>1 DEF ListenTypes, SocketTypes, ReaderTypes, ChannelTypes, ServerTypes, MutexTypes, listenVars, wireVars, readVars, serverVars, mutexVars
<1>3. LoopTypes'
  BY DEF LoopTick, LoopTypes
<1>4. ReadersConnected'
  BY DEF LoopTick, ReadersConnected, ListenTypes, ReaderTypes, listenVars, readVars
<1> QED
  BY <1>2, <1>3, <1>4

LEMMA Type_LoopRun ==
  ASSUME TypeInv, NEW c \in Clients, LoopRun(c)
  PROVE  TypeInv'
<1> USE DEF TypeInv, TransportTypeOK
<1>1. UNCHANGED <<listenVars, wireVars, sock, readVars, channel, serverVars>>
  BY DEF LoopRun
<1>2. ListenTypes' /\ SocketTypes' /\ ReaderTypes' /\ ChannelTypes' /\ ServerTypes'
  BY <1>1 DEF ListenTypes, SocketTypes, ReaderTypes, ChannelTypes, ServerTypes, listenVars, wireVars, readVars, serverVars
<1>3. MutexTypes'
  <2>1. \/ UNCHANGED mutexVars
        \/ mutex' = <<"broadcast_with_period", c>> /\ todo' \in Replies({c})
    BY DEF LoopRun, Lock
  <2>2. todo' \in Replies({c}) => todo' \in Seq(Jobs)
    BY RepliesAreJobs
  <2>3. <<"broadcast_with_period", c>> \in Tasks
    BY DEF Tasks
  <2> QED
    BY <2>1, <2>2, <2>3 DEF MutexTypes, Jobs, mutexVars
<1>4. LoopTypes'
  BY DEF LoopRun, LoopTypes
<1>5. ReadersConnected'
  BY DEF LoopRun, ReadersConnected, ListenTypes, ReaderTypes, listenVars, readVars
<1> QED
  BY <1>2, <1>3, <1>4, <1>5

LEMMA Type_LoopEnd ==
  ASSUME TypeInv, NEW c \in Clients, LoopEnd(c)
  PROVE  TypeInv'
<1> USE DEF TypeInv, TransportTypeOK
<1>1. UNCHANGED <<listenVars, wireVars, sock, readVars, channel, serverVars, mutexVars>>
  BY DEF LoopEnd
<1>2. ListenTypes' /\ SocketTypes' /\ ReaderTypes' /\ ChannelTypes' /\ ServerTypes' /\ MutexTypes'
  BY <1>1 DEF ListenTypes, SocketTypes, ReaderTypes, ChannelTypes, ServerTypes, MutexTypes, listenVars, wireVars, readVars, serverVars, mutexVars
<1>3. LoopTypes'
  BY DEF LoopEnd, LoopTypes
<1>4. ReadersConnected'
  BY DEF LoopEnd, ReadersConnected, ListenTypes, ReaderTypes, listenVars, readVars
<1> QED
  BY <1>2, <1>3, <1>4

\* Every step keeps the types.
LEMMA TypeStep ==
  ASSUME TypeInv, [Next]_vars
  PROVE  TypeInv'
<1>1. CASE UNCHANGED vars
  BY <1>1 DEF TypeInv, TransportTypeOK, ReadersConnected, ListenTypes, SocketTypes, ReaderTypes,
              ChannelTypes, ServerTypes, MutexTypes, LoopTypes, vars, listenVars, wireVars,
              readVars, serverVars, mutexVars, loopVars
<1>2. ASSUME NEW c \in Clients, ClientStep(c) PROVE TypeInv'
  BY <1>2, Type_SendFrame, Type_Leave, Type_ReadSocket, Type_FallSilent
     DEF ClientStep, FrameKinds
<1>3. ASSUME NEW c \in Clients, NEW p \in Ports, Connecting(p, c) \/ AcceptFails(p, c)
      PROVE  TypeInv'
  BY <1>3, Type_Accept, Type_TlsHandshake, Type_WsHandshake, Type_Insert, Type_AcceptFails
     DEF Connecting
<1>4. ASSUME NEW c \in Clients, \/ client_loop(c) \/ Forward(c) \/ update_new_client(c)
                                \/ LoopTick(c) \/ LoopRun(c) \/ LoopEnd(c)
      PROVE  TypeInv'
  BY <1>4, Type_client_loop, Type_Forward, Type_update_new_client, Type_LoopTick, Type_LoopRun,
     Type_LoopEnd
<1>5. CASE Receive \/ Handle \/ Work \/ Release \/ broadcast_loop
  BY <1>5, Type_Receive, Type_Handle, Type_Work, Type_Release, Type_broadcast_loop
<1> QED
  BY <1>1, <1>2, <1>3, <1>4, <1>5 DEF Next

\* The types at the start.
LEMMA TypeInit ==
  ASSUME Init
  PROVE  TypeInv
<1>1. SocketSize \in Nat /\ ChannelSize \in Nat
  BY SizesPositive
<1>2. ListenTypes /\ SocketTypes /\ ReadersConnected
  BY <1>1 DEF Init, ListenTypes, SocketTypes, ReadersConnected
<1>3. ReaderTypes /\ LoopTypes
  BY DEF Init, ReaderTypes, LoopTypes
<1>4. ChannelTypes /\ MutexTypes /\ ServerTypes
  BY <1>1 DEF Init, ChannelTypes, MutexTypes, ServerTypes, Tasks
<1> QED
  BY <1>2, <1>3, <1>4 DEF TypeInv, TransportTypeOK

\* The state has its types, and no queue outgrows its capacity, for any clients,
\* ports, faults and sizes.
THEOREM TransportTypesHold == Spec => []TransportTypeOK
<1>1. TypeInv /\ [Next]_vars => TypeInv'
  BY TypeStep
<1>2. TypeInv => TransportTypeOK
  BY DEF TypeInv
<1> QED
  BY TypeInit, <1>1, <1>2, PTL DEF Spec

----------------------------------------------------------------------------
(* Order                                                                   *)

\* What a client was served does not run ahead of what it sent.
HandledSent == \A c \in Clients : handled[c] <= sent[c]

OrderInv == FramesInOrder /\ HandledSent

\* A step that leaves the way of the frames alone keeps their order.
LEMMA OrderSame ==
  ASSUME OrderInv, UNCHANGED <<wire, sent, handled, holding, channel, taken>>
  PROVE  OrderInv'
BY DEF OrderInv, FramesInOrder, HandledSent, WireInOrder, HeldInOrder, ChannelInOrder,
       TakenInOrder

\* The types of what the order compares.
LEMMA Comparable ==
  ASSUME TypeInv, NEW c \in Clients
  PROVE  /\ sent[c] \in Nat /\ handled[c] \in Nat
         /\ wire[c] \in Seq([kind : FrameKinds, n : Nat])
         /\ \A i \in DOMAIN wire[c] : i \in Nat /\ wire[c][i].n \in Nat
         /\ holding[c] # Nothing => holding[c].n \in Nat
         /\ channel \in Seq(Messages)
         /\ \A i \in DOMAIN channel : i \in Nat /\ channel[i].n \in Nat
         /\ taken # Nothing => taken.n \in Nat
<1> DEFINE F == [kind : FrameKinds, n : Nat]
<1>1. /\ sent[c] \in Nat /\ handled[c] \in Nat /\ wire[c] \in Seq(F)
      /\ holding[c] \in Messages \cup {Nothing} /\ taken \in Messages \cup {Nothing}
      /\ channel \in Seq(Messages)
  BY DEF TypeInv, TransportTypeOK, SocketTypes, ReaderTypes, ServerTypes, ChannelTypes
<1>2. \A i \in DOMAIN channel : i \in Nat /\ channel[i] \in Messages
  BY <1>1
<1>3. \A i \in DOMAIN wire[c] : i \in Nat /\ wire[c][i] \in F
  <2> HIDE DEF F
  <2> QED
    BY <1>1
<1> QED
  BY <1>1, <1>2, <1>3 DEF Messages

\* A frame that is sent, behind the first k frames on the wire.
LEMMA OrderExtended ==
  ASSUME TypeInv, OrderInv, NEW c \in Clients, NEW kind \in FrameKinds,
         NEW k \in 0 .. Len(wire[c]),
         wire' = [wire EXCEPT ![c] = Append(SubSeq(wire[c], 1, k), Frame(kind, sent[c] + 1))],
         sent' = [sent EXCEPT ![c] = sent[c] + 1],
         UNCHANGED <<handled, holding, channel, taken>>
  PROVE  OrderInv'
<1> DEFINE new == Frame(kind, sent[c] + 1)
           kept == SubSeq(wire[c], 1, k)
           F == [kind : FrameKinds, n : Nat]
<1>1. wire[c] \in Seq(F) /\ sent[c] \in Nat /\ handled[c] \in Nat
  BY Comparable
<1>2. new \in F /\ new.n = sent[c] + 1
  BY <1>1 DEF Frame
<1>3. wire'[c] = Append(kept, new) /\ sent'[c] = sent[c] + 1 /\ handled'[c] = handled[c]
  BY DEF TypeInv, TransportTypeOK, SocketTypes
<1> HIDE DEF new, F
<1>4. /\ kept \in Seq(F) /\ Len(kept) = k
      /\ \A i \in DOMAIN kept : i \in DOMAIN wire[c] /\ kept[i] = wire[c][i]
  BY <1>1, PrefixOf
<1> HIDE DEF kept
<1>5. \A i \in DOMAIN wire'[c] :
         /\ i \in Nat
         /\ \/ i \in DOMAIN wire[c] /\ i <= k /\ wire'[c][i] = wire[c][i]
            \/ i = k + 1 /\ wire'[c][i] = new
  <2>1. \A i \in DOMAIN kept : i <= k
    BY <1>4
  <2> QED
    BY <1>2, <1>3, <1>4, <2>1, AppendOf
<1>6. ASSUME NEW d \in Clients, d # c
      PROVE  /\ WireInOrder(d)' /\ HeldInOrder(d)' /\ ChannelInOrder(d)' /\ TakenInOrder(d)'
             /\ handled'[d] <= sent'[d]
  <2>1. wire'[d] = wire[d] /\ sent'[d] = sent[d]
    BY <1>6 DEF TypeInv, TransportTypeOK, SocketTypes
  <2>2. WireInOrder(d) /\ HeldInOrder(d) /\ ChannelInOrder(d) /\ TakenInOrder(d)
        /\ handled[d] <= sent[d]
    BY DEF OrderInv, FramesInOrder, HandledSent
  <2> QED
    BY <2>1, <2>2 DEF WireInOrder, HeldInOrder, ChannelInOrder, TakenInOrder
<1>7. /\ WireInOrder(c) /\ HeldInOrder(c) /\ ChannelInOrder(c) /\ TakenInOrder(c)
      /\ handled[c] <= sent[c]
  BY DEF OrderInv, FramesInOrder, HandledSent
<1>8. WireInOrder(c)'
  <2>1. \A i \in DOMAIN wire'[c] : handled'[c] < wire'[c][i].n /\ wire'[c][i].n <= sent'[c]
    <3> SUFFICES ASSUME NEW i \in DOMAIN wire'[c]
                 PROVE  handled[c] < wire'[c][i].n /\ wire'[c][i].n <= sent[c] + 1
      BY <1>3
    <3>1. CASE i \in DOMAIN wire[c] /\ wire'[c][i] = wire[c][i]
      <4>1. handled[c] < wire[c][i].n /\ wire[c][i].n <= sent[c] /\ wire[c][i].n \in Nat
        BY <1>7, <3>1, Comparable DEF WireInOrder
      <4> QED
        BY <1>1, <3>1, <4>1
    <3>2. CASE wire'[c][i].n = sent[c] + 1
      BY <1>1, <1>7, <3>2
    <3> QED
      BY <1>2, <1>5, <3>1, <3>2
  <2>2. ASSUME NEW i \in DOMAIN wire'[c], NEW j \in DOMAIN wire'[c], i < j
        PROVE  wire'[c][i].n < wire'[c][j].n
    <3>1. i \in DOMAIN wire[c] /\ wire'[c][i] = wire[c][i]
      <4>1. i \in Nat /\ j \in Nat /\ j <= k + 1
        BY <1>5
      <4> QED
        BY <1>5, <2>2, <4>1
    <3>2. CASE j \in DOMAIN wire[c] /\ wire'[c][j] = wire[c][j]
      BY <1>7, <2>2, <3>1, <3>2 DEF WireInOrder
    <3>3. CASE wire'[c][j] = new
      <4>1. wire[c][i].n \in Nat /\ wire[c][i].n <= sent[c]
        BY <1>7, <3>1, Comparable DEF WireInOrder
      <4>2. wire'[c][j].n = sent[c] + 1 /\ wire'[c][i].n = wire[c][i].n
        BY <1>2, <3>1, <3>3
      <4> QED
        BY <1>1, <4>1, <4>2
    <3> QED
      BY <1>5, <3>2, <3>3
  <2> QED
    BY <2>1, <2>2 DEF WireInOrder
<1>9. HeldInOrder(c)'
  BY <1>1, <1>2, <1>3, <1>5, <1>7, Comparable DEF HeldInOrder
<1>10. ChannelInOrder(c)'
  <2> SUFFICES ASSUME NEW i \in DOMAIN channel, channel[i].cid = c
               PROVE  /\ channel[i].n <= sent'[c]
                      /\ \A j \in DOMAIN wire'[c] : channel[i].n < wire'[c][j].n
    BY <1>3, <1>7 DEF ChannelInOrder
  <2>1. channel[i].n \in Nat /\ channel[i].n <= sent[c]
    BY <1>7, Comparable DEF ChannelInOrder
  <2>2. \A j \in DOMAIN wire[c] : channel[i].n < wire[c][j].n
    BY <1>7 DEF ChannelInOrder
  <2> QED
    BY <1>1, <1>2, <1>3, <1>5, <2>1, <2>2
<1>11. TakenInOrder(c)'
  BY <1>1, <1>2, <1>3, <1>5, <1>7, Comparable DEF TakenInOrder
<1>12. handled'[c] <= sent'[c]
  BY <1>1, <1>3, <1>7
<1> QED
  BY <1>6, <1>8, <1>9, <1>10, <1>11, <1>12 DEF OrderInv, FramesInOrder, HandledSent

\* A frame that is sent is later than all before it.
LEMMA Order_SendFrame ==
  ASSUME TypeInv, OrderInv, NEW c \in Clients, NEW kind \in FrameKinds, SendFrame(c, kind)
  PROVE  OrderInv'
<1>1. wire[c] \in Seq([kind : FrameKinds, n : Nat])
  BY Comparable
<1>2. Len(wire[c]) \in 0 .. Len(wire[c]) /\ SubSeq(wire[c], 1, Len(wire[c])) = wire[c]
  BY <1>1
<1> QED
  BY <1>2, OrderExtended DEF SendFrame, readVars, serverVars

\* So is the frame a client leaves with, whatever it takes from the wire.
LEMMA Order_Leave ==
  ASSUME TypeInv, OrderInv, NEW c \in Clients, NEW kind \in FrameKinds,
         NEW kept \in 0 .. Len(wire[c]), Leave(c, kind, kept)
  PROVE  OrderInv'
BY OrderExtended DEF Leave, readVars, serverVars

\* The first frame leaves the wire, into the hand of client_loop or for nothing.
LEMMA Order_client_loop ==
  ASSUME TypeInv, OrderInv, NEW c \in Clients, client_loop(c)
  PROVE  OrderInv'
<1> DEFINE F == [kind : FrameKinds, n : Nat]
           first == Head(wire[c])
<1>1. /\ wire[c] \in Seq(F) /\ wire[c] # << >>
      /\ wire' = [wire EXCEPT ![c] = Tail(wire[c])]
      /\ UNCHANGED <<sent, handled, channel, taken>>
  BY Comparable DEF client_loop, serverVars
<1>2. holding[c] = Nothing
  BY DEF client_loop, TypeInv, TransportTypeOK, ReaderTypes
<1>3. /\ holding' \in [Clients -> Messages \cup {Nothing}]
      /\ \A d \in Clients \ {c} : holding'[d] = holding[d]
      /\ holding'[c] # Nothing => holding'[c].cid = c /\ holding'[c].n = first.n
  <2>1. holding \in [Clients -> Messages \cup {Nothing}]
    BY DEF TypeInv, TransportTypeOK, ReaderTypes
  <2>2. UNCHANGED holding \/ Hold(c, first)
    BY NextFrame, TakenFrames DEF readVars, Stopped
  <2>3. TypeInv'
    BY Type_client_loop
  <2>4. CASE UNCHANGED holding
    BY <1>2, <2>1, <2>4
  <2>5. CASE Hold(c, first)
    BY <2>1, <2>3, <2>5 DEF Hold, ServerMessage, Message, TypeInv, TransportTypeOK, ReaderTypes
  <2> QED
    BY <2>2, <2>4, <2>5
<1> HIDE DEF F
<1>4. /\ \A i \in DOMAIN Tail(wire[c]) :
            i \in Nat /\ i + 1 \in DOMAIN wire[c] /\ Tail(wire[c])[i] = wire[c][i + 1]
      /\ 1 \in DOMAIN wire[c] /\ first = wire[c][1]
  BY <1>1, TailOf
<1>5. wire'[c] = Tail(wire[c]) /\ \A d \in Clients \ {c} : wire'[d] = wire[d]
  BY <1>1 DEF TypeInv, TransportTypeOK, SocketTypes
<1>6. ASSUME NEW d \in Clients \ {c}
      PROVE  WireInOrder(d)' /\ HeldInOrder(d)' /\ ChannelInOrder(d)' /\ TakenInOrder(d)'
  <2>1. WireInOrder(d) /\ HeldInOrder(d) /\ ChannelInOrder(d) /\ TakenInOrder(d)
    BY DEF OrderInv, FramesInOrder
  <2> QED
    BY <2>1, <1>1, <1>3, <1>5 DEF WireInOrder, HeldInOrder, ChannelInOrder, TakenInOrder
<1>7. WireInOrder(c) /\ HeldInOrder(c) /\ ChannelInOrder(c) /\ TakenInOrder(c)
  BY DEF OrderInv, FramesInOrder
<1> HIDE DEF first
<1>8. \A i \in DOMAIN wire'[c] :
         /\ i \in Nat /\ i + 1 \in DOMAIN wire[c] /\ wire'[c][i] = wire[c][i + 1]
         /\ first.n < wire'[c][i].n
  BY <1>4, <1>5, <1>7, Comparable DEF WireInOrder
<1>9. WireInOrder(c)'
  <2>1. \A i, j \in DOMAIN wire'[c] : i < j => wire'[c][i].n < wire'[c][j].n
    BY <1>7, <1>8 DEF WireInOrder
  <2> QED
    BY <1>1, <1>7, <1>8, <2>1 DEF WireInOrder
<1>10. HeldInOrder(c)'
  BY <1>1, <1>3, <1>4, <1>7, <1>8 DEF HeldInOrder, WireInOrder
<1>11. ChannelInOrder(c)'
  <2> SUFFICES ASSUME NEW i \in DOMAIN channel, channel[i].cid = c
               PROVE  /\ holding'[c] # Nothing => channel[i].n < holding'[c].n
                      /\ \A j \in DOMAIN wire'[c] : channel[i].n < wire'[c][j].n
    BY <1>1, <1>7 DEF ChannelInOrder
  <2>1. \A j \in DOMAIN wire[c] : channel[i].n < wire[c][j].n
    BY <1>7 DEF ChannelInOrder
  <2> QED
    BY <1>3, <1>4, <1>8, <2>1
<1>12. TakenInOrder(c)'
  BY <1>1, <1>3, <1>4, <1>7, <1>8 DEF TakenInOrder
<1>13. HandledSent'
  BY <1>1 DEF OrderInv, HandledSent
<1> QED
  BY <1>6, <1>9, <1>10, <1>11, <1>12, <1>13 DEF OrderInv, FramesInOrder

\* The message of client_loop goes behind those in the channel.
LEMMA Order_Forward ==
  ASSUME TypeInv, OrderInv, NEW c \in Clients, Forward(c)
  PROVE  OrderInv'
<1> DEFINE m == holding[c]
<1>1. /\ m # Nothing /\ m \in Messages /\ channel \in Seq(Messages)
      /\ channel' = Append(channel, m)
      /\ holding'[c] = Nothing /\ \A d \in Clients \ {c} : holding'[d] = holding[d]
      /\ UNCHANGED <<wire, sent, handled, taken>>
  BY DEF Forward, wireVars, serverVars, TypeInv, TransportTypeOK, ReaderTypes, ChannelTypes
<1>2. m.cid = c
  BY <1>1 DEF OrderInv, FramesInOrder, HeldInOrder
<1> HIDE DEF m
<1>3. \A i \in DOMAIN channel' :
         /\ i \in Nat
         /\ \/ i \in DOMAIN channel /\ i <= Len(channel) /\ channel'[i] = channel[i]
            \/ i = Len(channel) + 1 /\ channel'[i] = m
  BY <1>1, AppendOf
<1>4. ASSUME NEW d \in Clients
      PROVE  WireInOrder(d)' /\ HeldInOrder(d)' /\ ChannelInOrder(d)' /\ TakenInOrder(d)'
  <2>1. WireInOrder(d) /\ HeldInOrder(d) /\ ChannelInOrder(d) /\ TakenInOrder(d)
    BY DEF OrderInv, FramesInOrder
  <2>2. WireInOrder(d)' /\ HeldInOrder(d)'
    BY <1>1, <2>1 DEF WireInOrder, HeldInOrder
  <2>3. CASE d # c
    <3>1. \A i \in DOMAIN channel' : channel'[i].cid = d =>
              i \in DOMAIN channel /\ channel'[i] = channel[i]
      BY <1>2, <1>3, <2>3
    <3>2. ChannelInOrder(d)'
      BY <1>1, <2>1, <2>3, <3>1 DEF ChannelInOrder
    <3>3. TakenInOrder(d)'
      BY <1>1, <2>1, <2>3, <3>1 DEF TakenInOrder
    <3> QED
      BY <2>2, <3>2, <3>3
  <2>4. CASE d = c
    <3>1. /\ handled[c] < m.n /\ m.n <= sent[c]
          /\ \A i \in DOMAIN wire[c] : m.n < wire[c][i].n
      BY <1>1, <2>1, <2>4 DEF HeldInOrder, m
    <3>2. \A i \in DOMAIN channel : channel[i].cid = c => channel[i].n < m.n
      BY <1>1, <2>1, <2>4 DEF ChannelInOrder, m
    <3>3. ASSUME NEW i \in DOMAIN channel', channel'[i].cid = c
          PROVE  /\ handled'[c] < channel'[i].n /\ channel'[i].n <= sent'[c]
                 /\ \A j \in DOMAIN wire'[c] : channel'[i].n < wire'[c][j].n
      BY <1>1, <1>3, <2>1, <2>4, <3>1, <3>3 DEF ChannelInOrder
    <3>4. ASSUME NEW i \in DOMAIN channel', NEW j \in DOMAIN channel',
                 channel'[i].cid = c, channel'[j].cid = c, i < j
          PROVE  channel'[i].n < channel'[j].n
      <4>1. i \in Nat /\ j \in Nat /\ j <= Len(channel) + 1 /\ Len(channel) \in Nat
        BY <1>1, <1>3
      <4>2. i \in DOMAIN channel /\ channel'[i] = channel[i]
        BY <1>3, <3>4, <4>1
      <4>3. CASE j \in DOMAIN channel /\ channel'[j] = channel[j]
        BY <2>1, <2>4, <3>4, <4>2, <4>3 DEF ChannelInOrder
      <4>4. CASE channel'[j] = m
        BY <3>2, <3>4, <4>2, <4>4
      <4> QED
        BY <1>3, <4>3, <4>4
    <3>5. ChannelInOrder(c)'
      BY <1>1, <3>3, <3>4 DEF ChannelInOrder
    <3>6. TakenInOrder(c)'
      BY <1>1, <1>3, <2>1, <2>4 DEF TakenInOrder, m
    <3> QED
      BY <2>2, <2>4, <3>5, <3>6
  <2> QED
    BY <2>3, <2>4
<1>5. HandledSent'
  BY <1>1 DEF OrderInv, HandledSent
<1> QED
  BY <1>4, <1>5 DEF OrderInv, FramesInOrder

\* The first message in the channel is the next to be handled.
LEMMA Order_Receive ==
  ASSUME TypeInv, OrderInv, Receive
  PROVE  OrderInv'
<1> DEFINE first == Head(channel)
<1>1. /\ channel \in Seq(Messages) /\ channel # << >>
      /\ channel' = Tail(channel) /\ taken' = first
      /\ UNCHANGED <<wire, sent, handled, holding>>
  BY DEF Receive, wireVars, readVars, TypeInv, TransportTypeOK, ChannelTypes
<1>2. /\ \A i \in DOMAIN channel' :
            i \in Nat /\ i + 1 \in DOMAIN channel /\ channel'[i] = channel[i + 1]
      /\ 1 \in DOMAIN channel /\ first = channel[1]
  BY <1>1, TailOf
<1> HIDE DEF first
<1>3. ASSUME NEW c \in Clients
      PROVE  WireInOrder(c)' /\ HeldInOrder(c)' /\ ChannelInOrder(c)' /\ TakenInOrder(c)'
  <2>1. WireInOrder(c) /\ HeldInOrder(c) /\ ChannelInOrder(c)
    BY DEF OrderInv, FramesInOrder
  <2>2. WireInOrder(c)' /\ HeldInOrder(c)'
    BY <1>1, <2>1 DEF WireInOrder, HeldInOrder
  <2>3. ASSUME NEW i \in DOMAIN channel', NEW j \in DOMAIN channel',
               channel'[i].cid = c, channel'[j].cid = c, i < j
        PROVE  channel'[i].n < channel'[j].n
    <3>1. i + 1 < j + 1
      BY <1>2, <2>3
    <3> QED
      BY <1>2, <2>1, <2>3, <3>1 DEF ChannelInOrder
  <2>4. ChannelInOrder(c)'
    BY <1>1, <1>2, <2>1, <2>3 DEF ChannelInOrder
  <2>5. ASSUME first.cid = c
        PROVE  /\ handled[c] < first.n /\ first.n <= sent[c]
               /\ holding[c] # Nothing => first.n < holding[c].n
               /\ \A j \in DOMAIN wire[c] : first.n < wire[c][j].n
    BY <1>2, <2>1, <2>5 DEF ChannelInOrder
  <2>6. ASSUME first.cid = c, NEW i \in DOMAIN channel', channel'[i].cid = c
        PROVE  first.n < channel'[i].n
    <3>1. 1 < i + 1
      <4>1. i \in 1 .. Len(channel')
        BY <1>1
      <4> QED
        BY <4>1
    <3> QED
      BY <1>2, <2>1, <2>6, <3>1 DEF ChannelInOrder
  <2>7. handled[c] \in Nat /\ (first.cid = c => first.n \in Nat)
    BY <1>2, Comparable
  <2>8. TakenInOrder(c)'
    BY <1>1, <2>5, <2>6, <2>7 DEF TakenInOrder
  <2> QED
    BY <2>2, <2>4, <2>8
<1>4. HandledSent'
  BY <1>1 DEF OrderInv, HandledSent
<1> QED
  BY <1>3, <1>4 DEF OrderInv, FramesInOrder

\* What is handled comes before all that is on its way.
LEMMA Order_Handle ==
  ASSUME TypeInv, OrderInv, Handle
  PROVE  OrderInv'
<1>1. /\ taken # Nothing /\ handled' = [handled EXCEPT ![taken.cid] = taken.n]
      /\ UNCHANGED <<wire, sent, holding, channel, taken>>
  BY DEF Handle, wireVars, readVars
<1>2. handled \in [Clients -> Nat] /\ taken.cid \in Clients /\ taken.n \in Nat
  BY <1>1 DEF TypeInv, TransportTypeOK, ServerTypes, Messages
<1>3. ASSUME NEW c \in Clients
      PROVE  /\ WireInOrder(c)' /\ HeldInOrder(c)' /\ ChannelInOrder(c)' /\ TakenInOrder(c)'
             /\ handled'[c] <= sent'[c]
  <2>1. /\ WireInOrder(c) /\ HeldInOrder(c) /\ ChannelInOrder(c) /\ TakenInOrder(c)
        /\ handled[c] <= sent[c]
    BY DEF OrderInv, FramesInOrder, HandledSent
  <2>2. CASE taken.cid # c
    <3>1. handled'[c] = handled[c]
      BY <1>1, <1>2, <2>2
    <3> QED
      BY <1>1, <2>1, <3>1 DEF WireInOrder, HeldInOrder, ChannelInOrder, TakenInOrder
  <2>3. CASE taken.cid = c
    <3>1. handled'[c] = taken.n
      BY <1>1, <1>2, <2>3
    <3>2. WireInOrder(c)'
      BY <1>1, <2>1, <2>3, <3>1 DEF WireInOrder, TakenInOrder
    <3>3. HeldInOrder(c)'
      BY <1>1, <2>1, <2>3, <3>1 DEF HeldInOrder, TakenInOrder
    <3>4. ChannelInOrder(c)'
      BY <1>1, <2>1, <2>3, <3>1 DEF ChannelInOrder, TakenInOrder
    <3>5. TakenInOrder(c)' /\ handled'[c] <= sent'[c]
      BY <1>1, <1>2, <2>1, <2>3, <3>1 DEF TakenInOrder
    <3> QED
      BY <3>2, <3>3, <3>4, <3>5
  <2> QED
    BY <2>2, <2>3
<1> QED
  BY <1>3 DEF OrderInv, FramesInOrder, HandledSent

\* Releasing the mutex takes nothing but the message that was handled.
LEMMA Order_Release == ASSUME OrderInv, Release PROVE OrderInv'
<1>1. /\ taken' = Nothing \/ taken' = taken
      /\ UNCHANGED <<wire, sent, handled, holding, channel>>
  BY DEF Release, wireVars, readVars
<1> QED
  BY <1>1 DEF OrderInv, FramesInOrder, HandledSent, WireInOrder, HeldInOrder, ChannelInOrder,
              TakenInOrder

\* Every step keeps the order; the steps that are not named above touch nothing
\* of it.
LEMMA OrderStep == ASSUME TypeInv, OrderInv, [Next]_vars PROVE OrderInv'
<1>1. ASSUME NEW c \in Clients, ClientStep(c) PROVE OrderInv'
  <2>1. CASE \E kind \in FrameKinds : SendFrame(c, kind)
    BY <2>1, Order_SendFrame
  <2>2. CASE \E kind \in {"close", "lost"}, kept \in 0 .. Len(wire[c]) : Leave(c, kind, kept)
    BY <2>2, Order_Leave DEF FrameKinds
  <2>3. CASE ReadSocket(c) \/ FallSilent(c)
    BY <2>3, OrderSame DEF ReadSocket, FallSilent, wireVars, readVars, serverVars
  <2> QED
    BY <1>1, <2>1, <2>2, <2>3 DEF ClientStep
<1>2. ASSUME NEW c \in Clients, NEW p \in Ports, Connecting(p, c) \/ AcceptFails(p, c)
      PROVE  OrderInv'
  BY <1>2, OrderSame DEF Connecting, Accept, TlsHandshake, WsHandshake, Refuse, Insert, AcceptFails,
                         wireVars, readVars, serverVars
<1>3. ASSUME NEW c \in Clients, update_new_client(c) PROVE OrderInv'
  BY <1>3, OrderSame DEF update_new_client, wireVars, readVars
<1>4. ASSUME NEW c \in Clients, LoopTick(c) \/ LoopRun(c) \/ LoopEnd(c) PROVE OrderInv'
  BY <1>4, OrderSame DEF LoopTick, LoopRun, LoopEnd, wireVars, readVars, serverVars
<1>5. CASE Work \/ broadcast_loop
  BY <1>5, OrderSame DEF Work, broadcast_loop, wireVars, readVars, serverVars
<1>6. CASE UNCHANGED vars
  BY <1>6, OrderSame DEF vars, wireVars, readVars, serverVars
<1> QED
  BY <1>1, <1>2, <1>3, <1>4, <1>5, <1>6, Order_client_loop, Order_Forward, Order_Receive,
     Order_Handle, Order_Release DEF Next

\* Nothing was sent at the start.
LEMMA OrderInit == Init => OrderInv
BY DEF Init, OrderInv, FramesInOrder, HandledSent, WireInOrder, HeldInOrder, ChannelInOrder,
       TakenInOrder

\* However many clients send however much, and whatever the capacities, the
\* frames of a client are handled in the order it sent them, none of them twice:
\* client_loop has one frame in its hand while it waits for room (client.rs),
\* and channel_loop takes one message at a time (loop_.rs).
THEOREM FramesAlwaysInOrder == Spec => []FramesInOrder
<1>1. Init => TypeInv /\ OrderInv
  BY TypeInit, OrderInit
<1>2. TypeInv /\ OrderInv /\ [Next]_vars => TypeInv' /\ OrderInv'
  BY TypeStep, OrderStep
<1>3. OrderInv => FramesInOrder
  BY DEF OrderInv
<1> QED
  BY <1>1, <1>2, <1>3, PTL DEF Spec

----------------------------------------------------------------------------
(* Stops.  A request is handled once, and so an unsubscribe uses the       *)
(* sender of a custom loop once: it never waits for the loop, which may be *)
(* waiting for the mutex that the handler of the unsubscribe holds.        *)

\* A client asks for a custom period with its first frame only.
First(m) == m.kind = "subscribe" => m.n = 1

FirstFrames ==
    \A c \in Clients :
        /\ \A i \in DOMAIN wire[c] : First(wire[c][i])
        /\ holding[c] # Nothing => First(holding[c])

FirstMessages ==
    /\ \A i \in DOMAIN channel : First(channel[i])
    /\ taken # Nothing => First(taken)

\* A message that was taken waits for the mutex, or its handler has it.
TakenUnhandled ==
    alive /\ taken # Nothing /\ mutex # <<"channel_loop">> => handled[taken.cid] < taken.n

\* The channel of a custom loop holds its () once the sender is gone.
SendersUsedOnce ==
    \A c \in Clients : /\ sender[c] \/ told[c] > 0 => handled[c] > 0
                       /\ told[c] > 0 => ~sender[c]

\* A stop is all that its handler sends.
StopsAlone ==
    /\ mutex = Free => todo = << >>
    /\ \A i \in DOMAIN todo : todo[i].op = "stop" =>
          i = 1 /\ Len(todo) = 1 /\ sender[todo[i].cid]

FirstInv == FirstFrames /\ FirstMessages
StopInv  == TakenUnhandled /\ SendersUsedOnce /\ StopsAlone

----------------------------------------------------------------------------
(* Subscriptions come first                                                *)

\* A step that moves no message leaves the first ones first.
LEMMA FirstSame ==
  ASSUME FirstInv, UNCHANGED <<wire, holding, channel>>, taken' \in {taken, Nothing}
  PROVE  FirstInv'
BY DEF FirstInv, FirstFrames, FirstMessages

\* A frame that is sent, behind the first k frames on the wire.
LEMMA FirstExtended ==
  ASSUME TypeInv, FirstInv, NEW c \in Clients, NEW kind \in FrameKinds,
         kind = "subscribe" => sent[c] = 0,
         NEW k \in 0 .. Len(wire[c]),
         wire' = [wire EXCEPT ![c] = Append(SubSeq(wire[c], 1, k), Frame(kind, sent[c] + 1))],
         UNCHANGED <<holding, channel, taken>>
  PROVE  FirstInv'
<1> DEFINE new == Frame(kind, sent[c] + 1)
           kept == SubSeq(wire[c], 1, k)
           F == [kind : FrameKinds, n : Nat]
<1>1. wire[c] \in Seq(F) /\ sent[c] \in Nat
  BY Comparable
<1>2. new \in F /\ First(new)
  BY <1>1 DEF Frame, First
<1>3. wire'[c] = Append(kept, new) /\ \A d \in Clients \ {c} : wire'[d] = wire[d]
  BY DEF TypeInv, TransportTypeOK, SocketTypes
<1> HIDE DEF new, F
<1>4. kept \in Seq(F) /\ \A i \in DOMAIN kept : i \in DOMAIN wire[c] /\ kept[i] = wire[c][i]
  BY <1>1, PrefixOf
<1> HIDE DEF kept
<1>5. \A i \in DOMAIN wire'[c] :
         (i \in DOMAIN wire[c] /\ wire'[c][i] = wire[c][i]) \/ wire'[c][i] = new
  BY <1>2, <1>3, <1>4, AppendOf
<1>6. \A i \in DOMAIN wire'[c] : First(wire'[c][i])
  BY <1>2, <1>5 DEF FirstInv, FirstFrames
<1> QED
  BY <1>3, <1>6 DEF FirstInv, FirstFrames, FirstMessages

\* client_loop takes the frame in its hand as it is.
LEMMA First_client_loop ==
  ASSUME TypeInv, FirstInv, NEW c \in Clients, client_loop(c)
  PROVE  FirstInv'
<1> DEFINE F == [kind : FrameKinds, n : Nat]
           first == Head(wire[c])
<1>1. /\ wire[c] \in Seq(F) /\ wire[c] # << >>
      /\ wire' = [wire EXCEPT ![c] = Tail(wire[c])]
      /\ UNCHANGED <<channel, taken>>
  BY Comparable DEF client_loop, serverVars
<1>2. UNCHANGED holding \/ Hold(c, first)
  BY NextFrame, TakenFrames DEF readVars, Stopped
<1> HIDE DEF F
<1>3. /\ \A i \in DOMAIN Tail(wire[c]) : i + 1 \in DOMAIN wire[c] /\ Tail(wire[c])[i] = wire[c][i + 1]
      /\ 1 \in DOMAIN wire[c] /\ first = wire[c][1]
  BY <1>1, TailOf
<1>4. wire'[c] = Tail(wire[c]) /\ \A d \in Clients \ {c} : wire'[d] = wire[d]
  BY <1>1 DEF TypeInv, TransportTypeOK, SocketTypes
<1>5. ASSUME NEW d \in Clients, NEW i \in DOMAIN wire'[d] PROVE First(wire'[d][i])
  <2>1. CASE d = c
    BY <1>3, <1>4, <2>1 DEF FirstInv, FirstFrames
  <2>2. CASE d # c
    BY <1>4, <2>2 DEF FirstInv, FirstFrames
  <2> QED
    BY <2>1, <2>2
<1>6. First(first)
  BY <1>3 DEF FirstInv, FirstFrames
<1>7. \A d \in Clients : holding'[d] # Nothing => First(holding'[d])
  <2> HIDE DEF first
  <2>1. holding \in [Clients -> Messages \cup {Nothing}]
    BY DEF TypeInv, TransportTypeOK, ReaderTypes
  <2>2. CASE UNCHANGED holding
    BY <2>2 DEF FirstInv, FirstFrames
  <2>3. CASE Hold(c, first)
    <3>1. First(ServerMessage(c, first))
      BY <1>6 DEF First, ServerMessage, Message
    <3> QED
      BY <2>1, <2>3, <3>1 DEF Hold, FirstInv, FirstFrames
  <2> QED
    BY <1>2, <2>2, <2>3
<1> QED
  BY <1>1, <1>5, <1>7 DEF FirstInv, FirstFrames, FirstMessages

\* The channel gets the message that client_loop has.
LEMMA First_Forward ==
  ASSUME TypeInv, FirstInv, NEW c \in Clients, Forward(c)
  PROVE  FirstInv'
<1> DEFINE m == holding[c]
<1>1. /\ m # Nothing /\ m \in Messages /\ channel \in Seq(Messages)
      /\ channel' = Append(channel, m)
      /\ holding'[c] = Nothing /\ \A d \in Clients \ {c} : holding'[d] = holding[d]
      /\ UNCHANGED <<wire, taken>>
  BY DEF Forward, wireVars, serverVars, TypeInv, TransportTypeOK, ReaderTypes, ChannelTypes
<1>2. First(m)
  BY <1>1 DEF FirstInv, FirstFrames
<1> HIDE DEF m
<1>3. \A i \in DOMAIN channel' :
         (i \in DOMAIN channel /\ channel'[i] = channel[i]) \/ channel'[i] = m
  BY <1>1, AppendOf
<1>4. \A i \in DOMAIN channel' : First(channel'[i])
  BY <1>2, <1>3 DEF FirstInv, FirstMessages
<1> QED
  BY <1>1, <1>4 DEF FirstInv, FirstFrames, FirstMessages

\* channel_loop gets the first message of the channel.
LEMMA First_Receive ==
  ASSUME TypeInv, FirstInv, Receive
  PROVE  FirstInv'
<1>1. /\ channel \in Seq(Messages) /\ channel # << >>
      /\ channel' = Tail(channel) /\ taken' = Head(channel)
      /\ UNCHANGED <<wire, holding>>
  BY DEF Receive, wireVars, readVars, TypeInv, TransportTypeOK, ChannelTypes
<1>2. /\ \A i \in DOMAIN channel' : i + 1 \in DOMAIN channel /\ channel'[i] = channel[i + 1]
      /\ 1 \in DOMAIN channel /\ taken' = channel[1]
  BY <1>1, TailOf
<1> QED
  BY <1>1, <1>2 DEF FirstInv, FirstFrames, FirstMessages

\* A subscription with a custom period is, and stays, a first message.
LEMMA FirstStep == ASSUME TypeInv, FirstInv, [Next]_vars PROVE FirstInv'
<1>1. ASSUME NEW c \in Clients, ClientStep(c) PROVE FirstInv'
  <2>1. ASSUME NEW kind \in FrameKinds, SendFrame(c, kind) PROVE FirstInv'
    <3>1. Len(wire[c]) \in 0 .. Len(wire[c]) /\ SubSeq(wire[c], 1, Len(wire[c])) = wire[c]
      BY Comparable
    <3> QED
      BY <2>1, <3>1, FirstExtended DEF SendFrame, readVars, serverVars
  <2>2. ASSUME NEW kind \in {"close", "lost"}, NEW kept \in 0 .. Len(wire[c]), Leave(c, kind, kept)
        PROVE  FirstInv'
    <3>1. kind \in FrameKinds /\ kind # "subscribe"
      BY DEF FrameKinds
    <3> QED
      BY <2>2, <3>1, FirstExtended DEF Leave, readVars, serverVars
  <2>3. CASE ReadSocket(c) \/ FallSilent(c)
    BY <2>3, FirstSame DEF ReadSocket, FallSilent, wireVars, readVars, serverVars
  <2> QED
    BY <1>1, <2>1, <2>2, <2>3 DEF ClientStep
<1>2. ASSUME NEW c \in Clients, NEW p \in Ports, Connecting(p, c) \/ AcceptFails(p, c)
      PROVE  FirstInv'
  BY <1>2, FirstSame DEF Connecting, Accept, TlsHandshake, WsHandshake, Refuse, Insert, AcceptFails,
                         wireVars, readVars, serverVars
<1>3. ASSUME NEW c \in Clients, update_new_client(c) PROVE FirstInv'
  BY <1>3, FirstSame DEF update_new_client, wireVars, readVars
<1>4. ASSUME NEW c \in Clients, LoopTick(c) \/ LoopRun(c) \/ LoopEnd(c) PROVE FirstInv'
  BY <1>4, FirstSame DEF LoopTick, LoopRun, LoopEnd, wireVars, readVars, serverVars
<1>5. CASE Work \/ broadcast_loop
  BY <1>5, FirstSame DEF Work, broadcast_loop, wireVars, readVars, serverVars
<1>6. CASE Handle
  BY <1>6, FirstSame DEF Handle, wireVars, readVars
<1>7. CASE Release
  BY <1>7, FirstSame DEF Release, wireVars, readVars
<1>8. CASE UNCHANGED vars
  BY <1>8, FirstSame DEF vars, wireVars, readVars, serverVars
<1> QED
  BY <1>1, <1>2, <1>3, <1>4, <1>5, <1>6, <1>7, <1>8, First_client_loop, First_Forward,
     First_Receive DEF Next

----------------------------------------------------------------------------
(* A stop is sent once                                                     *)

\* A step that leaves the handler, the senders and the mutex alone; a loop may
\* read what it was told.
LEMMA StopSame ==
  ASSUME StopInv, UNCHANGED <<alive, taken, mutex, handled, sender, todo>>,
         \A c \in Clients : told'[c] = told[c] \/ told'[c] = 0
  PROVE  StopInv'
BY DEF StopInv, TakenUnhandled, SendersUsedOnce, StopsAlone

\* What the handler of the invariant's facts is about when the mutex is free.
LEMMA Unlocked ==
  ASSUME TypeInv, StopInv, mutex = Free
  PROVE  /\ todo = << >> /\ mutex # <<"channel_loop">>
         /\ alive /\ taken # Nothing => handled[taken.cid] < taken.n
BY DEF StopInv, TakenUnhandled, StopsAlone, Free

OnlySends(messages) == \A i \in DOMAIN messages : messages[i].op = "send"

\* Replies contain no stop.
LEMMA RepliesAreSends ==
  ASSUME NEW to, NEW messages \in Replies(to)
  PROVE  OnlySends(messages)
BY DEF Replies, SeqOf, OnlySends, SendTo

\* Any other task locks the mutex to send messages.
LEMMA Stop_Lock ==
  ASSUME TypeInv, StopInv, NEW task, task # <<"channel_loop">>, task # Free,
         NEW messages, OnlySends(messages),
         Lock(task, messages), UNCHANGED <<alive, taken, handled, sender, told>>
  PROVE  StopInv'
<1>1. mutex = Free /\ mutex' = task /\ todo' = messages
  BY DEF Lock
<1>2. TakenUnhandled'
  BY <1>1, Unlocked DEF TakenUnhandled
<1>3. SendersUsedOnce'
  BY DEF StopInv, SendersUsedOnce
<1>4. StopsAlone'
  BY <1>1 DEF StopsAlone, OnlySends
<1> QED
  BY <1>2, <1>3, <1>4 DEF StopInv

\* What is received was not handled before.
LEMMA Stop_Receive ==
  ASSUME TypeInv, OrderInv, StopInv, Receive
  PROVE  StopInv'
<1>1. /\ channel \in Seq(Messages) /\ channel # << >>
      /\ taken' = Head(channel)
      /\ UNCHANGED <<mutex, todo, alive, handled, sender, told>>
  BY DEF Receive, mutexVars, loopVars, TypeInv, TransportTypeOK, ChannelTypes
<1>2. 1 \in DOMAIN channel /\ taken' = channel[1] /\ taken' \in Messages
  BY <1>1, TailOf
<1>3. handled[taken'.cid] < taken'.n
  <2>1. taken'.cid \in Clients
    BY <1>2 DEF Messages
  <2> QED
    BY <1>2, <2>1 DEF OrderInv, FramesInOrder, ChannelInOrder
<1> QED
  BY <1>1, <1>3 DEF StopInv, TakenUnhandled, SendersUsedOnce, StopsAlone

\* A subscription to a custom period is the first request of its client, so no
\* sender was used before; a stop is for a sender that is there.
LEMMA Stop_Handle ==
  ASSUME TypeInv, FirstInv, StopInv, Handle
  PROVE  StopInv'
<1> DEFINE c == taken.cid
<1>1. /\ alive /\ taken # Nothing /\ mutex = Free
      /\ handled' = [handled EXCEPT ![c] = taken.n] /\ taken' = taken
      /\ mutex' = IF alive' THEN <<"channel_loop">> ELSE Free
      /\ alive' = FALSE => todo' = << >>
  BY DEF Handle, TypeInv, TransportTypeOK, ServerTypes
<1>2. /\ c \in Clients /\ taken.n \in Nat /\ taken \in Messages
      /\ handled \in [Clients -> Nat] /\ alive' \in BOOLEAN
      /\ sender \in [Clients -> BOOLEAN] /\ told \in [Clients -> 0 .. 1]
  <2>1. TypeInv'
    BY Type_Handle
  <2> QED
    BY <1>1, <2>1 DEF TypeInv, TransportTypeOK, ServerTypes, LoopTypes, Messages
<1>3. handled[c] < taken.n /\ handled'[c] = taken.n /\ handled'[c] > 0
      /\ \A d \in Clients \ {c} : handled'[d] = handled[d]
  BY <1>1, <1>2, Unlocked
<1>4. TakenUnhandled'
  BY <1>1, <1>2 DEF TakenUnhandled
<1>5. told' = told
  BY DEF Handle, loopVars
<1>6. \/ sender' = sender
      \/ sender' = [sender EXCEPT ![c] = FALSE]
      \/ taken.kind = "subscribe" /\ sender' = [sender EXCEPT ![c] = TRUE]
  BY DEF Handle, loopVars
<1>7. SendersUsedOnce'
  <2>1. ASSUME NEW d \in Clients
        PROVE  /\ sender'[d] \/ told'[d] > 0 => handled'[d] > 0
               /\ told'[d] > 0 => ~sender'[d]
    <3>1. /\ sender[d] \/ told[d] > 0 => handled[d] > 0
          /\ told[d] > 0 => ~sender[d]
      BY DEF StopInv, SendersUsedOnce
    <3>2. CASE d # c
      <4>1. sender'[d] = sender[d] /\ handled'[d] = handled[d]
        BY <1>2, <1>3, <1>6, <3>2
      <4> QED
        BY <1>5, <3>1, <4>1
    <3>3. CASE d = c /\ taken.kind = "subscribe" /\ sender' = [sender EXCEPT ![c] = TRUE]
      <4>1. taken.n = 1
        BY <1>1, <3>3 DEF FirstInv, FirstMessages, First
      <4>2. handled[c] = 0
        BY <1>2, <1>3, <4>1
      <4>3. ~(told[c] > 0)
        BY <3>1, <3>3, <4>2
      <4> QED
        BY <1>3, <1>5, <3>3, <4>3
    <3>4. CASE d = c /\ (sender' = sender \/ sender' = [sender EXCEPT ![c] = FALSE])
      <4>1. handled'[d] > 0
        BY <1>3, <3>4
      <4>2. sender'[d] => sender[d]
        BY <1>2, <3>4
      <4> QED
        BY <1>5, <3>1, <4>1, <4>2
    <3> QED
      BY <1>6, <3>2, <3>3, <3>4
  <2> QED
    BY <2>1 DEF SendersUsedOnce
<1>8. StopsAlone'
  <2>1. OnlySends(todo') \/ (sender[c] /\ todo' = << Stop(c) >> /\ sender' = sender)
    <3>1. \/ todo' = << >> \/ \E to : todo' \in Replies(to)
          \/ sender[c] /\ todo' = << Stop(c) >> /\ sender' = sender
      BY DEF Handle, loopVars
    <3>2. CASE todo' = << >>
      BY <3>2 DEF OnlySends
    <3> QED
      BY <3>1, <3>2, RepliesAreSends
  <2>2. mutex' = Free => todo' = << >>
    BY <1>1, <1>2 DEF Free
  <2>3. CASE OnlySends(todo')
    BY <2>2, <2>3 DEF StopsAlone, OnlySends
  <2>4. CASE sender[c] /\ todo' = << Stop(c) >> /\ sender' = sender
    <3>1. Len(todo') = 1 /\ \A i \in DOMAIN todo' : i = 1 /\ todo'[i].cid = c
      BY <2>4 DEF Stop
    <3> QED
      BY <2>2, <2>4, <3>1 DEF StopsAlone
  <2> QED
    BY <2>1, <2>3, <2>4
<1> QED
  BY <1>4, <1>7, <1>8 DEF StopInv

\* A stop removes the sender it uses, and nothing more is to be sent.
LEMMA Stop_Work ==
  ASSUME TypeInv, StopInv, Work
  PROVE  StopInv'
<1> DEFINE next == Head(todo)
           c == next.cid
           J == [op : {"send", "stop"}, cid : Clients]
<1>1. /\ todo \in Seq(J) /\ todo # << >> /\ todo' = Tail(todo)
      /\ UNCHANGED <<mutex, taken, alive, handled>>
      /\ sender \in [Clients -> BOOLEAN] /\ told \in [Clients -> 0 .. 1]
  BY DEF Work, serverVars, TypeInv, TransportTypeOK, MutexTypes, LoopTypes
<1>2. /\ next.op = "send" /\ UNCHANGED <<sender, told>>
      \/ /\ next.op = "stop"
         /\ told' = [told EXCEPT ![c] = told[c] + 1]
         /\ sender' = [sender EXCEPT ![c] = FALSE]
  <2>1. next.op \in {"send", "stop"}
    <3>1. next \in J
      <4> HIDE DEF J
      <4> QED
        BY <1>1, TailOf
    <3> QED
      BY <3>1
  <2> QED
    BY <2>1 DEF Work, Send, StopLoop, loopVars
<1> HIDE DEF J
<1>3. /\ 1 \in DOMAIN todo /\ next = todo[1] /\ next \in J
      /\ Len(todo') = Len(todo) - 1
      /\ \A i \in DOMAIN todo' : i \in Nat /\ i + 1 \in DOMAIN todo /\ todo'[i] = todo[i + 1]
  BY <1>1, TailOf
<1>4. c \in Clients
  BY <1>3 DEF J
<1> HIDE DEF next
<1>5. ASSUME NEW i \in DOMAIN todo' PROVE todo'[i].op # "stop"
  <2>1. i \in 1 .. Len(todo')
    BY <1>1
  <2>2. i + 1 # 1
    BY <2>1
  <2> QED
    BY <1>3, <2>2 DEF StopInv, StopsAlone
<1>6. StopsAlone'
  <2>1. mutex' = Free => todo' = << >>
    BY <1>1 DEF StopInv, StopsAlone
  <2> QED
    BY <1>5, <2>1 DEF StopsAlone
<1>7. TakenUnhandled'
  BY <1>1 DEF StopInv, TakenUnhandled
<1>8. SendersUsedOnce'
  <2>1. CASE UNCHANGED <<sender, told>>
    BY <1>1, <2>1 DEF StopInv, SendersUsedOnce
  <2>2. CASE /\ next.op = "stop"
             /\ told' = [told EXCEPT ![c] = told[c] + 1]
             /\ sender' = [sender EXCEPT ![c] = FALSE]
    <3>1. sender[c]
      BY <1>3, <2>2 DEF StopInv, StopsAlone
    <3>2. handled[c] > 0
      BY <1>4, <3>1 DEF StopInv, SendersUsedOnce
    <3>3. ~sender'[c] /\ \A d \in Clients \ {c} : sender'[d] = sender[d] /\ told'[d] = told[d]
      BY <1>1, <1>4, <2>2
    <3> QED
      BY <1>1, <3>2, <3>3 DEF StopInv, SendersUsedOnce
  <2> QED
    BY <1>2, <2>1, <2>2
<1> QED
  BY <1>6, <1>7, <1>8 DEF StopInv

\* The mutex is released when nothing is left to send.
LEMMA Stop_Release ==
  ASSUME StopInv, Release
  PROVE  StopInv'
<1>1. /\ todo = << >> /\ mutex' = Free
      /\ taken' = IF mutex = <<"channel_loop">> THEN Nothing ELSE taken
      /\ UNCHANGED <<todo, alive, handled, sender, told>>
  BY DEF Release
<1>2. TakenUnhandled'
  BY <1>1 DEF StopInv, TakenUnhandled
<1>3. SendersUsedOnce' /\ StopsAlone'
  BY <1>1 DEF StopInv, SendersUsedOnce, StopsAlone
<1> QED
  BY <1>2, <1>3 DEF StopInv

\* No step makes a handler use a sender twice.
LEMMA StopStep == ASSUME TypeInv, OrderInv, FirstInv, StopInv, [Next]_vars PROVE StopInv'
<1>1. ASSUME NEW c \in Clients, ClientStep(c) PROVE StopInv'
  <2>1. UNCHANGED <<mutexVars, serverVars, loopVars>>
    BY <1>1 DEF ClientStep, SendFrame, Leave, ReadSocket, FallSilent
  <2> QED
    BY <2>1, StopSame DEF mutexVars, serverVars, loopVars
<1>2. ASSUME NEW c \in Clients, NEW p \in Ports, Connecting(p, c) \/ AcceptFails(p, c)
      PROVE  StopInv'
  <2>1. UNCHANGED <<mutexVars, taken, alive, handled, loopVars>>
    BY <1>2 DEF Connecting, Accept, TlsHandshake, WsHandshake, Refuse, Insert, AcceptFails, serverVars
  <2> QED
    BY <2>1, StopSame DEF mutexVars, loopVars
<1>3. ASSUME NEW c \in Clients, client_loop(c) \/ Forward(c) PROVE StopInv'
  BY <1>3, StopSame DEF client_loop, Forward, mutexVars, serverVars, loopVars
<1>4. ASSUME NEW c \in Clients, update_new_client(c) PROVE StopInv'
  <2>1. CASE c \in clients
    <3>1. \E messages \in Replies({c}) : Lock(<<"update_new_client", c>>, messages)
      BY <1>4, <2>1 DEF update_new_client
    <3>2. UNCHANGED <<alive, taken, handled, sender, told>>
      BY <1>4 DEF update_new_client, loopVars
    <3> QED
      BY <3>1, <3>2, RepliesAreSends, Stop_Lock DEF Free
  <2>2. CASE c \notin clients
    BY <1>4, <2>2, StopSame DEF update_new_client, mutexVars, loopVars
  <2> QED
    BY <2>1, <2>2
<1>5. CASE broadcast_loop
  <2>1. PICK messages \in Replies(clients) : Lock(<<"broadcast_loop">>, messages)
    BY <1>5 DEF broadcast_loop
  <2>2. OnlySends(messages)
    BY RepliesAreSends
  <2>3. UNCHANGED <<alive, taken, handled, sender, told>>
    BY <1>5 DEF broadcast_loop, serverVars, loopVars
  <2> QED
    BY <2>1, <2>2, <2>3, Stop_Lock DEF Free
<1>6. ASSUME NEW c \in Clients, LoopTick(c) \/ LoopEnd(c) PROVE StopInv'
  <2>1. UNCHANGED <<mutexVars, serverVars, sender>>
    BY <1>6 DEF LoopTick, LoopEnd
  <2>2. told' = told \/ told' = [told EXCEPT ![c] = 0]
    BY <1>6 DEF LoopTick, LoopEnd
  <2>3. told \in [Clients -> 0 .. 1]
    BY DEF TypeInv, TransportTypeOK, LoopTypes
  <2> QED
    BY <2>1, <2>2, <2>3, StopSame DEF mutexVars, serverVars
<1>7. ASSUME NEW c \in Clients, LoopRun(c) PROVE StopInv'
  <2>1. UNCHANGED <<alive, taken, handled, sender, told>>
    BY <1>7 DEF LoopRun, serverVars
  <2>2. CASE c \in clients
    <3>1. \E messages \in Replies({c}) : Lock(<<"broadcast_with_period", c>>, messages)
      BY <1>7, <2>2 DEF LoopRun
    <3> QED
      BY <2>1, <3>1, RepliesAreSends, Stop_Lock DEF Free
  <2>3. CASE c \notin clients
    BY <1>7, <2>1, <2>3, StopSame DEF LoopRun, mutexVars
  <2> QED
    BY <2>2, <2>3
<1>8. CASE UNCHANGED vars
  BY <1>8, StopSame DEF vars, mutexVars, serverVars, loopVars
<1> QED
  BY <1>1, <1>2, <1>3, <1>4, <1>5, <1>6, <1>7, <1>8, Stop_Receive, Stop_Handle, Stop_Work,
     Stop_Release DEF Next

\* There are no messages, senders or jobs at the start.
LEMMA StopInit == Init => FirstInv /\ StopInv
BY DEF Init, FirstInv, FirstFrames, FirstMessages, First, StopInv, TakenUnhandled,
       SendersUsedOnce, StopsAlone

----------------------------------------------------------------------------
(* Theorems                                                                *)

\* The channel(1) of a custom loop has room whenever a handler is about to send
\* on it (unsubscribe, client.rs).
StopsFindRoom == \A c \in Clients : todo # << >> /\ Head(todo) = Stop(c) => told[c] = 0

\* A handler only ever begins with a message later than all its client was
\* served.
EachHandledOnce == [][Handle => handled[taken.cid] < taken.n]_vars

Inv == TypeInv /\ OrderInv /\ FirstInv /\ StopInv

\* The invariant: types, order, first messages and stops.
LEMMA InvHolds == Spec => []Inv
<1>1. Init => Inv
  BY TypeInit, OrderInit, StopInit DEF Inv
<1>2. Inv /\ [Next]_vars => Inv'
  BY TypeStep, OrderStep, FirstStep, StopStep DEF Inv
<1> QED
  BY <1>1, <1>2, PTL DEF Spec

\* Whatever the clients and the loops do, unsubscribe never waits for a loop
\* while it holds the mutex that the loop may be waiting for (client.rs,
\* broadcast.rs).
THEOREM StopsNeverWait == Spec => []StopsFindRoom
<1>1. Inv => StopsFindRoom
  <2> SUFFICES ASSUME Inv, NEW c \in Clients, todo # << >>, Head(todo) = Stop(c)
               PROVE  told[c] = 0
    BY DEF StopsFindRoom
  <2>1. 1 \in DOMAIN todo /\ todo[1] = Stop(c)
    <3>1. todo \in Seq([op : {"send", "stop"}, cid : Clients])
      BY DEF Inv, TypeInv, TransportTypeOK, MutexTypes
    <3> QED
      BY <3>1
  <2>2. sender[c]
    BY <2>1 DEF Stop, Inv, StopInv, StopsAlone
  <2>3. ~(told[c] > 0) /\ told[c] \in 0 .. 1
    BY <2>2 DEF Inv, StopInv, SendersUsedOnce, TypeInv, TransportTypeOK, LoopTypes
  <2> QED
    BY <2>3
<1> QED
  BY <1>1, InvHolds, PTL

\* No request or disconnection is handled twice, and none after a later one of
\* its client (channel_loop, loop_.rs).
THEOREM RequestsHandledOnce == Spec => EachHandledOnce
<1>1. Inv /\ [Next]_vars => [Handle => handled[taken.cid] < taken.n]_vars
  BY Unlocked DEF Inv, Handle
<1> QED
  BY <1>1, InvHolds, PTL DEF Spec, EachHandledOnce

----------------------------------------------------------------------------
(* The way as one queue.  What a client waits for is Chained: four         *)
(* sequences of requests, and a step of client_loop or channel_loop moves  *)
(* one of them from a sequence to the one before it.                       *)

Reqs       == [kind : MessageKinds, n : Nat]
WireFrames == [kind : FrameKinds, n : Nat]

\* What is made of a message in the channel, and of a frame on the wire.
QueuedOf(c) == [m \in Messages |-> RequestIf(m.cid = c, m)]
UnreadOf    == [f \in WireFrames |-> RequestIf(f.kind \in Forwarded, f)]

\* Messages and forwarded frames make requests.
LEMMA RequestsOfMessages ==
  ASSUME NEW m \in Messages
  PROVE  AsRequest(m) \in Reqs /\ AsRequest(m).n = m.n
BY DEF Messages, Reqs, MessageKinds, AsRequest, Frame

LEMMA RequestsOfFrames ==
  ASSUME NEW f \in WireFrames, f.kind \in Forwarded
  PROVE  AsRequest(f) \in Reqs
BY DEF WireFrames, Forwarded, Reqs, MessageKinds, AsRequest, Frame

\* A request is a sequence of one or none.
LEMMA RequestIfOf ==
  ASSUME NEW test \in BOOLEAN, NEW f, test => AsRequest(f) \in Reqs
  PROVE  RequestIf(test, f) \in Seq(Reqs)
BY DEF RequestIf

\* Each message in the channel makes a sequence of requests.
LEMMA QueuedOfType == ASSUME NEW c PROVE QueuedOf(c) \in [Messages -> Seq(Reqs)]
<1>1. ASSUME NEW m \in Messages PROVE RequestIf(m.cid = c, m) \in Seq(Reqs)
  BY RequestsOfMessages, RequestIfOf
<1> QED  BY <1>1 DEF QueuedOf

\* So does each frame on the wire.
LEMMA UnreadOfType == UnreadOf \in [WireFrames -> Seq(Reqs)]
<1>1. ASSUME NEW f \in WireFrames PROVE RequestIf(f.kind \in Forwarded, f) \in Seq(Reqs)
  <2>1. f.kind \in Forwarded => AsRequest(f) \in Reqs
    BY RequestsOfFrames
  <2> QED  BY <2>1 DEF RequestIf
<1> QED  BY <1>1 DEF UnreadOf

\* The filters of the channel and of the wire gather.
LEMMA QueuedGathers ==
  ASSUME NEW c, NEW seq \in Seq(Messages)
  PROVE  FlattenSeq([i \in DOMAIN seq |-> RequestIf(seq[i].cid = c, seq[i])])
            = Gather(seq, QueuedOf(c))
<1>1. \A i \in DOMAIN seq : seq[i] \in Messages
  BY PlacesFinite
<1>2. Parts(seq, QueuedOf(c)) = [i \in DOMAIN seq |-> RequestIf(seq[i].cid = c, seq[i])]
  BY <1>1 DEF Parts, QueuedOf
<1> QED  BY <1>2 DEF Gather

\* What is unread is gathered from the frames of the wire.
LEMMA UnreadGathers ==
  ASSUME NEW seq \in Seq(WireFrames)
  PROVE  FlattenSeq([i \in DOMAIN seq |-> RequestIf(seq[i].kind \in Forwarded, seq[i])])
            = Gather(seq, UnreadOf)
<1>1. \A i \in DOMAIN seq : seq[i] \in WireFrames
  BY PlacesFinite
<1>2. Parts(seq, UnreadOf) = [i \in DOMAIN seq |-> RequestIf(seq[i].kind \in Forwarded, seq[i])]
  BY <1>1 DEF Parts, UnreadOf
<1> QED  BY <1>2 DEF Gather

\* The four parts of the way of a client, in a state with the right types.
PartsTyped(c) ==
    /\ channel \in Seq(Messages) /\ wire[c] \in Seq(WireFrames)
    /\ taken \in Messages \cup {Nothing} /\ holding[c] \in Messages \cup {Nothing}
    /\ Handling(c) \in Seq(Reqs) /\ Queued(c) \in Seq(Reqs)
    /\ Held(c) \in Seq(Reqs) /\ Unread(c) \in Seq(Reqs)
    /\ Queued(c) = Gather(channel, QueuedOf(c)) /\ Unread(c) = Gather(wire[c], UnreadOf)
    /\ Unhandled(c) = Chained(Handling(c), Queued(c), Held(c), Unread(c))
    /\ Unhandled(c) \in Seq(Reqs)

\* The parts have these types in every state that does.
LEMMA PartsAre == ASSUME TypeInv, NEW c \in Clients PROVE PartsTyped(c)
<1>1. /\ channel \in Seq(Messages) /\ wire[c] \in Seq(WireFrames)
      /\ taken \in Messages \cup {Nothing} /\ holding[c] \in Messages \cup {Nothing}
  BY DEF TypeInv, TransportTypeOK, ChannelTypes, SocketTypes, ServerTypes, ReaderTypes, WireFrames
<1>2. Queued(c) = Gather(channel, QueuedOf(c)) /\ Unread(c) = Gather(wire[c], UnreadOf)
  BY <1>1, QueuedGathers, UnreadGathers DEF Queued, Unread
<1>3. Queued(c) \in Seq(Reqs) /\ Unread(c) \in Seq(Reqs)
  BY <1>1, <1>2, QueuedOfType, UnreadOfType, GatherOf
<1>4. Handling(c) \in Seq(Reqs) /\ Held(c) \in Seq(Reqs)
  BY <1>1, RequestsOfMessages, RequestIfOf DEF Handling, Held
<1>5. Unhandled(c) = Chained(Handling(c), Queued(c), Held(c), Unread(c))
  BY DEF Unhandled, Chained
<1>6. Chained(Handling(c), Queued(c), Held(c), Unread(c)) \in Seq(Reqs)
  BY <1>3, <1>4, ChainedMoves
<1> QED  BY <1>1, <1>2, <1>3, <1>4, <1>5, <1>6 DEF PartsTyped

\* The same of the state after a step.
LEMMA NextPartsAre == ASSUME TypeInv', NEW c \in Clients PROVE PartsTyped(c)'
<1>1. /\ channel' \in Seq(Messages) /\ wire'[c] \in Seq(WireFrames)
      /\ taken' \in Messages \cup {Nothing} /\ holding'[c] \in Messages \cup {Nothing}
  BY DEF TypeInv, TransportTypeOK, ChannelTypes, SocketTypes, ServerTypes, ReaderTypes, WireFrames
<1>2. Queued(c)' = Gather(channel', QueuedOf(c)) /\ Unread(c)' = Gather(wire'[c], UnreadOf)
  BY <1>1, QueuedGathers, UnreadGathers DEF Queued, Unread
<1>3. Queued(c)' \in Seq(Reqs) /\ Unread(c)' \in Seq(Reqs)
  BY <1>1, <1>2, QueuedOfType, UnreadOfType, GatherOf
<1>4. Handling(c)' \in Seq(Reqs) /\ Held(c)' \in Seq(Reqs)
  BY <1>1, RequestsOfMessages, RequestIfOf DEF Handling, Held
<1>5. Unhandled(c)' = Chained(Handling(c)', Queued(c)', Held(c)', Unread(c)')
  BY DEF Unhandled, Chained
<1>6. Chained(Handling(c)', Queued(c)', Held(c)', Unread(c)') \in Seq(Reqs)
  BY <1>3, <1>4, ChainedMoves
<1> QED  BY <1>1, <1>2, <1>3, <1>4, <1>5, <1>6 DEF PartsTyped

----------------------------------------------------------------------------
(* Steps of the queue                                                      *)

\* The handler that has the mutex has served its client.
HolderServed ==
    mutex = <<"channel_loop">> => taken # Nothing /\ taken.n <= handled[taken.cid]

QueueInv == TypeInv /\ OrderInv /\ StopInv /\ HolderServed

QueueSame == UNCHANGED <<Statuses, sent, Waiting, handled>>

\* The stages that the queue tells apart.
StagesKept ==
    \A c \in Clients : stage'[c] = stage[c] \/ {stage[c], stage'[c]} \cap {"open", "closed"} = {}

\* The queue does not see a client go through the handshakes.
LEMMA StatusesSame == ASSUME StagesKept PROVE Statuses' = Statuses
BY DEF StagesKept, Statuses

\* A step that leaves every queue alone.
LEMMA QueuesSame ==
  ASSUME StagesKept, UNCHANGED <<sent, handled>>, \A c \in Clients : Unhandled(c)' = Unhandled(c)
  PROVE  QueueSame
<1>1. Waiting' = Waiting
  BY DEF Waiting
<1> QED  BY <1>1, StatusesSame DEF QueueSame

\* Most steps touch nothing of the way.
LEMMA WayUntouched ==
  ASSUME StagesKept, UNCHANGED <<sent, handled, taken, channel, holding, wire>>
  PROVE  QueueSame
<1>1. \A c \in Clients : Unhandled(c)' = Unhandled(c)
  BY DEF Unhandled, Handling, Queued, Held, Unread
<1> QED  BY <1>1, QueuesSame

\* A connection is made.
LEMMA HandshakeOpens ==
  ASSUME QueueInv, NEW p \in Ports, NEW c \in Clients, WsHandshake(p, c)
  PROVE  Queue!Open(c) \/ QueueSame
<1>1. /\ stage[c] = "ws" /\ DOMAIN stage = Clients
      /\ stage' = [stage EXCEPT ![c] = "open"] \/ stage' = [stage EXCEPT ![c] = "refused"]
      /\ UNCHANGED <<sent, handled, taken, channel, holding, wire>>
  <2>1. DOMAIN stage = Clients
    BY DEF QueueInv, TypeInv, TransportTypeOK, ListenTypes
  <2> QED  BY <2>1 DEF WsHandshake, Refuse, wireVars, serverVars
<1>2. CASE stage' = [stage EXCEPT ![c] = "open"]
  <2>1. Statuses[c] = "fresh" /\ Statuses' = [Statuses EXCEPT ![c] = "open"]
    BY <1>1, <1>2 DEF Statuses
  <2>2. Waiting' = Waiting
    BY <1>1 DEF Waiting, Unhandled, Handling, Queued, Held, Unread
  <2> QED  BY <1>1, <2>1, <2>2 DEF Queue!Open
<1>3. CASE stage' = [stage EXCEPT ![c] = "refused"]
  <2>1. StagesKept
    BY <1>1, <1>3 DEF StagesKept
  <2> QED  BY <1>1, <2>1, WayUntouched
<1> QED  BY <1>1, <1>2, <1>3

\* A frame goes behind the others, or behind the first k of them.
LEMMA WireGrows ==
  ASSUME TypeInv, TypeInv', NEW c \in Clients, NEW f \in WireFrames, NEW k \in 0 .. Len(wire[c]),
         wire' = [wire EXCEPT ![c] = Append(SubSeq(wire[c], 1, k), f)],
         UNCHANGED <<handled, taken, channel, holding>>
  PROVE  /\ \A d \in Clients \ {c} : Unhandled(d)' = Unhandled(d)
         /\ \E s, t \in Seq(Reqs) : /\ Unhandled(c) = s \o t
                                    /\ Unhandled(c)' = s \o UnreadOf[f]
                                    /\ k = Len(wire[c]) => t = << >>
<1> DEFINE front == SubSeq(wire[c], 1, k)
           back  == SubSeq(wire[c], k + 1, Len(wire[c]))
           s     == Chained(Handling(c), Queued(c), Held(c), Gather(front, UnreadOf))
           t     == Gather(back, UnreadOf)
<1>1. PartsTyped(c) /\ PartsTyped(c)'
  BY PartsAre, NextPartsAre
<1>2. wire'[c] = Append(front, f) /\ \A d \in Clients \ {c} : wire'[d] = wire[d]
  BY DEF TypeInv, TransportTypeOK, SocketTypes
<1>3. \A d \in Clients \ {c} : Unhandled(d)' = Unhandled(d)
  <2>1. ASSUME NEW d \in Clients \ {c} PROVE Unread(d)' = Unread(d)
    BY <1>2 DEF Unread
  <2>2. \A d \in Clients : /\ Handling(d)' = Handling(d) /\ Queued(d)' = Queued(d)
                           /\ Held(d)' = Held(d)
    BY DEF Handling, Queued, Held
  <2> QED  BY <2>1, <2>2 DEF Unhandled
<1>4. /\ front \in Seq(WireFrames) /\ back \in Seq(WireFrames) /\ wire[c] = front \o back
      /\ k = Len(wire[c]) => back = << >>
  <2>1. wire[c] \in Seq(WireFrames)
    BY <1>1 DEF PartsTyped
  <2> QED  BY <2>1, SplitAt
<1> HIDE DEF front, back
<1>5. Unread(c) = Gather(front, UnreadOf) \o t /\ t \in Seq(Reqs) /\ Gather(front, UnreadOf) \in Seq(Reqs)
  <2>1. Gather(front \o back, UnreadOf) = Gather(front, UnreadOf) \o Gather(back, UnreadOf)
    BY <1>4, UnreadOfType, GatherConcat
  <2>2. Gather(front, UnreadOf) \in Seq(Reqs) /\ Gather(back, UnreadOf) \in Seq(Reqs)
    BY <1>4, UnreadOfType, GatherOf
  <2>3. Unread(c) = Gather(wire[c], UnreadOf)
    BY <1>1 DEF PartsTyped
  <2> QED  BY <1>4, <2>1, <2>2, <2>3
<1>6. Unread(c)' = Gather(front, UnreadOf) \o UnreadOf[f] /\ UnreadOf[f] \in Seq(Reqs)
  <2>1. Gather(Append(front, f), UnreadOf) = Gather(front, UnreadOf) \o UnreadOf[f]
    BY <1>4, UnreadOfType, GatherAppend
  <2>2. Unread(c)' = Gather(wire'[c], UnreadOf)
    BY <1>1 DEF PartsTyped
  <2> QED  BY <1>2, <2>1, <2>2, UnreadOfType
<1>7. k = Len(wire[c]) => t = << >>
  BY <1>4, GatherNone
<1>8. Handling(c)' = Handling(c) /\ Queued(c)' = Queued(c) /\ Held(c)' = Held(c)
  BY DEF Handling, Queued, Held
<1> DEFINE g == Gather(front, UnreadOf)
<1> HIDE DEF t, g
<1>9. /\ Movable(Handling(c), Queued(c), Held(c), g, t)
      /\ Movable(Handling(c), Queued(c), Held(c), g, UnreadOf[f])
      /\ Chained(Handling(c), Queued(c), Held(c), g) \in Seq(Reqs)
  BY <1>1, <1>5, <1>6, ChainedMoves DEF PartsTyped, g
<1>10. /\ Unhandled(c) = Chained(Handling(c), Queued(c), Held(c), g \o t)
       /\ Unhandled(c)' = Chained(Handling(c), Queued(c), Held(c), g \o UnreadOf[f])
  BY <1>1, <1>5, <1>6, <1>8 DEF PartsTyped, g
<1>11. Unhandled(c) = s \o t /\ Unhandled(c)' = s \o UnreadOf[f] /\ s \in Seq(Reqs)
  BY <1>9, <1>10 DEF Movable, g
<1> HIDE DEF s
<1> QED  BY <1>3, <1>5, <1>7, <1>11

\* The queues when that of one client has changed.
LEMMA OneQueueChanges ==
  ASSUME NEW c \in Clients, \A d \in Clients \ {c} : Unhandled(d)' = Unhandled(d)
  PROVE  Waiting[c] = Unhandled(c) /\ Waiting' = [Waiting EXCEPT ![c] = Unhandled(c)']
BY DEF Waiting

\* A frame is sent; what channel_loop is not told of does not count.
LEMMA FrameIsSend ==
  ASSUME QueueInv, TypeInv', NEW c \in Clients, NEW kind \in FrameKinds, SendFrame(c, kind)
  PROVE  kind \in FrameKinds \ {"close", "lost"} /\ Queue!Send(c, kind)
<1> DEFINE f == Frame(kind, sent[c] + 1)
           k == Len(wire[c])
<1>1. TypeInv /\ wire[c] \in Seq(WireFrames) /\ sent[c] \in Nat
  BY Comparable DEF QueueInv, WireFrames
<1>2. f \in WireFrames /\ f.kind = kind
  BY <1>1 DEF WireFrames, Frame
<1>3. k \in 0 .. Len(wire[c]) /\ SubSeq(wire[c], 1, k) = wire[c]
  <2>1. Len(wire[c]) \in Nat
    BY <1>1, PlacesFinite
  <2> QED  BY <1>1, <2>1, SubSeqFull
<1>4. /\ stage[c] = "open" /\ kind \notin {"close", "lost"}
      /\ wire' = [wire EXCEPT ![c] = Append(wire[c], f)]
      /\ sent' = [sent EXCEPT ![c] = sent[c] + 1]
      /\ UNCHANGED <<stage, handled, taken, channel, holding>>
  BY DEF SendFrame, listenVars, readVars, serverVars
<1> HIDE DEF f, k
<1>5. wire' = [wire EXCEPT ![c] = Append(SubSeq(wire[c], 1, k), f)]
  BY <1>3, <1>4
<1>6. /\ \A d \in Clients \ {c} : Unhandled(d)' = Unhandled(d)
      /\ \E s, t \in Seq(Reqs) : /\ Unhandled(c) = s \o t
                                 /\ Unhandled(c)' = s \o UnreadOf[f]
                                 /\ k = Len(wire[c]) => t = << >>
  BY <1>1, <1>2, <1>3, <1>4, <1>5, WireGrows
<1>7. PICK s \in Seq(Reqs) : Unhandled(c) = s /\ Unhandled(c)' = s \o UnreadOf[f]
  <2>1. PICK s \in Seq(Reqs), t \in Seq(Reqs) : /\ Unhandled(c) = s \o t
                                                /\ Unhandled(c)' = s \o UnreadOf[f]
                                                /\ k = Len(wire[c]) => t = << >>
    BY <1>6
  <2>2. s \o t = s
    BY <2>1, ConcatEmptySeq DEF k
  <2> QED  BY <2>1, <2>2
<1>8. Waiting[c] = s /\ Waiting' = [Waiting EXCEPT ![c] = s \o UnreadOf[f]]
  BY <1>6, <1>7, OneQueueChanges
<1>9. Statuses[c] = "open" /\ Statuses' = Statuses
  BY <1>4 DEF Statuses
<1>10. Waiting' = IF kind \in FrameKinds \ Forwarded THEN Waiting
                  ELSE [Waiting EXCEPT ![c] = Append(Waiting[c], [kind |-> kind, n |-> sent[c] + 1])]
  <2>1. CASE kind \in Forwarded
    <3>1. AsRequest(f) = [kind |-> kind, n |-> sent[c] + 1]
      BY <1>4 DEF AsRequest, f, Frame
    <3>2. UnreadOf[f] = << AsRequest(f) >> /\ AsRequest(f) \in Reqs
      BY <1>2, <2>1, RequestsOfFrames DEF UnreadOf, RequestIf
    <3>3. s \o << AsRequest(f) >> = Append(s, AsRequest(f))
      BY <3>2, AppendIsConcat
    <3> QED  BY <1>8, <2>1, <3>1, <3>2, <3>3
  <2>2. CASE kind \notin Forwarded
    <3>1. UnreadOf[f] = << >>
      BY <1>2, <2>2 DEF UnreadOf, RequestIf
    <3>2. s \o << >> = s
      BY ConcatEmptySeq
    <3>3. Waiting' = [Waiting EXCEPT ![c] = Waiting[c]]
      BY <1>8, <3>1, <3>2
    <3>4. Waiting' = Waiting
      BY <3>3 DEF Waiting
    <3> QED  BY <2>2, <3>4
  <2> QED  BY <2>1, <2>2
<1> QED  BY <1>4, <1>9, <1>10 DEF Queue!Send

\* The end of a connection, behind what is kept of the frames on the wire.
LEMMA LeaveIsClose ==
  ASSUME QueueInv, TypeInv', NEW c \in Clients, NEW kind \in {"close", "lost"},
         NEW k \in 0 .. Len(wire[c]), Leave(c, kind, k)
  PROVE  Queue!Close(c)
<1> DEFINE f   == Frame(kind, sent[c] + 1)
           end == [kind |-> "disconnect", n |-> sent[c] + 1]
<1>1. TypeInv /\ sent[c] \in Nat /\ DOMAIN stage = Clients
  BY Comparable DEF QueueInv, TypeInv, TransportTypeOK, ListenTypes
<1>2. f \in WireFrames /\ f.kind \in Forwarded /\ AsRequest(f) = end
  BY <1>1 DEF WireFrames, Frame, FrameKinds, Forwarded, AsRequest
<1>3. /\ stage[c] = "open" /\ stage' = [stage EXCEPT ![c] = "closed"]
      /\ wire' = [wire EXCEPT ![c] = Append(SubSeq(wire[c], 1, k), f)]
      /\ sent' = [sent EXCEPT ![c] = sent[c] + 1]
      /\ UNCHANGED <<handled, taken, channel, holding>>
  BY DEF Leave, readVars, serverVars
<1> HIDE DEF f, end
<1>4. /\ \A d \in Clients \ {c} : Unhandled(d)' = Unhandled(d)
      /\ \E s, t \in Seq(Reqs) : /\ Unhandled(c) = s \o t
                                 /\ Unhandled(c)' = s \o UnreadOf[f]
                                 /\ k = Len(wire[c]) => t = << >>
  <2>1. TypeInv /\ f \in WireFrames
    BY <1>1, <1>2
  <2>2. /\ wire' = [wire EXCEPT ![c] = Append(SubSeq(wire[c], 1, k), f)]
        /\ UNCHANGED <<handled, taken, channel, holding>>
    BY <1>3
  <2> QED  BY <2>1, <2>2, WireGrows
<1>5. PICK s \in Seq(Reqs), t \in Seq(Reqs) :
         Unhandled(c) = s \o t /\ Unhandled(c)' = s \o UnreadOf[f]
  BY <1>4
<1>6. Waiting[c] = s \o t /\ Waiting' = [Waiting EXCEPT ![c] = s \o UnreadOf[f]]
  BY <1>4, <1>5, OneQueueChanges
<1>7. s \o UnreadOf[f] = Append(s, end)
  <2>1. UnreadOf[f] = << end >> /\ end \in Reqs
    BY <1>2, RequestsOfFrames DEF UnreadOf, RequestIf
  <2> QED  BY <2>1, AppendIsConcat
<1>8. Len(s) \in 0 .. Len(s \o t) /\ SubSeq(s \o t, 1, Len(s)) = s
  <2>1. Len(s) <= Len(s \o t) /\ IsPrefix(s, s \o t)
    BY ConcatPrefix
  <2>2. Len(s) \in Nat /\ s \o t \in Seq(Reqs)
    BY PlacesFinite, ConcatProperties
  <2>3. Len(s \o t) \in Nat
    BY <2>2, PlacesFinite
  <2>4. SubSeq(s, 1, Len(s)) = s
    BY SubSeqFull
  <2> QED  BY <2>1, <2>2, <2>3, <2>4 DEF IsPrefix
<1>9. Statuses[c] = "open" /\ Statuses' = [Statuses EXCEPT ![c] = "closed"]
  BY <1>1, <1>3 DEF Statuses
<1> DEFINE u == s \o t
           m == Len(s)
<1>10. /\ Waiting[c] = u /\ m \in 0 .. Len(Waiting[c])
       /\ Waiting' = [Waiting EXCEPT ![c] = Append(SubSeq(u, 1, m), end)]
  BY <1>6, <1>7, <1>8
<1> HIDE DEF u, m
<1>11. \E kept \in 0 .. Len(Waiting[c]) :
          Waiting' = [Waiting EXCEPT ![c] = Append(SubSeq(Waiting[c], 1, kept), end)]
  BY <1>10
<1> QED  BY <1>3, <1>9, <1>11 DEF Queue!Close, end

\* client_loop takes a frame into its hand, or for nothing.
LEMMA TakingIsNothing ==
  ASSUME QueueInv, TypeInv', NEW c \in Clients, client_loop(c)
  PROVE  QueueSame
<1> DEFINE f == Head(wire[c])
<1>1. /\ TypeInv /\ wire[c] \in Seq(WireFrames) /\ wire[c] # << >>
      /\ f \in WireFrames /\ TakeFrame(c, f)
  BY Comparable, NextFrame DEF QueueInv, WireFrames, client_loop
<1>2. /\ reader[c] = "reading" /\ wire' = [wire EXCEPT ![c] = Tail(wire[c])]
      /\ UNCHANGED <<stage, sent, handled, taken, channel>>
  BY DEF client_loop, listenVars, serverVars
<1>3. /\ holding \in [Clients -> Messages \cup {Nothing}] /\ holding[c] = Nothing
      /\ DOMAIN wire = Clients
  BY <1>1, <1>2 DEF TypeInv, TransportTypeOK, ReaderTypes, SocketTypes
<1>4. /\ f.kind \in Forwarded => holding' = [holding EXCEPT ![c] = ServerMessage(c, f)]
      /\ f.kind \notin Forwarded => holding' = holding
  BY <1>1 DEF TakeFrame, Hold, Stopped, readVars, Forwarded, WireFrames, FrameKinds
<1>5. PartsTyped(c) /\ PartsTyped(c)'
  BY <1>1, PartsAre, NextPartsAre
<1> HIDE DEF f
<1>6. Unread(c) = UnreadOf[f] \o Unread(c)' /\ UnreadOf[f] \in Seq(Reqs)
  <2>1. Gather(wire[c], UnreadOf) = UnreadOf[f] \o Gather(Tail(wire[c]), UnreadOf)
    <3>1. wire[c] \in Seq(WireFrames) /\ wire[c] # << >>
      BY <1>1
    <3> DEFINE w == wire[c]
    <3> HIDE DEF w
    <3>2. w \in Seq(WireFrames) /\ w # << >>
      BY <3>1 DEF w
    <3>3. Gather(w, UnreadOf) = UnreadOf[Head(w)] \o Gather(Tail(w), UnreadOf)
      BY <3>2, UnreadOfType, GatherFirst
    <3> QED  BY <3>3 DEF w, f
  <2>2. Unread(c) = Gather(wire[c], UnreadOf) /\ Unread(c)' = Gather(wire'[c], UnreadOf)
    BY <1>5 DEF PartsTyped
  <2>3. wire'[c] = Tail(wire[c])
    BY <1>2, <1>3
  <2> QED  BY <1>1, <2>1, <2>2, <2>3, UnreadOfType
<1>7. Held(c) = << >>
  BY <1>3 DEF Held, RequestIf
<1>8. Held(c)' = UnreadOf[f]
  <2>1. CASE f.kind \in Forwarded
    <3> DEFINE m == ServerMessage(c, f)
    <3>1. holding'[c] = m
      BY <1>3, <1>4, <2>1
    <3>2. m # Nothing
      <4>1. m \in Messages
        BY <1>1, <2>1 DEF ServerMessage, Message, Messages, MessageKinds, Forwarded, WireFrames
      <4> QED  BY <4>1, MessagesAreSomething
    <3>3. AsRequest(m) = AsRequest(f)
      BY DEF AsRequest, ServerMessage, Message
    <3>4. Held(c)' = << AsRequest(m) >>
      BY <3>1, <3>2 DEF Held, RequestIf
    <3> QED  BY <1>1, <2>1, <3>3, <3>4 DEF UnreadOf, RequestIf
  <2>2. CASE f.kind \notin Forwarded
    <3>1. holding'[c] = Nothing
      BY <1>3, <1>4, <2>2
    <3> QED  BY <1>1, <2>2, <3>1 DEF Held, UnreadOf, RequestIf
  <2> QED  BY <2>1, <2>2
<1>9. Handling(c)' = Handling(c) /\ Queued(c)' = Queued(c)
  BY <1>2 DEF Handling, Queued
<1>10. Movable(Handling(c), Queued(c), << >>, Unread(c)', UnreadOf[f])
  <2>1. << >> \in Seq(Reqs)
    OBVIOUS
  <2>2. /\ Handling(c) \in Seq(Reqs) /\ Queued(c) \in Seq(Reqs) /\ Unread(c)' \in Seq(Reqs)
    BY <1>5 DEF PartsTyped
  <2> QED  BY <1>6, <2>1, <2>2, ChainedMoves
<1>11. Unhandled(c)' = Unhandled(c)
  <2>1. << >> \o UnreadOf[f] = UnreadOf[f]
    BY <1>6, ConcatEmptySeq
  <2>2. Chained(Handling(c), Queued(c), UnreadOf[f], Unread(c)')
           = Chained(Handling(c), Queued(c), << >>, UnreadOf[f] \o Unread(c)')
    BY <1>10, <2>1 DEF Movable
  <2>3. /\ Unhandled(c) = Chained(Handling(c), Queued(c), Held(c), Unread(c))
        /\ Unhandled(c)' = Chained(Handling(c)', Queued(c)', Held(c)', Unread(c)')
    BY <1>5 DEF PartsTyped
  <2> QED  BY <1>6, <1>7, <1>8, <1>9, <2>2, <2>3
<1>12. ASSUME NEW d \in Clients \ {c} PROVE Unhandled(d)' = Unhandled(d)
  <2>1. wire'[d] = wire[d] /\ holding'[d] = holding[d]
    BY <1>2, <1>3, <1>4
  <2>2. Handling(d)' = Handling(d) /\ Queued(d)' = Queued(d)
    BY <1>2 DEF Handling, Queued
  <2>3. Held(d)' = Held(d) /\ Unread(d)' = Unread(d)
    BY <2>1 DEF Held, Unread
  <2> QED  BY <2>2, <2>3 DEF Unhandled
<1>13. StagesKept
  BY <1>2 DEF StagesKept
<1> QED  BY <1>2, <1>11, <1>12, <1>13, QueuesSame

\* It puts what it holds behind the messages in the channel.
LEMMA ForwardingIsNothing ==
  ASSUME QueueInv, TypeInv', NEW c \in Clients, Forward(c)
  PROVE  QueueSame
<1> DEFINE m == holding[c]
<1>1. /\ TypeInv /\ m # Nothing /\ m \in Messages /\ channel \in Seq(Messages)
      /\ holding' = [holding EXCEPT ![c] = Nothing] /\ DOMAIN holding = Clients
      /\ channel' = Append(channel, m)
      /\ UNCHANGED <<stage, wire, sent, handled, taken>>
  BY DEF Forward, listenVars, wireVars, serverVars, QueueInv, TypeInv, TransportTypeOK, ReaderTypes,
         ChannelTypes
<1>2. m.cid = c
  BY <1>1 DEF QueueInv, OrderInv, FramesInOrder, HeldInOrder
<1> HIDE DEF m
<1>3. ASSUME NEW d \in Clients
      PROVE  Queued(d)' = Queued(d) \o QueuedOf(d)[m] /\ QueuedOf(d)[m] \in Seq(Reqs)
  <2>1. Gather(Append(channel, m), QueuedOf(d)) = Gather(channel, QueuedOf(d)) \o QueuedOf(d)[m]
    BY <1>1, QueuedOfType, GatherAppend
  <2>2. PartsTyped(d) /\ PartsTyped(d)'
    BY <1>1, PartsAre, NextPartsAre
  <2>3. Queued(d) = Gather(channel, QueuedOf(d)) /\ Queued(d)' = Gather(channel', QueuedOf(d))
    BY <2>2 DEF PartsTyped
  <2> QED  BY <1>1, <2>1, <2>3, QueuedOfType
<1>4. ASSUME NEW d \in Clients PROVE Handling(d)' = Handling(d) /\ Unread(d)' = Unread(d)
  BY <1>1 DEF Handling, Unread
<1>5. ASSUME NEW d \in Clients \ {c} PROVE Unhandled(d)' = Unhandled(d)
  <2>1. QueuedOf(d)[m] = << >>
    BY <1>1, <1>2 DEF QueuedOf, RequestIf
  <2>2. Queued(d) \in Seq(Reqs)
    BY <1>1, PartsAre DEF PartsTyped
  <2>3. Queued(d)' = Queued(d)
    BY <1>3, <2>1, <2>2, ConcatEmptySeq
  <2>4. Held(d)' = Held(d)
    BY <1>1 DEF Held
  <2> QED  BY <1>4, <2>3, <2>4 DEF Unhandled
<1>6. Unhandled(c)' = Unhandled(c)
  <2> DEFINE e == QueuedOf(c)[m]
  <2>1. Held(c) = e
    BY <1>1, <1>2 DEF Held, QueuedOf, RequestIf, m
  <2>2. Held(c)' = << >>
    BY <1>1 DEF Held, RequestIf
  <2>3. Queued(c)' = Queued(c) \o e /\ e \in Seq(Reqs)
    BY <1>3
  <2> HIDE DEF e
  <2>4. PartsTyped(c) /\ PartsTyped(c)'
    BY <1>1, PartsAre, NextPartsAre
  <2>5. Movable(Handling(c), Queued(c), << >>, Unread(c), e)
    <3>1. << >> \in Seq(Reqs)
      OBVIOUS
    <3>2. Handling(c) \in Seq(Reqs) /\ Queued(c) \in Seq(Reqs) /\ Unread(c) \in Seq(Reqs)
      BY <2>4 DEF PartsTyped
    <3> QED  BY <2>3, <3>1, <3>2, ChainedMoves
  <2>6. e \o << >> = e
    BY <2>3, ConcatEmptySeq
  <2>7. Chained(Handling(c), Queued(c) \o e, << >>, Unread(c))
           = Chained(Handling(c), Queued(c), e, Unread(c))
    BY <2>5, <2>6 DEF Movable
  <2>8. /\ Unhandled(c) = Chained(Handling(c), Queued(c), Held(c), Unread(c))
        /\ Unhandled(c)' = Chained(Handling(c)', Queued(c)', Held(c)', Unread(c)')
    BY <2>4 DEF PartsTyped
  <2> QED  BY <1>4, <2>1, <2>2, <2>3, <2>7, <2>8
<1>7. StagesKept
  BY <1>1 DEF StagesKept
<1> QED  BY <1>1, <1>5, <1>6, <1>7, QueuesSame

\* channel_loop takes the first message of the channel, which waits for the mutex.
LEMMA ReceivingIsNothing ==
  ASSUME QueueInv, TypeInv', Receive
  PROVE  QueueSame
<1> DEFINE m == Head(channel)
<1>1. /\ TypeInv /\ channel \in Seq(Messages) /\ channel # << >>
      /\ taken = Nothing /\ taken' = m /\ channel' = Tail(channel)
      /\ UNCHANGED <<stage, wire, sent, handled, holding>>
  BY DEF Receive, listenVars, wireVars, readVars, QueueInv, TypeInv, TransportTypeOK, ChannelTypes
<1>2. m \in Messages /\ m # Nothing /\ m = channel[1] /\ 1 \in DOMAIN channel
  <2>1. m \in Messages /\ m = channel[1] /\ 1 \in DOMAIN channel
    BY <1>1, TailOf
  <2> QED  BY <2>1, MessagesAreSomething
<1> HIDE DEF m
<1>3. ASSUME NEW c \in Clients PROVE Unhandled(c)' = Unhandled(c)
  <2> DEFINE e == QueuedOf(c)[m]
  <2>1. PartsTyped(c) /\ PartsTyped(c)'
    BY <1>1, PartsAre, NextPartsAre
  <2>2. Queued(c) = e \o Queued(c)' /\ e \in Seq(Reqs)
    <3>1. Gather(channel, QueuedOf(c)) = e \o Gather(Tail(channel), QueuedOf(c))
      BY <1>1, QueuedOfType, GatherFirst DEF m
    <3>2. Queued(c) = Gather(channel, QueuedOf(c)) /\ Queued(c)' = Gather(channel', QueuedOf(c))
      BY <2>1 DEF PartsTyped
    <3> QED  BY <1>1, <1>2, <3>1, <3>2, QueuedOfType
  <2>3. m.cid = c => m.n > handled[c]
    <3>1. ChannelInOrder(c)
      BY DEF QueueInv, OrderInv, FramesInOrder
    <3>2. m.cid = c => handled[c] < m.n
      BY <1>2, <3>1 DEF ChannelInOrder
    <3>3. m.n \in Nat /\ handled[c] \in Nat
      BY <1>1, <1>2, Comparable DEF Messages
    <3> QED  BY <3>2, <3>3
  <2>4. Handling(c) = << >>
    BY <1>1 DEF Handling, RequestIf
  <2>5. Handling(c)' = e
    BY <1>1, <1>2, <2>3 DEF Handling, RequestIf, QueuedOf
  <2>6. Held(c)' = Held(c) /\ Unread(c)' = Unread(c)
    BY <1>1 DEF Held, Unread
  <2> HIDE DEF e
  <2>7. Movable(<< >>, Queued(c)', Held(c), Unread(c), e)
    <3>1. << >> \in Seq(Reqs)
      OBVIOUS
    <3>2. Queued(c)' \in Seq(Reqs) /\ Held(c) \in Seq(Reqs) /\ Unread(c) \in Seq(Reqs)
      BY <2>1 DEF PartsTyped
    <3> QED  BY <2>2, <3>1, <3>2, ChainedMoves
  <2>8. << >> \o e = e
    BY <2>2, ConcatEmptySeq
  <2>9. Chained(e, Queued(c)', Held(c), Unread(c)) = Chained(<< >>, e \o Queued(c)', Held(c), Unread(c))
    BY <2>7, <2>8 DEF Movable
  <2>10. /\ Unhandled(c) = Chained(Handling(c), Queued(c), Held(c), Unread(c))
         /\ Unhandled(c)' = Chained(Handling(c)', Queued(c)', Held(c)', Unread(c)')
    BY <2>1 DEF PartsTyped
  <2> QED  BY <2>2, <2>4, <2>5, <2>6, <2>9, <2>10
<1>4. StagesKept
  BY <1>1 DEF StagesKept
<1> QED  BY <1>1, <1>3, <1>4, QueuesSame

\* A handler begins with the first request of its client.
LEMMA HandlingIsServe ==
  ASSUME QueueInv, TypeInv', Handle
  PROVE  taken.cid \in Clients /\ Queue!Serve(taken.cid)
<1>1. /\ TypeInv /\ alive /\ taken # Nothing /\ mutex = Free /\ taken \in Messages
      /\ handled' = [handled EXCEPT ![taken.cid] = taken.n] /\ handled \in [Clients -> Nat]
      /\ UNCHANGED <<stage, wire, sent, holding, channel, taken>>
  BY DEF Handle, listenVars, wireVars, readVars, QueueInv, TypeInv, TransportTypeOK, ServerTypes
<1>2. PICK c \in Clients, x \in Reqs : /\ c = taken.cid /\ x = AsRequest(taken)
                                       /\ taken.n \in Nat /\ x.n = taken.n
  BY <1>1, RequestsOfMessages DEF Messages
<1>3. handled[c] < taken.n
  BY <1>1, <1>2, Unlocked DEF QueueInv
<1>4. handled'[c] = taken.n /\ \A d \in Clients \ {c} : handled'[d] = handled[d]
  BY <1>1, <1>2
<1>5. Handling(c) = << x >> /\ Handling(c)' = << >>
  BY <1>1, <1>2, <1>3, <1>4 DEF Handling, RequestIf
<1>6. ASSUME NEW d \in Clients
      PROVE  Queued(d)' = Queued(d) /\ Held(d)' = Held(d) /\ Unread(d)' = Unread(d)
  BY <1>1 DEF Queued, Held, Unread
<1>7. ASSUME NEW d \in Clients \ {c} PROVE Unhandled(d)' = Unhandled(d)
  <2>1. Handling(d) = << >> /\ Handling(d)' = << >>
    BY <1>1, <1>2 DEF Handling, RequestIf
  <2> QED  BY <1>6, <2>1 DEF Unhandled
<1> DEFINE rest == Queued(c) \o (Held(c) \o Unread(c))
<1>8. rest \in Seq(Reqs)
  <2>1. Queued(c) \in Seq(Reqs) /\ Held(c) \in Seq(Reqs) /\ Unread(c) \in Seq(Reqs)
    BY <1>1, <1>2, PartsAre DEF PartsTyped
  <2>2. Held(c) \o Unread(c) \in Seq(Reqs)
    BY <2>1, ConcatProperties
  <2> QED  BY <2>1, <2>2, ConcatProperties
<1>9. Unhandled(c) = << x >> \o rest /\ Unhandled(c)' = << >> \o rest
  BY <1>2, <1>5, <1>6 DEF Unhandled
<1> HIDE DEF rest
<1>10. /\ Unhandled(c) # << >> /\ Head(Unhandled(c)) = x /\ Tail(Unhandled(c)) = rest
       /\ Unhandled(c)' = rest
  <2>1. << x >> \o rest # << >> /\ Head(<< x >> \o rest) = x /\ Tail(<< x >> \o rest) = rest
    BY <1>2, <1>8, FirstAndRest
  <2>2. << >> \o rest = rest
    BY <1>8, ConcatEmptySeq
  <2> QED  BY <1>9, <2>1, <2>2
<1>11. Waiting[c] = Unhandled(c) /\ Waiting' = [Waiting EXCEPT ![c] = Unhandled(c)']
  BY <1>2, <1>7, OneQueueChanges
<1>12. Statuses' = Statuses
  BY <1>1, StatusesSame DEF StagesKept
<1>13. handled' = [handled EXCEPT ![c] = taken.n] /\ handled[c] < handled'[c] /\ sent' = sent
  BY <1>1, <1>2, <1>3, <1>4
<1>14. /\ Waiting[c] # << >> /\ Head(Waiting[c]).n = taken.n
       /\ Waiting' = [Waiting EXCEPT ![c] = Tail(Waiting[c])]
  BY <1>2, <1>10, <1>11
<1>15. Queue!Serve(c)
  BY <1>12, <1>13, <1>14 DEF Queue!Serve
<1> QED  BY <1>2, <1>15

\* At its end nothing more is taken: the request was served when it began.
LEMMA ReleaseIsNothing ==
  ASSUME QueueInv, TypeInv', Release
  PROVE  QueueSame
<1>1. /\ taken' = IF mutex = <<"channel_loop">> THEN Nothing ELSE taken
      /\ UNCHANGED <<stage, wire, sent, handled, holding, channel>>
      /\ taken # Nothing => taken.n \in Nat /\ taken.cid \in Clients
      /\ handled \in [Clients -> Nat]
  BY DEF Release, listenVars, wireVars, readVars, QueueInv, TypeInv, TransportTypeOK, ServerTypes, Messages
<1>2. ASSUME NEW c \in Clients PROVE Handling(c)' = Handling(c)
  <2>1. CASE mutex = <<"channel_loop">>
    <3>1. ~(taken # Nothing /\ taken.cid = c /\ taken.n > handled[c])
      <4>1. taken.n <= handled[taken.cid] /\ taken.n \in Nat /\ handled[taken.cid] \in Nat
        BY <1>1, <2>1 DEF QueueInv, HolderServed
      <4> QED  BY <4>1
    <3>2. taken' = Nothing
      BY <1>1, <2>1
    <3> QED  BY <3>1, <3>2 DEF Handling, RequestIf
  <2>2. CASE mutex # <<"channel_loop">>
    BY <1>1, <2>2 DEF Handling
  <2> QED  BY <2>1, <2>2
<1>3. ASSUME NEW c \in Clients PROVE Unhandled(c)' = Unhandled(c)
  BY <1>1, <1>2 DEF Unhandled, Queued, Held, Unread
<1>4. StagesKept
  BY <1>1 DEF StagesKept
<1> QED  BY <1>1, <1>3, <1>4, QueuesSame

\* The handler that has the mutex stays the one that took it.
LEMMA HolderServedSame ==
  ASSUME HolderServed, mutex' = mutex \/ mutex' # <<"channel_loop">>, UNCHANGED <<taken, handled>>
  PROVE  HolderServed'
BY DEF HolderServed

\* Only Handle gives the mutex to channel_loop, and only Release takes the
\* message from it.
LEMMA HolderServedStep == ASSUME TypeInv, HolderServed, [Next]_vars PROVE HolderServed'
<1>1. ASSUME NEW c \in Clients, ClientStep(c) PROVE HolderServed'
  <2>1. UNCHANGED <<mutexVars, serverVars>>
    BY <1>1 DEF ClientStep, SendFrame, Leave, ReadSocket, FallSilent
  <2> QED  BY <2>1, HolderServedSame DEF mutexVars, serverVars
<1>2. ASSUME NEW c \in Clients, NEW p \in Ports, Connecting(p, c) \/ AcceptFails(p, c)
      PROVE  HolderServed'
  <2>1. UNCHANGED <<mutex, taken, handled>>
    BY <1>2 DEF Connecting, Accept, TlsHandshake, WsHandshake, Refuse, Insert, AcceptFails, mutexVars,
                serverVars
  <2> QED  BY <2>1, HolderServedSame
<1>3. ASSUME NEW c \in Clients,
             \/ client_loop(c) \/ Forward(c) \/ LoopTick(c) \/ LoopEnd(c)
      PROVE  HolderServed'
  BY <1>3, HolderServedSame DEF client_loop, Forward, LoopTick, LoopEnd, mutexVars, serverVars
<1>4. ASSUME NEW c \in Clients, update_new_client(c) \/ LoopRun(c) PROVE HolderServed'
  <2>1. mutex' = mutex \/ mutex' \in {<<"update_new_client", c>>, <<"broadcast_with_period", c>>}
    BY <1>4 DEF update_new_client, LoopRun, Lock, mutexVars
  <2>2. UNCHANGED <<taken, handled>>
    BY <1>4 DEF update_new_client, LoopRun, serverVars
  <2> QED  BY <2>1, <2>2, HolderServedSame
<1>5. CASE broadcast_loop \/ Work \/ UNCHANGED vars
  <2>1. mutex' = mutex \/ mutex' = <<"broadcast_loop">>
    BY <1>5 DEF broadcast_loop, Work, Lock, vars, mutexVars
  <2>2. UNCHANGED <<taken, handled>>
    BY <1>5 DEF broadcast_loop, Work, vars, serverVars
  <2> QED  BY <2>1, <2>2, HolderServedSame
<1>6. CASE Receive
  BY <1>6 DEF Receive, HolderServed, mutexVars
<1>7. CASE Handle
  <2>1. /\ taken # Nothing /\ taken' = taken /\ handled' = [handled EXCEPT ![taken.cid] = taken.n]
        /\ taken \in Messages \cup {Nothing} /\ handled \in [Clients -> Nat]
    BY <1>7 DEF Handle, TypeInv, TransportTypeOK, ServerTypes
  <2>2. handled'[taken.cid] = taken.n /\ taken.n \in Nat
    BY <2>1 DEF Messages
  <2> QED  BY <2>1, <2>2 DEF HolderServed
<1>8. CASE Release
  BY <1>8 DEF Release, HolderServed, Free
<1> QED  BY <1>1, <1>2, <1>3, <1>4, <1>5, <1>6, <1>7, <1>8 DEF Next

\* Every step of the transport is one of the queues, or none.
LEMMA StepInQueue ==
  ASSUME QueueInv, TypeInv', [Next]_vars
  PROVE  [Queue!InboundNext]_Queue!ivars
<1>1. QueueSame => UNCHANGED Queue!ivars
  BY DEF QueueSame, Queue!ivars
<1>2. ASSUME NEW c \in Clients, ClientStep(c)
      PROVE  (\E kind \in FrameKinds \ {"close", "lost"} : Queue!Send(c, kind))
             \/ Queue!Close(c) \/ QueueSame
  <2>1. CASE \E kind \in FrameKinds : SendFrame(c, kind)
    BY <2>1, FrameIsSend
  <2>2. CASE \E kind \in {"close", "lost"}, kept \in 0 .. Len(wire[c]) : Leave(c, kind, kept)
    BY <2>2, LeaveIsClose
  <2>3. CASE ReadSocket(c)
    <3>1. StagesKept /\ UNCHANGED <<sent, handled, taken, channel, holding, wire>>
      BY <2>3 DEF ReadSocket, listenVars, wireVars, readVars, serverVars, StagesKept
    <3> QED  BY <3>1, WayUntouched
  <2>4. CASE FallSilent(c)
    <3>1. DOMAIN stage = Clients
      BY DEF QueueInv, TypeInv, TransportTypeOK, ListenTypes
    <3>2. StagesKept /\ UNCHANGED <<sent, handled, taken, channel, holding, wire>>
      BY <2>4, <3>1 DEF FallSilent, wireVars, readVars, serverVars, StagesKept
    <3> QED  BY <3>2, WayUntouched
  <2> QED  BY <1>2, <2>1, <2>2, <2>3, <2>4 DEF ClientStep
<1>3. ASSUME NEW c \in Clients, NEW p \in Ports, Connecting(p, c) \/ AcceptFails(p, c)
      PROVE  Queue!Open(c) \/ QueueSame
  <2>1. CASE WsHandshake(p, c)
    BY <2>1, HandshakeOpens
  <2>2. CASE Accept(p, c) \/ TlsHandshake(p, c) \/ Insert(p, c) \/ AcceptFails(p, c)
    <3>1. DOMAIN stage = Clients
      BY DEF QueueInv, TypeInv, TransportTypeOK, ListenTypes
    <3>2. UNCHANGED <<sent, handled, taken, channel, holding, wire>>
      BY <2>2 DEF Accept, TlsHandshake, Insert, AcceptFails, wireVars, readVars, serverVars
    <3>3. StagesKept
      BY <2>2, <3>1 DEF Accept, TlsHandshake, Insert, AcceptFails, StagesKept
    <3> QED  BY <3>2, <3>3, WayUntouched
  <2> QED  BY <1>3, <2>1, <2>2 DEF Connecting
<1>4. ASSUME NEW c \in Clients, client_loop(c) \/ Forward(c) PROVE QueueSame
  BY <1>4, TakingIsNothing, ForwardingIsNothing
<1>5. ASSUME NEW c \in Clients, update_new_client(c) \/ LoopTick(c) \/ LoopRun(c) \/ LoopEnd(c)
      PROVE  QueueSame
  <2>1. StagesKept /\ UNCHANGED <<sent, handled, taken, channel, holding, wire>>
    BY <1>5 DEF update_new_client, LoopTick, LoopRun, LoopEnd, listenVars, wireVars, readVars,
                serverVars, StagesKept
  <2> QED  BY <2>1, WayUntouched
<1>6. CASE Work \/ broadcast_loop \/ UNCHANGED vars
  <2>1. StagesKept /\ UNCHANGED <<sent, handled, taken, channel, holding, wire>>
    BY <1>6 DEF Work, broadcast_loop, vars, listenVars, wireVars, readVars, serverVars, StagesKept
  <2> QED  BY <1>1, <2>1, WayUntouched
<1>7. CASE Receive \/ Release
  BY <1>1, <1>7, ReceivingIsNothing, ReleaseIsNothing
<1>8. CASE Handle
  <2>1. \E c \in Clients : Queue!Serve(c)
    BY <1>8, HandlingIsServe
  <2> QED  BY <2>1 DEF Queue!InboundNext
<1> HIDE DEF QueueSame
<1> QED  BY <1>1, <1>2, <1>3, <1>4, <1>5, <1>6, <1>7, <1>8 DEF Next, Queue!InboundNext

\* Nothing is on its way before the first connection.
LEMMA InitInQueue == Init => Queue!InboundInit /\ HolderServed
<1> SUFFICES ASSUME Init PROVE Queue!InboundInit /\ HolderServed
  OBVIOUS
<1>1. /\ stage = [c \in Clients |-> "backlog"] /\ wire = [c \in Clients |-> << >>]
      /\ sent = [c \in Clients |-> 0] /\ handled = [c \in Clients |-> 0]
      /\ holding = [c \in Clients |-> Nothing] /\ channel = << >> /\ taken = Nothing
      /\ mutex = Free
  BY DEF Init
<1>2. ASSUME NEW c \in Clients PROVE Unhandled(c) = << >>
  <2>1. /\ Queued(c) = Gather(<< >>, QueuedOf(c)) /\ Unread(c) = Gather(<< >>, UnreadOf)
    <3>1. PartsTyped(c)
      BY TypeInit, PartsAre
    <3> QED  BY <1>1, <3>1 DEF PartsTyped
  <2>2. Queued(c) = << >> /\ Unread(c) = << >>
    BY <2>1, GatherNone
  <2>3. Handling(c) = << >> /\ Held(c) = << >>
    BY <1>1 DEF Handling, Held, RequestIf
  <2>4. << >> \o << >> = << >>
    <3>1. << >> \in Seq(Reqs)
      OBVIOUS
    <3> QED  BY <3>1, ConcatEmptySeq
  <2> QED  BY <2>2, <2>3, <2>4 DEF Unhandled
<1>3. Waiting = [c \in Clients |-> << >>]
  BY <1>2 DEF Waiting
<1>4. Statuses = [c \in Clients |-> "fresh"]
  BY <1>1 DEF Statuses
<1>5. HolderServed
  BY <1>1 DEF HolderServed, Free
<1> QED  BY <1>1, <1>3, <1>4, <1>5 DEF Queue!InboundInit

\* Between the socket of a client and the handlers there is one queue: however
\* many tasks, a full channel and a busy mutex are between them, no request is
\* lost, repeated or overtaken, and the end of the connection comes last
\* (client_loop, client.rs; channel_loop, loop_.rs).
THEOREM TransportKeepsInbound == Spec => InboundKept
<1>1. Inv /\ HolderServed /\ [Next]_vars => HolderServed'
  BY HolderServedStep DEF Inv
<1>2. Inv /\ HolderServed /\ Inv' /\ [Next]_vars => [Queue!InboundNext]_Queue!ivars
  <2>1. Inv /\ HolderServed => QueueInv
    BY DEF Inv, QueueInv
  <2>2. Inv' => TypeInv'
    BY DEF Inv
  <2> QED  BY <2>1, <2>2, StepInQueue
<1> QED  BY <1>1, <1>2, InitInQueue, InvHolds, PTL DEF Spec, InboundKept, Queue!InboundSpec

==============================================================================
