---------------------------- MODULE NT4ViewProofs ----------------------------
(***************************************************************************)
(* What clients believe of the topics, for any number of both: that they   *)
(* come to have the server's own table, that the values they are sent bear *)
(* the ids they know by then, and that what they send with an id reaches   *)
(* the topic they mean.  Hence the server implements the directory.        *)
(***************************************************************************)
EXTENDS NT4SubsProofs

----------------------------------------------------------------------------
(* The inductive invariant                                                 *)

\* An id that a client takes for the topic's is this topic's, or nobody's.
MayName(c, id, name) ==
    /\ id \in Nat /\ id < next_pub_id[c]
    /\ \A m \in DOMAIN pub_ids[c] : pub_ids[c][m] = id => m = name

\* If it is the topic's, the type that the client takes it to have is, too.
MayHave(c, id, name, type) ==
    /\ MayName(c, id, name)
    /\ \A m \in DOMAIN pub_ids[c] : pub_ids[c][m] = id => entry_type(entries[m]) = type

\* So it is with all that a client has read or is being told of the topics, and
\* with the ids in its requests.
ViewHolds(c, known) ==
    \A n \in DOMAIN known : MayHave(c, known[n].id, n, known[n].type)
MessageHolds(c, msg) ==
    msg.kind = "announce" => MayHave(c, msg.id, msg.name, msg.type)
RequestHolds(c, req) ==
    /\ req.kind = "value"     => MayHave(c, req.id, req.name, req.value.type)
    /\ req.kind = "getvalues" => MayName(c, req.id, req.name)

BeliefsHold ==
    \A c \in clients :
        /\ ViewHolds(c, view[c])
        /\ \A i \in DOMAIN outbox[c]  : MessageHolds(c, outbox[c][i])
        /\ \A i \in DOMAIN inbound[c] : RequestHolds(c, inbound[c][i])

\* A client that is yet to be inserted was told of no topic, and has sent no id.
Unaware(c) ==
    /\ view[c] = Empty
    /\ \A i \in DOMAIN outbox[c]  : outbox[c][i] = TimeMsg
    /\ \A i \in DOMAIN inbound[c] : inbound[c][i].kind \notin {"value", "getvalues"}

Newcomers ==
    \A c \in Clients \ clients : conn[c] # "closed" \/ c \in accepting => Unaware(c)

\* A connection is accepted and then inserted, and it is removed at its end only.
Connections ==
    \A c \in Clients :
        /\ conn[c] = "fresh" => c \notin accepting \cup clients
        /\ conn[c] = "open"  => c \in accepting \cup clients
        /\ c \in accepting   => c \notin clients
        /\ \A i \in DOMAIN inbound[c] : inbound[c][i].kind = "disconnect" => conn[c] = "closed"

\* The server's table for a client.
Table(c) ==
    [n \in DOMAIN pub_ids[c] |-> [id |-> pub_ids[c][n], type |-> entry_type(entries[n])]]

\* Messages that bear the ids known when they are read, in their order.
Follow(known, msgs) ==
    \A i \in DOMAIN msgs :
        LET now == Replay(known, SubSeq(msgs, 1, i - 1))
        IN  msgs[i].kind = "value" =>
              msgs[i].name \in DOMAIN now /\ now[msgs[i].name].id = msgs[i].id

ViewInv == BeliefsHold /\ Newcomers /\ Connections /\ ViewsCatchUp /\ ValuesFollowAnnouncements

----------------------------------------------------------------------------
(* Messages in a row                                                       *)

\* What comes after messages that were read is read with what they taught.
LEMMA FollowConcat ==
  ASSUME NEW S, NEW known, NEW s \in Seq(S), NEW t \in Seq(S),
         Follow(known, s), Follow(Replay(known, s), t)
  PROVE  Follow(known, s \o t)
<1> DEFINE st == s \o t
<1>1. /\ st \in Seq(S) /\ Len(s) \in Nat /\ Len(t) \in Nat /\ Len(st) = Len(s) + Len(t)
      /\ \A i \in 1 .. Len(s) : st[i] = s[i]
      /\ \A i \in 1 .. Len(t) : st[Len(s) + i] = t[i]
  BY ConcatOf
<1>2. DOMAIN st = 1 .. Len(s) + Len(t) /\ DOMAIN s = 1 .. Len(s) /\ DOMAIN t = 1 .. Len(t)
  BY <1>1, LenProperties
<1>3. ASSUME NEW i \in 1 .. Len(s) PROVE SubSeq(st, 1, i - 1) = SubSeq(s, 1, i - 1)
  <2>1. CASE i = 1
    BY <2>1, SubSeqEmpty
  <2>2. CASE i # 1
    <3>1. 1 \in 1 .. Len(s) /\ i - 1 \in 1 .. Len(s)
      BY <1>1, <2>2
    <3> QED  BY <3>1, SubSeqOfConcat1
  <2> QED  BY <2>1, <2>2
<1>4. SubSeq(st, 1, Len(s)) = s
  <2>1. CASE Len(s) = 0
    <3>1. s = << >>
      BY <2>1, EmptySeq
    <3> QED  BY <2>1, <3>1, SubSeqEmpty
  <2>2. CASE Len(s) # 0
    <3>1. 1 \in 1 .. Len(s) /\ Len(s) \in 1 .. Len(s)
      BY <1>1, <2>2
    <3>2. SubSeq(st, 1, Len(s)) = SubSeq(s, 1, Len(s))
      BY <3>1, SubSeqOfConcat1
    <3> QED  BY <3>2, SubSeqFull
  <2> QED  BY <2>1, <2>2
<1>5. ASSUME NEW k \in 1 .. Len(t)
      PROVE  /\ SubSeq(st, 1, Len(s) + k - 1) = s \o SubSeq(t, 1, k - 1)
             /\ SubSeq(t, 1, k - 1) \in Seq(S)
  <2>1. SubSeq(st, Len(s) + 1, Len(s) + k - 1) = SubSeq(t, 1, k - 1)
    <3>1. CASE k = 1
      <4>1. Len(s) + k - 1 \in Int /\ Len(s) + 1 \in Int /\ Len(s) + k - 1 < Len(s) + 1
            /\ k - 1 < 1 /\ k - 1 \in Int
        BY <1>1, <3>1
      <4>2. SubSeq(st, Len(s) + 1, Len(s) + k - 1) = << >>
        BY <4>1, SubSeqEmpty
      <4>3. SubSeq(t, 1, k - 1) = << >>
        BY <4>1, SubSeqEmpty
      <4> QED  BY <4>2, <4>3
    <3>2. CASE k # 1
      <4> DEFINE a == Len(s) + 1
                 b == Len(s) + k - 1
      <4>1. /\ a \in Len(s) + 1 .. Len(s) + Len(t) /\ b \in Len(s) + 1 .. Len(s) + Len(t)
            /\ a - Len(s) = 1 /\ b - Len(s) = k - 1
        BY <1>1, <3>2
      <4> HIDE DEF a, b
      <4>2. SubSeq(st, a, b) = SubSeq(t, a - Len(s), b - Len(s))
        BY <4>1, SubSeqOfConcat2
      <4> QED  BY <4>1, <4>2 DEF a, b
    <3> QED  BY <3>1, <3>2
  <2>2. SubSeq(st, 1, Len(s)) \o SubSeq(st, Len(s) + 1, Len(s) + k - 1) = SubSeq(st, 1, Len(s) + k - 1)
    <3>1. 1 \in 1 .. Len(st) + 1 /\ Len(s) \in 1 - 1 .. Len(st) /\ Len(s) + k - 1 \in Len(s) .. Len(st)
      BY <1>1
    <3> HIDE DEF st
    <3> QED  BY <1>1, <3>1, ConcatAdjacentSubSeq
  <2>3. SubSeq(t, 1, k - 1) \in Seq(S)
    <3>1. 1 \in Int /\ k - 1 \in Int /\ \A i \in 1 .. k - 1 : t[i] \in S
      BY <1>1, <1>2, PlacesFinite
    <3> QED  BY <3>1, SubSeqProperties
  <2> QED  BY <1>4, <2>1, <2>2, <2>3
<1> HIDE DEF st
<1>6. ASSUME NEW i \in DOMAIN st, st[i].kind = "value"
      PROVE  /\ st[i].name \in DOMAIN Replay(known, SubSeq(st, 1, i - 1))
             /\ Replay(known, SubSeq(st, 1, i - 1))[st[i].name].id = st[i].id
  <2>1. CASE i \in 1 .. Len(s)
    BY <1>1, <1>2, <1>3, <1>6, <2>1 DEF Follow
  <2>2. CASE i \notin 1 .. Len(s)
    <3> DEFINE k == i - Len(s)
    <3>1. k \in 1 .. Len(t) /\ Len(s) + k = i /\ Len(s) + k - 1 = i - 1
      BY <1>1, <1>2, <2>2
    <3> HIDE DEF k
    <3>2. st[i] = t[k] /\ SubSeq(st, 1, i - 1) = s \o SubSeq(t, 1, k - 1)
      BY <1>1, <1>5, <3>1
    <3>3. Replay(known, SubSeq(st, 1, i - 1)) = Replay(Replay(known, s), SubSeq(t, 1, k - 1))
      <4> DEFINE u == SubSeq(t, 1, k - 1)
      <4>1. u \in Seq(S) /\ SubSeq(st, 1, i - 1) = s \o u
        BY <1>5, <3>1, <3>2
      <4> HIDE DEF u
      <4>2. Replay(known, s \o u) = Replay(Replay(known, s), u)
        BY <4>1, ReplayConcat
      <4> QED  BY <4>1, <4>2 DEF u
    <3> QED  BY <1>2, <1>6, <3>1, <3>2, <3>3 DEF Follow
  <2> QED  BY <2>1, <2>2
<1> QED  BY <1>6 DEF Follow, st

\* Values with ids that are known follow, if there is no news among them.
LEMMA FollowSilent ==
  ASSUME NEW S, NEW known, NEW msgs \in Seq(S), \A msg \in S : ~IsNews(msg),
         \A msg \in S : msg.kind = "value" =>
            msg.name \in DOMAIN known /\ known[msg.name].id = msg.id
  PROVE  Follow(known, msgs)
<1>1. Len(msgs) \in Nat /\ DOMAIN msgs = 1 .. Len(msgs) /\ \A i \in DOMAIN msgs : msgs[i] \in S
  BY PlacesFinite
<1>2. ASSUME NEW i \in DOMAIN msgs PROVE Replay(known, SubSeq(msgs, 1, i - 1)) = known
  <2>1. 1 \in Int /\ i - 1 \in Int /\ \A j \in 1 .. i - 1 : msgs[j] \in S
    BY <1>1
  <2>2. SubSeq(msgs, 1, i - 1) \in Seq(S)
    BY <2>1, SubSeqProperties
  <2> QED  BY <2>2, ReplaySilent
<1> QED  BY <1>1, <1>2 DEF Follow

\* What is said of the values of the messages to clients.
LEMMA ValuesFollowIs ==
  ValuesFollowAnnouncements <=> \A c \in Clients : Reachable(c) => Follow(view[c], outbox[c])
  BY DEF ValuesFollowAnnouncements, Follow

----------------------------------------------------------------------------
(* Beliefs                                                                 *)

\* A topic whose id a client keeps has its type still.
TypesStay(c) ==
    \A n \in DOMAIN pub_ids'[c] :
        n \in DOMAIN pub_ids[c] /\ pub_ids'[c][n] = pub_ids[c][n] =>
            entry_type(entries'[n]) = entry_type(entries[n])

\* What an id may mean it may mean after a step, for a step only brings new ids.
LEMMA MeaningStays ==
  ASSUME IInv, IInv', IdsAdvance, NEW c \in clients, c \in clients', TypesStay(c),
         NEW id, NEW name, MayName(c, id, name)
  PROVE  /\ MayName(c, id, name)'
         /\ \A type : MayHave(c, id, name, type) => MayHave(c, id, name, type)'
<1>1. /\ next_pub_id[c] \in Nat /\ next_pub_id'[c] \in Nat /\ next_pub_id'[c] >= next_pub_id[c]
      /\ \A n \in DOMAIN pub_ids'[c] : pub_ids'[c][n] \in Nat
  <2>1. /\ c \in Clients /\ next_pub_id \in [Clients -> Nat] /\ next_pub_id' \in [Clients -> Nat]
        /\ IsMap(pub_ids'[c], Names, Nat)
    BY DEF IInv, DirectoryInv, DirectoryTypes
  <2> QED  BY <2>1 DEF IdsAdvance, IsMap
<1>2. id \in Nat /\ id < next_pub_id[c] /\ id < next_pub_id'[c]
  BY <1>1 DEF MayName
<1>3. ASSUME NEW n \in DOMAIN pub_ids'[c], pub_ids'[c][n] = id
      PROVE  /\ n \in DOMAIN pub_ids[c] /\ pub_ids[c][n] = id
             /\ entry_type(entries'[n]) = entry_type(entries[n])
  <2>1. ~(pub_ids'[c][n] >= next_pub_id[c])
    BY <1>1, <1>2, <1>3
  <2> QED  BY <1>3, <2>1 DEF IdsAdvance, TypesStay
<1>4. MayName(c, id, name)'
  BY <1>2, <1>3 DEF MayName
<1> QED  BY <1>3, <1>4 DEF MayHave

\* So beliefs hold as long as what is new among messages and requests does.
LEMMA BeliefsStay ==
  ASSUME IInv, IInv', IdsAdvance, BeliefsHold, clients' \subseteq clients,
         \A c \in clients' :
            /\ TypesStay(c)
            /\ view'[c] = view[c]
            /\ \A i \in DOMAIN outbox'[c] :
                  \/ \E j \in DOMAIN outbox[c] : outbox'[c][i] = outbox[c][j]
                  \/ MessageHolds(c, outbox[c][i])'
            /\ \A i \in DOMAIN inbound'[c] :
                  \/ \E j \in DOMAIN inbound[c] : inbound'[c][i] = inbound[c][j]
                  \/ RequestHolds(c, inbound[c][i])'
  PROVE  BeliefsHold'
<1> SUFFICES ASSUME NEW c \in clients'
             PROVE  /\ ViewHolds(c, view[c])'
                    /\ \A i \in DOMAIN outbox'[c]  : MessageHolds(c, outbox[c][i])'
                    /\ \A i \in DOMAIN inbound'[c] : RequestHolds(c, inbound[c][i])'
  BY DEF BeliefsHold
<1>1. c \in clients /\ TypesStay(c)
  OBVIOUS
<1>2. \A id, name : MayName(c, id, name) =>
         /\ MayName(c, id, name)'
         /\ \A type : MayHave(c, id, name, type) => MayHave(c, id, name, type)'
  BY <1>1, MeaningStays
<1>3. \A id, name, type : MayHave(c, id, name, type) => MayHave(c, id, name, type)'
  BY <1>2 DEF MayHave
<1>4. ViewHolds(c, view[c])'
  BY <1>1, <1>3 DEF BeliefsHold, ViewHolds
<1>5. ASSUME NEW i \in DOMAIN outbox'[c] PROVE MessageHolds(c, outbox[c][i])'
  <2>1. CASE \E j \in DOMAIN outbox[c] : outbox'[c][i] = outbox[c][j]
    BY <1>1, <1>3, <2>1 DEF BeliefsHold, MessageHolds
  <2> QED  BY <2>1
<1>6. ASSUME NEW i \in DOMAIN inbound'[c] PROVE RequestHolds(c, inbound[c][i])'
  <2>1. CASE \E j \in DOMAIN inbound[c] : inbound'[c][i] = inbound[c][j]
    BY <1>1, <1>2, <1>3, <2>1 DEF BeliefsHold, RequestHolds
  <2> QED  BY <2>1
<1> QED  BY <1>4, <1>5, <1>6

----------------------------------------------------------------------------
(* Steps of the server                                                     *)

\* A step tells c something that makes up for what it does to c's table.
Told(c, msgs) ==
    /\ msgs \in Seq(Messages) /\ Gets(c, msgs)
    /\ \A i \in DOMAIN msgs : MessageHolds(c, msgs[i])'
    /\ Reachable(c) => Replay(Table(c), msgs) = Table(c)' /\ Follow(Table(c), msgs)

\* Requests are only taken.
RequestsTaken ==
    \A c \in Clients : \A i \in DOMAIN inbound'[c] :
        \E j \in DOMAIN inbound[c] : inbound'[c][i] = inbound[c][j]

\* A step that tells every client so keeps the invariant.
LEMMA ToldKeeps ==
  ASSUME IInv, SubsInv, ViewInv, IInv', IdsAdvance, UNCHANGED <<accepting, clientVars>>,
         RequestsTaken,
         clients' \subseteq clients, \A c \in clients \ clients' : conn[c] = "closed",
         \A c \in clients' : TypesStay(c) /\ \E msgs : Told(c, msgs),
         \A c \in Clients \ clients : \E msgs \in Seq({TimeMsg}) : Gets(c, msgs)
  PROVE  ViewInv'
<1>1. /\ clients \subseteq Clients /\ outbox \in [Clients -> Seq(Messages)]
      /\ UNCHANGED <<accepting, conn, view>>
  BY DEF IInv, DirectoryInv, DirectoryTypes, SubsInv, TaskTypes, clientVars
<1>2. ASSUME NEW c \in clients', NEW i \in DOMAIN outbox'[c]
      PROVE  \/ \E j \in DOMAIN outbox[c] : outbox'[c][i] = outbox[c][j]
             \/ MessageHolds(c, outbox[c][i])'
  <2>1. PICK msgs : Told(c, msgs)
    OBVIOUS
  <2>2. outbox[c] \in Seq(Messages) /\ msgs \in Seq(Messages)
    BY <1>1, <2>1 DEF Told
  <2>3. CASE outbox'[c] = outbox[c]
    BY <2>3
  <2>4. CASE outbox'[c] = outbox[c] \o msgs
    <3>1. /\ Len(outbox[c]) \in Nat /\ Len(msgs) \in Nat
          /\ DOMAIN outbox[c] = 1 .. Len(outbox[c]) /\ DOMAIN msgs = 1 .. Len(msgs)
      BY <2>2, LenProperties
    <3>2. /\ outbox'[c] \in Seq(Messages) /\ Len(outbox'[c]) = Len(outbox[c]) + Len(msgs)
          /\ \A j \in 1 .. Len(outbox[c]) : outbox'[c][j] = outbox[c][j]
          /\ \A j \in 1 .. Len(msgs) : outbox'[c][Len(outbox[c]) + j] = msgs[j]
      BY <2>2, <2>4, ConcatOf
    <3>3. DOMAIN outbox'[c] = 1 .. Len(outbox[c]) + Len(msgs)
      BY <3>2, LenProperties
    <3>4. CASE i \in DOMAIN outbox[c]
      BY <3>1, <3>2, <3>4
    <3>5. CASE i \notin DOMAIN outbox[c]
      <4>1. PICK j \in 1 .. Len(msgs) : Len(outbox[c]) + j = i
        <5>1. i - Len(outbox[c]) \in 1 .. Len(msgs) /\ Len(outbox[c]) + (i - Len(outbox[c])) = i
          BY <3>1, <3>3, <3>5
        <5> QED  BY <5>1
      <4>2. outbox'[c][i] = msgs[j]
        BY <3>2, <4>1
      <4>3. MessageHolds(c, msgs[j])'
        BY <2>1, <3>1, <4>1 DEF Told
      <4> QED  BY <4>2, <4>3 DEF MessageHolds
    <3> QED  BY <3>4, <3>5
  <2> QED  BY <2>1, <2>3, <2>4 DEF Told, Gets
<1>3. BeliefsHold'
  <2>1. \A c \in clients' : \A i \in DOMAIN inbound'[c] :
           \E j \in DOMAIN inbound[c] : inbound'[c][i] = inbound[c][j]
    BY <1>1 DEF RequestsTaken
  <2> QED  BY <1>1, <1>2, <2>1, BeliefsStay DEF ViewInv
<1>4. Connections'
  BY <1>1 DEF ViewInv, Connections, RequestsTaken
<1>5. Newcomers'
  <2> SUFFICES ASSUME NEW c \in Clients \ clients', conn[c] # "closed" \/ c \in accepting
               PROVE  Unaware(c)'
    BY <1>1 DEF Newcomers
  <2>1. c \in Clients \ clients
    BY DEF ViewInv, Connections
  <2>2. Unaware(c)
    BY <2>1 DEF ViewInv, Newcomers
  <2>3. \A i \in DOMAIN inbound'[c] : inbound'[c][i].kind \notin {"value", "getvalues"}
    BY <2>2 DEF Unaware, RequestsTaken
  <2>4. \A i \in DOMAIN outbox'[c] : outbox'[c][i] = TimeMsg
    <3>1. PICK msgs \in Seq({TimeMsg}) : Gets(c, msgs)
      BY <2>1
    <3>2. outbox[c] \in Seq({TimeMsg})
      <4>1. /\ Len(outbox[c]) \in Nat /\ DOMAIN outbox[c] = 1 .. Len(outbox[c])
            /\ outbox[c] = [i \in 1 .. Len(outbox[c]) |-> outbox[c][i]]
        BY <1>1, LenProperties
      <4>2. outbox[c] \in [1 .. Len(outbox[c]) -> {TimeMsg}]
        BY <2>2, <4>1 DEF Unaware
      <4> QED  BY <4>1, <4>2
    <3>3. outbox'[c] \in Seq({TimeMsg})
      BY <3>1, <3>2, ConcatProperties DEF Gets
    <3> QED  BY <3>3, PlacesFinite
  <2> QED  BY <1>1, <2>2, <2>3, <2>4 DEF Unaware
<1>6. ASSUME NEW c \in clients', conn[c] = "open"
      PROVE  WillKnow(c)' = Table(c)' /\ Follow(view[c], outbox[c])'
  <2>1. PICK msgs : Told(c, msgs)
    OBVIOUS
  <2>2. Reachable(c) /\ c \in Clients
    BY <1>1, <1>6 DEF Reachable
  <2>3. /\ msgs \in Seq(Messages) /\ outbox[c] \in Seq(Messages) /\ outbox'[c] = outbox[c] \o msgs
        /\ Replay(Table(c), msgs) = Table(c)' /\ Follow(Table(c), msgs) /\ view'[c] = view[c]
    BY <1>1, <1>6, <2>1, <2>2 DEF Told, Gets
  <2>4. Replay(view[c], outbox[c]) = Table(c) /\ Follow(view[c], outbox[c])
    BY <2>2, ValuesFollowIs DEF ViewInv, ViewsCatchUp, WillKnow, Table
  <2> DEFINE table == Table(c)
             known == view[c]
             old   == outbox[c]
  <2>5. /\ old \in Seq(Messages) /\ Replay(known, old) = table /\ Follow(known, old)
        /\ Follow(table, msgs)
    BY <2>3, <2>4
  <2> HIDE DEF table, known, old
  <2>6. Replay(known, old \o msgs) = Replay(table, msgs)
    BY <2>3, <2>5, ReplayConcat
  <2>7. Follow(known, old \o msgs)
    BY <2>3, <2>5, FollowConcat
  <2> QED  BY <2>3, <2>6, <2>7 DEF table, known, old, WillKnow, Follow
<1>7. ViewsCatchUp'
  BY <1>1, <1>6 DEF ViewsCatchUp, Table, Reachable
<1>8. ValuesFollowAnnouncements'
  BY <1>1, <1>6, ValuesFollowIs DEF Reachable, ValuesFollowAnnouncements, Follow
<1> QED  BY <1>3, <1>4, <1>5, <1>7, <1>8 DEF ViewInv

\* Values and times tell a client whose table stays what it knows already.
LEMMA CurrentTold ==
  ASSUME NEW c, NEW msgs \in Seq(Current(c)), Gets(c, msgs), pub_ids'[c] = pub_ids[c],
         \A n \in DOMAIN pub_ids[c] : entry_type(entries'[n]) = entry_type(entries[n])
  PROVE  Told(c, msgs) /\ TypesStay(c)
<1>1. /\ Current(c) \subseteq Messages /\ \A msg \in Current(c) : ~IsNews(msg)
      /\ \A i \in DOMAIN msgs : msgs[i] \in Current(c)
  BY CurrentMessages, PlacesFinite
<1>2. msgs \in Seq(Messages)
  BY <1>1, SeqMonotonic
<1>3. \A i \in DOMAIN msgs : MessageHolds(c, msgs[i])'
  BY <1>1 DEF MessageHolds, IsNews
<1>4. Table(c)' = Table(c)
  BY DEF Table
<1> DEFINE table == Table(c)
<1>5. \A msg \in Current(c) : msg.kind = "value" =>
         msg.name \in DOMAIN table /\ table[msg.name].id = msg.id
  BY DEF Current, Table, Known, lookup_id, TimeMsg
<1> HIDE DEF table
<1>6. Replay(table, msgs) = table
  BY <1>1, ReplaySilent
<1>7. Follow(table, msgs)
  BY <1>1, <1>5, FollowSilent
<1>8. TypesStay(c)
  BY DEF TypesStay
<1> QED  BY <1>2, <1>3, <1>4, <1>6, <1>7, <1>8 DEF Told, table

\* To a client that is not inserted, only times are sent.
LEMMA StrangersTold ==
  ASSUME IInv, NEW c \in Clients \ clients, NEW msgs \in Seq(Current(c))
  PROVE  msgs \in Seq({TimeMsg})
<1>1. \A name : ~Known(c, name)
  BY DEF IInv, DirectoryInv, Strangers, Known
<1>2. Current(c) \subseteq {TimeMsg}
  BY <1>1 DEF Current
<1> QED  BY <1>2, SeqMonotonic

\* A quiet step that leaves the topics, their types and the ids alone.
LEMMA QuietKeepsViews ==
  ASSUME IInv, SubsInv, ViewInv, IInv', IdsAdvance, Quiet, RequestsTaken,
         UNCHANGED <<clients, pub_ids, accepting, clientVars>>,
         \A n \in DOMAIN entries : entry_type(entries'[n]) = entry_type(entries[n])
  PROVE  ViewInv'
<1>1. clients \subseteq Clients /\ \A c \in clients : DOMAIN pub_ids[c] \subseteq DOMAIN entries
  BY DEF IInv, DirectoryInv, DirectoryTypes, AnnouncedMatchEntries
<1>2. ASSUME NEW c \in clients PROVE TypesStay(c) /\ \E msgs : Told(c, msgs)
  <2>1. PICK msgs \in Seq(Current(c)) : Gets(c, msgs)
    BY <1>1 DEF Quiet
  <2>2. pub_ids'[c] = pub_ids[c]
    OBVIOUS
  <2>3. \A n \in DOMAIN pub_ids[c] : entry_type(entries'[n]) = entry_type(entries[n])
    BY <1>1
  <2> QED  BY <2>1, <2>2, <2>3, CurrentTold
<1>3. ASSUME NEW c \in Clients \ clients PROVE \E msgs \in Seq({TimeMsg}) : Gets(c, msgs)
  BY StrangersTold DEF Quiet
<1> QED  BY <1>2, <1>3, ToldKeeps

\* A publication gives every client's table the topic, under a new id.
LEMMA PublishKeepsViews ==
  ASSUME IInv, SubsInv, ViewInv, IInv', IdsAdvance, RequestsTaken,
         UNCHANGED <<accepting, clientVars>>,
         NEW c \in Clients, NEW req, req.name \in Names, HandlePublish(c, req)
  PROVE  ViewInv'
<1> DEFINE name == req.name
<1>1. /\ clients \subseteq Clients /\ clients' = clients
      /\ \A d \in clients : /\ DOMAIN pub_ids[d] \subseteq DOMAIN entries
                            /\ next_pub_id[d] \in Nat
                            /\ \A n \in DOMAIN pub_ids[d] : /\ pub_ids[d][n] \in Nat
                                                            /\ pub_ids[d][n] < next_pub_id[d]
  <2>1. clients \subseteq Clients /\ clients' = clients
    BY DEF IInv, DirectoryInv, DirectoryTypes, HandlePublish
  <2> QED  BY <2>1 DEF IInv, DirectoryInv, DirectoryTypes, AnnouncedMatchEntries, IdsFresh, IsMap
<1>2. /\ IsMap(entries', Names, Topics) /\ name \in DOMAIN entries' /\ AnnounceToAll(name)
      /\ \A n \in DOMAIN entries \ {name} : entries'[n] = entries[n]
  BY DEF HandlePublish, create_entry, SameType, Put, IInv, DirectoryInv, DirectoryTypes
<1>3. \A d \in Clients :
         Gets(d, IF d \in clients THEN << AnnounceMsg(name, next_pub_id[d], entries'[name]) >>
                                  ELSE << >>)
  BY <1>2, PublishSends DEF IInv, DirectoryInv, SubsInv
<1>4. \A d \in clients : /\ pub_ids'[d] = Put(pub_ids[d], name, next_pub_id[d])
                         /\ next_pub_id'[d] = next_pub_id[d] + 1
  BY <1>1, <1>2 DEF AnnounceToAll, Announce, announced_ids
<1>5. name \in Names /\ entry_type(entries'[name]) \in DataType
  BY <1>2, TypeOfTopic DEF IsMap
<1> HIDE DEF name
<1>6. ASSUME NEW d \in clients PROVE TypesStay(d) /\ \E msgs : Told(d, msgs)
  <2>1. /\ next_pub_id[d] \in Nat /\ DOMAIN pub_ids'[d] = DOMAIN pub_ids[d] \cup {name}
        /\ pub_ids'[d][name] = next_pub_id[d]
        /\ \A n \in DOMAIN pub_ids[d] \ {name} : pub_ids'[d][n] = pub_ids[d][n]
    BY <1>1, <1>4 DEF Put
  <2>2. \A n \in DOMAIN pub_ids[d] \ {name} : entries'[n] = entries[n]
    BY <1>1, <1>2
  <2>3. TypesStay(d)
    <3>1. \A n \in DOMAIN pub_ids'[d] :
             n \in DOMAIN pub_ids[d] /\ pub_ids'[d][n] = pub_ids[d][n] => n # name
      BY <1>1, <2>1
    <3> QED  BY <2>2, <3>1 DEF TypesStay
  <2>4. PICK msg : msg = AnnounceMsg(name, next_pub_id[d], entries'[name])
    OBVIOUS
  <2>5. /\ msg \in Messages /\ msg.kind = "announce" /\ msg.name = name
        /\ msg.id = next_pub_id[d] /\ msg.type = entry_type(entries'[name])
    BY <1>5, <2>1, <2>4 DEF AnnounceMsg, Messages, Announcements
  <2>6. Gets(d, << msg >>) /\ << msg >> \in Seq(Messages)
    BY <1>1, <1>3, <2>4, <2>5
  <2>7. MessageHolds(d, msg)'
    <3>1. \A n \in DOMAIN pub_ids'[d] : pub_ids'[d][n] = next_pub_id[d] => n = name
      BY <1>1, <2>1
    <3>2. next_pub_id[d] \in Nat /\ next_pub_id[d] < next_pub_id'[d]
      BY <1>4, <2>1
    <3> QED  BY <2>5, <3>1, <3>2 DEF MessageHolds, MayHave, MayName
  <2>8. Replay(Table(d), << msg >>) = Table(d)'
    <3> DEFINE topic == [id |-> msg.id, type |-> msg.type]
               row(n) == IF n = name THEN topic ELSE Table(d)[n]
    <3>1. Replay(Table(d), << msg >>) = Put(Table(d), name, topic)
      BY <2>5, ReplayOne DEF Learn
    <3>2. /\ DOMAIN Table(d) = DOMAIN pub_ids[d]
          /\ \A n \in DOMAIN pub_ids[d] :
                Table(d)[n] = [id |-> pub_ids[d][n], type |-> entry_type(entries[n])]
      BY DEF Table
    <3>3. Put(Table(d), name, topic) = [n \in DOMAIN pub_ids'[d] |-> row(n)]
      BY <2>1, <3>2 DEF Put
    <3>4. \A n \in DOMAIN pub_ids'[d] :
             row(n) = [id |-> pub_ids'[d][n], type |-> entry_type(entries'[n])]
      BY <2>1, <2>2, <2>5, <3>2
    <3> HIDE DEF row
    <3> QED  BY <3>1, <3>3, <3>4 DEF Table
  <2>9. Follow(Table(d), << msg >>)
    <3>1. \A i \in DOMAIN << msg >> : << msg >>[i] = msg
      OBVIOUS
    <3> QED  BY <2>5, <3>1 DEF Follow
  <2>10. \A i \in DOMAIN << msg >> : MessageHolds(d, << msg >>[i])'
    BY <2>7
  <2> QED  BY <2>3, <2>6, <2>8, <2>9, <2>10 DEF Told
<1>7. ASSUME NEW d \in Clients \ clients PROVE \E msgs \in Seq({TimeMsg}) : Gets(d, msgs)
  BY <1>3, EmptySeq
<1> QED  BY <1>1, <1>6, <1>7, ToldKeeps

\* Deleting topics takes them from everybody's table.
LEMMA DeleteKeepsViews ==
  ASSUME IInv, SubsInv, ViewInv, IInv', IdsAdvance, RequestsTaken,
         UNCHANGED <<accepting, clientVars>>,
         NEW gone, \A c \in clients \cap gone : conn[c] = "closed",
         NEW deleted \in Seq(Names), NEW S, S = { deleted[i] : i \in DOMAIN deleted },
         clients' = clients \ gone, entries' = Without(entries, S),
         ~UnannounceFails(clients \ gone, deleted),
         \A c \in clients \ gone : pub_ids'[c] = Without(pub_ids[c], S),
         \A c \in Clients :
            Gets(c, IF c \in clients \ gone THEN Unannouncements(c, deleted) ELSE << >>)
  PROVE  ViewInv'
<1>1. clients \subseteq Clients /\ \A c \in clients : DOMAIN pub_ids[c] \subseteq DOMAIN entries
  BY DEF IInv, DirectoryInv, DirectoryTypes, AnnouncedMatchEntries
<1>2. ASSUME NEW c \in clients \ gone PROVE TypesStay(c) /\ \E msgs : Told(c, msgs)
  <2> DEFINE msgs == Unannouncements(c, deleted)
  <2>1. \A i \in DOMAIN deleted : Known(c, deleted[i])
    BY DEF UnannounceFails
  <2>2. /\ msgs \in Seq(Messages) /\ NamesIn(msgs) = S
        /\ \A i \in DOMAIN msgs : msgs[i].kind = "unannounce"
    BY <1>1, <2>1, UnannouncementsAre DEF IInv, DirectoryInv
  <2>3. /\ DOMAIN pub_ids'[c] = DOMAIN pub_ids[c] \ S
        /\ \A n \in DOMAIN pub_ids'[c] : pub_ids'[c][n] = pub_ids[c][n] /\ entries'[n] = entries[n]
    <3>1. pub_ids'[c] = Without(pub_ids[c], S) /\ entries' = Without(entries, S)
      OBVIOUS
    <3>2. \A n \in DOMAIN entries \ S : entries'[n] = entries[n]
      BY <3>1 DEF Without
    <3> QED  BY <1>1, <3>1, <3>2 DEF Without
  <2>4. TypesStay(c)
    BY <2>3 DEF TypesStay
  <2>5. Gets(c, msgs)
    BY <1>1
  <2> HIDE DEF msgs
  <2>6. PICK told : told = msgs
    OBVIOUS
  <2>7. \A i \in DOMAIN told : MessageHolds(c, told[i])'
    BY <2>2, <2>6 DEF MessageHolds
  <2>8. Replay(Table(c), told) = Table(c)'
    <3> DEFINE table == Table(c)
    <3>1. table = [n \in DOMAIN table |-> table[n]]
      BY DEF Table
    <3> HIDE DEF table
    <3>2. Replay(table, told) = Without(table, S)
      <4>1. told \in Seq(Messages) /\ \A i \in DOMAIN told : told[i].kind = "unannounce"
        BY <2>2, <2>6
      <4>2. Replay(table, told) = Without(table, NamesIn(told))
        BY <3>1, <4>1, ReplayDeletes
      <4> QED  BY <2>2, <2>6, <4>2
    <3> QED  BY <2>3, <3>2 DEF Without, Table, table
  <2>9. Follow(Table(c), told)
    BY <2>2, <2>6 DEF Follow
  <2> QED  BY <2>2, <2>4, <2>5, <2>6, <2>7, <2>8, <2>9 DEF Told
<1>3. ASSUME NEW c \in Clients \ clients PROVE \E msgs \in Seq({TimeMsg}) : Gets(c, msgs)
  BY EmptySeq
<1> QED  BY <1>2, <1>3, ToldKeeps

\* A step that leaves the directory alone, and sends values and times.
LEMMA SameTableKeepsViews ==
  ASSUME IInv, SubsInv, ViewInv, IInv', IdsAdvance, Quiet, RequestsTaken,
         UNCHANGED <<directoryVars, accepting, clientVars>>
  PROVE  ViewInv'
  BY QuietKeepsViews DEF directoryVars

\* The last release deletes the topic.
LEMMA ReleaseKeepsViews ==
  ASSUME IInv, SubsInv, ViewInv, IInv', IdsAdvance, RequestsTaken,
         UNCHANGED <<accepting, clientVars>>, NEW req, ~ReleaseFails(req), HandleRelease(req)
  PROVE  ViewInv'
<1>1. CASE LastPublisher(req.name)
  <2> DEFINE list == << req.name >>
             S    == {req.name}
             gone == {}
  <2>1. clients \ gone = clients /\ S = { list[i] : i \in DOMAIN list }
    OBVIOUS
  <2>2. list \in Seq(Names)
    BY DEF ReleaseFails, IInv, DirectoryInv, DirectoryTypes, IsMap
  <2>3. ~UnannounceFails(clients, list)
    BY <1>1 DEF ReleaseFails
  <2>4. /\ entries' = Without(entries, S) /\ clients' = clients
        /\ \A c \in Clients : pub_ids'[c] = Without(pub_ids[c], S)
        /\ outbox' = [c \in Clients |-> IF conn[c] = "open"
                        THEN outbox[c] \o (IF c \in clients THEN Unannouncements(c, list) ELSE << >>)
                        ELSE outbox[c]]
    BY <1>1 DEF HandleRelease, Sent
  <2>5. \A c \in clients \cap gone : conn[c] = "closed"
    OBVIOUS
  <2> HIDE DEF list, S, gone
  <2>6. /\ DirectoryTypes /\ TaskTypes /\ clients \subseteq Clients
    BY DEF IInv, DirectoryInv, DirectoryTypes, SubsInv
  <2>7. /\ clients' = clients \ gone /\ ~UnannounceFails(clients \ gone, list)
        /\ outbox' = [c \in Clients |-> IF conn[c] = "open"
                        THEN outbox[c] \o (IF c \in clients \ gone THEN Unannouncements(c, list)
                                                                   ELSE << >>)
                        ELSE outbox[c]]
    BY <2>1, <2>3, <2>4
  <2>8. \A c \in Clients :
           Gets(c, IF c \in clients \ gone THEN Unannouncements(c, list) ELSE << >>)
    BY <2>2, <2>6, <2>7, DeleteSends
  <2>9. \A c \in clients \ gone : pub_ids'[c] = Without(pub_ids[c], S)
    BY <2>4, <2>6
  <2> QED  BY <2>1, <2>2, <2>4, <2>5, <2>7, <2>8, <2>9, DeleteKeepsViews
<1>2. CASE ~LastPublisher(req.name)
  <2>1. UNCHANGED <<clients, entries, pub_ids, outbox>>
    BY <1>2 DEF HandleRelease
  <2> QED  BY <2>1, SilenceIsQuiet, QuietKeepsViews DEF SubsInv
<1> QED  BY <1>1, <1>2

\* A client that is gone takes the topics that only it published with it.
LEMMA DisconnectKeepsViews ==
  ASSUME IInv, SubsInv, ViewInv, IInv', IdsAdvance, RequestsTaken,
         UNCHANGED <<accepting, clientVars>>,
         NEW c \in Clients, conn[c] = "closed", ~DisconnectFails(c), HandleDisconnect(c)
  PROVE  ViewInv'
<1>1. CASE c \notin clients
  <2>1. UNCHANGED <<directoryVars, outbox>>
    BY <1>1 DEF HandleDisconnect
  <2> QED  BY <2>1, SilenceIsQuiet, SameTableKeepsViews DEF SubsInv
<1>2. CASE c \in clients
  <2>1. TaskTypes /\ DirectoryTypes /\ clients \subseteq Clients
    BY DEF SubsInv, IInv, DirectoryInv, DirectoryTypes
  <2>2. /\ clients' = clients \ {c} /\ entries' = Without(entries, Orphans(c))
        /\ pub_ids' = [d \in Clients |-> IF d = c THEN Empty ELSE Without(pub_ids[d], Orphans(c))]
        /\ outbox' = [d \in Clients |->
                        IF conn[d] = "open"
                        THEN outbox[d] \o (IF d \in clients \ {c}
                                           THEN Unannouncements(d, OrphansInOrder(c)) ELSE << >>)
                        ELSE outbox[d]]
    BY <1>2 DEF HandleDisconnect, DropClient, Sent
  <2> DEFINE list == OrphansInOrder(c)
             S    == Orphans(c)
             gone == {c}
  <2>3. list \in Seq(Names) /\ S = { list[i] : i \in DOMAIN list }
    BY <2>1, OrphansListed
  <2>4. ~UnannounceFails(clients \ gone, list)
    BY <1>2 DEF DisconnectFails
  <2>5. \A d \in clients \ gone : pub_ids'[d] = Without(pub_ids[d], S)
    BY <2>1, <2>2
  <2>6. \A d \in clients \cap gone : conn[d] = "closed"
    OBVIOUS
  <2>7. /\ clients' = clients \ gone /\ entries' = Without(entries, S)
        /\ outbox' = [d \in Clients |->
                        IF conn[d] = "open"
                        THEN outbox[d] \o (IF d \in clients \ gone
                                           THEN Unannouncements(d, list) ELSE << >>)
                        ELSE outbox[d]]
    BY <2>2
  <2> HIDE DEF list, S, gone
  <2>8. \A d \in Clients :
           Gets(d, IF d \in clients \ gone THEN Unannouncements(d, list) ELSE << >>)
    BY <2>1, <2>3, <2>4, <2>7, DeleteSends
  <2> QED  BY <2>3, <2>4, <2>5, <2>6, <2>7, <2>8, DeleteKeepsViews
<1> QED  BY <1>1, <1>2

\* ValuePublish: the value has the type of the topic that its id stands for.
LEMMA ValueTypeIs ==
  ASSUME IInv, ViewInv, NEW c \in Clients, NEW req, req.kind = "value", RequestHolds(c, req),
         req.value \in NTValues, req.timestamp \in Nat,
         ~ValueFails(c, req), HandleValue(c, req)
  PROVE  \A n \in DOMAIN entries : entry_type(entries'[n]) = entry_type(entries[n])
<1> DEFINE name == id_to_name(c, req.id)
<1>1. name \in DOMAIN pub_ids[c] /\ pub_ids[c][name] = req.id
  <2>1. \E n \in DOMAIN pub_ids[c] : pub_ids[c][n] = req.id
    BY DEF ValueFails, IdKnown
  <2> QED  BY <2>1 DEF id_to_name
<1>2. name \in DOMAIN entries /\ IsMap(entries, Names, Topics)
  BY DEF ValueFails, IInv, DirectoryInv, DirectoryTypes
<1>3. entry_type(entries[name]) = req.value.type
  BY <1>1 DEF RequestHolds, MayHave
<1>4. CASE Accepted(entries[name], req)
  <2>1. entries' = [entries EXCEPT ![name] = set_value(entries[name], req)]
    BY <1>4 DEF HandleValue
  <2> HIDE DEF name
  <2>2. entries[name] \in Topics
    BY <1>2 DEF IsMap
  <2>3. entry_type(set_value(entries[name], req)) = req.value.type
    BY <2>2 DEF set_value, entry_type, Topics
  <2> QED  BY <1>2, <1>3, <2>1, <2>3
<1>5. CASE ~Accepted(entries[name], req)
  BY <1>5 DEF HandleValue
<1> QED  BY <1>4, <1>5

\* The first request of a client that sent any, and those that are left.
LEMMA ReceivedIs ==
  ASSUME IInv, NEW c \in Clients, Receive(c)
  PROVE  /\ WellFormed(Head(inbound[c]))
         /\ 1 \in DOMAIN inbound[c] /\ Head(inbound[c]) = inbound[c][1]
         /\ RequestsTaken
<1>1. inbound[c] # << >> /\ DOMAIN inbound = Clients
  BY DEF Receive, IInv, RequestTypes
<1>2. PICK S : inbound[c] \in Seq(S)
  BY DEF IInv, RequestTypes, AreWellFormed
<1>3. PICK reqs \in Seq(S) : reqs = inbound[c] /\ reqs # << >>
  BY <1>1, <1>2
<1>4. /\ Len(reqs) \in Nat /\ DOMAIN reqs = 1 .. Len(reqs) /\ Len(reqs) # 0
      /\ Head(reqs) = reqs[1]
  BY <1>3, LenProperties, EmptySeq
<1>5. \A i \in DOMAIN Tail(reqs) : i + 1 \in DOMAIN reqs /\ Tail(reqs)[i] = reqs[i + 1]
  <2>1. /\ Tail(reqs) \in Seq(S) /\ Len(Tail(reqs)) = Len(reqs) - 1
        /\ \A i \in 1 .. Len(Tail(reqs)) : Tail(reqs)[i] = reqs[i + 1]
    BY <1>3, HeadTailProperties
  <2>2. DOMAIN Tail(reqs) = 1 .. Len(reqs) - 1
    BY <2>1, LenProperties
  <2> QED  BY <1>4, <2>1, <2>2
<1>6. WellFormed(Head(inbound[c]))
  BY <1>1, HeadWellFormed DEF IInv, RequestTypes
<1>7. inbound' = inbound \/ inbound' = [inbound EXCEPT ![c] = Tail(@)]
  BY DEF Receive, Panic
<1>8. RequestsTaken
  BY <1>1, <1>3, <1>5, <1>7 DEF RequestsTaken
<1> QED  BY <1>3, <1>4, <1>6, <1>8

\* Every handler of channel_loop keeps the invariant.
LEMMA ReceiveKeepsViews ==
  ASSUME IInv, SubsInv, ViewInv, IInv', IdsAdvance, NEW c \in Clients, Receive(c)
  PROVE  ViewInv'
<1> DEFINE req == Head(inbound[c])
<1>1. CASE HandlerFails(c, req)
  <2>1. UNCHANGED <<directoryVars, outbox, inbound, accepting, clientVars>>
    BY <1>1 DEF Receive, Panic, taskVars
  <2> QED  BY <2>1, SilenceIsQuiet, SameTableKeepsViews DEF SubsInv, RequestsTaken
<1>2. CASE ~HandlerFails(c, req)
  <2>1. Handle(c, req) /\ UNCHANGED <<accepting, clientVars>>
    BY <1>2 DEF Receive, taskVars
  <2>2. /\ RequestsTaken /\ WellFormed(req)
        /\ req = inbound[c][1] /\ 1 \in DOMAIN inbound[c]
    BY ReceivedIs
  <2> HIDE DEF req
  <2>3. TaskTypes /\ DirectoryTypes
    BY DEF SubsInv, IInv, DirectoryInv
  <2>4. CASE req.kind = "publish" /\ HandlePublish(c, req)
    BY <2>1, <2>2, <2>4, PublishKeepsViews DEF WellFormed
  <2>5. CASE req.kind = "release" /\ HandleRelease(req)
    BY <1>2, <2>1, <2>2, <2>5, ReleaseKeepsViews DEF HandlerFails
  <2>6. CASE req.kind = "setflags" /\ HandleSetFlags(req)
    <3>1. /\ UNCHANGED <<clients, pub_ids, outbox>> /\ req.name \in DOMAIN entries
          /\ entries' = [entries EXCEPT ![req.name].flags = NewFlags(req.name, req)]
      BY <1>2, <2>6 DEF HandleSetFlags, update_flags, HandlerFails, SetFlagsFails
    <3>2. \A n \in DOMAIN entries : entry_type(entries'[n]) = entry_type(entries[n])
      <4>1. entries[req.name] \in Topics
        BY <2>3, <3>1 DEF DirectoryTypes, IsMap
      <4> QED  BY <3>1, <4>1 DEF entry_type, Topics
    <3> QED  BY <2>1, <2>2, <2>3, <3>1, <3>2, SilenceIsQuiet, QuietKeepsViews
  <2>7. CASE req.kind = "getvalues" /\ HandleGetValues(c, req)
    <3>1. Quiet /\ UNCHANGED directoryVars
      BY <1>2, <2>3, <2>7, GetValuesQuiet DEF HandlerFails, HandleGetValues
    <3> QED  BY <2>1, <2>2, <3>1, SameTableKeepsViews
  <2>8. CASE req.kind = "subscribe" /\ HandleSubscribe(c, req.sub)
    <3>1. Quiet /\ UNCHANGED directoryVars
      BY <1>2, <2>2, <2>3, <2>8, SubscribeQuiet DEF HandlerFails, HandleSubscribe, WellFormed
    <3> QED  BY <2>1, <2>2, <3>1, SameTableKeepsViews
  <2>9. CASE req.kind = "unsubscribe" /\ HandleUnsubscribe(c, req)
    <3>1. Quiet /\ UNCHANGED directoryVars
      BY <2>3, <2>9, SilenceIsQuiet DEF HandleUnsubscribe
    <3> QED  BY <2>1, <2>2, <3>1, SameTableKeepsViews
  <2>10. CASE req.kind = "value" /\ HandleValue(c, req)
    <3>1. req.value \in NTValues /\ req.timestamp \in Nat /\ ~ValueFails(c, req)
      BY <1>2, <2>2, <2>10 DEF HandlerFails, WellFormed
    <3>2. Quiet /\ UNCHANGED <<clients, pub_ids>>
      BY <2>3, <2>10, <3>1, ValueQuiet DEF HandleValue
    <3>3. c \in clients
      BY <3>1 DEF ValueFails
    <3>4. RequestHolds(c, req)
      BY <2>2, <3>3 DEF ViewInv, BeliefsHold
    <3>5. \A n \in DOMAIN entries : entry_type(entries'[n]) = entry_type(entries[n])
      BY <2>10, <3>1, <3>4, ValueTypeIs
    <3> QED  BY <2>1, <2>2, <3>2, <3>5, QuietKeepsViews
  <2>11. CASE req.kind = "time" /\ HandleTime(c)
    <3>1. Quiet /\ UNCHANGED directoryVars
      BY <2>3, <2>11, TimeQuiet DEF HandleTime
    <3> QED  BY <2>1, <2>2, <3>1, SameTableKeepsViews
  <2>12. CASE req.kind = "disconnect" /\ HandleDisconnect(c)
    <3>1. conn[c] = "closed"
      BY <2>2, <2>12 DEF ViewInv, Connections
    <3> QED  BY <1>2, <2>1, <2>2, <2>12, <3>1, DisconnectKeepsViews DEF HandlerFails
  <2> QED  BY <2>1, <2>4, <2>5, <2>6, <2>7, <2>8, <2>9, <2>10, <2>11, <2>12 DEF Handle
<1> QED  BY <1>1, <1>2

\* A frame takes requests of its client, too.
LEMMA FrameTaken ==
  ASSUME IInv, NEW c \in Clients, NEW k \in 2 .. MaxFrame, ReceiveFrame(c, k)
  PROVE  RequestsTaken
<1>1. /\ inbound' = [inbound EXCEPT ![c] = SubSeq(inbound[c], k + 1, Len(inbound[c]))]
      /\ k \in Nat /\ Len(inbound[c]) \in Nat /\ k <= Len(inbound[c])
  BY FrameStep, FrameBound
<1>2. PICK S : inbound[c] \in Seq(S)
  BY DEF IInv, RequestTypes, AreWellFormed
<1>3. PICK reqs \in Seq(S) : reqs = inbound[c]
  BY <1>2
<1> DEFINE rest == SubSeq(reqs, k + 1, Len(reqs))
<1>4. DOMAIN reqs = 1 .. Len(reqs) /\ \A i \in DOMAIN reqs : reqs[i] \in S
  BY <1>3, PlacesFinite
<1>5. /\ rest \in Seq(S) /\ Len(rest) = Len(reqs) - k
      /\ \A i \in 1 .. Len(reqs) - k : rest[i] = reqs[k + i]
  BY <1>1, <1>3, <1>4, SubSeqProperties
<1>6. DOMAIN rest = 1 .. Len(reqs) - k
  BY <1>5, PlacesFinite
<1>7. \A i \in DOMAIN rest : k + i \in DOMAIN reqs /\ rest[i] = reqs[k + i]
  <2> DEFINE n == Len(reqs)
  <2>1. n \in Nat /\ k \in Nat /\ DOMAIN reqs = 1 .. n
    BY <1>1, <1>3, <1>4
  <2> HIDE DEF rest, n
  <2>2. ASSUME NEW i \in 1 .. n - k PROVE k + i \in 1 .. n
    BY <2>1
  <2> QED  BY <1>5, <1>6, <2>1, <2>2 DEF n
<1>8. DOMAIN inbound = Clients /\ inbound'[c] = rest /\ \A d \in Clients \ {c} : inbound'[d] = inbound[d]
  BY <1>1, <1>3 DEF IInv, RequestTypes
<1> HIDE DEF rest
<1> QED  BY <1>3, <1>7, <1>8 DEF RequestsTaken

\* Its values have the types of their topics.
LEMMA FrameTypes ==
  ASSUME IInv, ViewInv, NEW c \in Clients, NEW k \in 2 .. MaxFrame, ReceiveFrame(c, k)
  PROVE  \A n \in DOMAIN entries : entry_type(entries'[n]) = entry_type(entries[n])
<1> SUFFICES ASSUME NEW n \in DOMAIN entries, entries'[n] # entries[n]
             PROVE  entry_type(entries'[n]) = entry_type(entries[n])
  OBVIOUS
<1>1. c \in clients /\ entries'[n] \in Topics
  BY FrameStep, FrameStoresTopics
<1>2. PICK r \in FrameRequests(c) :
         r.kind = "value" /\ id_to_name(c, r.id) = n /\ entries'[n].value = r.value
  BY FrameStoresTopics
<1>3. RequestHolds(c, r)
  <2>1. \E i \in DOMAIN inbound[c] : inbound[c][i] = r
    BY DEF FrameRequests, ToSet
  <2> QED  BY <1>1, <2>1 DEF ViewInv, BeliefsHold
<1>4. n \in DOMAIN pub_ids[c] /\ pub_ids[c][n] = r.id
  <2>1. \E m \in DOMAIN pub_ids[c] : pub_ids[c][m] = r.id
    BY <1>2 DEF FrameRequests, IdKnown
  <2> QED  BY <1>2, <2>1 DEF id_to_name
<1>5. entry_type(entries[n]) = r.value.type
  BY <1>2, <1>3, <1>4 DEF RequestHolds, MayHave
<1> QED  BY <1>2, <1>5 DEF entry_type

\* A frame keeps the invariant.
LEMMA FrameKeepsViews ==
  ASSUME IInv, SubsInv, ViewInv, IInv', IdsAdvance,
         NEW c \in Clients, NEW k \in 2 .. MaxFrame, ReceiveFrame(c, k)
  PROVE  ViewInv'
<1>1. Quiet
  BY FrameQuiet DEF SubsInv
<1>2. UNCHANGED <<clients, pub_ids, accepting, clientVars>>
  BY FrameStep DEF taskVars
<1> QED  BY <1>1, <1>2, FrameTaken, FrameTypes, QuietKeepsViews

\* A new client's table is what it is greeted with.
LEMMA GreetKeepsViews ==
  ASSUME IInv, SubsInv, ViewInv, IInv', IdsAdvance, NEW c \in clients, GreetClient(c)
  PROVE  ViewInv'
<1>1. PICK order \in SetToSeqs(DOMAIN entries) :
         /\ outbox' = SentTo(c, Greetings(c, order))
         /\ pub_ids' = [pub_ids EXCEPT ![c] = GreetedIds(c, order)]
  BY DEF GreetClient
<1>2. /\ UNCHANGED <<clients, entries, accepting, inbound, clientVars>>
      /\ next_pub_id' = [next_pub_id EXCEPT ![c] = @ + Cardinality(DOMAIN entries)]
  BY DEF GreetClient
<1>3. /\ clients \subseteq Clients /\ c \in Clients /\ DOMAIN pub_ids = Clients
      /\ next_pub_id[c] \in Nat /\ next_pub_id[c] > 0 /\ next_pub_id \in [Clients -> Nat]
      /\ DOMAIN pub_ids[c] \subseteq DOMAIN entries
      /\ IsMap(entries, Names, Topics) /\ IsFiniteSet(DOMAIN entries)
  <2>1. IsMap(entries, Names, Topics)
    BY DEF IInv, DirectoryInv, DirectoryTypes
  <2>2. IsFiniteSet(DOMAIN entries)
    BY <2>1, NamesFinite, FS_Subset DEF IsMap
  <2> QED  BY <2>1, <2>2 DEF IInv, DirectoryInv, DirectoryTypes, AnnouncedMatchEntries
<1> DEFINE size == Cardinality(DOMAIN entries)
           place(n) == CHOOSE i \in DOMAIN order : order[i] = n
<1>4. /\ size \in Nat /\ DOMAIN order = 1 .. size
      /\ \A i \in DOMAIN order : order[i] \in DOMAIN entries
      /\ \A i, j \in DOMAIN order : order[i] = order[j] => i = j
      /\ \A n \in DOMAIN entries : place(n) \in 1 .. size /\ order[place(n)] = n
  <2>1. /\ size \in Nat /\ DOMAIN order = 1 .. size
        /\ \A n \in DOMAIN entries : \E i \in DOMAIN order : order[i] = n
    BY <1>3, OrderIsBijection
  <2>2. \A n \in DOMAIN entries : place(n) \in DOMAIN order /\ order[place(n)] = n
    BY <2>1
  <2>3. \A i \in DOMAIN order : order[i] \in DOMAIN entries
    BY DEF SetToSeqs
  <2>4. \A i, j \in DOMAIN order : order[i] = order[j] => i = j
    BY DEF SetToSeqs
  <2> QED  BY <2>1, <2>2, <2>3, <2>4
<1>5. /\ DOMAIN pub_ids'[c] = DOMAIN entries
      /\ \A n \in DOMAIN entries : pub_ids'[c][n] = next_pub_id[c] - 1 + place(n)
      /\ next_pub_id'[c] = next_pub_id[c] + size
  BY <1>1, <1>2, <1>3 DEF GreetedIds
<1>6. /\ Greetings(c, order) \in Seq(Messages)
      /\ \A d \in Clients : Gets(d, IF d = c THEN Greetings(c, order) ELSE << >>)
  BY <1>1, GreetSends DEF SubsInv
<1>7. PICK told : told = Greetings(c, order)
  OBVIOUS
<1>8. /\ DOMAIN told = 1 .. size
      /\ \A i \in 1 .. size : /\ told[i].kind = "announce" /\ told[i].name = order[i]
                              /\ told[i].id = next_pub_id[c] + i - 1
                              /\ told[i].type = entry_type(entries[order[i]])
  BY <1>4, <1>7 DEF Greetings, AnnounceMsg
<1> HIDE DEF size, place
<1>9. ASSUME NEW i \in DOMAIN told PROVE MessageHolds(c, told[i])'
  <2>1. /\ told[i].id = next_pub_id[c] + i - 1 /\ told[i].name = order[i]
        /\ told[i].type = entry_type(entries'[order[i]]) /\ i \in 1 .. size
    BY <1>2, <1>8
  <2>2. told[i].id \in Nat /\ told[i].id < next_pub_id'[c]
    BY <1>3, <1>4, <1>5, <2>1
  <2>3. ASSUME NEW n \in DOMAIN pub_ids'[c], pub_ids'[c][n] = told[i].id PROVE n = order[i]
    <3>1. place(n) \in 1 .. size /\ order[place(n)] = n /\ pub_ids'[c][n] = next_pub_id[c] - 1 + place(n)
      BY <1>4, <1>5
    <3>2. place(n) = i
      BY <1>3, <1>4, <2>1, <2>3, <3>1
    <3> QED  BY <3>1, <3>2
  <2> QED  BY <2>1, <2>2, <2>3 DEF MessageHolds, MayHave, MayName
<1>10. Replay(Table(c), told) = Table(c)'
  <2> DEFINE table == Table(c)
  <2>1. /\ MapsFrom(table, DOMAIN table) /\ DOMAIN table = DOMAIN pub_ids[c]
        /\ told \in Seq(Messages)
        /\ \A i \in DOMAIN told : told[i].kind = "announce"
        /\ \A i, j \in DOMAIN told : told[i].name = told[j].name => i = j
    BY <1>4, <1>6, <1>7, <1>8 DEF Table, MapsFrom
  <2>2. PICK known : known = table
    OBVIOUS
  <2> HIDE DEF table
  <2>3. PICK next : next = Replay(known, told)
    OBVIOUS
  <2>4. MapsFrom(known, DOMAIN known) /\ DOMAIN known = DOMAIN pub_ids[c]
    BY <2>1, <2>2
  <2>5. /\ MapsFrom(next, DOMAIN known \cup NamesIn(told))
        /\ \A i \in DOMAIN told : next[told[i].name] = [id |-> told[i].id, type |-> told[i].type]
    BY <2>1, <2>3, <2>4, ReplayAnnounces
  <2>6. NamesIn(told) = DOMAIN entries
    <3>1. \A n \in DOMAIN entries : place(n) \in DOMAIN told /\ told[place(n)].name = n
      BY <1>4, <1>8
    <3>2. \A i \in DOMAIN told : told[i].name \in DOMAIN entries
      BY <1>4, <1>8
    <3> QED  BY <3>1, <3>2 DEF NamesIn
  <2>7. DOMAIN known \cup NamesIn(told) = DOMAIN entries
    BY <1>3, <2>4, <2>6
  <2>8. ASSUME NEW n \in DOMAIN entries
        PROVE  next[n] = [id |-> pub_ids'[c][n], type |-> entry_type(entries'[n])]
    <3>1. /\ place(n) \in DOMAIN told /\ told[place(n)].name = n
          /\ told[place(n)].type = entry_type(entries'[n])
          /\ told[place(n)].id = next_pub_id[c] + place(n) - 1
      BY <1>2, <1>4, <1>8
    <3>2. next_pub_id[c] + place(n) - 1 = pub_ids'[c][n]
      BY <1>3, <1>4, <1>5
    <3> QED  BY <2>5, <3>1, <3>2
  <2>9. Table(c)' = [n \in DOMAIN entries |->
                       [id |-> pub_ids'[c][n], type |-> entry_type(entries'[n])]]
    BY <1>5 DEF Table
  <2>10. next = [n \in DOMAIN entries |-> next[n]]
    BY <2>5, <2>7 DEF MapsFrom
  <2> QED  BY <2>2, <2>3, <2>8, <2>9, <2>10 DEF table
<1>11. Told(c, told)
  BY <1>3, <1>6, <1>7, <1>8, <1>9, <1>10 DEF Told, Follow
<1>12. ASSUME NEW d \in clients PROVE TypesStay(d) /\ \E msgs : Told(d, msgs)
  <2>1. TypesStay(d)
    BY <1>2 DEF TypesStay
  <2>2. CASE d = c
    BY <1>11, <2>1, <2>2
  <2>3. CASE d # c
    <3>1. Gets(d, << >>) /\ << >> \in Seq(Current(d)) /\ pub_ids'[d] = pub_ids[d]
      BY <1>1, <1>3, <1>6, <2>3, EmptySeq
    <3>2. \A n \in DOMAIN pub_ids[d] : entry_type(entries'[n]) = entry_type(entries[n])
      BY <1>2
    <3> QED  BY <3>1, <3>2, CurrentTold
  <2> QED  BY <2>2, <2>3
<1>13. ASSUME NEW d \in Clients \ clients PROVE \E msgs \in Seq({TimeMsg}) : Gets(d, msgs)
  BY <1>6, EmptySeq
<1> QED  BY <1>2, <1>12, <1>13, ToldKeeps DEF RequestsTaken

\* A task that panics, or one that writes the file, tells nobody.
LEMMA IdleKeepsViews ==
  ASSUME IInv, SubsInv, ViewInv, IInv', IdsAdvance,
         UNCHANGED <<directoryVars, outbox, inbound, accepting, clientVars>>
  PROVE  ViewInv'
<1>1. Quiet /\ RequestsTaken
  BY SilenceIsQuiet DEF SubsInv, RequestsTaken
<1> QED  BY <1>1, SameTableKeepsViews

\* So does a panic, which changes nothing but the record of it.
LEMMA PanicKeepsViews ==
  ASSUME IInv, SubsInv, ViewInv, IInv', IdsAdvance, NEW site, Panic(site) PROVE ViewInv'
  BY IdleKeepsViews DEF Panic, taskVars

\* broadcast_loop sends values with the ids there are.
LEMMA BroadcastKeepsViews ==
  ASSUME IInv, SubsInv, ViewInv, IInv', IdsAdvance, BroadcastTick PROVE ViewInv'
<1>1. CASE BroadcastFails
  BY <1>1, PanicKeepsViews DEF BroadcastTick
<1>2. CASE ~BroadcastFails
  <2>1. ServeDefaultSubs
    BY <1>2 DEF BroadcastTick
  <2>2. Quiet
    BY <1>2, <2>1, ServeDefaultQuiet DEF SubsInv, IInv, DirectoryInv
  <2>3. UNCHANGED <<directoryVars, accepting, clientVars, inbound>>
    BY <2>1 DEF ServeDefaultSubs, taskVars
  <2> QED  BY <2>2, <2>3, SameTableKeepsViews DEF RequestsTaken
<1> QED  BY <1>1, <1>2

\* broadcast_with_period.
LEMMA LoopKeepsViews ==
  ASSUME IInv, SubsInv, ViewInv, IInv', IdsAdvance, NEW t \in DOMAIN loops, LoopStep(t)
  PROVE  ViewInv'
<1>1. CASE LoopTick(t) \/ LoopEnd(t)
  BY <1>1, IdleKeepsViews DEF LoopTick, LoopEnd, taskVars
<1>2. CASE LoopRun(t)
  <2>1. CASE LoopFails(t)
    BY <1>2, <2>1, PanicKeepsViews DEF LoopRun
  <2>2. CASE ~LoopFails(t)
    <3>1. ServeLoop(t)
      BY <1>2, <2>2 DEF LoopRun
    <3>2. Quiet
      BY <2>2, <3>1, ServeLoopQuiet DEF SubsInv, IInv, DirectoryInv
    <3>3. UNCHANGED <<directoryVars, accepting, clientVars, inbound>>
      BY <3>1 DEF ServeLoop, taskVars
    <3> QED  BY <3>2, <3>3, SameTableKeepsViews DEF RequestsTaken
  <2> QED  BY <2>1, <2>2
<1> QED  BY <1>1, <1>2 DEF LoopStep

----------------------------------------------------------------------------
(* Connections                                                             *)

\* What a newcomer knows by what it is being sent: nothing.
LEMMA UnawareKnows ==
  ASSUME SubsInv, NEW c \in Clients, Unaware(c)
  PROVE  WillKnow(c) = Empty /\ Follow(view[c], outbox[c])
<1>1. outbox[c] \in Seq(Messages) /\ view[c] = Empty
  BY DEF SubsInv, TaskTypes, Unaware
<1>2. outbox[c] \in Seq({TimeMsg})
  <2>1. /\ Len(outbox[c]) \in Nat /\ DOMAIN outbox[c] = 1 .. Len(outbox[c])
        /\ outbox[c] = [i \in 1 .. Len(outbox[c]) |-> outbox[c][i]]
    BY <1>1, LenProperties
  <2>2. outbox[c] \in [1 .. Len(outbox[c]) -> {TimeMsg}]
    BY <2>1 DEF Unaware
  <2> QED  BY <2>1, <2>2
<1>3. \A msg \in {TimeMsg} : ~IsNews(msg) /\ msg.kind # "value"
  BY DEF TimeMsg, IsNews
<1>4. WillKnow(c) = Empty
  BY <1>1, <1>2, <1>3, ReplaySilent DEF WillKnow
<1>5. \A i \in DOMAIN outbox[c] : outbox[c][i].kind # "value"
  BY <1>2, <1>3, PlacesFinite
<1> QED  BY <1>4, <1>5 DEF Follow

\* The listener inserts a client, whose table is empty as is its view.
LEMMA InsertKeepsViews ==
  ASSUME IInv, SubsInv, ViewInv, NEW c \in Clients, InsertClient(c) PROVE ViewInv'
<1>1. /\ c \in accepting /\ accepting' = accepting \ {c} /\ clients' = clients \cup {c}
      /\ UNCHANGED <<entries, pub_ids, next_pub_id, inbound, outbox, conn, view>>
  BY DEF InsertClient, clientVars
<1>2. c \notin clients /\ Unaware(c)
  BY <1>1 DEF ViewInv, Connections, Newcomers
<1>3. Table(c) = Empty
  BY <1>2 DEF IInv, DirectoryInv, Strangers, Table, Empty
<1>4. BeliefsHold'
  <2>1. /\ ViewHolds(c, view[c])
        /\ \A i \in DOMAIN outbox[c]  : MessageHolds(c, outbox[c][i])
        /\ \A i \in DOMAIN inbound[c] : RequestHolds(c, inbound[c][i])
    BY <1>2 DEF Unaware, Empty, TimeMsg, ViewHolds, MessageHolds, RequestHolds
  <2>2. \A d \in clients \cup {c} :
          /\ ViewHolds(d, view[d])
          /\ \A i \in DOMAIN outbox[d]  : MessageHolds(d, outbox[d][i])
          /\ \A i \in DOMAIN inbound[d] : RequestHolds(d, inbound[d][i])
    BY <2>1 DEF ViewInv, BeliefsHold
  <2> QED  BY <1>1, <2>2 DEF BeliefsHold, ViewHolds, MessageHolds, RequestHolds, MayHave, MayName
<1>5. Newcomers'
  BY <1>1 DEF ViewInv, Newcomers, Unaware
<1>6. Connections'
  BY <1>1 DEF ViewInv, Connections
<1>7. WillKnow(c) = Table(c) /\ Follow(view[c], outbox[c])
  BY <1>2, <1>3, UnawareKnows
<1>8. ViewsCatchUp'
  <2>1. \A d \in Clients : d \in clients \cup {c} /\ conn[d] = "open" => WillKnow(d) = Table(d)
    BY <1>7 DEF ViewInv, ViewsCatchUp, Table, Reachable
  <2> QED  BY <1>1, <2>1 DEF ViewsCatchUp, Table, Reachable, WillKnow
<1>9. ValuesFollowAnnouncements'
  <2>1. \A d \in Clients : d \in clients \cup {c} /\ conn[d] = "open" => Follow(view[d], outbox[d])
    BY <1>7, ValuesFollowIs DEF ViewInv, Reachable
  <2> QED  BY <1>1, <2>1 DEF ValuesFollowAnnouncements, Reachable, Follow
<1> QED  BY <1>4, <1>5, <1>6, <1>8, <1>9 DEF ViewInv

\* A listener accepts a connection.
LEMMA AcceptKeepsViews ==
  ASSUME IInv, SubsInv, ViewInv, NEW c \in Clients, Accept(c) PROVE ViewInv'
<1>1. /\ conn[c] = "fresh" /\ conn' = [conn EXCEPT ![c] = "open"]
      /\ accepting' = accepting \cup {c}
      /\ UNCHANGED <<clients, entries, pub_ids, next_pub_id, inbound, outbox, view>>
  BY DEF Accept, directoryVars
<1>2. /\ c \notin accepting \cup clients /\ DOMAIN conn = Clients
      /\ \A i \in DOMAIN inbound[c] : inbound[c][i].kind # "disconnect"
  BY <1>1 DEF ViewInv, Connections, SubsInv, ClientTypes
<1>3. conn'[c] = "open" /\ \A d \in Clients \ {c} : conn'[d] = conn[d]
  BY <1>1, <1>2
<1>4. BeliefsHold'
  BY <1>1 DEF ViewInv, BeliefsHold, ViewHolds, MessageHolds, RequestHolds, MayHave, MayName
<1>5. Newcomers'
  BY <1>1, <1>2, <1>3 DEF ViewInv, Newcomers, Unaware
<1>6. Connections'
  BY <1>1, <1>2, <1>3 DEF ViewInv, Connections
<1>7. ViewsCatchUp'
  BY <1>1, <1>2, <1>3 DEF ViewInv, ViewsCatchUp, Reachable, WillKnow
<1>8. ValuesFollowAnnouncements'
  BY <1>1, <1>2, <1>3 DEF ViewInv, ValuesFollowAnnouncements, Reachable
<1> QED  BY <1>4, <1>5, <1>6, <1>7, <1>8 DEF ViewInv

----------------------------------------------------------------------------
(* Clients                                                                 *)

\* A request is behind those that are on their way already.
LEMMA AppendedRequest ==
  ASSUME IInv, NEW c \in Clients, NEW req
  PROVE  /\ \A i \in DOMAIN Append(inbound[c], req) :
               \/ \E j \in DOMAIN inbound[c] : Append(inbound[c], req)[i] = inbound[c][j]
               \/ Append(inbound[c], req)[i] = req
         /\ \A kept \in 0 .. Len(inbound[c]) :
               \A i \in DOMAIN Append(SubSeq(inbound[c], 1, kept), req) :
                  \/ \E j \in DOMAIN inbound[c] :
                        Append(SubSeq(inbound[c], 1, kept), req)[i] = inbound[c][j]
                  \/ Append(SubSeq(inbound[c], 1, kept), req)[i] = req
<1>1. PICK reqs : reqs = inbound[c]
  OBVIOUS
<1>2. PICK S : reqs \in Seq(S)
  BY <1>1 DEF IInv, RequestTypes, AreWellFormed
<1>3. Len(reqs) \in Nat /\ DOMAIN reqs = 1 .. Len(reqs) /\ \A i \in DOMAIN reqs : reqs[i] \in S
  BY <1>2, PlacesFinite
<1>4. ASSUME NEW R, NEW some \in Seq(R),
             \A i \in DOMAIN some : \E j \in DOMAIN reqs : some[i] = reqs[j]
      PROVE  \A i \in DOMAIN Append(some, req) :
                \/ \E j \in DOMAIN reqs : Append(some, req)[i] = reqs[j]
                \/ Append(some, req)[i] = req
  <2>1. /\ Len(some) \in Nat /\ DOMAIN some = 1 .. Len(some)
    BY <1>4, PlacesFinite
  <2>2. some \in Seq(R \cup {req}) /\ req \in R \cup {req}
    BY <1>4, SeqMonotonic
  <2>3. /\ Append(some, req) \in Seq(R \cup {req}) /\ Len(Append(some, req)) = Len(some) + 1
        /\ \A i \in 1 .. Len(some) : Append(some, req)[i] = some[i]
        /\ Append(some, req)[Len(some) + 1] = req
    BY <2>2, AppendProperties
  <2>4. DOMAIN Append(some, req) = 1 .. Len(some) + 1
    BY <2>3, LenProperties
  <2>5. \A i \in 1 .. Len(some) + 1 : i \in 1 .. Len(some) \/ i = Len(some) + 1
    BY <2>1
  <2> QED  BY <1>4, <2>1, <2>3, <2>4, <2>5
<1>5. ASSUME NEW kept \in 0 .. Len(reqs)
      PROVE  /\ SubSeq(reqs, 1, kept) \in Seq(S)
             /\ \A i \in DOMAIN SubSeq(reqs, 1, kept) :
                   \E j \in DOMAIN reqs : SubSeq(reqs, 1, kept)[i] = reqs[j]
  <2>1. kept \in Int /\ \A i \in 1 .. kept : reqs[i] \in S /\ i \in DOMAIN reqs
    BY <1>3, <1>5
  <2> DEFINE some == SubSeq(reqs, 1, kept)
  <2>2. /\ some \in Seq(S) /\ Len(some) = IF 1 <= kept THEN kept - 1 + 1 ELSE 0
        /\ \A i \in 1 .. kept - 1 + 1 : some[i] = reqs[1 + i - 1]
    BY <2>1, SubSeqProperties
  <2> HIDE DEF some
  <2>3. DOMAIN some = 1 .. kept
    BY <2>1, <2>2, LenProperties
  <2>4. \A i \in 1 .. kept : some[i] = reqs[i]
    BY <2>1, <2>2
  <2> QED  BY <2>1, <2>2, <2>3, <2>4 DEF some
<1>6. \A i \in DOMAIN Append(reqs, req) :
         \/ \E j \in DOMAIN reqs : Append(reqs, req)[i] = reqs[j]
         \/ Append(reqs, req)[i] = req
  BY <1>2, <1>4
<1>7. \A kept \in 0 .. Len(reqs) : \A i \in DOMAIN Append(SubSeq(reqs, 1, kept), req) :
         \/ \E j \in DOMAIN reqs : Append(SubSeq(reqs, 1, kept), req)[i] = reqs[j]
         \/ Append(SubSeq(reqs, 1, kept), req)[i] = req
  BY <1>4, <1>5
<1> QED  BY <1>1, <1>6, <1>7

\* A request that bears what the client believes.
LEMMA SendKeepsViews ==
  ASSUME IInv, SubsInv, ViewInv, NEW c \in Clients, NEW kind, NEW req, Send(c, kind, req),
         c \in clients => RequestHolds(c, req),
         c \notin clients => req.kind \notin {"value", "getvalues"},
         req.kind # "disconnect"
  PROVE  ViewInv'
<1>1. /\ inbound' = [inbound EXCEPT ![c] = Append(@, req)] /\ conn[c] = "open"
      /\ UNCHANGED <<clients, entries, pub_ids, next_pub_id, accepting, outbox, conn, view>>
  BY DEF Send, directoryVars, taskVars
<1>2. DOMAIN inbound = Clients
  BY DEF IInv, RequestTypes
<1>3. /\ inbound'[c] = Append(inbound[c], req)
      /\ \A d \in Clients \ {c} : inbound'[d] = inbound[d]
      /\ \A i \in DOMAIN inbound'[c] :
            \/ \E j \in DOMAIN inbound[c] : inbound'[c][i] = inbound[c][j]
            \/ inbound'[c][i] = req
  BY <1>1, <1>2, AppendedRequest
<1>4. clients \subseteq Clients
  BY DEF IInv, DirectoryInv, DirectoryTypes
<1>5. BeliefsHold'
  <2>1. \A d \in clients : \A i \in DOMAIN inbound'[d] : RequestHolds(d, inbound'[d][i])
    <3>1. \A d \in clients : \A i \in DOMAIN inbound[d] : RequestHolds(d, inbound[d][i])
      BY DEF ViewInv, BeliefsHold
    <3> QED  BY <1>3, <1>4, <3>1
  <2> QED  BY <1>1, <2>1
           DEF ViewInv, BeliefsHold, ViewHolds, MessageHolds, RequestHolds, MayHave, MayName
<1>6. Newcomers'
  <2>1. ASSUME NEW d \in Clients \ clients, Unaware(d) PROVE Unaware(d)'
    BY <1>1, <1>3, <2>1 DEF Unaware
  <2> QED  BY <1>1, <2>1 DEF ViewInv, Newcomers
<1>7. Connections'
  BY <1>1, <1>3 DEF ViewInv, Connections
<1>8. ViewsCatchUp'
  BY <1>1 DEF ViewInv, ViewsCatchUp, Reachable, WillKnow
<1>9. ValuesFollowAnnouncements'
  BY <1>1 DEF ViewInv, ValuesFollowAnnouncements, Reachable
<1> QED  BY <1>5, <1>6, <1>7, <1>8, <1>9 DEF ViewInv

\* The end of a connection.
LEMMA CloseKeepsViews ==
  ASSUME IInv, SubsInv, ViewInv, NEW c \in Clients, NEW kept \in 0 .. Len(inbound[c]),
         Close(c, kept)
  PROVE  ViewInv'
<1> DEFINE goodbye == [kind |-> "disconnect"]
<1>1. /\ conn' = [conn EXCEPT ![c] = "closed"] /\ outbox' = [outbox EXCEPT ![c] = << >>]
      /\ inbound' = [inbound EXCEPT ![c] = Append(SubSeq(@, 1, kept), goodbye)]
      /\ UNCHANGED <<clients, entries, pub_ids, next_pub_id, accepting, view>> /\ conn[c] = "open"
  BY DEF Close, directoryVars, taskVars
<1>2. goodbye.kind = "disconnect"
  OBVIOUS
<1> HIDE DEF goodbye
<1>3. /\ DOMAIN inbound = Clients /\ DOMAIN outbox = Clients /\ DOMAIN conn = Clients
      /\ clients \subseteq Clients
  BY DEF IInv, RequestTypes, SubsInv, TaskTypes, ClientTypes, DirectoryInv, DirectoryTypes
<1>4. /\ conn'[c] = "closed" /\ DOMAIN outbox'[c] = {}
      /\ \A d \in Clients \ {c} :
            inbound'[d] = inbound[d] /\ outbox'[d] = outbox[d] /\ conn'[d] = conn[d]
      /\ \A i \in DOMAIN inbound'[c] :
            \/ \E j \in DOMAIN inbound[c] : inbound'[c][i] = inbound[c][j]
            \/ inbound'[c][i] = goodbye
  <2>1. inbound'[c] = Append(SubSeq(inbound[c], 1, kept), goodbye)
    BY <1>1, <1>3
  <2>2. \A i \in DOMAIN Append(SubSeq(inbound[c], 1, kept), goodbye) :
            \/ \E j \in DOMAIN inbound[c] :
                  Append(SubSeq(inbound[c], 1, kept), goodbye)[i] = inbound[c][j]
            \/ Append(SubSeq(inbound[c], 1, kept), goodbye)[i] = goodbye
    BY AppendedRequest
  <2> QED  BY <1>1, <1>3, <2>1, <2>2
<1>5. BeliefsHold'
  <2>1. \A d \in clients : \A i \in DOMAIN inbound'[d] : RequestHolds(d, inbound'[d][i])
    <3>1. \A d \in clients : \A i \in DOMAIN inbound[d] : RequestHolds(d, inbound[d][i])
      BY DEF ViewInv, BeliefsHold
    <3>2. RequestHolds(c, goodbye)
      BY <1>2 DEF RequestHolds
    <3> QED  BY <1>3, <1>4, <3>1, <3>2
  <2>2. \A d \in clients : \A i \in DOMAIN outbox'[d] : MessageHolds(d, outbox'[d][i])
    BY <1>3, <1>4 DEF ViewInv, BeliefsHold
  <2> QED  BY <1>1, <2>1, <2>2
           DEF ViewInv, BeliefsHold, ViewHolds, MessageHolds, RequestHolds, MayHave, MayName
<1>6. Newcomers'
  <2>1. ASSUME NEW d \in Clients \ clients, Unaware(d) PROVE Unaware(d)'
    BY <1>1, <1>2, <1>4, <2>1 DEF Unaware
  <2>2. c \in Clients \ clients => Unaware(c)
    BY <1>1 DEF ViewInv, Newcomers
  <2> QED  BY <1>1, <1>4, <2>1, <2>2 DEF ViewInv, Newcomers
<1>7. Connections'
  BY <1>1, <1>4 DEF ViewInv, Connections
<1>8. ViewsCatchUp'
  BY <1>1, <1>4 DEF ViewInv, ViewsCatchUp, Reachable, WillKnow
<1>9. ValuesFollowAnnouncements'
  BY <1>1, <1>4 DEF ViewInv, ValuesFollowAnnouncements, Reachable
<1> QED  BY <1>5, <1>6, <1>7, <1>8, <1>9 DEF ViewInv

\* What a client has read of the topics is what the server told it.
LEMMA ReadKeepsViews ==
  ASSUME IInv, SubsInv, ViewInv, NEW c \in Clients, ReadMessages(c) PROVE ViewInv'
<1>1. /\ view' = [view EXCEPT ![c] = WillKnow(c)] /\ outbox' = [outbox EXCEPT ![c] = << >>]
      /\ UNCHANGED <<clients, entries, pub_ids, next_pub_id, accepting, inbound, conn>>
  BY DEF ReadMessages, directoryVars, taskVars, WillKnow
<1>2. /\ DOMAIN outbox = Clients /\ DOMAIN view = Clients /\ clients \subseteq Clients
      /\ outbox[c] \in Seq(Messages)
  BY DEF SubsInv, TaskTypes, ClientTypes, IInv, DirectoryInv, DirectoryTypes
<1>3. /\ view'[c] = WillKnow(c) /\ outbox'[c] = << >>
      /\ \A d \in Clients \ {c} : view'[d] = view[d] /\ outbox'[d] = outbox[d]
  BY <1>1, <1>2
<1>4. ASSUME c \in clients PROVE ViewHolds(c, WillKnow(c))
  <2> DEFINE K == { known \in Views : ViewHolds(c, known) }
             S == { msg \in Messages : MessageHolds(c, msg) }
  <2>1. outbox[c] \in Seq(S)
    <3>1. /\ Len(outbox[c]) \in Nat /\ DOMAIN outbox[c] = 1 .. Len(outbox[c])
          /\ outbox[c] = [i \in 1 .. Len(outbox[c]) |-> outbox[c][i]]
          /\ \A i \in DOMAIN outbox[c] : outbox[c][i] \in Messages
      BY <1>2, LenProperties, PlacesFinite
    <3>2. \A i \in DOMAIN outbox[c] : MessageHolds(c, outbox[c][i])
      BY <1>4 DEF ViewInv, BeliefsHold
    <3>3. outbox[c] \in [1 .. Len(outbox[c]) -> S]
      BY <3>1, <3>2
    <3> HIDE DEF S
    <3> QED  BY <3>1, <3>3
  <2>2. view[c] \in K
    BY <1>4 DEF SubsInv, ClientTypes, ViewInv, BeliefsHold
  <2>3. ASSUME NEW known \in K, NEW msg \in S PROVE Learn(known, msg) \in K
    <3>1. << msg >> \in Seq(Messages) /\ Replay(known, << msg >>) = Learn(known, msg)
      BY ReplayOne
    <3>2. Learn(known, msg) \in Views
      BY <3>1, ViewType
    <3>3. ViewHolds(c, Learn(known, msg))
      <4>1. CASE msg.kind = "announce"
        <5>1. /\ Learn(known, msg) = Put(known, msg.name, [id |-> msg.id, type |-> msg.type])
              /\ MayHave(c, msg.id, msg.name, msg.type)
          BY <4>1 DEF Learn, MessageHolds
        <5> QED  BY <5>1 DEF ViewHolds, Put
      <4>2. CASE msg.kind = "unannounce"
        BY <4>2 DEF Learn, Without, ViewHolds
      <4>3. CASE ~IsNews(msg)
        BY <4>3 DEF Learn, IsNews
      <4> QED  BY <4>1, <4>2, <4>3 DEF IsNews
    <3> QED  BY <3>2, <3>3
  <2> HIDE DEF K, S
  <2>4. Replay(view[c], outbox[c]) \in K
    BY <2>1, <2>2, <2>3, ReplayKeeps
  <2> QED  BY <2>4 DEF K, WillKnow
<1>5. BeliefsHold'
  <2>1. \A d \in clients : ViewHolds(d, view'[d])
    BY <1>2, <1>3, <1>4 DEF ViewInv, BeliefsHold
  <2>2. \A d \in clients : \A i \in DOMAIN outbox'[d] : MessageHolds(d, outbox'[d][i])
    BY <1>2, <1>3 DEF ViewInv, BeliefsHold
  <2> QED  BY <1>1, <2>1, <2>2
           DEF ViewInv, BeliefsHold, ViewHolds, MessageHolds, RequestHolds, MayHave, MayName
<1>6. Newcomers'
  <2>1. ASSUME NEW d \in Clients \ clients, Unaware(d) PROVE Unaware(d)'
    <3>1. WillKnow(d) = Empty
      BY <2>1, UnawareKnows
    <3> QED  BY <1>1, <1>3, <2>1, <3>1 DEF Unaware
  <2> QED  BY <1>1, <2>1 DEF ViewInv, Newcomers
<1>7. Connections'
  BY <1>1 DEF ViewInv, Connections
<1>8. WillKnow(c)' = WillKnow(c) /\ Follow(view[c], outbox[c])'
  <2>1. PICK known : known = WillKnow(c)
    OBVIOUS
  <2>2. Replay(known, << >>) = known
    BY ReplayNone
  <2> QED  BY <1>3, <2>1, <2>2 DEF WillKnow, Follow
<1>9. ViewsCatchUp'
  BY <1>1, <1>3, <1>8 DEF ViewInv, ViewsCatchUp, Reachable, WillKnow
<1>10. ValuesFollowAnnouncements'
  BY <1>1, <1>3, <1>8 DEF ViewInv, ValuesFollowAnnouncements, Reachable
<1> QED  BY <1>5, <1>6, <1>7, <1>9, <1>10 DEF ViewInv

\* Every step of a client keeps the invariant.
LEMMA ClientKeepsViews ==
  ASSUME IInv, SubsInv, ViewInv, NEW c \in Clients, ClientStep(c) PROVE ViewInv'
<1>0. ASSUME NEW kind, NEW req, Send(c, kind, req),
             req.kind \notin {"value", "getvalues", "disconnect"}
      PROVE  ViewInv'
  <2>1. RequestHolds(c, req)
    BY <1>0 DEF RequestHolds
  <2> QED  BY <1>0, <2>1, SendKeepsViews
<1>1. CASE \/ SendPublish(c) \/ SendRelease(c) \/ SendSetFlags(c)
           \/ SendTime(c) \/ SendSubscribe(c) \/ SendUnsubscribe(c)
  <2>1. CASE SendPublish(c)
    BY <1>0, <2>1 DEF SendPublish
  <2>2. CASE SendRelease(c)
    BY <1>0, <2>2 DEF SendRelease
  <2>3. CASE SendSetFlags(c)
    BY <1>0, <2>3 DEF SendSetFlags
  <2>4. CASE SendTime(c)
    BY <1>0, <2>4 DEF SendTime
  <2>5. CASE SendSubscribe(c)
    BY <1>0, <2>5 DEF SendSubscribe
  <2>6. CASE SendUnsubscribe(c)
    BY <1>0, <2>6 DEF SendUnsubscribe
  <2> QED  BY <1>1, <2>1, <2>2, <2>3, <2>4, <2>5, <2>6
<1>2. ASSUME NEW n \in DOMAIN view[c]
      PROVE  /\ c \in clients => MayHave(c, view[c][n].id, n, view[c][n].type)
             /\ conn[c] = "open" => c \in clients
  <2>1. c \in clients => MayHave(c, view[c][n].id, n, view[c][n].type)
    BY DEF ViewInv, BeliefsHold, ViewHolds
  <2>2. Unaware(c) => FALSE
    BY DEF Unaware, Empty
  <2> QED  BY <2>1, <2>2 DEF ViewInv, Newcomers
<1>3. CASE SendValue(c)
  <2>1. PICK n \in published[c] \cap DOMAIN view[c], v \in Values, ts \in Timestamps :
          /\ v.type = view[c][n].type
          /\ Send(c, "value", [kind |-> "value", name |-> n, id |-> view[c][n].id,
                               value |-> v, timestamp |-> ts])
    BY <1>3 DEF SendValue
  <2>2. PICK req : req = [kind |-> "value", name |-> n, id |-> view[c][n].id,
                          value |-> v, timestamp |-> ts]
    OBVIOUS
  <2>3. /\ req.kind = "value" /\ req.name = n /\ req.id = view[c][n].id
        /\ req.value.type = view[c][n].type
    BY <2>1, <2>2
  <2>4. conn[c] = "open" /\ Send(c, "value", req)
    BY <2>1, <2>2 DEF Send
  <2>5. c \in clients /\ RequestHolds(c, req)
    BY <1>2, <2>3, <2>4 DEF RequestHolds
  <2> QED  BY <2>3, <2>4, <2>5, SendKeepsViews
<1>4. CASE SendGetValues(c)
  <2>1. PICK n \in DOMAIN view[c] :
          Send(c, "getvalues", [kind |-> "getvalues", name |-> n, id |-> view[c][n].id])
    BY <1>4 DEF SendGetValues
  <2>2. PICK req : req = [kind |-> "getvalues", name |-> n, id |-> view[c][n].id]
    OBVIOUS
  <2>3. req.kind = "getvalues" /\ req.name = n /\ req.id = view[c][n].id
    BY <2>2
  <2>4. conn[c] = "open" /\ Send(c, "getvalues", req)
    BY <2>1, <2>2 DEF Send
  <2>5. c \in clients /\ RequestHolds(c, req)
    BY <1>2, <2>3, <2>4 DEF RequestHolds, MayHave
  <2> QED  BY <2>3, <2>4, <2>5, SendKeepsViews
<1>5. CASE Leave(c) \/ Drop(c)
  <2>1. PICK kept \in 0 .. Len(inbound[c]) : Close(c, kept)
    <3>1. Len(inbound[c]) \in 0 .. Len(inbound[c])
      BY LenProperties DEF IInv, RequestTypes, AreWellFormed
    <3> QED  BY <1>5, <3>1 DEF Leave, Drop
  <2> QED  BY <2>1, CloseKeepsViews
<1>6. CASE ReadMessages(c)
  BY <1>6, ReadKeepsViews
<1> QED  BY <1>1, <1>3, <1>4, <1>5, <1>6 DEF ClientStep

----------------------------------------------------------------------------
(* The invariant                                                           *)

\* A new process, and clients that come to it as new ones.
NewViews ==
    /\ clients = {} /\ accepting = {}
    /\ conn = [c \in Clients |-> "fresh"]
    /\ inbound = [c \in Clients |-> << >>]
    /\ outbox = [c \in Clients |-> << >>]
    /\ view = [c \in Clients |-> Empty]

\* It establishes the invariant.
LEMMA NewViewsHold == NewViews => ViewInv
<1> SUFFICES ASSUME NewViews PROVE ViewInv
  OBVIOUS
<1> USE DEF NewViews
<1>1. BeliefsHold
  BY DEF BeliefsHold
<1>2. Newcomers
  BY DEF Newcomers, Unaware
<1>3. Connections
  BY DEF Connections
<1>4. ViewsCatchUp /\ ValuesFollowAnnouncements
  BY DEF ViewsCatchUp, ValuesFollowAnnouncements, Reachable
<1> QED  BY <1>1, <1>2, <1>3, <1>4 DEF ViewInv

\* Every step keeps the invariant.
LEMMA NextKeepsViews == IInv /\ SubsInv /\ ViewInv /\ [Next]_vars => ViewInv'
<1> SUFFICES ASSUME IInv, SubsInv, ViewInv, [Next]_vars PROVE ViewInv'
  OBVIOUS
<1>1. IInv' /\ IdsAdvance
  BY NextKeeps
<1>2. ASSUME NEW c \in Clients, ConnectionStep(c) PROVE ViewInv'
  <2>1. CASE Accept(c)
    BY <2>1, AcceptKeepsViews
  <2>2. CASE InsertClient(c)
    BY <2>2, InsertKeepsViews
  <2>3. CASE update_new_client(c)
    BY <1>1, <2>3, GreetKeepsViews, PanicKeepsViews DEF update_new_client
  <2> QED  BY <1>2, <2>1, <2>2, <2>3 DEF ConnectionStep
<1>3. CASE FlushPersistent
  BY <1>1, <1>3, IdleKeepsViews DEF FlushPersistent, taskVars
<1>4. CASE Restart
  <2>1. NewViews'
    BY <1>4 DEF Restart, NewViews
  <2>2. (NewViews => ViewInv)'
    BY NewViewsHold, PTL
  <2> QED  BY <2>1, <2>2
<1>5. CASE UNCHANGED vars
  BY <1>1, <1>5, IdleKeepsViews DEF vars, taskVars
<1> QED  BY <1>1, <1>2, <1>3, <1>4, <1>5, ClientKeepsViews, ReceiveKeepsViews, FrameKeepsViews,
         BroadcastKeepsViews, LoopKeepsViews DEF Next

\* The invariants hold in every reachable state.
LEMMA ViewInvariance == Spec => [](IInv /\ SubsInv /\ ViewInv)
<1>1. Init => NewViews
  BY DEF Init, NewViews
<1>2. Init => ViewInv
  BY <1>1, NewViewsHold
<1>3. IInv /\ SubsInv /\ ViewInv /\ [Next]_vars => ViewInv'
  BY NextKeepsViews
<1>4. Spec => [](IInv /\ SubsInv)
  BY SubsInvariance
<1>5. Spec => Init /\ [][Next]_vars
  BY DEF Spec
<1> QED  BY <1>2, <1>3, <1>4, <1>5, PTL

----------------------------------------------------------------------------
(* The theorems                                                            *)

\* A client that reads all it was sent has the server's own table of topics, ids
\* and types, whatever publications, deletions and greetings are interleaved
\* (announce, unannounce, update_new_client).
THEOREM ViewsAlwaysCatchUp == Spec => []ViewsCatchUp
<1>1. IInv /\ SubsInv /\ ViewInv => ViewsCatchUp
  BY DEF ViewInv
<1> QED  BY <1>1, ViewInvariance, PTL

\* A value comes after the announcement of the id it bears, and before that id is
\* withdrawn or replaced (ValuePublish, Subscribe, GetValues, the broadcast loops).
THEOREM ValuesAlwaysFollow == Spec => []ValuesFollowAnnouncements
<1>1. IInv /\ SubsInv /\ ViewInv => ValuesFollowAnnouncements
  BY DEF ViewInv
<1> QED  BY <1>1, ViewInvariance, PTL

\* A value or a request for values reaches the topic its client means or none, and
\* the value has its type, however long it was on its way (id_to_name).
THEOREM RequestsAlwaysReachTheirTopic == Spec => []RequestsReachTheirTopic
<1>1. ASSUME IInv, ViewInv, NEW c \in clients, NEW i \in DOMAIN inbound[c],
             inbound[c][i].kind \in {"value", "getvalues"}, IdKnown(c, inbound[c][i].id)
      PROVE  /\ id_to_name(c, inbound[c][i].id) = inbound[c][i].name
             /\ inbound[c][i].kind = "value" =>
                   entry_type(entries[inbound[c][i].name]) = inbound[c][i].value.type
  <2> DEFINE req == inbound[c][i]
  <2>1. RequestHolds(c, req)
    BY <1>1 DEF ViewInv, BeliefsHold
  <2> HIDE DEF req
  <2>2. \E n \in DOMAIN pub_ids[c] : pub_ids[c][n] = req.id
    BY <1>1 DEF IdKnown, req
  <2>3. req.kind \in {"value", "getvalues"}
    BY <1>1 DEF req
  <2>4. MayName(c, req.id, req.name)
    BY <2>1, <2>3 DEF RequestHolds, MayHave
  <2>5. /\ id_to_name(c, req.id) = req.name
        /\ req.name \in DOMAIN pub_ids[c] /\ pub_ids[c][req.name] = req.id
    BY <2>2, <2>4 DEF MayName, id_to_name
  <2>6. req.kind = "value" => entry_type(entries[req.name]) = req.value.type
    BY <2>1, <2>5 DEF RequestHolds, MayHave
  <2> QED  BY <2>5, <2>6 DEF req
<1>2. IInv /\ SubsInv /\ ViewInv => RequestsReachTheirTopic
  BY <1>1 DEF RequestsReachTheirTopic
<1> QED  BY <1>2, ViewInvariance, PTL

----------------------------------------------------------------------------
(* The server implements the directory.                                    *)

\* The server's topics for a client, with their types.
Believed(c) == [n \in DOMAIN pub_ids[c] |-> entry_type(entries[n])]

\* The clients know what the server has them know.
LEMMA KnownIs ==
  ViewInv => KnownTypes = [c \in Clients |-> IF Reachable(c) THEN Believed(c) ELSE Empty]
<1> SUFFICES ASSUME ViewInv
             PROVE  KnownTypes = [c \in Clients |-> IF Reachable(c) THEN Believed(c) ELSE Empty]
  OBVIOUS
<1>1. ASSUME NEW c \in Clients, Reachable(c)
      PROVE  [n \in DOMAIN WillKnow(c) |-> WillKnow(c)[n].type] = Believed(c)
  <2>1. WillKnow(c) = Table(c)
    BY <1>1 DEF ViewInv, ViewsCatchUp, Table
  <2> QED  BY <2>1 DEF Table, Believed
<1> DEFINE told(c) == [n \in DOMAIN WillKnow(c) |-> WillKnow(c)[n].type]
<1>2. KnownTypes = [c \in Clients |-> IF Reachable(c) THEN told(c) ELSE Empty]
  BY DEF KnownTypes
<1>3. \A c \in Clients : Reachable(c) => told(c) = Believed(c)
  BY <1>1
<1> HIDE DEF told
<1> QED  BY <1>2, <1>3

\* The same after a step.
LEMMA KnownNext ==
  ASSUME ViewInv'
  PROVE  KnownTypes' = [c \in Clients |-> IF Reachable(c)' THEN Believed(c)' ELSE Empty]
<1>1. (ViewInv => KnownTypes = [c \in Clients |-> IF Reachable(c) THEN Believed(c) ELSE Empty])'
  BY KnownIs, PTL
<1> QED  BY <1>1

\* A step that changes neither topics, nor who is served, nor their tables.
LEMMA SameDirectory ==
  ASSUME ViewInv, ViewInv', DOMAIN entries' = DOMAIN entries,
         \A n \in DOMAIN entries : entry_type(entries'[n]) = entry_type(entries[n]),
         \A c \in Clients : Reachable(c)' = Reachable(c),
         \A c \in Clients : Reachable(c) =>
            /\ Believed(c)' = Believed(c)
            /\ c \in greeting' <=> c \in greeting
  PROVE  UNCHANGED <<TopicTypes, Members, Greeted, KnownTypes>>
<1>1. TopicTypes' = TopicTypes
  BY DEF TopicTypes
<1>2. Members' = Members
  BY DEF Members
<1>3. Greeted' = Greeted
  BY <1>2 DEF Greeted, Members
<1>4. KnownTypes' = KnownTypes
  BY KnownIs, KnownNext
<1> QED  BY <1>1, <1>2, <1>3, <1>4

\* In particular, one that leaves the directory and the connections alone.
LEMMA IdleDirectory ==
  ASSUME IInv, ViewInv, ViewInv', UNCHANGED <<clients, pub_ids, conn, greeting>>,
         DOMAIN entries' = DOMAIN entries,
         \A n \in DOMAIN entries : entry_type(entries'[n]) = entry_type(entries[n])
  PROVE  UNCHANGED <<TopicTypes, Members, Greeted, KnownTypes>>
<1>1. \A c \in Clients : Reachable(c)' = Reachable(c)
  BY DEF Reachable
<1>2. \A c \in clients : Believed(c)' = Believed(c)
  BY DEF Believed, IInv, DirectoryInv, AnnouncedMatchEntries
<1> QED  BY <1>1, <1>2, SameDirectory DEF Reachable

\* A publication.
LEMMA PublishIsPublish ==
  ASSUME IInv, ViewInv, ViewInv', NEW c \in Clients, NEW req, req.name \in Names,
         req.type \in DataType, HandlePublish(c, req), UNCHANGED <<conn, greeting>>
  PROVE  Dir!Publish(req.name, req.type)
<1> DEFINE name == req.name
<1>1. /\ clients' = clients /\ name \in DOMAIN entries' /\ entry_type(entries'[name]) = req.type
      /\ DOMAIN entries' = DOMAIN entries \cup {name}
      /\ \A n \in DOMAIN entries \ {name} : entries'[n] = entries[n]
  <2>1. clients' = clients /\ create_entry(name, req.type)
    BY DEF HandlePublish
  <2>2. CASE SameType(name, req.type)
    BY <2>1, <2>2 DEF create_entry, SameType
  <2>3. CASE ~SameType(name, req.type)
    <3>1. entries' = Put(entries, name, NewTopic(req.type))
      BY <2>1, <2>3 DEF create_entry
    <3>2. entry_type(NewTopic(req.type)) = req.type
      BY DEF NewTopic, default_value, ValueOf, entry_type
    <3> HIDE DEF name
    <3> QED  BY <2>1, <3>1, <3>2 DEF Put
  <2> QED  BY <2>2, <2>3
<1>2. \A d \in Clients : Reachable(d)' = Reachable(d)
  BY <1>1 DEF Reachable
<1>3. Members' = Members /\ Greeted' = Greeted
  BY <1>2 DEF Members, Greeted
<1>4. TopicTypes' = Dir!Plus(TopicTypes, name, req.type)
  <2>1. \A n \in DOMAIN entries' :
           entry_type(entries'[n]) = IF n = name THEN req.type ELSE entry_type(entries[n])
    BY <1>1
  <2> QED  BY <1>1, <2>1 DEF TopicTypes, Dir!Plus
<1>5. ASSUME NEW d \in Clients, Reachable(d)
      PROVE  Believed(d)' = Dir!Plus(Believed(d), name, req.type)
  <2>1. /\ DOMAIN pub_ids'[d] = DOMAIN pub_ids[d] \cup {name}
        /\ DOMAIN pub_ids[d] \subseteq DOMAIN entries
    BY <1>5 DEF HandlePublish, AnnounceToAll, Announce, announced_ids, Put, Reachable,
                IInv, DirectoryInv, AnnouncedMatchEntries
  <2>2. \A n \in DOMAIN pub_ids'[d] :
           entry_type(entries'[n]) = IF n = name THEN req.type ELSE entry_type(entries[n])
    BY <1>1, <2>1
  <2> QED  BY <2>1, <2>2 DEF Believed, Dir!Plus
<1>6. KnownTypes' = [d \in Clients |-> IF d \in Members THEN Dir!Plus(KnownTypes[d], name, req.type)
                                                       ELSE KnownTypes[d]]
  <2>1. \A d \in Clients : d \in Members <=> Reachable(d)
    BY DEF Members
  <2>2. \A d \in Clients : KnownTypes[d] = IF Reachable(d) THEN Believed(d) ELSE Empty
    BY KnownIs
  <2>3. \A d \in Clients : (IF Reachable(d)' THEN Believed(d)' ELSE Empty)
                           = IF d \in Members THEN Dir!Plus(KnownTypes[d], name, req.type)
                                              ELSE KnownTypes[d]
    BY <1>2, <1>5, <2>1, <2>2
  <2> QED  BY <2>3, KnownNext
<1> QED  BY <1>3, <1>4, <1>6 DEF Dir!Publish

\* Topics are deleted, with the entries of everybody's table.
LEMMA DeleteIsDelete ==
  ASSUME IInv, ViewInv, ViewInv', NEW S \in SUBSET Names, entries' = Without(entries, S),
         \A c \in Clients : Reachable(c)' = Reachable(c),
         \A c \in Clients : Reachable(c) => pub_ids'[c] = Without(pub_ids[c], S),
         UNCHANGED greeting
  PROVE  Dir!Delete(S)
<1>1. Members' = Members /\ Greeted' = Greeted
  BY DEF Members, Greeted
<1>2. /\ DOMAIN entries' = DOMAIN entries \ S
      /\ \A n \in DOMAIN entries \ S : entries'[n] = entries[n]
  BY DEF Without
<1>3. TopicTypes' = Dir!Minus(TopicTypes, S)
  BY <1>2 DEF TopicTypes, Dir!Minus
<1>4. ASSUME NEW c \in Clients, Reachable(c) PROVE Believed(c)' = Dir!Minus(Believed(c), S)
  <2>1. /\ DOMAIN pub_ids'[c] = DOMAIN pub_ids[c] \ S
        /\ DOMAIN pub_ids[c] \subseteq DOMAIN entries
    BY <1>4 DEF Without, Reachable, IInv, DirectoryInv, AnnouncedMatchEntries
  <2>2. \A n \in DOMAIN pub_ids'[c] : entries'[n] = entries[n]
    BY <1>2, <2>1
  <2> QED  BY <2>1, <2>2 DEF Believed, Dir!Minus
<1>5. KnownTypes' = [c \in Clients |-> IF c \in Members THEN Dir!Minus(KnownTypes[c], S)
                                                        ELSE KnownTypes[c]]
  <2>1. \A c \in Clients : c \in Members <=> Reachable(c)
    BY DEF Members
  <2>2. \A c \in Clients : KnownTypes[c] = IF Reachable(c) THEN Believed(c) ELSE Empty
    BY KnownIs
  <2>3. \A c \in Clients : (IF Reachable(c)' THEN Believed(c)' ELSE Empty)
                           = IF c \in Members THEN Dir!Minus(KnownTypes[c], S)
                                              ELSE KnownTypes[c]
    BY <1>4, <2>1, <2>2
  <2> QED  BY <2>3, KnownNext
<1> QED  BY <1>1, <1>3, <1>5 DEF Dir!Delete

\* update_new_client, for a client that is still there.
LEMMA GreetIsGreet ==
  ASSUME IInv, ViewInv, ViewInv', NEW c \in clients, GreetClient(c)
  PROVE  Dir!Greet(c) \/ UNCHANGED <<TopicTypes, Members, Greeted, KnownTypes>>
<1>1. PICK order \in SetToSeqs(DOMAIN entries) :
         pub_ids' = [pub_ids EXCEPT ![c] = GreetedIds(c, order)]
  BY DEF GreetClient
<1>2. greeting' = greeting \ {c} /\ UNCHANGED <<clients, entries, conn>>
  BY DEF GreetClient, clientVars
<1>3. c \in Clients /\ DOMAIN pub_ids = Clients /\ DOMAIN pub_ids[c] \subseteq DOMAIN entries
  BY DEF IInv, DirectoryInv, DirectoryTypes, AnnouncedMatchEntries
<1>4. /\ DOMAIN pub_ids'[c] = DOMAIN entries
      /\ \A d \in Clients \ {c} : pub_ids'[d] = pub_ids[d]
  <2>1. DOMAIN GreetedIds(c, order) = DOMAIN entries
    BY <1>3 DEF GreetedIds
  <2> QED  BY <1>1, <1>3, <2>1
<1>5. \A d \in Clients : Reachable(d)' = Reachable(d)
  BY <1>2 DEF Reachable
<1>6. \A d \in Clients \ {c} : Believed(d)' = Believed(d)
  BY <1>2, <1>4 DEF Believed
<1>7. Believed(c)' = TopicTypes
  BY <1>2, <1>4 DEF Believed, TopicTypes
<1>8. CASE Reachable(c)
  <2>1. c \in Members /\ Members' = Members /\ TopicTypes' = TopicTypes
    BY <1>2, <1>3, <1>5, <1>8 DEF Members, TopicTypes
  <2>2. Greeted' = Greeted \cup {c}
    BY <1>2, <2>1 DEF Greeted
  <2>3. KnownTypes' = [KnownTypes EXCEPT ![c] = TopicTypes]
    <3>1. \A d \in Clients : KnownTypes'[d] = IF d = c THEN TopicTypes ELSE KnownTypes[d]
      BY <1>5, <1>6, <1>7, <1>8, KnownIs, KnownNext
    <3>2. KnownTypes \in [Clients -> {KnownTypes[d] : d \in Clients}] /\ DOMAIN KnownTypes' = Clients
      BY KnownIs, KnownNext
    <3>3. KnownTypes' = [d \in Clients |-> KnownTypes'[d]]
      BY KnownNext
    <3> QED  BY <3>1, <3>2, <3>3
  <2> QED  BY <2>1, <2>2, <2>3 DEF Dir!Greet
<1>9. CASE ~Reachable(c)
  <2>1. \A d \in Clients : Reachable(d) => d # c
    BY <1>9
  <2> QED  BY <1>2, <1>5, <1>6, <2>1, SameDirectory
<1> QED  BY <1>8, <1>9

\* The insertion of a client, unless its connection has ended by then.
LEMMA InsertIsJoin ==
  ASSUME IInv, ViewInv, ViewInv', NEW c \in Clients, InsertClient(c)
  PROVE  Dir!Join(c) \/ UNCHANGED <<TopicTypes, Members, Greeted, KnownTypes>>
<1>1. /\ c \in accepting /\ clients' = clients \cup {c} /\ greeting' = greeting \cup {c}
      /\ UNCHANGED <<entries, pub_ids, conn>>
  BY DEF InsertClient, clientVars
<1>2. c \notin clients /\ ~Reachable(c)
  BY <1>1 DEF ViewInv, Connections, Reachable
<1>3. \A d \in Clients : Believed(d)' = Believed(d)
  BY <1>1 DEF Believed
<1>4. \A d \in Clients \ {c} : Reachable(d)' = Reachable(d)
  BY <1>1 DEF Reachable
<1>5. CASE conn[c] = "open"
  <2>1. Reachable(c)'
    BY <1>1, <1>5 DEF Reachable
  <2>2. c \notin Members /\ Members' = Members \cup {c}
    BY <1>2, <1>4, <2>1 DEF Members
  <2>3. Greeted' = Greeted /\ TopicTypes' = TopicTypes
    BY <1>1, <1>2, <2>2 DEF Greeted, TopicTypes
  <2>4. Believed(c) = Empty
    BY <1>2 DEF IInv, DirectoryInv, Strangers, Believed, Empty
  <2>5. KnownTypes' = KnownTypes
    BY <1>2, <1>3, <1>4, <2>1, <2>4, KnownIs, KnownNext
  <2> QED  BY <2>2, <2>3, <2>5 DEF Dir!Join
<1>6. CASE conn[c] # "open"
  <2>1. ~Reachable(c)'
    BY <1>1, <1>6 DEF Reachable
  <2>2. \A d \in Clients : Reachable(d)' = Reachable(d)
    BY <1>2, <1>4, <2>1 DEF Reachable
  <2>3. \A d \in Clients : Reachable(d) => (d \in greeting' <=> d \in greeting)
    BY <1>1, <1>2
  <2> QED  BY <1>1, <1>3, <2>2, <2>3, SameDirectory
<1> QED  BY <1>5, <1>6

\* The end of a connection.
LEMMA CloseIsQuit ==
  ASSUME IInv, SubsInv, ViewInv, ViewInv', NEW c \in Clients, NEW kept, Close(c, kept)
  PROVE  Dir!Quit(c) \/ UNCHANGED <<TopicTypes, Members, Greeted, KnownTypes>>
<1>1. /\ conn[c] = "open" /\ conn' = [conn EXCEPT ![c] = "closed"]
      /\ UNCHANGED <<clients, entries, pub_ids, greeting>>
  BY DEF Close, directoryVars, taskVars
<1>2. /\ ~Reachable(c)' /\ \A d \in Clients \ {c} : Reachable(d)' = Reachable(d)
  <2>1. DOMAIN conn = Clients
    BY DEF SubsInv, ClientTypes
  <2> QED  BY <1>1, <2>1 DEF Reachable
<1>3. \A d \in Clients : Believed(d)' = Believed(d)
  BY <1>1 DEF Believed
<1>4. CASE Reachable(c)
  <2>1. Members' = Members \ {c} /\ TopicTypes' = TopicTypes
    BY <1>1, <1>2 DEF Members, TopicTypes
  <2>2. Greeted' = Greeted \ {c}
    BY <1>1, <2>1 DEF Greeted
  <2>3. KnownTypes' = [KnownTypes EXCEPT ![c] = Dir!NoTopic]
    <3>1. Dir!NoTopic = Empty
      BY DEF Dir!NoTopic, Empty
    <3>2. \A d \in Clients : KnownTypes'[d] = IF d = c THEN Empty ELSE KnownTypes[d]
      BY <1>2, <1>3, KnownIs, KnownNext
    <3>3. /\ KnownTypes' = [d \in Clients |-> KnownTypes'[d]]
          /\ KnownTypes = [d \in Clients |-> KnownTypes[d]]
      BY KnownIs, KnownNext
    <3> QED  BY <3>1, <3>2, <3>3
  <2> QED  BY <2>1, <2>2, <2>3 DEF Dir!Quit
<1>5. CASE ~Reachable(c)
  <2>1. \A d \in Clients : Reachable(d)' = Reachable(d)
    BY <1>2, <1>5 DEF Reachable
  <2> QED  BY <1>1, <1>3, <2>1, SameDirectory
<1> QED  BY <1>4, <1>5

\* A new process has the topics of its file, and no members.
LEMMA NewIsReload ==
  ASSUME ViewInv', IInv', Restart
  PROVE  Dir!Reload
<1>1. clients' = {} /\ IsMap(entries', Names, Topics)
  BY DEF Restart, IInv, DirectoryInv, DirectoryTypes
<1>2. \A c \in Clients : ~Reachable(c)'
  BY <1>1 DEF Reachable
<1>3. Members' = {} /\ Greeted' = {}
  BY <1>2 DEF Members, Greeted
<1>4. Dir!NoTopic = Empty
  BY DEF Dir!NoTopic, Empty
<1>5. KnownTypes' = [c \in Clients |-> Dir!NoTopic]
  BY <1>2, <1>4, KnownNext
<1>6. TopicTypes' \in Dir!TypeMaps
  <2>1. \A n \in DOMAIN entries' : entry_type(entries'[n]) \in DataType
    BY <1>1, TypeOfTopic DEF IsMap
  <2>2. TopicTypes' \in [DOMAIN entries' -> DataType] /\ DOMAIN entries' \in SUBSET Names
    BY <1>1, <2>1 DEF TopicTypes, IsMap
  <2> QED  BY <2>2 DEF Dir!TypeMaps
<1> QED  BY <1>3, <1>5, <1>6 DEF Dir!Reload

\* A release.
LEMMA ReleaseIsDelete ==
  ASSUME IInv, SubsInv, ViewInv, ViewInv', NEW req, ~ReleaseFails(req), HandleRelease(req),
         UNCHANGED <<conn, greeting>>
  PROVE  \/ \E S \in SUBSET Names : Dir!Delete(S)
         \/ UNCHANGED <<TopicTypes, Members, Greeted, KnownTypes>>
<1>1. clients' = clients
  BY DEF HandleRelease
<1>2. \A c \in Clients : Reachable(c)' = Reachable(c)
  BY <1>1 DEF Reachable
<1>3. CASE LastPublisher(req.name)
  <2>1. /\ entries' = Without(entries, {req.name})
        /\ pub_ids' = [c \in Clients |-> Without(pub_ids[c], {req.name})]
    BY <1>3 DEF HandleRelease
  <2>2. {req.name} \in SUBSET Names
    BY DEF ReleaseFails, IInv, DirectoryInv, DirectoryTypes, IsMap
  <2> DEFINE S == {req.name}
  <2>3. /\ entries' = Without(entries, S) /\ S \in SUBSET Names
        /\ \A c \in Clients : Reachable(c) => pub_ids'[c] = Without(pub_ids[c], S)
    BY <2>1, <2>2
  <2> HIDE DEF S
  <2>4. Dir!Delete(S)
    BY <1>2, <2>3, DeleteIsDelete
  <2> QED  BY <2>3, <2>4
<1>4. CASE ~LastPublisher(req.name)
  <2>1. UNCHANGED <<entries, pub_ids>>
    BY <1>4 DEF HandleRelease
  <2> QED  BY <1>1, <2>1, IdleDirectory
<1> QED  BY <1>3, <1>4

\* The end of a client, whose connection ended before.
LEMMA DisconnectIsDelete ==
  ASSUME IInv, SubsInv, ViewInv, ViewInv', NEW c \in Clients, conn[c] = "closed",
         HandleDisconnect(c), UNCHANGED <<conn, greeting>>
  PROVE  \/ \E S \in SUBSET Names : Dir!Delete(S)
         \/ UNCHANGED <<TopicTypes, Members, Greeted, KnownTypes>>
<1>1. CASE c \in clients
  <2>1. /\ entries' = Without(entries, Orphans(c)) /\ clients' = clients \ {c}
        /\ pub_ids' = [d \in Clients |-> IF d = c THEN Empty ELSE Without(pub_ids[d], Orphans(c))]
    BY <1>1 DEF HandleDisconnect, DropClient
  <2>2. ~Reachable(c) /\ \A d \in Clients : Reachable(d)' = Reachable(d)
    BY <2>1 DEF Reachable
  <2>3. Orphans(c) \in SUBSET Names
    <3>1. IsMap(pub_count, Names, 0 .. UsizeMax)
      BY DEF IInv, DirectoryInv, DirectoryTypes
    <3> QED  BY <3>1 DEF IsMap, Orphans, Zeroes
  <2> DEFINE S == Orphans(c)
  <2>4. /\ entries' = Without(entries, S) /\ S \in SUBSET Names
        /\ \A d \in Clients : Reachable(d) => pub_ids'[d] = Without(pub_ids[d], S)
    BY <2>1, <2>2, <2>3
  <2> HIDE DEF S
  <2>5. Dir!Delete(S)
    BY <2>2, <2>4, DeleteIsDelete
  <2> QED  BY <2>4, <2>5
<1>2. CASE c \notin clients
  <2>1. UNCHANGED <<clients, entries, pub_ids>>
    BY <1>2 DEF HandleDisconnect, directoryVars
  <2> QED  BY <2>1, IdleDirectory
<1> QED  BY <1>1, <1>2

\* What a handler does to the directory.
LEMMA ReceiveInDirectory ==
  ASSUME IInv, SubsInv, ViewInv, ViewInv', NEW c \in Clients, Receive(c)
  PROVE  \/ \E n \in Names, type \in DataType : Dir!Publish(n, type)
         \/ \E S \in SUBSET Names : Dir!Delete(S)
         \/ UNCHANGED <<TopicTypes, Members, Greeted, KnownTypes>>
<1> DEFINE req == Head(inbound[c])
<1>1. CASE HandlerFails(c, req)
  BY <1>1, IdleDirectory DEF Receive, Panic, directoryVars, taskVars, clientVars
<1>2. CASE ~HandlerFails(c, req)
  <2>1. Handle(c, req) /\ UNCHANGED <<conn, greeting>>
    BY <1>2 DEF Receive, taskVars, clientVars
  <2>2. WellFormed(req) /\ 1 \in DOMAIN inbound[c] /\ req = inbound[c][1]
    BY ReceivedIs
  <2> HIDE DEF req
  <2>4. /\ c \in clients => RequestHolds(c, req)
        /\ req.kind = "disconnect" => conn[c] = "closed"
    BY <2>2 DEF ViewInv, BeliefsHold, Connections
  <2>5. CASE req.kind = "publish" /\ HandlePublish(c, req)
    BY <2>1, <2>2, <2>5, PublishIsPublish DEF WellFormed
  <2>6. CASE req.kind = "release" /\ HandleRelease(req)
    BY <1>2, <2>1, <2>6, ReleaseIsDelete DEF HandlerFails
  <2>7. CASE req.kind = "setflags" /\ HandleSetFlags(req)
    <3>1. /\ UNCHANGED <<clients, pub_ids>> /\ req.name \in DOMAIN entries
          /\ entries' = [entries EXCEPT ![req.name].flags = NewFlags(req.name, req)]
      BY <1>2, <2>7 DEF HandleSetFlags, update_flags, HandlerFails, SetFlagsFails
    <3>2. \A n \in DOMAIN entries : entry_type(entries'[n]) = entry_type(entries[n])
      <4>1. entries[req.name] \in Topics
        BY <3>1 DEF IInv, DirectoryInv, DirectoryTypes, IsMap
      <4> QED  BY <3>1, <4>1 DEF entry_type, Topics
    <3> QED  BY <2>1, <3>1, <3>2, IdleDirectory
  <2>8. CASE req.kind = "value" /\ HandleValue(c, req)
    <3>1. ~ValueFails(c, req) /\ req.value \in NTValues /\ req.timestamp \in Nat
      BY <1>2, <2>2, <2>8 DEF HandlerFails, WellFormed
    <3>2. RequestHolds(c, req)
      BY <2>4, <3>1 DEF ValueFails
    <3>3. /\ \A n \in DOMAIN entries : entry_type(entries'[n]) = entry_type(entries[n])
          /\ DOMAIN entries' = DOMAIN entries /\ UNCHANGED <<clients, pub_ids>>
      BY <2>8, <3>1, <3>2, ValueTypeIs DEF HandleValue
    <3> QED  BY <2>1, <3>3, IdleDirectory
  <2>9. CASE \/ req.kind = "getvalues" /\ HandleGetValues(c, req)
             \/ req.kind = "subscribe" /\ HandleSubscribe(c, req.sub)
             \/ req.kind = "unsubscribe" /\ HandleUnsubscribe(c, req)
             \/ req.kind = "time" /\ HandleTime(c)
    <3>1. UNCHANGED <<clients, entries, pub_ids>>
      BY <2>9 DEF HandleGetValues, HandleSubscribe, HandleUnsubscribe, HandleTime, directoryVars
    <3> QED  BY <2>1, <3>1, IdleDirectory
  <2>10. CASE req.kind = "disconnect" /\ HandleDisconnect(c)
    BY <2>1, <2>4, <2>10, DisconnectIsDelete
  <2> QED  BY <2>1, <2>5, <2>6, <2>7, <2>8, <2>9, <2>10 DEF Handle
<1> QED  BY <1>1, <1>2

\* Every step of the server is one of the directory, or none.
LEMMA StepInDirectory ==
  ASSUME IInv, SubsInv, ViewInv, IInv', ViewInv', [Next]_vars
  PROVE  [Dir!DirectoryNext]_Dir!dvars
<1> DEFINE Same == UNCHANGED <<TopicTypes, Members, Greeted, KnownTypes>>
<1>1. Same => UNCHANGED Dir!dvars
  BY DEF Dir!dvars
<1>2. ASSUME NEW c \in Clients, ClientStep(c) PROVE Dir!Quit(c) \/ Same
  <2>1. CASE Leave(c) \/ Drop(c)
    BY <2>1, CloseIsQuit DEF Leave, Drop
  <2>2. CASE ~(Leave(c) \/ Drop(c))
    <3>1. UNCHANGED <<directoryVars, taskVars, conn>>
      BY <1>2, <2>2 DEF ClientStep, SendPublish, SendRelease, SendSetFlags, SendValue, SendTime,
                        SendGetValues, SendSubscribe, SendUnsubscribe, Send, ReadMessages
    <3> QED  BY <3>1, IdleDirectory DEF directoryVars, taskVars
  <2> QED  BY <2>1, <2>2
<1>3. ASSUME NEW c \in Clients, ConnectionStep(c) PROVE Dir!Join(c) \/ Dir!Greet(c) \/ Same
  <2>1. CASE Accept(c)
    <3>1. /\ conn' = [conn EXCEPT ![c] = "open"] /\ c \notin clients
          /\ UNCHANGED <<clients, entries, pub_ids, greeting>>
      BY <2>1 DEF Accept, directoryVars, ViewInv, Connections
    <3>2. \A d \in Clients : Reachable(d)' = Reachable(d)
      <4>1. \A d \in Clients \ {c} : conn'[d] = conn[d]
        BY <3>1 DEF SubsInv, ClientTypes
      <4> QED  BY <3>1, <4>1 DEF Reachable
    <3>3. \A d \in Clients : Believed(d)' = Believed(d)
      BY <3>1 DEF Believed
    <3> QED  BY <3>1, <3>2, <3>3, SameDirectory
  <2>2. CASE InsertClient(c)
    BY <2>2, InsertIsJoin
  <2>3. CASE update_new_client(c)
    <3>1. CASE c \in clients
      BY <2>3, <3>1, GreetIsGreet DEF update_new_client
    <3>2. CASE c \notin clients
      BY <2>3, <3>2, IdleDirectory DEF update_new_client, Panic, directoryVars, taskVars, clientVars
    <3> QED  BY <3>1, <3>2
  <2> QED  BY <1>3, <2>1, <2>2, <2>3 DEF ConnectionStep
<1>4. ASSUME NEW t \in DOMAIN loops, LoopStep(t) PROVE Same
  <2>1. UNCHANGED <<directoryVars, taskVars, clientVars>>
    BY <1>4 DEF LoopStep, LoopTick, LoopEnd, LoopRun, ServeLoop, Panic
  <2> QED  BY <2>1, IdleDirectory DEF directoryVars, taskVars, clientVars
<1>5. CASE BroadcastTick \/ FlushPersistent \/ UNCHANGED vars
  <2>1. UNCHANGED <<directoryVars, taskVars, clientVars>>
    BY <1>5 DEF BroadcastTick, ServeDefaultSubs, Panic, FlushPersistent, vars
  <2> QED  BY <2>1, <1>1, IdleDirectory DEF directoryVars, taskVars, clientVars
<1>6. CASE Restart
  <2>1. Dir!Reload
    BY <1>6, NewIsReload
  <2> QED  BY <2>1 DEF Dir!DirectoryNext
<1>7. ASSUME NEW c \in Clients, Receive(c)
      PROVE  \/ \E n \in Names, type \in DataType : Dir!Publish(n, type)
             \/ \E S \in SUBSET Names : Dir!Delete(S)
             \/ Same
  BY <1>7, ReceiveInDirectory
<1>8. ASSUME NEW c \in Clients, NEW k \in 2 .. MaxFrame, ReceiveFrame(c, k) PROVE Same
  <2>1. UNCHANGED <<clients, pub_ids, conn, greeting>> /\ DOMAIN entries' = DOMAIN entries
    BY <1>8, FrameStep, FrameStoresTopics DEF taskVars, clientVars
  <2>2. \A n \in DOMAIN entries : entry_type(entries'[n]) = entry_type(entries[n])
    BY <1>8, FrameTypes
  <2> QED  BY <2>1, <2>2, IdleDirectory
<1> HIDE DEF Same
<1> QED  BY <1>1, <1>2, <1>3, <1>4, <1>5, <1>6, <1>7, <1>8 DEF Next, Dir!DirectoryNext

\* A new server has no topics and no members.
LEMMA InitInDirectory == Init => Dir!DirectoryInit
<1> SUFFICES ASSUME Init PROVE Dir!DirectoryInit
  OBVIOUS
<1>1. clients = {} /\ entries = Empty
  BY DEF Init, restore_persistent, Readable, NoFile
<1>2. Dir!NoTopic = Empty
  BY DEF Dir!NoTopic, Empty
<1>3. \A c \in Clients : ~Reachable(c)
  BY <1>1 DEF Reachable
<1>4. TopicTypes = Empty
  BY <1>1 DEF TopicTypes, Empty
<1>5. Members = {} /\ Greeted = {} /\ KnownTypes = [c \in Clients |-> Empty]
  BY <1>3 DEF Members, Greeted, KnownTypes
<1> QED  BY <1>2, <1>4, <1>5 DEF Dir!DirectoryInit

\* The server implements the directory: whatever it does is a step of it, so that
\* no announcement is ever missed (Directory.Consistent).
THEOREM ServerKeepsDirectory == Spec => DirectoryKept
<1>1. IInv /\ SubsInv /\ ViewInv /\ (IInv /\ SubsInv /\ ViewInv)' /\ [Next]_vars
         => [Dir!DirectoryNext]_Dir!dvars
  BY StepInDirectory
<1> QED  BY <1>1, InitInDirectory, ViewInvariance, PTL DEF Spec, DirectoryKept, Dir!DirectorySpec

==============================================================================
