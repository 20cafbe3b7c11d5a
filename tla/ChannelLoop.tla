---------------------------- MODULE ChannelLoop ----------------------------
(***************************************************************************)
(* channel_loop (server/src/server/loop_.rs): one handler for each kind of *)
(* request, with the methods of NTServer and ConnectedClient it calls.     *)
(* Requests of one client arrive in the order it sent them; the requests   *)
(* of different clients arrive in any order.                               *)
(***************************************************************************)
EXTENDS NT4State

----------------------------------------------------------------------------
(* Announcing.  announce allocates an id whether or not the client already *)
(* has one for the topic.                                                  *)

\* Faulty: keeps the id the client has.
announced_ids_Kept(c, name) ==
    IF Known(c, name) THEN pub_ids[c] ELSE Put(pub_ids[c], name, next_pub_id[c])

\* Faulty: takes the id from the size of the table.
announced_ids_Sized(c, name) ==
    Put(pub_ids[c], name, Cardinality(DOMAIN pub_ids[c] \cup {name}))

announced_ids(c, name) == Put(pub_ids[c], name, next_pub_id[c])

\* The clients in `told` are told of the topic, as it is in entries'.
Announce(told, name) ==
    /\ pub_ids' = [c \in Clients |-> IF c \in told THEN announced_ids(c, name) ELSE pub_ids[c]]
    /\ next_pub_id' = [c \in Clients |-> IF c \in told THEN next_pub_id[c] + 1
                                                       ELSE next_pub_id[c]]
    /\ outbox' = Sent(LAMBDA c : IF c \in told
                                 THEN << AnnounceMsg(name, next_pub_id[c], entries'[name]) >>
                                 ELSE << >>)

\* Faulty: leaves out clients that are not greeted, or that know the name.
Announce_Greeted(name)   == Announce(clients \ greeting, name)
Announce_Strangers(name) == Announce({ c \in clients : ~Known(c, name) }, name)

\* A publication is announced to every connected client.
AnnounceToAll(name) == Announce(clients, name)

\* Faulty: tells nobody.
Unannouncements_Forgotten(c, deleted) == << >>

\* Deleting topics takes them from entries, pub_count and the ids of every
\* client, telling each of them in the given order.
Unannouncements(c, deleted) ==
    [i \in DOMAIN deleted |-> UnannounceMsg(deleted[i], lookup_id(c, deleted[i]))]

UnannounceFails(remaining, deleted) ==
    \E c \in remaining, i \in DOMAIN deleted : ~Known(c, deleted[i])

----------------------------------------------------------------------------
(* PublishReq                                                              *)

SameType(name, type) ==
    name \in DOMAIN entries /\ entry_type(entries[name]) = type

create_entry(name, type) ==
    IF SameType(name, type)
    THEN /\ pub_count' = [pub_count EXCEPT ![name] = Increment(@)]
         /\ UNCHANGED entries
    ELSE /\ pub_count' = Put(pub_count, name, 1)
         /\ entries' = Put(entries, name, NewTopic(type))

PublishFails(c, req) ==
    \/ c \notin clients
    \/ /\ SameType(req.name, req.type)
       /\ \/ req.name \notin DOMAIN pub_count
          \/ OverflowChecks /\ pub_count[req.name] = UsizeMax

HandlePublish(c, req) ==
    /\ create_entry(req.name, req.type)
    /\ pubs' = [pubs EXCEPT ![c] = Append(@, req.name)]
    /\ AnnounceToAll(req.name)
    /\ UNCHANGED <<clients, subVars, queued_updates>>

----------------------------------------------------------------------------
(* PublishRel.  The name stays in the client's pubs.                       *)

LastPublisher(name) == Decrease(pub_count[name], 1) = 0

ReleaseFails(req) ==
    \/ req.name \notin DOMAIN pub_count
    \/ OverflowChecks /\ pub_count[req.name] = 0
    \/ /\ LastPublisher(req.name)
       /\ \/ req.name \notin DOMAIN entries
          \/ UnannounceFails(clients, << req.name >>)

HandleRelease(req) ==
    /\ IF LastPublisher(req.name)
       THEN /\ entries' = Without(entries, {req.name})
            /\ pub_count' = Without(pub_count, {req.name})
            /\ pub_ids' = [c \in Clients |-> Without(pub_ids[c], {req.name})]
            /\ outbox' = Sent(LAMBDA c : IF c \in clients
                                         THEN Unannouncements(c, << req.name >>)
                                         ELSE << >>)
       ELSE /\ pub_count' = [pub_count EXCEPT ![req.name] = Decrease(@, 1)]
            /\ UNCHANGED <<entries, pub_ids, outbox>>
    /\ UNCHANGED <<clients, next_pub_id, pubs, subVars, queued_updates>>

----------------------------------------------------------------------------
(* SetFlags: update_flags.  No client is told.                             *)

\* Faulty: removes a flag that may not be there.
NewFlags_Unchecked(name, req) ==
    entries[name].flags + (IF req.add THEN 1 ELSE 0) - (IF req.remove THEN 1 ELSE 0)

NewFlags(name, req) ==
    LET added == entries[name].flags + (IF req.add THEN 1 ELSE 0)
    IN  IF req.remove /\ added > 0 THEN added - 1 ELSE added

BecomesPersistent(req) == ~is_persistent(entries[req.name]) /\ NewFlags(req.name, req) > 0
CeasesPersistent(req)  == is_persistent(entries[req.name]) /\ NewFlags(req.name, req) = 0

SetFlagsFails(req) ==
    \/ req.name \notin DOMAIN entries
    \/ /\ BecomesPersistent(req) \/ CeasesPersistent(req)
       /\ req.name \notin DOMAIN pub_count
    \/ /\ OverflowChecks
       /\ \/ BecomesPersistent(req) /\ pub_count[req.name] = UsizeMax
          \/ CeasesPersistent(req) /\ pub_count[req.name] = 0

\* Faulty: a persistent topic is not counted.
update_flags_Uncounted(req) ==
    /\ entries' = [entries EXCEPT ![req.name].flags = NewFlags(req.name, req)]
    /\ UNCHANGED pub_count

update_flags(req) ==
    /\ entries' = [entries EXCEPT ![req.name].flags = NewFlags(req.name, req)]
    /\ pub_count' = CASE BecomesPersistent(req) ->
                            [pub_count EXCEPT ![req.name] = Increment(@)]
                      [] CeasesPersistent(req) ->
                            [pub_count EXCEPT ![req.name] = Decrease(@, 1)]
                      [] OTHER -> pub_count

HandleSetFlags(req) ==
    /\ update_flags(req)
    /\ UNCHANGED <<clients, pub_ids, next_pub_id, pubs, subVars, queued_updates, outbox>>

----------------------------------------------------------------------------
(* GetValues                                                               *)

GetValuesFails(c, req) ==
    \/ c \notin clients
    \/ ~IdKnown(c, req.id)
    \/ id_to_name(c, req.id) \notin DOMAIN entries

HandleGetValues(c, req) ==
    LET name == id_to_name(c, req.id)
    IN  /\ outbox' = SentTo(c, << ValueMsg(req.id, snapshot(name, entries[name])) >>)
        /\ UNCHANGED <<directoryVars, subVars, queued_updates>>

----------------------------------------------------------------------------
(* Subscribe                                                               *)

SubIndex(c, subuid) == SelectInSeq(subs[c], LAMBDA s : s.subuid = subuid)

\* HashMap::insert keeps the place of a key it has, and gives a new key any (a
\* table that grows, beyond 3 keys, may reorder the others too).
SubscribedAs(c, sub) ==
    IF SubIndex(c, sub.subuid) > 0
    THEN { ReplaceAt(subs[c], SubIndex(c, sub.subuid), sub) }
    ELSE { InsertAt(subs[c], i, sub) : i \in 1 .. Len(subs[c]) + 1 }

\* Faulty: leaves the values to the next change.
InitialValues_None(c, sub, order) == << >>

\* The current values, prefix by prefix; order is the iteration order of entries.
InitialValues(c, sub, order) ==
    FlattenSeq([i \in DOMAIN sub.prefixes |->
        LET names == AtPlaces(order, { j \in DOMAIN order : order[j] \in sub.prefixes[i] })
        IN  [j \in DOMAIN names |->
                ValueMsg(lookup_id(c, names[j]), snapshot(names[j], entries[names[j]]))]])

SubscribeFails(c, sub) ==
    \/ c \notin clients
    \/ \E n \in DOMAIN entries : Covers(sub, n) /\ ~Known(c, n)

\* A subscription with its own period gets a loop, and the sender that stops
\* the loop; overwriting the sender drops the one that was there.
Spawned(c, sub) == Append(loops, [cid |-> c, sub |-> sub, pc |-> "select"])

HandleSubscribe(c, sub) ==
    /\ \E order \in SetToSeqs(DOMAIN entries) :
          outbox' = SentTo(c, InitialValues(c, sub, order))
    /\ \E as \in SubscribedAs(c, sub) : subs' = [subs EXCEPT ![c] = as]
    /\ IF sub.periodic = "custom"
       THEN /\ loops' = Spawned(c, sub)
            /\ sub_loop_channels' = [sub_loop_channels EXCEPT
                                        ![c] = Put(@, sub.subuid, Len(loops) + 1)]
       ELSE UNCHANGED <<loops, sub_loop_channels>>
    /\ UNCHANGED <<directoryVars, queued_updates>>

----------------------------------------------------------------------------
(* Unsubscribe.  The send on the loop's channel and the drop of the sender *)
(* both end the loop; what is queued stays queued.                         *)

UnsubscribeFails(c) == c \notin clients

Unsubscribed(c, subuid) ==
    AtPlaces(subs[c], { i \in DOMAIN subs[c] : subs[c][i].subuid # subuid })

\* Faulty: the sender of the loop stays.
HandleUnsubscribe_LoopKept(c, req) ==
    /\ subs' = [subs EXCEPT ![c] = Unsubscribed(c, req.subuid)]
    /\ UNCHANGED <<directoryVars, sub_loop_channels, loops, queued_updates, outbox>>

\* Faulty: the sender goes, the subscription stays.
HandleUnsubscribe_SubKept(c, req) ==
    /\ sub_loop_channels' = [sub_loop_channels EXCEPT ![c] = Without(@, {req.subuid})]
    /\ UNCHANGED <<directoryVars, subs, loops, queued_updates, outbox>>

HandleUnsubscribe(c, req) ==
    /\ subs' = [subs EXCEPT ![c] = Unsubscribed(c, req.subuid)]
    /\ sub_loop_channels' = [sub_loop_channels EXCEPT ![c] = Without(@, {req.subuid})]
    /\ UNCHANGED <<directoryVars, loops, queued_updates, outbox>>

----------------------------------------------------------------------------
(* ValuePublish.  Id -1 asks for the server's time.                        *)

HandleTime(c) ==
    /\ outbox' = SentTo(c, << TimeMsg >>)
    /\ UNCHANGED <<directoryVars, subVars, queued_updates>>

\* Faulty: accepts any value.
Accepted_Always(topic, req) == TRUE

Accepted(topic, req) == topic.timestamp <= req.timestamp

set_value(topic, req) == [topic EXCEPT !.value = req.value, !.timestamp = req.timestamp]

\* An update goes out at once or waits, as the first subscription found says.
SendsNow(c, name) ==
    c \in clients /\ subscribed_to(c, name) /\ subscription(c, name).immediate
Queues(c, name) ==
    c \in clients /\ subscribed_to(c, name) /\ ~subscription(c, name).immediate

Distribute(update) ==
    /\ outbox' = Sent(LAMBDA c : IF SendsNow(c, update.name)
                                 THEN << ValueMsg(lookup_id(c, update.name), update) >>
                                 ELSE << >>)
    /\ queued_updates' = [c \in Clients |-> IF Queues(c, update.name)
                                            THEN Append(queued_updates[c], update)
                                            ELSE queued_updates[c]]

ValueFails(c, req) ==
    \/ c \notin clients
    \/ ~IdKnown(c, req.id)
    \/ LET name == id_to_name(c, req.id)
       IN  \/ name \notin DOMAIN entries
           \/ /\ Accepted(entries[name], req)
              /\ \E d \in Clients : SendsNow(d, name) /\ ~Known(d, name)

\* Faulty: distributes what is newer only.
HandleValue_Newer(c, req) ==
    LET name  == id_to_name(c, req.id)
        topic == set_value(entries[name], req)
    IN  /\ IF Accepted(entries[name], req)
           THEN /\ entries' = [entries EXCEPT ![name] = topic]
                /\ IF entries[name].timestamp < req.timestamp
                   THEN Distribute(snapshot(name, topic))
                   ELSE UNCHANGED <<outbox, queued_updates>>
           ELSE UNCHANGED <<entries, outbox, queued_updates>>
        /\ UNCHANGED <<clients, pub_count, pub_ids, next_pub_id, pubs, subVars>>

HandleValue(c, req) ==
    LET name  == id_to_name(c, req.id)
        topic == set_value(entries[name], req)
    IN  /\ IF Accepted(entries[name], req)
           THEN /\ entries' = [entries EXCEPT ![name] = topic]
                /\ Distribute(snapshot(name, topic))
           ELSE UNCHANGED <<entries, outbox, queued_updates>>
        /\ UNCHANGED <<clients, pub_count, pub_ids, next_pub_id, pubs, subVars>>

----------------------------------------------------------------------------
(* ClientDisconnected: one decrement for each element of pubs, in order.   *)

\* Occurrences of the i-th published name up to i.
Repeats(c, i) == Cardinality({ j \in 1 .. i : pubs[c][j] = pubs[c][i] })

\* The positions of pubs at which a count reaches zero.
Zeroes(c) == { i \in DOMAIN pubs[c] :
                 /\ pubs[c][i] \in DOMAIN pub_count
                 /\ Repeats(c, i) = pub_count[pubs[c][i]] }

Orphans(c)        == { pubs[c][i] : i \in Zeroes(c) }
OrphansInOrder(c) == AtPlaces(pubs[c], Zeroes(c))

Occurrences(c, name) == Cardinality({ i \in DOMAIN pubs[c] : pubs[c][i] = name })

\* Faulty: keeps the counts of deleted topics.
CountsWithout_Orphaned(c) ==
    [n \in DOMAIN pub_count |-> Decrease(pub_count[n], Occurrences(c, n))]

CountsWithout(c) ==
    [n \in DOMAIN pub_count \ Orphans(c) |-> Decrease(pub_count[n], Occurrences(c, n))]

DisconnectFails(c) ==
    /\ c \in clients
    /\ \/ OverflowChecks /\ \E n \in DOMAIN pub_count :
                                pub_count[n] = 0 /\ Occurrences(c, n) > 0
       \/ ~(Orphans(c) \subseteq DOMAIN entries)
       \/ UnannounceFails(clients \ {c}, OrphansInOrder(c))

\* The ConnectedClient is dropped, and the senders of its loops with it.
DropClient(c) ==
    /\ clients' = clients \ {c}
    /\ pubs' = [pubs EXCEPT ![c] = << >>]
    /\ next_pub_id' = [next_pub_id EXCEPT ![c] = 1]
    /\ subs' = [subs EXCEPT ![c] = << >>]
    /\ sub_loop_channels' = [sub_loop_channels EXCEPT ![c] = Empty]
    /\ queued_updates' = [queued_updates EXCEPT ![c] = << >>]

HandleDisconnect(c) ==
    IF c \in clients
    THEN /\ DropClient(c)
         /\ entries' = Without(entries, Orphans(c))
         /\ pub_count' = CountsWithout(c)
         /\ pub_ids' = [d \in Clients |-> IF d = c THEN Empty
                                         ELSE Without(pub_ids[d], Orphans(c))]
         /\ outbox' = Sent(LAMBDA d : IF d \in clients'
                                      THEN Unannouncements(d, OrphansInOrder(c))
                                      ELSE << >>)
         /\ UNCHANGED loops
    ELSE UNCHANGED <<directoryVars, subVars, queued_updates, outbox>>

----------------------------------------------------------------------------
(* The loop                                                                *)

HandlerFails(c, req) ==
    CASE req.kind = "publish"     -> PublishFails(c, req)
      [] req.kind = "release"     -> ReleaseFails(req)
      [] req.kind = "setflags"    -> SetFlagsFails(req)
      [] req.kind = "getvalues"   -> GetValuesFails(c, req)
      [] req.kind = "subscribe"   -> SubscribeFails(c, req.sub)
      [] req.kind = "unsubscribe" -> UnsubscribeFails(c)
      [] req.kind = "value"       -> ValueFails(c, req)
      [] req.kind = "time"        -> c \notin clients
      [] req.kind = "disconnect"  -> DisconnectFails(c)

Handle(c, req) ==
    \/ req.kind = "publish"     /\ HandlePublish(c, req)
    \/ req.kind = "release"     /\ HandleRelease(req)
    \/ req.kind = "setflags"    /\ HandleSetFlags(req)
    \/ req.kind = "getvalues"   /\ HandleGetValues(c, req)
    \/ req.kind = "subscribe"   /\ HandleSubscribe(c, req.sub)
    \/ req.kind = "unsubscribe" /\ HandleUnsubscribe(c, req)
    \/ req.kind = "value"       /\ HandleValue(c, req)
    \/ req.kind = "time"        /\ HandleTime(c)
    \/ req.kind = "disconnect"  /\ HandleDisconnect(c)

\* channel_loop takes a request of c and runs its handler under the mutex; an
\* unwrap in the handler may panic.
Receive(c) ==
    /\ Running
    /\ inbound[c] # << >>
    /\ LET req == Head(inbound[c])
       IN  IF HandlerFails(c, req)
           THEN Panic("channel_loop")
           ELSE /\ Handle(c, req)
                /\ inbound' = [inbound EXCEPT ![c] = Tail(@)]
                /\ UNCHANGED <<taskVars, clientVars, processVars>>
=============================================================================
