--------------------------- MODULE NT4Properties ---------------------------
(***************************************************************************)
(* What the server keeps true.  The claims of its documentation that it    *)
(* does not keep are in NT4Claims.                                         *)
(***************************************************************************)
EXTENDS NT4Server

----------------------------------------------------------------------------
(* Types                                                                   *)

Topics    == [value : NTValues, timestamp : Nat, flags : Nat]
Snapshots == [name : Names, value : NTValues, timestamp : Nat]
Subs      == [subuid : SubIds, prefixes : Seq(PrefixSet), immediate : BOOLEAN,
              periodic : {"default", "custom"}, logging : BOOLEAN]
LoopTasks == [cid : Clients, sub : Subs, pc : {"select", "ticked", "ended"}]

\* The part of the type invariant that is about the directory: topics, their
\* publishers and the ids of the clients.
DirectoryTypes ==
    /\ clients \subseteq Clients
    /\ greeting \subseteq Clients
    /\ IsMap(entries, Names, Topics)
    /\ IsMap(pub_count, Names, 0 .. UsizeMax)
    /\ DOMAIN pub_ids = Clients /\ \A c \in Clients : IsMap(pub_ids[c], Names, Nat)
    /\ next_pub_id \in [Clients -> Nat]
    /\ pubs \in [Clients -> Seq(Names)]

\* Requests carry names, types, values and subscriptions of the right kind.
WellFormed(req) ==
    /\ req.kind \in RequestKinds \cup {"disconnect"}
    /\ req.kind = "publish"   => req.name \in Names /\ req.type \in DataType
    /\ req.kind = "value"     => req.value \in NTValues /\ req.timestamp \in Nat
    /\ req.kind = "subscribe" => req.sub \in Subs

AreWellFormed(reqs) == reqs \in Seq({ r \in ToSet(reqs) : WellFormed(r) })

\* The messages to a client.
Announcements == [kind : {"announce"}, name : Names, id : Nat, type : DataType]
Withdrawals   == [kind : {"unannounce"}, name : Names, id : Nat]
ValueMessages == [kind : {"value"}, name : Names, id : Nat, value : NTValues, timestamp : Nat]
Messages      == Announcements \cup Withdrawals \cup ValueMessages \cup {TimeMsg}

\* The tasks an unwrap may end.
PanicSites == { "channel_loop", "broadcast_loop", "broadcast_with_period", "update_new_client" }

\* Every variable has the type of the field or queue it stands for.
TypeOK ==
    /\ DirectoryTypes
    /\ loops \in Seq(LoopTasks)
    /\ \A c \in Clients :
          /\ subs[c] \in Seq(Subs)
          /\ IsMap(sub_loop_channels[c], SubIds, DOMAIN loops)
          /\ queued_updates[c] \in Seq(Snapshots)
          /\ AreWellFormed(inbound[c])
          /\ outbox[c] \in Seq(Messages)
    /\ accepting \subseteq Clients
    /\ conn \in [Clients -> {"fresh", "open", "closed"}]
    /\ \A c \in Clients : /\ IsMap(view[c], Names, [id : Nat, type : DataType])
                          /\ IsMap(received[c], Names, [value : NTValues, timestamp : Nat])
    /\ published \in [Clients -> SUBSET Names]
    /\ requests \in [Clients -> Nat]
    /\ IsMap(disk.topics, Names, Topics)
    /\ panicked \in PanicSites \cup {NoPanic}
    /\ restarts \in Nat

----------------------------------------------------------------------------
(* The directory                                                           *)

\* entries and pub_count have the same topics, so the unwraps that create_entry,
\* update_flags and the two deletions do on one after looking at the other
\* never fail (server.rs, loop_.rs).
CountsMatchEntries == DOMAIN entries = DOMAIN pub_count

\* A client has ids for topics that exist only, and once update_new_client has
\* run for all of them (server.rs, announce and unannounce of client.rs).
AnnouncedMatchEntries ==
    \A c \in clients : /\ DOMAIN pub_ids[c] \subseteq DOMAIN entries
                       /\ c \notin greeting => DOMAIN pub_ids[c] = DOMAIN entries

\* The ids of a client are distinct, and below the next one it will be given.
IdsFresh ==
    \A c \in Clients : \A m, n \in DOMAIN pub_ids[c] :
        /\ pub_ids[c][n] < next_pub_id[c]
        /\ pub_ids[c][m] = pub_ids[c][n] => m = n

\* So an id that was withdrawn or replaced, and may still be in a request on its
\* way, never comes to stand for a topic again while the connection lasts.
IdsAdvance ==
    \A c \in clients \cap clients' :
        /\ next_pub_id'[c] >= next_pub_id[c]
        /\ \A n \in DOMAIN pub_ids'[c] :
              \/ n \in DOMAIN pub_ids[c] /\ pub_ids'[c][n] = pub_ids[c][n]
              \/ pub_ids'[c][n] >= next_pub_id[c]

IdsNeverReused == [][IdsAdvance]_<<clients, pub_ids, next_pub_id>>

\* What the messages on their way, read in order, will tell the client.
WillKnow(c) == Replay(view[c], outbox[c])

Reachable(c) == c \in clients /\ conn[c] = "open"

\* A client that reads all it was sent has the server's own table: the ids in
\* pub_ids, the types in entries.  No interleaving of publications, deletions
\* and greetings makes it miss one or keep a stale one.
ViewsCatchUp ==
    \A c \in Clients : Reachable(c) =>
        WillKnow(c) = [n \in DOMAIN pub_ids[c] |->
                         [id |-> pub_ids[c][n], type |-> entry_type(entries[n])]]

\* A request with an id, sent whenever, reaches the topic the client meant or
\* none; a value that reaches it has its type (id_to_name of client.rs: an id
\* is never used again for another topic, and a type changes with the id only).
RequestsReachTheirTopic ==
    \A c \in clients : \A i \in DOMAIN inbound[c] :
        LET req == inbound[c][i]
        IN  req.kind \in {"value", "getvalues"} /\ IdKnown(c, req.id) =>
              /\ id_to_name(c, req.id) = req.name
              /\ req.kind = "value" => entry_type(entries[req.name]) = req.value.type

\* The timestamp of a topic never goes back while the topic lives: a late value
\* with an older timestamp is ignored (ValuePublish of loop_.rs).  Only a
\* publication with another type starts it anew.
TimestampsAdvance ==
    [][\A n \in DOMAIN entries \cap DOMAIN entries' :
          \/ entries'[n].timestamp >= entries[n].timestamp
          \/ entry_type(entries'[n]) # entry_type(entries[n])
          \/ restarts' # restarts]_entries

\* The server implements the directory: what each served client knows is what
\* the messages sent to it so far will tell it.
TopicTypes == [n \in DOMAIN entries |-> entry_type(entries[n])]
Members    == { c \in Clients : Reachable(c) }
Greeted    == Members \ greeting
KnownTypes == [c \in Clients |-> IF Reachable(c)
                                 THEN [n \in DOMAIN WillKnow(c) |-> WillKnow(c)[n].type]
                                 ELSE Empty]

Dir == INSTANCE Directory WITH
         Types   <- DataType,
         topics  <- TopicTypes,
         members <- Members,
         greeted <- Greeted,
         known   <- KnownTypes

DirectoryKept == Dir!DirectorySpec

----------------------------------------------------------------------------
(* Publishers                                                              *)

\* The publications of a topic by connected clients, each with its place in pubs.
PublicationsOf(n) ==
    UNION { {c} \X { i \in DOMAIN pubs[c] : pubs[c][i] = n } : c \in clients }

Publications(n) == Cardinality(PublicationsOf(n))

\* As long as nobody releases a topic or publishes it with another type, its
\* count is that of the publications of connected clients, and one more when
\* it is persistent, through disconnections and restarts (create_entry,
\* update_flags, ClientDisconnected, NTServer::new).
PublishersCounted ==
    \A n \in DOMAIN pub_count :
        pub_count[n] = Publications(n) + (IF is_persistent(entries[n]) THEN 1 ELSE 0)

\* Then a topic goes only with its last publisher, and never while persistent.
TopicsStayWhileWanted ==
    [][\A n \in DOMAIN entries : restarts' = restarts /\ n \notin DOMAIN entries' =>
          ~is_persistent(entries[n]) /\ Publications(n)' = 0]_entries

\* The values that the untagged encoding should not change: a variant before
\* theirs takes doubles, blobs, empty arrays and arrays of bytes.
Stable ==
    { v \in NTValues :
        \/ v.type \in {"boolean", "int", "float", "string"}
        \/ v.type \in {"boolean[]", "float[]", "string[]"} /\ v.content # "default"
        \/ v.type = "int[]" /\ v.content = "wide" }

\* A restart that finds an intact file of such values brings back exactly the
\* topics that were persistent at the last flush (flush_persistent and
\* restore_persistent of persist.rs).
StableTopicsSurvive ==
    [][restarts' # restarts /\ disk'.intact
         /\ (\A n \in DOMAIN disk'.topics : disk'.topics[n].value \in Stable)
            => entries' = disk'.topics]_restarts

----------------------------------------------------------------------------
(* Delivery                                                                *)

\* A subscription is only ever matched with topics the client has an id for, so
\* the lookup_id of an immediate update never fails (Subscribe, ValuePublish).
SubscribedTopicsAnnounced ==
    \A c \in clients, n \in DOMAIN entries : subscribed_to(c, n) => Known(c, n)

\* Whatever reaches a client bears the id the client then has for the topic.
ValuesFollowAnnouncements ==
    \A c \in Clients : Reachable(c) => \A i \in DOMAIN outbox[c] :
        LET msg   == outbox[c][i]
            known == Replay(view[c], SubSeq(outbox[c], 1, i - 1))
        IN  msg.kind = "value" => msg.name \in DOMAIN known /\ known[msg.name].id = msg.id

\* A subscription with a period of its own has a running loop that serves its
\* present prefixes and options, however often it is overwritten.
CustomSubsServed ==
    \A c \in clients : \A i \in DOMAIN subs[c] :
        LET sub == subs[c][i]
        IN  sub.periodic = "custom" =>
              /\ sub.subuid \in DOMAIN sub_loop_channels[c]
              /\ LET task == loops[sub_loop_channels[c][sub.subuid]]
                 IN  task.cid = c /\ task.sub = sub /\ task.pc # "ended"

\* What one value does that comes alone (HandleValue), and what those of a frame
\* would do one after the other.
HandledAlone(c, state, req) ==
    IF req.kind = "time" THEN state
    ELSE LET name   == id_to_name(c, req.id)
             topic  == set_value(state.topics[name], req)
             update == snapshot(name, topic)
         IN  IF ~Accepted(state.topics[name], req) THEN state
             ELSE [ topics |-> [state.topics EXCEPT ![name] = topic],
                    sent   |-> [d \in Clients |->
                                  IF SendsNow(d, name) /\ conn[d] = "open"
                                  THEN Append(state.sent[d], ValueMsg(lookup_id(d, name), update))
                                  ELSE state.sent[d]],
                    queues |-> [d \in Clients |-> IF Queues(d, name)
                                                  THEN Append(state.queues[d], update)
                                                  ELSE state.queues[d]] ]

HandlingAlone(c, frame) ==
    LET after[i \in 0 .. Len(frame)] ==
            IF i = 0 THEN [topics |-> entries, sent |-> outbox, queues |-> queued_updates]
                     ELSE HandledAlone(c, after[i - 1], frame[i])
    IN  after

WithoutTimes(msgs) ==
    FlattenSeq([i \in DOMAIN msgs |-> IF msgs[i].kind = "time" THEN << >> ELSE << msgs[i] >>])

\* A frame does to topics, queues and the values that are sent what its values
\* do one by one, repeats of a topic and outdated values included: only a time
\* is answered before the values (ValuePublish of loop_.rs).
LikeRuns ==
    \A c \in clients, k \in 2 .. MaxFrame :
        /\ Len(inbound[c]) - Len(inbound'[c]) = k
        /\ restarts' = restarts /\ conn'[c] = conn[c] /\ panicked' = NoPanic
        => LET alone == HandlingAlone(c, SubSeq(inbound[c], 1, k))[k]
           IN  /\ entries' = alone.topics
               /\ queued_updates' = alone.queues
               /\ \A d \in Clients : WithoutTimes(outbox'[d]) = WithoutTimes(alone.sent[d])

FramesLikeRuns == [][LikeRuns]_vars

\* "The updates in this message update the internal state of the server, are
\* pushed to clients with immediate subscriptions, and are queued to be
\* dispatched by a subscription task otherwise" (loop_.rs:43).  The step that
\* stores a value, be its timestamp newer or the same, sends it to each of the
\* first and puts it in the queue of each of the others, unless the handler
\* panicked at an unknown id after it.
SentNow(d, update) ==
    \E i \in DOMAIN outbox'[d] :
        i > Len(outbox[d]) /\ outbox'[d][i] = ValueMsg(lookup_id(d, update.name), update)

QueuedNow(d, update) ==
    \E i \in DOMAIN queued_updates'[d] :
        i > Len(queued_updates[d]) /\ queued_updates'[d][i] = update

StoredAnew(n) ==
    /\ snapshot(n, entries'[n]) # snapshot(n, entries[n])
    /\ entry_type(entries'[n]) = entry_type(entries[n])

StoredDistributed ==
    restarts' = restarts /\ panicked' = NoPanic =>
        \A n \in DOMAIN entries \cap DOMAIN entries', d \in clients \cap clients' :
            StoredAnew(n) /\ subscribed_to(d, n) =>
                IF subscription(d, n).immediate
                THEN conn[d] = "open" => SentNow(d, snapshot(n, entries'[n]))
                ELSE QueuedNow(d, snapshot(n, entries'[n]))

StoredValuesDistributed == [][StoredDistributed]_vars

\* An update leaves a client's queue only because it, or a later value of its
\* topic, is sent: no task that empties the queue forgets what others were
\* waiting for (broadcast_loop and broadcast_with_period of broadcast.rs).
SentOnLeaving ==
    restarts' = restarts =>
        \A c \in clients \cap clients' : \A u \in ToSet(queued_updates[c]) :
            u \in ToSet(queued_updates'[c]) \/ conn[c] # "open"
            \/ \E i \in DOMAIN outbox'[c] :
                  LET msg == outbox'[c][i]
                  IN  /\ i > Len(outbox[c])
                      /\ msg.kind = "value" /\ msg.name = u.name /\ msg.timestamp >= u.timestamp

QueuedUpdatesSent == [][SentOnLeaving]_vars

\* Once the requests stop, nothing waits for a client that subscribes to it,
\* whichever subscriptions have come, gone or changed their period or options,
\* and whatever they left in the queue (broadcast.rs).
Awaited(c, n) == \E i \in DOMAIN queued_updates[c] : queued_updates[c][i].name = n

QueuesDrain ==
    \A c \in Clients, n \in Names :
        <>[](Running /\ subscribed_to(c, n) => ~Awaited(c, n))

\* The client's copy of a topic is the server's, if it has ever been set.
UpToDate(c, n) ==
    entries[n].timestamp > 0 =>
        /\ n \in DOMAIN received[c]
        /\ received[c][n] = [value |-> entries[n].value, timestamp |-> entries[n].timestamp]

\* What waits for a client is of the topic as it is, and would wait if it came now.
InStep(c, n) ==
    Awaited(c, n) =>
        /\ n \in DOMAIN entries /\ Queues(c, n)
        /\ \A u \in ToSet(queued_updates[c]) :
              u.name = n => u.timestamp <= entries[n].timestamp

\* Then every client comes to have the last value of each topic it subscribes
\* to, and keeps it, provided that the subscription is never given up or made
\* immediate, nor the topic replaced, while an update waits: LatestValueOnly of
\* NT4Claims is refuted by what happens otherwise.
EventuallyUpToDate ==
    \A c \in Clients, n \in Names :
        []InStep(c, n) =>
            <>[](Running /\ n \in DOMAIN entries /\ Reachable(c) /\ subscribed_to(c, n)
                    => UpToDate(c, n))

\* The timer of a stopped loop is due whenever the loop polls it, for ever.
TimerWins(t) == []<>(t \in DOMAIN loops /\ loops[t].pc = "ticked" /\ ~ChannelOpen(t))

\* Once the requests stop, a loop that goes on is that of a subscribed uid, with
\* its channel open: unsubscribing, or overwriting a subscription with another
\* custom one, leaves no loop behind (broadcast_with_period), but for one whose
\* timer always wins.
StoppedLoopsEnd ==
    \A t \in 1 .. MaxLoops :
        \/ <>[](Running /\ t \in DOMAIN loops /\ loops[t].pc # "ended"
                  => ChannelOpen(t) /\ SubIndex(loops[t].cid, loops[t].sub.subuid) > 0)
        \/ TimerWins(t)
=============================================================================
