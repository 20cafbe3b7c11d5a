---------------------------- MODULE ValueFrames ----------------------------
(***************************************************************************)
(* The ValuePublish handler of loop_.rs for a frame of several values.     *)
(* ChannelLoop has the handler of one; the code stores all the values of a *)
(* frame, then distributes them all.                                       *)
(***************************************************************************)
EXTENDS ChannelLoop

CONSTANT MaxFrame   \* bound: how many values a frame holds

ASSUME FrameBound == MaxFrame \in Nat

InFrame == {"value", "time"}

\* The values and time requests that wait at the head of a client's queue.  Ids
\* are not used again, so those of them that the server still knows, and the
\* ones after, were all known to the client when it sent the last one: it may
\* have sent them together.
FrameSizes(c) ==
    { k \in 2 .. MaxFrame : /\ k <= Len(inbound[c])
                            /\ \A i \in 1 .. k : inbound[c][i].kind \in InFrame }

\* A topic takes a value that is not older than its own.
Stored(topics, req, name) ==
    IF Accepted(topics[name], req) THEN [topics EXCEPT ![name] = set_value(@, req)] ELSE topics

\* Faulty: a topic is in the updates once, with the first value.
StoreValue_Once(c, done, req) ==
    IF req.kind = "time" THEN done
    ELSE LET name == id_to_name(c, req.id)
             next == Stored(done.topics, req, name)
         IN  [ topics  |-> next,
               updates |-> IF /\ Accepted(done.topics[name], req)
                              /\ \A i \in DOMAIN done.updates : done.updates[i].name # name
                           THEN Append(done.updates, snapshot(name, next[name]))
                           ELSE done.updates ]

StoreValue(c, done, req) ==
    IF req.kind = "time" THEN done
    ELSE LET name == id_to_name(c, req.id)
             next == Stored(done.topics, req, name)
         IN  [ topics  |-> next,
               updates |-> IF Accepted(done.topics[name], req)
                           THEN Append(done.updates, snapshot(name, next[name]))
                           ELSE done.updates ]

\* The first loop: the topics and the updates to distribute after each value.
Storing(c, frame) ==
    LET after[i \in 0 .. Len(frame)] ==
            IF i = 0 THEN [topics |-> entries, updates |-> << >>]
                     ELSE StoreValue(c, after[i - 1], frame[i])
    IN  after

StoreFrame(c, frame) == Storing(c, frame)[Len(frame)]

\* Times are answered in the first loop.
Times(frame) ==
    FlattenSeq([i \in DOMAIN frame |-> IF frame[i].kind = "time" THEN << TimeMsg >> ELSE << >>])

\* The second loop, for one client.
Immediate(d, updates) ==
    FlattenSeq([i \in DOMAIN updates |->
        IF SendsNow(d, updates[i].name)
        THEN << ValueMsg(lookup_id(d, updates[i].name), updates[i]) >> ELSE << >>])
Queued(d, updates) ==
    FlattenSeq([i \in DOMAIN updates |->
        IF Queues(d, updates[i].name) THEN << updates[i] >> ELSE << >>])

Distributed(c, frame, updates) ==
    /\ outbox' = Sent(LAMBDA d : (IF d = c THEN Times(frame) ELSE << >>) \o Immediate(d, updates))
    /\ queued_updates' = [d \in Clients |-> queued_updates[d] \o Queued(d, updates)]

\* What precedes the first value with an unknown id.
Unknown(c, req) == req.kind = "value" /\ ~IdKnown(c, req.id)
Before(c, frame) ==
    SubSeq(frame, 1, SelectInSeq(frame, LAMBDA req : Unknown(c, req)) - 1)

\* The id of a value may be unknown.  The other unwraps, of the topic and of the
\* id that an immediate update is sent under, would leave StoreFrame or Immediate
\* without a value: AnnouncedMatchEntries and SubscribedTopicsAnnounced.
ReceiveFrame(c, k) ==
    /\ Running
    /\ c \in clients
    /\ k \in FrameSizes(c)
    /\ LET frame == SubSeq(inbound[c], 1, k)
       IN  IF \E i \in DOMAIN frame : Unknown(c, frame[i])
           THEN \* id_to_name(..).unwrap() in the first loop
                /\ entries' = StoreFrame(c, Before(c, frame)).topics
                /\ outbox' = SentTo(c, Times(Before(c, frame)))
                /\ panicked' = "channel_loop"
                /\ UNCHANGED <<queued_updates, disk, restarts>>
           ELSE /\ entries' = StoreFrame(c, frame).topics
                /\ Distributed(c, frame, StoreFrame(c, frame).updates)
                /\ UNCHANGED processVars
    /\ inbound' = [inbound EXCEPT ![c] = SubSeq(@, k + 1, Len(@))]
    /\ UNCHANGED <<clients, pub_count, pub_ids, next_pub_id, pubs, subVars, taskVars, clientVars>>
=============================================================================
