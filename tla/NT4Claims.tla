----------------------------- MODULE NT4Claims -----------------------------
(***************************************************************************)
(* What the documentation says of the server and the server does not do.   *)
(* Each claim is refuted by a run.                                         *)
(***************************************************************************)
EXTENDS NT4Properties

\* "This loop runs indefinitely until the server is shut down" (broadcast.rs:115).
\* A snapshot of a topic that is deleted before the tick has no id to be sent
\* under, and the unwrap of lookup_id ends the task.
BroadcastLoopRunsForever == panicked # "broadcast_loop"

\* "The task spawned from channel_loop runs until the server is shut down, and
\* responds to messages from all clients connected" (loop_.rs:5).  client_loop
\* forwards requests of a client that the listener has not inserted yet, and a
\* GetValues may bear an id that the topic had before it was published again.
ChannelLoopRunsForever == panicked # "channel_loop"

\* "A count of publishers to a topic (used to determine when a topic should be
\* deleted)" (server.rs:33).  A client whose publication was handled and not
\* released should keep the topic alive; a release and the disconnection after
\* it count the same publication twice.
Publishing(c, n) ==
    /\ Reachable(c)
    /\ n \in published[c]
    /\ \A i \in DOMAIN inbound[c] : inbound[c][i].kind # "publish"

PublishedTopicsStay ==
    [][\A n \in DOMAIN entries, c \in Clients :
          Publishing(c, n) /\ restarts' = restarts => n \in DOMAIN entries']_entries

\* "If this value is true, all value changes are sent to the subscribing client"
\* (subscription.rs:57).  An update that leaves the queue should have been sent,
\* if a logging subscription covers it; broadcast_loop clears it when it serves
\* any subscription of the default period.
Logged(c, update) ==
    \E i \in DOMAIN subs[c] : subs[c][i].logging /\ Covers(subs[c][i], update.name)

InOutbox(c, update) ==
    \E i \in DOMAIN outbox[c] :
        /\ outbox[c][i].kind = "value"
        /\ outbox[c][i].name = update.name
        /\ outbox[c][i].value = update.value
        /\ outbox[c][i].timestamp = update.timestamp

LoggingGetsEveryChange ==
    [][\A c \in clients \cap clients' : Reachable(c) => \A u \in ToSet(queued_updates[c]) :
          Logged(c, u) /\ u \notin ToSet(queued_updates[c])' => InOutbox(c, u)']_queued_updates

\* "If it's false the client will only receive the latest value associated with
\* the key" (subscription.rs:58).  Without logging, the values of a topic that
\* are sent under one id should not go back in time.  Unsubscribing leaves the
\* queue, and a tick sends it after the newer value that a new subscription is
\* answered with.
LatestValueOnly ==
    \A c \in clients :
        (\A i \in DOMAIN subs[c] : ~subs[c][i].logging) =>
            \A i, j \in DOMAIN outbox[c] :
                LET first == outbox[c][i]
                    later == outbox[c][j]
                IN  /\ i < j
                    /\ first.kind = "value" /\ later.kind = "value" /\ first.id = later.id
                    => first.timestamp <= later.timestamp
=============================================================================
