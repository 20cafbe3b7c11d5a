----------------------------- MODULE Broadcast -----------------------------
(***************************************************************************)
(* broadcast_loop, the task that serves every subscription of the default  *)
(* period, and broadcast_with_period, one task per subscription with its   *)
(* own period (server/src/server/broadcast.rs).                            *)
(***************************************************************************)
EXTENDS ChannelLoop

----------------------------------------------------------------------------
(* What a tick sends of a sequence of snapshots.                           *)

\* group_by groups only neighbours, so a name can make several groups.
SameGroup(queue, i, j) ==
    \A k \in DOMAIN queue : (i <= k /\ k <= j) \/ (j <= k /\ k <= i)
                               => queue[k].name = queue[i].name

\* max_by returns the last of the snapshots with the greatest timestamp.
IsMaxOfGroup(queue, i) ==
    \A j \in DOMAIN queue : SameGroup(queue, i, j) =>
        \/ queue[j].timestamp < queue[i].timestamp
        \/ queue[j].timestamp = queue[i].timestamp /\ j <= i

MaxOfEachGroup(queue) == AtPlaces(queue, { i \in DOMAIN queue : IsMaxOfGroup(queue, i) })

TickUpdates(sub, queue) == IF sub.logging THEN queue ELSE MaxOfEachGroup(queue)

AsMessages(c, updates) ==
    [i \in DOMAIN updates |-> ValueMsg(lookup_id(c, updates[i].name), updates[i])]

AllKnown(c, queue) == \A i \in DOMAIN queue : Known(c, queue[i].name)

----------------------------------------------------------------------------
(* broadcast_loop                                                          *)

HasDefaultSub(c) == \E i \in DOMAIN subs[c] : subs[c][i].periodic = "default"

\* The first subscription with the default period takes the whole queue,
\* whatever its prefixes, and clears it: the ones after it find it empty.
DefaultSub(c) == subs[c][SelectInSeq(subs[c], LAMBDA s : s.periodic = "default")]

Flushes(c) == c \in clients /\ HasDefaultSub(c)

BroadcastFails == \E c \in Clients : Flushes(c) /\ ~AllKnown(c, queued_updates[c])

\* Faulty: clears the queue of every client.
ServeDefaultSubs_AllCleared ==
    /\ outbox' = Sent(LAMBDA c : IF Flushes(c)
                                 THEN AsMessages(c, TickUpdates(DefaultSub(c), queued_updates[c]))
                                 ELSE << >>)
    /\ queued_updates' = [c \in Clients |-> << >>]
    /\ UNCHANGED <<directoryVars, subVars, taskVars, inbound, clientVars, processVars>>

ServeDefaultSubs ==
    /\ outbox' = Sent(LAMBDA c : IF Flushes(c)
                                 THEN AsMessages(c, TickUpdates(DefaultSub(c), queued_updates[c]))
                                 ELSE << >>)
    /\ queued_updates' = [c \in Clients |-> IF Flushes(c) THEN << >> ELSE queued_updates[c]]
    /\ UNCHANGED <<directoryVars, subVars, taskVars, inbound, clientVars, processVars>>

BroadcastTick ==
    Running /\ IF BroadcastFails THEN Panic("broadcast_loop") ELSE ServeDefaultSubs

----------------------------------------------------------------------------
(* broadcast_with_period.  The timer and the stop channel are polled before*)
(* the mutex is taken: anything may happen between the two.                *)

\* The loop's sender is alive and nothing was sent on it.
ChannelOpen(t) ==
    LET c == loops[t].cid
    IN  \E u \in DOMAIN sub_loop_channels[c] : sub_loop_channels[c][u] = t

MoveTo(t, pc) == loops' = [loops EXCEPT ![t].pc = pc]

\* select returns Left: the timer fired.
LoopTick(t) ==
    /\ Running
    /\ loops[t].pc = "select"
    /\ MoveTo(t, "ticked")
    /\ UNCHANGED <<directoryVars, subs, sub_loop_channels, queued_updates, taskVars,
                   inbound, outbox, clientVars, processVars>>

\* select returns Right: the channel has a message or is closed.
LoopEnd(t) ==
    /\ Running
    /\ loops[t].pc = "select"
    /\ ~ChannelOpen(t)
    /\ MoveTo(t, "ended")
    /\ UNCHANGED <<directoryVars, subs, sub_loop_channels, queued_updates, taskVars,
                   inbound, outbox, clientVars, processVars>>

\* The queued updates that the loop's own copy of the subscription covers, and
\* the others.
CoveredPlaces(t) ==
    LET queue == queued_updates[loops[t].cid]
    IN  { i \in DOMAIN queue : Covers(loops[t].sub, queue[i].name) }

Covered(t) == AtPlaces(queued_updates[loops[t].cid], CoveredPlaces(t))
Uncovered(t) ==
    LET queue == queued_updates[loops[t].cid]
    IN  AtPlaces(queue, DOMAIN queue \ CoveredPlaces(t))

LoopFails(t) ==
    \/ loops[t].cid \notin clients
    \/ ~AllKnown(loops[t].cid, Covered(t))

ServeLoop(t) ==
    LET c == loops[t].cid
    IN  /\ outbox' = SentTo(c, AsMessages(c, TickUpdates(loops[t].sub, Covered(t))))
        /\ queued_updates' = [queued_updates EXCEPT ![c] = Uncovered(t)]
        /\ MoveTo(t, "select")
        /\ UNCHANGED <<directoryVars, subs, sub_loop_channels, taskVars, inbound,
                       clientVars, processVars>>

LoopRun(t) ==
    /\ Running
    /\ loops[t].pc = "ticked"
    /\ IF LoopFails(t) THEN Panic("broadcast_with_period") ELSE ServeLoop(t)
=============================================================================
