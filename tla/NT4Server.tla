----------------------------- MODULE NT4Server -----------------------------
(***************************************************************************)
(* The server together with clients that follow the protocol: they use the *)
(* ids they were announced, publish values of the announced type to topics *)
(* they are publishing, and release only those.                            *)
(***************************************************************************)
EXTENDS Lifecycle, ValueFrames

----------------------------------------------------------------------------
(* The clients                                                             *)

\* c sends a request, if it is of a kind it sends and within its bounds.
Send(c, kind, req) ==
    /\ Running
    /\ kind \in Requests[c]
    /\ conn[c] = "open"
    /\ requests[c] < MaxRequests[c]
    /\ Len(inbound[c]) < MaxInFlight
    /\ requests' = [requests EXCEPT ![c] = @ + 1]
    /\ inbound' = [inbound EXCEPT ![c] = Append(@, req)]
    /\ UNCHANGED <<directoryVars, subVars, queued_updates, taskVars, outbox,
                   conn, view, received, processVars>>

SendPublish(c) ==
    \E n \in Names \ published[c], t \in Types :
        /\ Send(c, "publish", [kind |-> "publish", name |-> n, type |-> t])
        /\ published' = [published EXCEPT ![c] = @ \cup {n}]

SendRelease(c) ==
    \E n \in published[c] :
        /\ Send(c, "release", [kind |-> "release", name |-> n])
        /\ published' = [published EXCEPT ![c] = @ \ {n}]

SendSetFlags(c) ==
    \E n \in Names \cap DOMAIN view[c], adds, removes \in BOOLEAN :
        /\ adds \/ removes
        /\ Send(c, "setflags", [kind |-> "setflags", name |-> n,
                                add |-> adds, remove |-> removes])
        /\ UNCHANGED published

SendValue(c) ==
    \E n \in published[c] \cap DOMAIN view[c], v \in Values, ts \in Timestamps :
        /\ v.type = view[c][n].type
        /\ Send(c, "value", [kind |-> "value", name |-> n, id |-> view[c][n].id,
                             value |-> v, timestamp |-> ts])
        /\ UNCHANGED published

SendTime(c) == Send(c, "time", [kind |-> "time"]) /\ UNCHANGED published

SendGetValues(c) ==
    \E n \in DOMAIN view[c] :
        /\ Send(c, "getvalues", [kind |-> "getvalues", name |-> n, id |-> view[c][n].id])
        /\ UNCHANGED published

Sub(uid, options) ==
    [subuid |-> uid, prefixes |-> options.prefixes, immediate |-> options.immediate,
     periodic |-> options.periodic, logging |-> options.logging]

SendSubscribe(c) ==
    \E uid \in SubIds, options \in SubOptions :
        /\ Send(c, "subscribe", [kind |-> "subscribe", sub |-> Sub(uid, options)])
        /\ UNCHANGED published

SendUnsubscribe(c) ==
    \E uid \in SubIds :
        /\ Send(c, "unsubscribe", [kind |-> "unsubscribe", subuid |-> uid])
        /\ UNCHANGED published

\* The socket closes after `kept` of the requests in flight; client_loop then
\* reports the disconnection, and nothing more reaches the client.
Close(c, kept) ==
    /\ Running
    /\ conn[c] = "open"
    /\ conn' = [conn EXCEPT ![c] = "closed"]
    /\ inbound' = [inbound EXCEPT ![c] = Append(SubSeq(@, 1, kept), [kind |-> "disconnect"])]
    /\ outbox' = [outbox EXCEPT ![c] = << >>]
    /\ UNCHANGED <<directoryVars, subVars, queued_updates, taskVars, view, received,
                   published, requests, processVars>>

\* The client sends a CLOSE frame, behind all it has sent.
Leave(c) == "leave" \in Requests[c] /\ Close(c, Len(inbound[c]))

\* The connection is lost, and some of what the client sent with it.
Drop(c) == "drop" \in Requests[c] /\ \E kept \in 0 .. Len(inbound[c]) : Close(c, kept)

\* What a client knows of the topics after a message, and of their values.
Learn(known, msg) ==
    CASE msg.kind = "announce"   -> Put(known, msg.name, [id |-> msg.id, type |-> msg.type])
      [] msg.kind = "unannounce" -> Without(known, {msg.name})
      [] OTHER                   -> known

Receives(got, msg) ==
    IF msg.kind = "value" THEN Put(got, msg.name, [value |-> msg.value, timestamp |-> msg.timestamp])
                          ELSE got

\* What it will know when it has read some messages.
Replay(known, msgs) == FoldLeft(Learn, known, msgs)

\* A client reads all that has arrived before it sends its next request.
ReadMessages(c) ==
    /\ Running
    /\ outbox[c] # << >>
    /\ view' = [view EXCEPT ![c] = Replay(@, outbox[c])]
    /\ received' = [received EXCEPT ![c] = FoldLeft(Receives, @, outbox[c])]
    /\ outbox' = [outbox EXCEPT ![c] = << >>]
    /\ UNCHANGED <<directoryVars, subVars, queued_updates, taskVars, inbound, conn,
                   published, requests, processVars>>

----------------------------------------------------------------------------
(* The system                                                              *)

ClientStep(c) ==
    \/ SendPublish(c) \/ SendRelease(c) \/ SendSetFlags(c) \/ SendValue(c)
    \/ SendTime(c) \/ SendGetValues(c) \/ SendSubscribe(c) \/ SendUnsubscribe(c)
    \/ Leave(c) \/ Drop(c) \/ ReadMessages(c)

ConnectionStep(c) == Accept(c) \/ InsertClient(c) \/ update_new_client(c)

LoopStep(t) == LoopTick(t) \/ LoopRun(t) \/ LoopEnd(t)

Next ==
    \/ \E c \in Clients : ClientStep(c) \/ ConnectionStep(c) \/ Receive(c)
    \/ \E c \in Clients, k \in 2 .. MaxFrame : ReceiveFrame(c, k)
    \/ BroadcastTick
    \/ \E t \in DOMAIN loops : LoopStep(t)
    \/ FlushPersistent
    \/ Restart

Spec == Init /\ [][Next]_vars

----------------------------------------------------------------------------
(* Fairness.  The executor polls every task that can run, the mutex is     *)
(* fair, and timers fire: each task of the server that can take a step for *)
(* good does in the end.  That is little for the end of a custom loop: its *)
(* select polls the timer before the stop channel, so a timer that is due  *)
(* by the next poll (of period 0, or of one that passes while the loop     *)
(* waits for the mutex) wins each time, and LoopEnd is weakly fair only.   *)
(* A client reads what arrives, but need not send anything.  The formula   *)
(* asks for one weak fairness for the connections, requests and reads of   *)
(* all clients together: enough, as each of them is finite in number.      *)

MaxLoops == SumFunctionOnSet(MaxRequests, { c \in Clients : "subscribe" \in Requests[c] })

Fairness ==
    /\ WF_vars(\E c \in Clients : \/ InsertClient(c) \/ update_new_client(c)
                                 \/ Receive(c) \/ ReadMessages(c))
    /\ WF_vars(BroadcastTick)
    /\ \A t \in 1 .. MaxLoops :
          /\ WF_vars(t \in DOMAIN loops /\ (LoopTick(t) \/ LoopRun(t)))
          /\ WF_vars(t \in DOMAIN loops /\ LoopEnd(t))

FairSpec == Spec /\ Fairness
=============================================================================
