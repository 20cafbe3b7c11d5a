----------------------------- MODULE Lifecycle -----------------------------
(***************************************************************************)
(* The life of a connection (tcp_loop, tls_loop and update_new_client of   *)
(* server/src/server.rs, ConnectedClient::new of client.rs) and of the     *)
(* process (NTServer::new, flush_persistent_loop of loop_.rs, persist.rs). *)
(***************************************************************************)
EXTENDS Broadcast

----------------------------------------------------------------------------
(* Accepting.  ConnectedClient::new spawns client_loop, which forwards what*)
(* the client sends, before the listener takes the mutex to insert it.     *)

Accept(c) ==
    /\ Running
    /\ conn[c] = "fresh"
    /\ Cardinality(accepting) < Listeners
    /\ conn' = [conn EXCEPT ![c] = "open"]
    /\ accepting' = accepting \cup {c}
    /\ UNCHANGED <<directoryVars, subVars, queued_updates, greeting, inbound, outbox,
                   view, received, published, requests, processVars>>

\* The listener inserts the client and spawns update_new_client for it.
InsertClient(c) ==
    /\ Running
    /\ c \in accepting
    /\ accepting' = accepting \ {c}
    /\ clients' = clients \cup {c}
    /\ greeting' = greeting \cup {c}
    /\ UNCHANGED <<entries, pub_count, pub_ids, next_pub_id, pubs, subVars,
                   queued_updates, inbound, outbox, clientVars, processVars>>

----------------------------------------------------------------------------
(* update_new_client announces every topic, each with a new id, in the     *)
(* iteration order of entries.                                             *)

\* Faulty: announces the ids after the ones it keeps.
Greetings_Shifted(c, order) ==
    [i \in DOMAIN order |-> AnnounceMsg(order[i], next_pub_id[c] + i, entries[order[i]])]

Greetings(c, order) ==
    [i \in DOMAIN order |->
        AnnounceMsg(order[i], next_pub_id[c] + i - 1, entries[order[i]])]

\* Faulty: announces ids that it does not keep.
GreetedIds_Unrecorded(c, order) == pub_ids[c]

GreetedIds(c, order) ==
    [n \in DOMAIN pub_ids[c] \cup DOMAIN entries |->
        IF n \in DOMAIN entries
        THEN next_pub_id[c] - 1 + CHOOSE i \in DOMAIN order : order[i] = n
        ELSE pub_ids[c][n]]

\* Faulty: forgets that the ids are used up.
GreetClient_Unadvanced(c) ==
    /\ greeting' = greeting \ {c}
    /\ \E order \in SetToSeqs(DOMAIN entries) :
          /\ outbox' = SentTo(c, Greetings(c, order))
          /\ pub_ids' = [pub_ids EXCEPT ![c] = GreetedIds(c, order)]
    /\ UNCHANGED <<clients, entries, pub_count, next_pub_id, pubs, subVars,
                   queued_updates, accepting, inbound, clientVars, processVars>>

GreetClient(c) ==
    /\ greeting' = greeting \ {c}
    /\ \E order \in SetToSeqs(DOMAIN entries) :
          /\ outbox' = SentTo(c, Greetings(c, order))
          /\ pub_ids' = [pub_ids EXCEPT ![c] = GreetedIds(c, order)]
    /\ next_pub_id' = [next_pub_id EXCEPT ![c] = @ + Cardinality(DOMAIN entries)]
    /\ UNCHANGED <<clients, entries, pub_count, pubs, subVars, queued_updates,
                   accepting, inbound, clientVars, processVars>>

\* The client may have been removed before the task got the mutex.
update_new_client(c) ==
    /\ Running
    /\ c \in greeting
    /\ IF c \in clients THEN GreetClient(c) ELSE Panic("update_new_client")

----------------------------------------------------------------------------
(* Persistence                                                             *)

\* A file of topics, or one that from_read rejects: absent or cut short.
NoFile == [intact |-> FALSE, topics |-> Empty]

PersistentTopics ==
    LET names == { n \in DOMAIN entries : is_persistent(entries[n]) }
    IN  [n \in names |-> entries[n]]

\* flush_persistent_loop writes the file under the mutex.  The model drops the
\* flushes that no restart within the bound can read.
FlushPersistent ==
    /\ Running
    /\ restarts < MaxRestarts
    /\ disk' = [intact |-> TRUE, topics |-> PersistentTopics]
    /\ UNCHANGED <<directoryVars, subVars, queued_updates, taskVars, inbound, outbox,
                   clientVars, panicked, restarts>>

\* restore_persistent: one value that cannot be read loses the whole file.
Readable(file) ==
    /\ file.intact
    /\ \A n \in DOMAIN file.topics : Restored(file.topics[n].value) # Undecodable

restore_persistent(file) ==
    IF Readable(file)
    THEN [n \in DOMAIN file.topics |->
            [file.topics[n] EXCEPT !.value = Restored(file.topics[n].value)]]
    ELSE Empty

\* Faulty: a restored topic has no publisher.
RestoredCount_None(file) == [n \in DOMAIN restore_persistent(file) |-> 0]

\* NTServer::new: a restored topic counts as having one publisher.
RestoredCount(file) == [n \in DOMAIN restore_persistent(file) |-> 1]

\* NTServer::new with the file it finds, and no client yet.
Init ==
    /\ disk = NoFile /\ restarts = 0 /\ panicked = NoPanic
    /\ entries = restore_persistent(NoFile)
    /\ pub_count = RestoredCount(NoFile)
    /\ clients = {} /\ accepting = {} /\ greeting = {} /\ loops = << >>
    /\ pub_ids = [c \in Clients |-> Empty]
    /\ next_pub_id = [c \in Clients |-> 1]
    /\ pubs = [c \in Clients |-> << >>]
    /\ subs = [c \in Clients |-> << >>]
    /\ sub_loop_channels = [c \in Clients |-> Empty]
    /\ queued_updates = [c \in Clients |-> << >>]
    /\ conn = [c \in Clients |-> "fresh"]
    /\ inbound = [c \in Clients |-> << >>]
    /\ outbox = [c \in Clients |-> << >>]
    /\ view = [c \in Clients |-> Empty]
    /\ received = [c \in Clients |-> Empty]
    /\ published = [c \in Clients |-> {}]
    /\ requests = [c \in Clients |-> 0]

\* The process is killed, between two handlers or while fs::write has the file
\* truncated, and started again.  The connections are gone; the clients come
\* back as new ones.
Restart ==
    /\ restarts < MaxRestarts
    /\ restarts' = restarts + 1
    /\ disk' \in {disk, NoFile}
    /\ panicked' = NoPanic
    /\ entries' = restore_persistent(disk')
    /\ pub_count' = RestoredCount(disk')
    /\ clients' = {} /\ accepting' = {} /\ greeting' = {} /\ loops' = << >>
    /\ pub_ids' = [c \in Clients |-> Empty]
    /\ next_pub_id' = [c \in Clients |-> 1]
    /\ pubs' = [c \in Clients |-> << >>]
    /\ subs' = [c \in Clients |-> << >>]
    /\ sub_loop_channels' = [c \in Clients |-> Empty]
    /\ queued_updates' = [c \in Clients |-> << >>]
    /\ conn' = [c \in Clients |-> "fresh"]
    /\ inbound' = [c \in Clients |-> << >>]
    /\ outbox' = [c \in Clients |-> << >>]
    /\ view' = [c \in Clients |-> Empty]
    /\ received' = [c \in Clients |-> Empty]
    /\ published' = [c \in Clients |-> {}]
    /\ UNCHANGED requests
=============================================================================
