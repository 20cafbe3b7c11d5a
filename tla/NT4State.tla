------------------------------ MODULE NT4State -----------------------------
(***************************************************************************)
(* The state of the NT4 server: the fields of NTServer (server.rs) and     *)
(* ConnectedClient (client.rs), the tasks that share it behind one mutex,  *)
(* the channels between each client and the server, and what each client   *)
(* believes.  Every task holds the mutex for the whole of a handler, so a  *)
(* handler is one action.                                                  *)
(***************************************************************************)
EXTENDS Integers, FiniteSets, Sequences, SequencesExt, Collections, NTValue

CONSTANTS
    Clients,        \* client ids (cid); a connection uses each of them once
    Names,          \* topic names
    Values,         \* the values that clients publish
    SubIds,         \* subscription uids
    SubOptions,     \* the prefixes and options that clients subscribe with
    Timestamps,     \* the timestamps of the values that clients publish
    MaxRequests,    \* bound: how many requests each client sends
    MaxInFlight,    \* bound: how many of them are unhandled at a time
    MaxRestarts,    \* bound: how often the process is restarted
    Requests,       \* the kinds of request each client sends
    Listeners,      \* how many listening sockets accept connections
    OverflowChecks, \* whether the build panics on integer overflow
    UsizeMax        \* the largest usize

\* A prefix stands for the set of topic names that start with it; the period
\* is the default one of 0.1s or a custom one.
PrefixSet    == SUBSET Names
Subscription == [prefixes : Seq(PrefixSet), immediate : BOOLEAN,
                 periodic : {"default", "custom"}, logging : BOOLEAN]

\* The types that clients publish topics with.
Types == { v.type : v \in Values }

RequestKinds == { "publish", "release", "setflags", "value", "time",
                  "getvalues", "subscribe", "unsubscribe", "leave", "drop" }

ASSUME NamesFinite   == IsFiniteSet(Names)
ASSUME ValuesKnown   == Values \subseteq NTValues
ASSUME OptionsKnown  == SubOptions \subseteq Subscription
ASSUME NaturalBounds == /\ Timestamps \subseteq Nat
                        /\ MaxRequests \in [Clients -> Nat]
                        /\ MaxInFlight \in Nat
                        /\ MaxRestarts \in Nat
                        /\ Listeners \in Nat
                        /\ UsizeMax \in Nat \ {0}
ASSUME RequestsKnown == Requests \in [Clients -> SUBSET RequestKinds]
ASSUME ChecksBoolean == OverflowChecks \in BOOLEAN

VARIABLES
    \* NTServer
    clients,            \* the cids in the clients map
    entries,            \* topic name -> Topic
    pub_count,          \* topic name -> number of publishers
    \* ConnectedClient, by cid; in its initial state for a cid not in clients
    pub_ids,            \* topic name -> the id it was last announced with
    next_pub_id,
    pubs,               \* names of the topics it published, repeats included
    subs,               \* subscriptions in the iteration order of the map
    sub_loop_channels,  \* subuid -> the custom loop its sender stops
    queued_updates,     \* snapshots waiting for a periodic task
    \* tasks
    accepting,          \* clients a listener has built and not yet inserted
    greeting,           \* clients whose update_new_client task has not run
    loops,              \* the broadcast_with_period tasks ever spawned
    \* network
    conn,               \* "fresh", "open" or "closed"
    inbound,            \* requests on their way to channel_loop
    outbox,             \* messages on their way to the client
    \* clients
    view,               \* topic name -> id and type, as announced
    received,           \* topic name -> the last value message
    published,          \* topics it is publishing
    requests,           \* how many requests it has sent
    \* process
    panicked,           \* the unwrap that stopped the server, if any
    disk,               \* the persistence file
    restarts

directoryVars == <<clients, entries, pub_count, pub_ids, next_pub_id, pubs>>
subVars       == <<subs, sub_loop_channels, loops>>
taskVars      == <<accepting, greeting>>
clientVars    == <<conn, view, received, published, requests>>
processVars   == <<panicked, disk, restarts>>
vars == <<directoryVars, subVars, queued_updates, taskVars, inbound, outbox,
          clientVars, processVars>>

----------------------------------------------------------------------------
(* Counters                                                                *)

\* usize arithmetic, as it wraps in a build without overflow checks.
Increment(count)    == (count + 1) % (UsizeMax + 1)
Decrease(count, by) == (count - by) % (UsizeMax + 1)

----------------------------------------------------------------------------
(* Topics and messages                                                     *)

\* Topic::new.  flags counts the occurrences of "persistent" in the vector,
\* the only flag the server looks at.
NewTopic(type) == [value |-> default_value(type), timestamp |-> 0, flags |-> 0]

entry_type(topic)    == topic.value.type
is_persistent(topic) == topic.flags > 0
snapshot(name, topic) ==
    [name |-> name, value |-> topic.value, timestamp |-> topic.timestamp]

\* The messages to a client.  A value message also carries the name of its
\* topic, which the wire format does not, for the properties to refer to.
AnnounceMsg(name, id, topic) ==
    [kind |-> "announce", name |-> name, id |-> id, type |-> entry_type(topic)]
UnannounceMsg(name, id) == [kind |-> "unannounce", name |-> name, id |-> id]
ValueMsg(id, update) ==
    [kind |-> "value", name |-> update.name, id |-> id,
     value |-> update.value, timestamp |-> update.timestamp]
TimeMsg == [kind |-> "time"]

----------------------------------------------------------------------------
(* ConnectedClient                                                         *)

Covers(sub, name) == \E i \in DOMAIN sub.prefixes : name \in sub.prefixes[i]

subscribed_to(c, name) == \E i \in DOMAIN subs[c] : Covers(subs[c][i], name)

\* The subscription that HashMap iteration finds first.
subscription(c, name) == subs[c][SelectInSeq(subs[c], LAMBDA s : Covers(s, name))]

lookup_id(c, name)  == pub_ids[c][name]
Known(c, name)      == name \in DOMAIN pub_ids[c]
IdKnown(c, id)      == \E n \in DOMAIN pub_ids[c] : pub_ids[c][n] = id
id_to_name(c, id)   == CHOOSE n \in DOMAIN pub_ids[c] : pub_ids[c][n] = id

\* send_message to several clients: the messages sent(c) go to each connected
\* client, and what is sent to a socket that is gone is dropped.
Sent(sent(_)) ==
    [c \in Clients |-> IF conn[c] = "open" THEN outbox[c] \o sent(c) ELSE outbox[c]]

SentTo(c, msgs) == Sent(LAMBDA d : IF d = c THEN msgs ELSE << >>)

----------------------------------------------------------------------------
(* Panics.  A task that panics dies and leaves what it had half done; the  *)
(* model follows the server up to its first panic.                         *)

NoPanic == "none"
Running == panicked = NoPanic

Panic(site) ==
    /\ panicked' = site
    /\ UNCHANGED <<directoryVars, subVars, queued_updates, taskVars, inbound,
                   outbox, clientVars, disk, restarts>>
=============================================================================
