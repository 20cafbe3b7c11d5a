# nt4-mvp in TLA+

TLA+ models of the NetworkTables 4 server in this repository (`server/`, with
the protocol types of `proto/`), TLC runs that check them on small instances,
and theorems about them that TLAPS proves for every instance. Paths below are
relative to the repository.

## 1. The system

One process. `NTServer` (`server/src/server.rs`) is one structure behind one
`async_std::sync::Mutex`; every task takes the mutex for the whole of what it
does, so **a handler is atomic and everything interesting happens between
handlers**.

| Component | State | Operations | Talks to |
|---|---|---|---|
| Listeners `tcp_loop`, `tls_loop` (`server.rs`) | none | one connection at a time: accept, TLS and WebSocket handshake, build a `ConnectedClient` (which spawns its `client_loop`), insert it, spawn `update_new_client`; end at an error or a panic | mutex |
| `client_loop` (`client.rs`) over `NTSocket` (`net.rs`) | half a socket | poll frames, decode them, forward them, report a CLOSE or the end of the stream | `channel(32)` to `channel_loop` |
| `channel_loop` (`server/loop_.rs`) | `clients`, `entries`, `pub_count`, and in each client `pub_ids`, `next_pub_id`, `pubs`, `subs`, `sub_loop_channels`, `queued_updates` | PublishReq, PublishRel, SetFlags, GetValues, Subscribe, Unsubscribe, values, time requests, disconnection | all sockets, spawns custom loops |
| `update_new_client` (`server.rs`) | | announce every topic to a new client | its socket |
| `broadcast_loop` (`server/broadcast.rs`) | 100 ms timer | send and clear the queue of each client that has a default subscription | all sockets |
| `broadcast_with_period` (`server/broadcast.rs`), one per custom subscription | its own copy of the subscription, timer, stop channel | send and remove the part of the queue its prefixes cover; end | one socket |
| `flush_persistent_loop`, `persist.rs`, `NTServer::new` | `persisted_entries.bin` | write the persistent topics every 60 s; read them at the start | disk |
| binary codec (`proto/src/bin.rs`, `ext.rs`), batching (`util.rs`) | none | value messages to MessagePack and back, five to a frame | sockets |
| `proto`, the rest | none | message structs, `DataType`, `NTValue`, the JSON codec | |
| `tls.rs`, `main.rs`, `client/` | | TLS files, start-up; a stub | |

What makes it hard: requests of different clients interleave at the mutex in
any order; a client is connected, inserted and greeted in three separate steps;
topics are named by ids that differ per client and change with each
announcement, while messages with the old id are on their way; a publisher count
is moved by publications, releases, flags, disconnections and restarts; one
queue per client is emptied by several periodic tasks; a process can be killed
while the file is truncated; nearly every lookup is an `unwrap`; and a handler
waits, with the mutex held, for the sockets it writes to and for the stop channels
of custom loops, while others wait for the mutex, for room in the channel or for
a wake-up.

What makes each part correct:

- *directory*: `entries` and `pub_count` have the same topics; a client's ids
  are for existing topics, distinct and never reused; a client that reads its
  messages has the server's table; a count is the number of publications (and
  one for the flag).
- *subscriptions*: whatever is sent bears an id the client knows; a custom
  subscription has a loop that serves it; a stopped loop ends unless its timer is
  always due; what is queued is sent; a subscriber that keeps to one way of
  delivery ends up with the last value.
- *persistence*: a restart brings back the persistent topics and their counts.
- *transport*: requests are handled once and in order, however full the channel
  is; a disconnection is reported once and last; the only waits that can last are
  those for a client.
- *codec*: a message that a handler sends arrives as it was, whatever else is in
  its frame; a message that was accepted means the same when it is sent on.

## 2. The modules

| Module | Models | Lines of the code |
|---|---|---|
| `Collections` | maps as functions, vectors as sequences | |
| `NTValue` | types, default values, what serialising and restoring a value does to it | `proto/src/text.rs` 110-162, `proto/src/bin.rs` 23-84, `persist.rs` |
| `NT4State` | constants, all variables, message constructors, the lookups of `ConnectedClient`, panics | `server.rs` 31-38, `client.rs` 14-37, 88-98, 120-129, 160-162, `entry.rs` |
| `ChannelLoop` | one `Handle...` per request, `...Fails` for the unwraps in it, `Receive` | `loop_.rs` 54-252, `server.rs` 170-211, `client.rs` 100-158 |
| `Broadcast` | `BroadcastTick`; `LoopTick`, `LoopRun`, `LoopEnd` for each custom loop | `broadcast.rs` |
| `Lifecycle` | `Accept`, `InsertClient`, `update_new_client`, `FlushPersistent`, `Restart`, `Init` | `server.rs` 40-168, `client.rs` 71-86, `loop_.rs` 23-31, `persist.rs` |
| `ValueFrames` | the handler of a binary frame of several values | `loop_.rs` 188-252 |
| `NT4Server` | the clients, the closing of connections, `Next`, `Spec`, fairness | `client.rs` 46-69, message structs; clients are external |
| `NT4Properties` | what holds | |
| `NT4Claims` | what the documentation says and the code does not do | |
| `Directory` | abstract specification: topics with types, members, who knows what | |
| `Transport` | listeners, clients at their sockets (external), `client_loop` with `poll_next`, the bounded channel, what the holder of the mutex waits for | `server.rs` 40-123, `client.rs` 46-87, 144-163, `net.rs`, `broadcast.rs`, `loop_.rs` 33-53 |
| `Inbound` | abstract specification: one FIFO queue of requests for each client | |
| `TransportProperties` | what holds of `Transport`, and the refinement mapping to `Inbound` | |
| `BinaryCodec` | `batch_messages`, the serialiser, `from_slice`, the binary half of `NTSocket` | `bin.rs`, `ext.rs`, `util.rs`, `net.rs` 27-64, `text.rs` 145-182 |
| `CodecProperties` | what holds of `BinaryCodec` | |
| `CollectionLemmas` | lemmas about the operators on maps and sequences | |
| `NT4Proofs`, `NT4SubsProofs`, `NT4ViewProofs`, `NT4CountProofs` | theorems about the server: its directory, its subscriptions, what clients know of it, its counts | |
| `DirectoryProofs`, `TransportProofs`, `CodecProofs` | theorems about `Directory`, `Transport` and `BinaryCodec` | |
| `MC*` | instances for TLC | |

There are three models. The *server* (`NTValue` to `NT4Server`, each extending
one above it) has atomic handlers and unbounded queues to and from the
clients; `NT4Properties`
has an INSTANCE of `Directory` with the refinement mapping. The *transport* has
what lies between the sockets and the handlers, and leaves open what the handlers
decide. They meet in `Inbound`: `InboundKept` says that the wire, the hand of
`client_loop`, the channel and the message that `channel_loop` has taken, put one
behind the other, are the queue `inbound` of `NT4Server`. The *codec* is about the
contents of frames, which the others do not look into; it shares the types of
`NTValue`.

### The server

**State.** Variables have the names of the Rust fields; those of
`ConnectedClient` are functions of the client id and in their initial state for
a client that is not in `clients`. `pub_ids[c]`, `entries`, `pub_count` are
functions whose domain is the set of keys. `subs[c]` is a sequence, in the
iteration order of the hash map, because `subscription()` returns the first
match; inserting a new uid puts it anywhere. `entries` is iterated in any order
(`\E order`). `loops` has a record for every `broadcast_with_period` ever
spawned; `sub_loop_channels[c][uid]` is the position of the loop whose sender is
kept, so overwriting the entry drops the sender as in the code. `flags` counts
the string `"persistent"` in the vector of flags.

**Actions.** A request is a record in `inbound[c]`, and `Receive(c)` runs the
handler for the first one. `HandlerFails` says whether an `unwrap`, an index or
(with `OverflowChecks`) an arithmetic operation in the handler panics. Then the
model stops: a panic kills the task and leaves half of its work done, and the
model follows the server **up to its first panic** (`panicked` names the task),
after which only `Restart` is possible. Messages to a client go to `outbox[c]`,
which it reads as a whole.

**Abstractions.** `Receive` handles one message. A text frame of several is a run
of them, as its handler is one loop; what another task could do between two of
them is more than the code allows. A binary frame is handled in two loops: all
values are stored and times answered, then all updates are distributed; so
`ValueFrames` has `ReceiveFrame` for the frames of 2 to `MaxFrame` values, and
`FramesLikeRuns` says that the result is that of a run. The values of a frame must be on their way together: it takes the
first `k` of the queue. A GetValues carries one id: one of several is a run of
them, with its answers in other batches. A prefix is the set of topic names that start with it. A
period is the default or a custom one. Client ids are unique. The
outbox and the channel are unbounded (see the transport for the bounds). A value is
its type and the class of its contents that untagged decoding tells apart.
The model is untimed: a timer may fire at any moment.

**Clients** keep to the protocol: they use the ids they were announced, send
values of the announced type to topics they publish, release only what they
publish. They may close the connection or lose it, with any part of what is in
flight.

**Bounds** (all are constants, in the guards of actions): `MaxRequests` requests
per client and `MaxInFlight` of them unhandled, `MaxFrame` values in a frame (one
but in `delivery`), one connection per client and
process, `Listeners` connections being accepted, `MaxRestarts` restarts, and
`FlushPersistent` only while a restart can still read the file. `UsizeMax` is 7,
above any count the runs reach, and still lets a decrement of 0 wrap.

### The transport

**State.** A connection is in a `stage` from the backlog of a listener to its end;
`listener[p]` has the client a listener works on, `ended` the listeners whose task
has returned or panicked, or never came to accept. Frames are numbered by their client, and carry only their kind: a
*request*, a subscription to a custom period and its end (the two that touch stop
channels), *bad* JSON, a *broken* binary frame, a *control* frame. `reader` says
what a `client_loop` does: "deaf" is a task that nothing will wake, since
`poll_next` answered `Pending` after a control frame without polling the socket
again; only the write half of the same socket may wake it by chance.
`mutex` has the task that holds it, `todo` what it still has to send; the holder
goes on when the socket (or stop channel) at the head of `todo` takes one more.

**Actions.** `Handle` begins a handler with any messages it might send (`Replies`:
any number up to `MaxReplies`, several batches to one client included, to any of
those it may write to and in any order), `Work` sends one,
`Release` drops the guard. The other tasks lock the mutex in the same way;
`flush_persistent_loop` holds it without waiting for anyone, so it would be a
stutter and is left out. A message of an uninserted client may end `channel_loop` as
in the server model (a disconnection does not).

**Faults.** `Faults` gives each client those that may happen to it: an error of
`accept`, of the TLS or the WebSocket handshake, a header whose bytes are not
visible ASCII (which panics the listener's task), or silence in a handshake. A
listener may also end before it accepts anyone: it cannot bind, or has no TLS files. A
connection may be closed or lost, with any part of what is on the wire.

### The codec

A MessagePack value is a pair of a kind and contents, a frame a sequence of
them: the bytes are the library's. Integers have their casts (`u64` to `i64`,
`i64` to `i32`), with the widths scaled down; floats are counted in quarters, of
which a single has the even ones, so narrowing and `as_f32` of an integer are
modelled and the rounding of integers beyond 2^53 is not. `from_slice` is a
sequence of results, in the order of the fields and with its panic on a short
array; it ends at a partial value. `SendForeign` (external) is a peer that puts any
value between ours in a frame.

## 3. The runs

`liveness`, `catch_up` and `transport` use their `FairSpec`. The server may stop for want of
requests, so deadlock is not checked.

| Run | Instance | Shows |
|---|---|---|
| `directory` | 1 topic, 2 types, 2 symmetric clients with 2 requests each, both in flight, connections lost | `TypeOK`; `CountsMatchEntries`, `AnnouncedMatchEntries`, `IdsFresh`, `IdsNeverReused`; `ViewsCatchUp`: a client's table after its messages is the server's; `RequestsReachTheirTopic`: a late id finds the topic that was meant, or none; `DirectoryKept`: the server implements `Directory` |
| `delivery` | a publisher (3 requests, alone or in frames of 2) and a subscriber (2) with an immediate custom and a queued default subscription, 2 timestamps | `SubscribedTopicsAnnounced` and `ValuesFollowAnnouncements`: what is sent bears the id known at that place of the stream; `CustomSubsServed`; `TimestampsAdvance`; `FramesLikeRuns`: a frame does what its values do one by one, times excepted; `StoredValuesDistributed`: the step that stores a value sends it to the immediate subscribers and puts it in the queues of the others; `QueuedUpdatesSent`: an update leaves a queue only because it, or a later value, is sent |
| `liveness` (`FairSpec`) | a publisher that sends one value, a subscriber with 3 requests for the default or a custom period of one uid | `QueuesDrain`: once requests stop, nothing that the client subscribes to stays in its queue; `StoppedLoopsEnd`: a loop that still runs has an open channel and a subscribed uid, or its timer wins at every poll |
| `catch_up` (`FairSpec`) | a publisher that sends 2 values, a subscriber with 3 requests: subscriptions with the default period, immediate or not, and their end | `EventuallyUpToDate`: a subscriber ends up with the last value, if no update was left waiting |
| `restart` | 2 clients, `int[]` values that do and do not survive the encoding, 2 restarts, time requests, release build | `PublishersCounted`, `TopicsStayWhileWanted`, `StableTopicsSurvive` |
| `transport` (`FairSpec`) | one TLS listener; a client with every connection fault that subscribes to a custom period, unsubscribes and reads; one that does not read, sends one frame of any other kind, or loses its connection; channel and sockets of size 1 | `TransportTypeOK`; `FramesInOrder`; `InboundKept`: the way to the handlers implements `Inbound`; `OnlyReadersBlock`: the holder of the mutex never waits for anything but a client; `EverythingServed` and `ConnectionsServed`: requests are handled and connections made, or one of the named reasons holds for ever |
| `codec` | a message of each type and two more, in all partitions into vectors and batches of 2; up to 2 foreign items, the first of 24 kinds, the second of 4, at any place; ids of 4 bits, values and timestamps of 6 | `CodecTypeOK`: every field has its width after the casts; `OwnMessagesArrive`: once, in order, unchanged, whatever is around them; `RelayedUnchanged`: what was accepted decodes from its own encoding |

One topic is enough for the races of the first five: every handler but the ones
that iterate looks at one topic, and the order of iteration is a choice that the
proofs cover for any number. Two clients are enough for a release or
disconnection of one to concern the other; a second publication, a second type
and a change of subscription fit in the requests. Two values are enough for a
frame to repeat a topic and to hold an outdated value behind a newer one, and with
a third request for a value to be alone. `restart` leaves out releases
and a second type, with which `PublishersCounted` does not hold (see below).
Three requests are enough for a subscriber to subscribe, to give up and to
subscribe again, or to change its period or options twice, with the values before,
between and after: the least in which what was queued for one subscription meets
another. `liveness` has both periods, `catch_up` two values and immediate
subscriptions; together they would be too many states for one run.

`EventuallyUpToDate` has a hypothesis, `InStep`: an update
that waits is of a topic that the client's subscription puts into the queue, and not
newer than the topic.
Without it the claim is false. A subscriber whose update waits unsubscribes (the
queue stays, `client.rs:154`), misses the next value, and subscribes again, which
sends it the present value at once (`loop_.rs:145`); the tick then sends the old
update last, and the client keeps it. So it goes when the new subscription is
immediate. `stale_value` shows it. A topic that is deleted while an update of it
waits ends `broadcast_loop` (`broadcast_dies`).

In `transport` a channel and a socket of one message are full at once, and every
wait that a capacity of 32 allows occurs with a capacity of 1; a handler with two
messages (`MaxReplies`) can wait for either of two clients, or for one twice; three frames fill the way. Which
client sends which kinds is fixed so that the run stays within its time. In
`codec` two messages and a batch size of 2 have a full and a short batch, and the
limits of each width are among the values.

Every property has a mutant: a definition with a plausible fault (the operators
with a comment "Faulty") that makes TLC violate it.

**Fairness** (`NT4Server`). The executor polls every task that can run, and a
task that goes on asking for the mutex gets it (see below), so insertion, greeting, `channel_loop` and reading together are weakly fair;
so is the 100 ms tick. Each custom loop is weakly fair in ticking and running. Its
end is only weakly fair: `select` (`broadcast.rs:44`) polls the timer first, so a
timer that is due at each poll (a period of 0, which `client.rs:142` accepts, or
one that passes while the loop waits for the mutex) wins every time, and the
channel is never looked at. `StoppedLoopsEnd` names that case, `TimerWins`, and
says that there is no other. Clients are not made to send or to leave.

**Fairness** (`Transport`). Here the mutex is held over several steps, so a task
that wants it is enabled again and again, not always: handling, connecting,
`client_loop`, forwarding and greeting are together strongly fair. The loops
release the mutex after each round, also those of period 0, and `async_std`'s mutex
lets no waiter starve, so a task that goes on asking gets it; connections and frames are finite in number, so
fairness of the steps together is enough for each of them. `Receive`, and the holder's `Work` or
`Release`, are weakly fair, as nothing disables them but themselves. Only the
clients in `Readers` are bound to read. Timers, and clients that send, leave or
fall silent, owe nothing. Then `EverythingServed` and `ConnectionsServed` name
every way in which the server may stop serving: `channel_loop` has panicked, the
mutex is held for a client that does not read (`HeldByClient`), the client's own
`client_loop` is deaf or has panicked, its listener has ended (by an error of `accept`
or of one TLS handshake, or a panic at one header) or has never started, or a
client of the listener is silent. Each of them does occur.

### Where the documentation and the code disagree

Five runs of `MCClaims` check one claim each and TLC refutes it.

| Run | Claim | What happens |
|---|---|---|
| `broadcast_dies` | "runs indefinitely until the server is shut down" (`broadcast.rs:115`) | value queued, topic released, tick: `lookup_id(..).unwrap()` panics |
| `channel_dies` | "runs until the server is shut down, and responds to messages from all clients connected" (`loop_.rs:5`) | `client_loop` forwards a request before the listener has inserted the client |
| `double_release` | "a count of publishers to a topic" (`server.rs:33`) | publish, release, disconnect counts down twice and deletes another client's topic |
| `logging` | "**all** value changes are sent to the subscribing client" (`subscription.rs:57`) | `broadcast_loop` clears the queue after serving another subscription |
| `stale_value` | without logging, "the client will only receive the latest value associated with the key" (`subscription.rs:58`) | what waits when a subscription is given up is sent after the newer value that the next one is answered with |

Met while modelling, without a run: an id that a client was announced stops working
when anyone publishes the topic again (`client.rs:101`; "can be used with GetValues",
`directory.rs:15`), and a GetValues with it panics `channel_loop`; a custom
subscription overwritten with the default period keeps its loop (`loop_.rs:166`;
"the old subscriptions will be overwritten", `subscription.rs:33`); a loop whose
timer is due at each poll goes on after its client has unsubscribed
(`broadcast.rs:44`; "until the client sends an Unsubscribe message",
`broadcast.rs:29`); SetFlags is answered by no announce
(`text.rs:56`, `publish.rs:41`) and publishing by no puback (`text.rs:40`); what
is queued when an Unsubscribe arrives may still be sent (`subscription.rs:66`);
a subscription without logging can get several values of a topic in a tick, as
`group_by` groups neighbours (`subscription.rs:58`); a custom loop panics if its
client goes between the tick and the lock (`broadcast.rs:29`); publishing an
existing topic with another type sets its count to 1 (`server.rs:198`); a client
whose disconnection is handled before its insertion stays in `clients`; a flag
that is set and, after a restart, cleared leaves a topic with count 0; a restored value may have
another type (a double becomes a float, an empty array or text-like raw becomes
another type), and a raw that is not UTF-8 makes the whole file unreadable; a value
queued before its topic gets another type is sent under the new id
(`broadcast.rs:155`); an unknown id in a frame ends `channel_loop` after the values
before it were stored and before any was distributed (`loop_.rs:211`).

Of the transport: a `Sec-WebSocket-Protocol` header that is not visible ASCII panics
the listener's task (`server.rs:93`), which "runs indefinitely" (`server.rs:42`); a failed TLS handshake ends the TLS listener (`server.rs:76`),
and so does an error of `accept` (`server.rs:48`); a client that says nothing in
its handshake keeps the listener from all others (`server.rs:51`); a control frame
leaves `client_loop` without a waker (`net.rs:46`), though it "continuously reads
from the stream" (`client.rs:41`); a client that does not read
stops every handler once its socket is full (`client.rs:161`). The properties of
`transport` name these as exceptions. Of the codec: an array of less than four
elements makes `from_slice` panic and ends the `client_loop` without a
disconnection (`bin.rs:191`), and an id of more than 32 bits is truncated to
another one (`bin.rs:193`).

## 4. The proofs

### The server

For any set of clients, finite set of names, values, subscription options, bounds
and build (the assumptions of `NT4State`: names finite, values in `NTValues`,
options well formed, bounds natural numbers, nothing else):

| Theorem | Statement | Module |
|---|---|---|
| `DirectoryTypesHold` | `Spec => []DirectoryTypes` | `NT4Proofs` |
| `CountsAlwaysMatch` | `Spec => []CountsMatchEntries` | |
| `AnnouncedAlwaysMatch` | `Spec => []AnnouncedMatchEntries` | |
| `IdsAlwaysFresh` | `Spec => []IdsFresh` | |
| `IdsAreNeverReused` | `Spec => IdsNeverReused` | |
| `TimestampsAlwaysAdvance` | `Spec => TimestampsAdvance` | |
| `StableTopicsAlwaysSurvive` | `Spec => StableTopicsSurvive` | |
| `TypesHold` | `Spec => []TypeOK` | `NT4SubsProofs` |
| `SubscribedTopicsAlwaysAnnounced` | `Spec => []SubscribedTopicsAnnounced` | |
| `CustomSubsAlwaysServed` | `Spec => []CustomSubsServed` | |
| `FramesAlwaysLikeRuns` | `Spec => FramesLikeRuns` | |
| `StoredValuesAlwaysDistributed` | `Spec => StoredValuesDistributed` | |
| `ViewsAlwaysCatchUp` | `Spec => []ViewsCatchUp` | `NT4ViewProofs` |
| `ValuesAlwaysFollow` | `Spec => []ValuesFollowAnnouncements` | |
| `RequestsAlwaysReachTheirTopic` | `Spec => []RequestsReachTheirTopic` | |
| `ServerKeepsDirectory` | `Spec => DirectoryKept` | |
| `PublishersAlwaysCounted` | `NoRelease, OneType` prove `Spec /\ []CountsFit => []PublishersCounted` | `NT4CountProofs` |
| `WantedTopicsAlwaysStay` | the same prove `Spec /\ []CountsFit => TopicsStayWhileWanted` | |

The inductive invariant grows in four layers, each proved with the ones below it
(in modules of which each extends the one before), and each with one lemma per
handler and per step of a connection, loop or process. TLC found no violation of
the upper ones on the instances of `directory`, `delivery` and `restart`.

*The directory*, `IInv`: the first four statements with three strengthenings.
`Strangers`: a client that is not in `clients` has no ids; without it, inserting
one could break `AnnouncedMatchEntries`. `RequestTypes`: requests on their way
carry known names, types and values, as the handlers store them. `DiskTypes`:
the same of the file, as `Restart` loads it (which needs that `Restored` maps
values to values: lemma `RestoredType`, by cases over `Shape` and the variant
that accepts it). The counting of a disconnection needs that topics deleted from
`entries` and from `pub_count` are the same (`Orphans`), and greeting that an
order of the topics exists and is injective. `IdsAreNeverReused` uses the same
invariant in one step, and so do the two others: `TimestampsAlwaysAdvance` by
one case per handler (`HandlerAdvances`; no other step but `Restart` touches a
topic, `TopicsStay`), `StableTopicsAlwaysSurvive` because the first variant of
`NTValue` that accepts the encoding of a stable value is its own
(`FirstVariant`, `StableRestored`).

*Subscriptions*, `SubsInv`: the types of the other variables (`TaskTypes`,
`ClientTypes`; the panics that a step may end in, `PanicsKnown`, and the restarts
need no invariant), the two properties, and what they need. `StrangersUnsubscribed`: a
client has no subscription before it is inserted or after it is removed; without
it a leftover would match topics the client has no ids for. `UidsDistinct`: the
vector of a client has one subscription of a uid; with two, an unsubscribe would
remove one and end the loop of both. `SendersServed`: the loop at the other end
of a stored sender is of that client and has not ended, so that a subscription
which keeps its sender keeps its loop. A lemma for each kind of message says what
a handler may send: only announcements and withdrawals of what it changed, or
values under the ids of the moment (`...Quiet` and `...Sends`), on which the next
layer rests.

*Frames of values.* `Spec` has frames of any number of values, so each layer has a
lemma for `ReceiveFrame`. What the first loop does is the function `Storing`, step
by step. By induction over its places (`StoreFrameKeeps`), with `StoredSet` as what holds
after each, it changes no name and no type, a topic that changed has its new snapshot among
the updates, and every update is of a topic that exists. For `FramesAlwaysLikeRuns` a second induction
(`AloneIs`) says what the values one by one have done up to each place:
`HandledAfter`, the same topics, and to outboxes and queues appended what
`Immediate` and `Queued` make of the updates so far. The reason is that neither
subscriptions nor ids change in between, so it makes no difference whether an
update is distributed at once or at the end (`AloneKeeps`, on
`DistributedAppend`). The answers to time requests come out first in a frame, which is
why the statement leaves them out (`TimesLeftOut`). `SubsInv` is needed for the
ids: what is sent at once is sent under an id that exists. That a step took `k`
requests of an open connection leaves only `ReceiveFrame` (`OnlyFramesTakeSeveral`). For
`StoredValuesAlwaysDistributed`, `OnlyValuesStore` leaves two kinds of steps,
`ValueDistributes` follows a single value and `FrameDistributes` the snapshot that
a frame left of the topic, to the outbox or the queue of each subscriber.

*Views*, `ViewInv`: `ViewsCatchUp` and `ValuesFollowAnnouncements`, which speak of
a client that is connected, with three parts. `Newcomers`: a client that is yet to be
inserted knows no topic and has sent no id, and only answers to time requests are on their way
to it. `Connections`: a client whose connection is fresh is neither accepted nor in
`clients`, one whose connection is open is one of the two, and a disconnection
comes from a closed one. `BeliefsHold`: for every pair of a name and an id that a client has read, is
about to read, or has put into a request, the id is below the next one and is
that name's or nobody's, and the type that goes with it is the entry's. It is the
generalisation that makes `RequestsReachTheirTopic` inductive: a request is sent
with an id from the view, the view is filled from the outbox, and the outbox from
the table, and between any two of these the topic may be deleted or announced
again; the belief survives because ids are never used again (`MeaningStays`,
from `IdsFresh` and `IdsAdvance`: new ids are not below the next one).

Both view properties fold `Learn` over a sequence of any length. The beginning of
`NT4SubsProofs` says what `Replay` computes (`ReplayIs`: a function on the places
exists that follows it step by step) by an induction over naturals in the form of
a set (`NaturalInduction` of `CollectionLemmas`), so that replaying a
concatenation (`ReplayConcat`), a silent message, a topic's announcement and its
removal become lemmas. What the maps, orders, sub-sequences (`AtPlaces`),
insertions and flattened sequences of the models are for any arguments is in
`CollectionLemmas`.

*Refinement.* `ServerKeepsDirectory` maps each step to a step of `Directory` or a
stutter: a publication to `Publish`, a release or disconnection that removes
topics to `Delete`, a greeting to `Greet`, an insertion to `Join`, the end of a
connection to `Quit`, a restart to `Reload`. `TopicTypes`, `Members`, `Greeted`
and `KnownTypes` are the mapping. What a member knows is the table that
its messages leave it with, so `ViewsCatchUp` is the reason that it agrees: it turns
the replay of a new announcement into an update of the abstract table
(`KnownIs`, `KnownNext`), and reading a message, which changes view and outbox, into
a stutter. With `DirectoryConsistent` of `DirectoryProofs`, the server inherits
that no member knows a topic that is gone or of another type, and those that
were greeted know all; the invariant there adds that non-members know nothing.

*Counts*, `CountInv`. The two statements about `pub_count` are false in general
(`double_release`, and a second type sets a count to 1), so the theorems name what
they take: `NoRelease` and `OneType` restrict what clients send, as the instance of
`restart` does, and `CountsFit` says that no count is at the largest usize, which a build with
`OverflowChecks` need not assume. `PublicationsOf` has the publications of a topic,
each a client and a place in its `pubs`; a handler adds one or takes those of a
client (`OrphansUnwanted`), and the count moves as its cardinality does. The invariant adds
that a client publishes nothing before it is inserted (`StrangersUnpublished`),
that the file holds persistent topics only (`FilePersistent`; a restored count is 1 for the
flag), and that a published topic exists and has the published type
(`PublishedExist`): a restored value may have become another type, and then the
first publication replaces the topic, which is right only because nobody
published it yet. A topic is deleted when the publications of one client alone make
up its count, so no other client publishes it and the flag is not set.

### The transport

`TransportProofs` proves, for any clients, listeners,
faults, kinds and numbers of frames, and any capacities:

| Theorem | Statement |
|---|---|
| `TransportTypesHold` | `Spec => []TransportTypeOK` (with the capacities of channel and sockets) |
| `FramesAlwaysInOrder` | `Spec => []FramesInOrder` |
| `RequestsHandledOnce` | `Spec => [][Handle => handled[taken.cid] < taken.n]_vars` |
| `StopsNeverWait` | `Spec => []StopsFindRoom`: the stop channel has room whenever `unsubscribe` is about to send on it |
| `TransportKeepsInbound` | `Spec => InboundKept`: the transport implements `Inbound` |

They rest on the assumptions of `Transport` (finitely many clients, positive
capacities). `TypeInv` adds to the types that only a connected client has a
`client_loop`, without which a finished handshake could overwrite one with a
message in its hand. `OrderInv` adds to `FramesInOrder` that a client was not served
more than it sent; its lemmas follow a frame from the wire (`OrderExtended`:
behind any prefix that a lost connection leaves) through the hand of
`client_loop` and the channel to the handler. `StopsNeverWait` needs that an
unsubscribe finds a sender once: `SendersUsedOnce` (a used channel has no sender
any more), `StopsAlone` (what a handler with a stop still has to do is that stop,
and its sender is there), `TakenUnhandled` (a message that waits for the mutex
was not handled, by `OrderInv`), and `FirstInv`: in the model a client asks for a
custom period once, with its first frame. The code makes a new channel for each
such subscription, so the restriction loses nothing about a single channel.

*Refinement.* The queue of a client is `Unhandled`: the request whose handler is
about to begin (`Handling`), those in the channel (`Queued`), the one in the hand
of `client_loop` (`Held`) and those on the wire (`Unread`), one behind the other.
A step of `client_loop` or `channel_loop` moves a request from the beginning of
one of the four to the end of the one before it and is a stutter of `Inbound`
(`ChainedMoves`); a client that sends appends to the last; a lost connection cuts
it; and `Handle` takes the first of all, which is where the order invariant is
needed: a message that waits for the mutex was not handled yet
(`TakenUnhandled`). One more invariant is needed for `Release`, which drops the
message taken: `HolderServed`, while `channel_loop` has the mutex the message is
there and counted as handled, so that nothing is lost with it. `Queued` and `Unread`
are filters; they are written as the flattening of sequences of one or no request,
of which the prover knows how they grow at either end (`GatherAppend`,
`GatherFirst` and others of `CollectionLemmas`).

### The codec

`CodecProofs` proves, for any messages, foreign frames, batch size and widths (that
own and foreign messages are typed, foreign ones have timestamp 0, 64 bits are more
than 32 and enough to number the own messages, and a batch holds at least one):

| Theorem | Statement |
|---|---|
| `CodecTypesHold` | `Spec => []CodecTypeOK` |
| `MessagesAreRelayed` | `Spec => []RelayedUnchanged` |
| `SubmittedArrive` | `Spec => []OwnMessagesArrive` |

The ground is `MessageKept`: a message decodes from its own encoding to itself,
by cases over the type and over the first variant that accepts it, with the casts
there and back. The invariant `CodecInv` has four parts. `CodecTypes`: what every
variable holds, with the bound on batches. `PartialsLast`: nothing follows a partial
value in its frame, for else an own message behind it would be lost. `InOrder`: as
long as the reader runs, what it received, the frames, the batches and the current
`Vec` are one behind the other what was submitted, foreign items left out; batching
and sending move messages from one to the one before it as in the transport.
`Begun`: after a panic of `from_slice`, what was received is still a beginning of
what was submitted. What a frame yields is again the flattening of what its items yield, so
the lemmas on `Gather` carry a message through both directions.

### What is only model-checked

- Liveness (`QueuesDrain`, `EventuallyUpToDate`, `StoppedLoopsEnd`, `EverythingServed`,
  `ConnectionsServed`): the prover does not handle fairness.
- `QueuedUpdatesSent`, that no task empties a queue of what others wait for.
- `OnlyReadersBlock`: it is about ENABLED; `StopsNeverWait` is the part of it that
  is not evident.

Library theorems that take an operator as a parameter cannot be used. What a fold computes for every
input is proved here with the set form of induction instead, for one fold at a time.

## 5. Not modelled

- The JSON text codec: serde's derived code and two macros, without state; that a
  frame does not decode is a kind of frame in `Transport`. A text message whose
  `data` does not fit its type, and Announce or Unannounce from a client, are
  ignored by `channel_loop`.
- The bytes of MessagePack and WebSocket frames, and the rounding of integers
  beyond 2^53 to floats.
- `poll_ready`, `poll_flush` and `poll_close` of `NTSocket`, which only delegate.
- The reading of the TLS files (`tls.rs`), logging and `main`, and the client crate, a stub.
- The server's state after a panic of one task while the others go on, except
  for `channel_loop` in `Transport`; clients that break the protocol.
- Periods in seconds: `Duration::from_secs_f64` panics for a negative or
  non-finite one inside the task it was meant for (`broadcast.rs:39`). One of 0 is
  accepted, and is a custom period whose timer wins at each poll.
- Connections that are made again by the same client in one process: every
  connection has an id of its own.

## 6. Plan

Done, in this order: `NTValue`, `NT4State`, `ChannelLoop`, `Broadcast`,
`Lifecycle`, `NT4Server`, properties, `Directory`, claims, proofs of the
directory; `Transport` with `Inbound`, `BinaryCodec`, `ValueFrames`, and the
proofs of the transport's types and order; the proofs of subscriptions, of what
clients know, of the refinement of `Directory` and of the counts; the proof that the
transport implements `Inbound`, the proofs about the codec, and those about frames of
values. Left: a run with two types and a subscriber for queued updates of a replaced
topic.
