----------------------------- MODULE NT4Proofs -----------------------------
(***************************************************************************)
(* The directory of the server, for any number of clients and topics: its  *)
(* types, that the maps of NTServer agree with one another, that the ids   *)
(* of every client agree with them, and that no id is ever used again.     *)
(***************************************************************************)
EXTENDS NT4Properties, CollectionLemmas

----------------------------------------------------------------------------
(* The inductive invariant                                                 *)

RequestTypes ==
    /\ published \in [Clients -> SUBSET Names]
    /\ DOMAIN inbound = Clients
    /\ \A c \in Clients : AreWellFormed(inbound[c])

DiskTypes == IsMap(disk.topics, Names, Topics)

\* A client has no ids before the listener inserts it, nor after it is removed.
Strangers == \A c \in Clients \ clients : DOMAIN pub_ids[c] = {}

DirectoryInv ==
    /\ DirectoryTypes
    /\ CountsMatchEntries
    /\ AnnouncedMatchEntries
    /\ Strangers
    /\ IdsFresh
    /\ \A c \in Clients : next_pub_id[c] > 0

IInv == DirectoryInv /\ RequestTypes /\ DiskTypes

----------------------------------------------------------------------------
(* Values                                                                  *)

\* The counts that usize arithmetic yields.
LEMMA UsizeRange ==
  ASSUME NEW n \in Int PROVE n % (UsizeMax + 1) \in 0 .. UsizeMax
  BY NaturalBounds

\* A count that is increased is a usize, wrapping or not.
LEMMA IncrementRange ==
  ASSUME NEW n \in Int PROVE Increment(n) \in 0 .. UsizeMax
  BY UsizeRange DEF Increment

\* A count that is decreased is a usize, wrapping or not.
LEMMA DecreaseRange ==
  ASSUME NEW n \in Int, NEW by \in Int PROVE Decrease(n, by) \in 0 .. UsizeMax
  BY UsizeRange DEF Decrease

\* Every type has a default value.
LEMMA DefaultType ==
  ASSUME NEW type \in DataType PROVE NewTopic(type) \in Topics
  BY DEF NewTopic, default_value, ValueOf, Topics, NTValues, Contents

----------------------------------------------------------------------------
(* Announcing to all the connected clients keeps their ids in order.       *)

\* Announcing a topic of entries' to the connected clients keeps the invariant.
LEMMA AnnounceKeeps ==
  ASSUME IInv, NEW name \in Names, AnnounceToAll(name),
         DOMAIN entries' = DOMAIN entries \cup {name},
         UNCHANGED <<clients, greeting>>
  PROVE  /\ DOMAIN pub_ids' = Clients /\ \A c \in Clients : IsMap(pub_ids'[c], Names, Nat)
         /\ next_pub_id' \in [Clients -> Nat] /\ \A c \in Clients : next_pub_id'[c] > 0
         /\ AnnouncedMatchEntries' /\ Strangers' /\ IdsFresh' /\ IdsAdvance
<1> DEFINE id(c) == next_pub_id[c]
<1>1. /\ \A c \in Clients : id(c) \in Nat /\ id(c) > 0
      /\ DOMAIN pub_ids = Clients /\ \A c \in Clients : IsMap(pub_ids[c], Names, Nat)
      /\ clients \subseteq Clients
  BY DEF IInv, DirectoryInv, DirectoryTypes
<1>2. pub_ids' = [c \in Clients |-> IF c \in clients THEN Put(pub_ids[c], name, id(c))
                                                    ELSE pub_ids[c]]
  BY DEF AnnounceToAll, Announce, announced_ids
<1>3. next_pub_id' = [c \in Clients |-> IF c \in clients THEN id(c) + 1 ELSE id(c)]
  BY DEF AnnounceToAll, Announce
<1> HIDE DEF id
<1>4. ASSUME NEW c \in clients
      PROVE  /\ IsMap(pub_ids'[c], Names, Nat)
             /\ DOMAIN pub_ids'[c] = DOMAIN pub_ids[c] \cup {name}
             /\ pub_ids'[c][name] = id(c)
             /\ \A n \in DOMAIN pub_ids[c] \ {name} : pub_ids'[c][n] = pub_ids[c][n]
  <2>1. pub_ids'[c] = Put(pub_ids[c], name, id(c))
    BY <1>1, <1>2
  <2>2. IsMap(pub_ids[c], Names, Nat) /\ id(c) \in Nat
    BY <1>1
  <2> QED  BY <2>1, <2>2, PutMap
<1>5. \A c \in Clients \ clients : pub_ids'[c] = pub_ids[c]
  BY <1>2
<1>6. \A c \in Clients : IsMap(pub_ids'[c], Names, Nat)
  BY <1>1, <1>4, <1>5
<1>7. AnnouncedMatchEntries'
  BY <1>4 DEF IInv, DirectoryInv, AnnouncedMatchEntries
<1>8. Strangers'
  BY <1>5 DEF IInv, DirectoryInv, Strangers
<1>9. IdsFresh'
  <2> SUFFICES ASSUME NEW c \in Clients, NEW m \in DOMAIN pub_ids'[c], NEW n \in DOMAIN pub_ids'[c]
               PROVE  /\ pub_ids'[c][n] < next_pub_id'[c]
                      /\ pub_ids'[c][m] = pub_ids'[c][n] => m = n
    BY DEF IdsFresh
  <2>1. \A k, l \in DOMAIN pub_ids[c] : /\ pub_ids[c][l] \in Nat /\ pub_ids[c][l] < id(c)
                                        /\ pub_ids[c][k] = pub_ids[c][l] => k = l
    BY <1>1 DEF IInv, DirectoryInv, IdsFresh, IsMap, id
  <2>2. CASE c \in clients
    <3>1. next_pub_id'[c] = id(c) + 1
      BY <1>3, <2>2
    <3>2. \A k \in DOMAIN pub_ids'[c] :
             \/ k = name /\ pub_ids'[c][k] = id(c)
             \/ k \in DOMAIN pub_ids[c] /\ k # name /\ pub_ids'[c][k] = pub_ids[c][k]
      BY <1>4, <2>2
    <3> QED  BY <1>1, <2>1, <3>1, <3>2
  <2>3. CASE c \notin clients
    BY <1>3, <1>5, <2>1, <2>3
  <2> QED  BY <2>2, <2>3
<1>10. next_pub_id' \in [Clients -> Nat] /\ \A c \in Clients : next_pub_id'[c] > 0
  BY <1>1, <1>3
<1>11. IdsAdvance
  <2> SUFFICES ASSUME NEW c \in clients
               PROVE  /\ next_pub_id'[c] >= next_pub_id[c]
                      /\ \A n \in DOMAIN pub_ids'[c] :
                            \/ n \in DOMAIN pub_ids[c] /\ pub_ids'[c][n] = pub_ids[c][n]
                            \/ pub_ids'[c][n] >= next_pub_id[c]
    BY DEF IdsAdvance
  <2>1. next_pub_id'[c] >= next_pub_id[c]
    BY <1>1, <1>3 DEF id
  <2>2. pub_ids'[c][name] >= next_pub_id[c]
    BY <1>1, <1>4 DEF id
  <2> QED  BY <1>4, <2>1, <2>2
<1> QED  BY <1>2, <1>6, <1>7, <1>8, <1>9, <1>10, <1>11

----------------------------------------------------------------------------
(* Deleting the topics S takes their ids from every client; the clients in *)
(* gone leave.                                                             *)

Deletes(S, gone) ==
    /\ pub_ids' = [c \in Clients |-> IF c \in gone THEN Empty ELSE Without(pub_ids[c], S)]
    /\ next_pub_id' = [c \in Clients |-> IF c \in gone THEN 1 ELSE next_pub_id[c]]
    /\ entries' = Without(entries, S)
    /\ clients' = clients \ gone
    /\ UNCHANGED greeting

\* So does deleting topics, with their counts and everybody's ids.
LEMMA DeleteKeeps ==
  ASSUME IInv, NEW S, NEW gone, Deletes(S, gone)
  PROVE  /\ IsMap(entries', Names, Topics) /\ DOMAIN entries' = DOMAIN entries \ S
         /\ DOMAIN pub_ids' = Clients /\ \A c \in Clients : IsMap(pub_ids'[c], Names, Nat)
         /\ next_pub_id' \in [Clients -> Nat] /\ \A c \in Clients : next_pub_id'[c] > 0
         /\ AnnouncedMatchEntries' /\ Strangers' /\ IdsFresh' /\ IdsAdvance
<1> USE DEF Deletes
<1>1. IsMap(entries, Names, Topics) /\ \A c \in Clients : IsMap(pub_ids[c], Names, Nat)
  BY DEF IInv, DirectoryInv, DirectoryTypes
<1>2. IsMap(entries', Names, Topics) /\ DOMAIN entries' = DOMAIN entries \ S
  BY <1>1 DEF IsMap, Without
<1>3. ASSUME NEW c \in Clients
      PROVE  /\ IsMap(pub_ids'[c], Names, Nat)
             /\ c \in gone => DOMAIN pub_ids'[c] = {}
             /\ c \notin gone => /\ DOMAIN pub_ids'[c] = DOMAIN pub_ids[c] \ S
                                /\ \A n \in DOMAIN pub_ids'[c] : pub_ids'[c][n] = pub_ids[c][n]
  <2>1. CASE c \in gone
    BY <2>1, EmptyMap
  <2>2. CASE c \notin gone
    <3>1. pub_ids'[c] = Without(pub_ids[c], S)
      BY <2>2
    <3> QED  BY <1>1, <2>2, <3>1 DEF IsMap, Without
  <2> QED  BY <2>1, <2>2
<1>4. AnnouncedMatchEntries' /\ Strangers'
  BY <1>2, <1>3 DEF IInv, DirectoryInv, DirectoryTypes, AnnouncedMatchEntries, Strangers
<1>5. IdsFresh'
  BY <1>3 DEF IInv, DirectoryInv, DirectoryTypes, IdsFresh
<1>6. next_pub_id' \in [Clients -> Nat] /\ \A c \in Clients : next_pub_id'[c] > 0
  BY DEF IInv, DirectoryInv, DirectoryTypes
<1>7. IdsAdvance
  BY <1>3 DEF IInv, DirectoryInv, DirectoryTypes, IdsAdvance
<1> QED  BY <1>2, <1>3, <1>4, <1>5, <1>6, <1>7

----------------------------------------------------------------------------
(* The handlers of channel_loop                                            *)

\* PublishReq: the topic may be there, be new, or be replaced.
LEMMA PublishKeeps ==
  ASSUME IInv, NEW c \in Clients, NEW req, req.name \in Names, req.type \in DataType,
         ~PublishFails(c, req), HandlePublish(c, req), UNCHANGED greeting
  PROVE  DirectoryInv' /\ IdsAdvance
<1>1. /\ IsMap(entries, Names, Topics) /\ IsMap(pub_count, Names, 0 .. UsizeMax)
      /\ DOMAIN entries = DOMAIN pub_count /\ pubs \in [Clients -> Seq(Names)]
      /\ clients \subseteq Clients /\ greeting \subseteq Clients
  BY DEF IInv, DirectoryInv, DirectoryTypes, CountsMatchEntries
<1>2. /\ create_entry(req.name, req.type) /\ AnnounceToAll(req.name)
      /\ pubs' = [pubs EXCEPT ![c] = Append(@, req.name)] /\ clients' = clients
  BY DEF HandlePublish
<1>3. /\ IsMap(entries', Names, Topics) /\ IsMap(pub_count', Names, 0 .. UsizeMax)
      /\ DOMAIN entries' = DOMAIN entries \cup {req.name}
      /\ DOMAIN pub_count' = DOMAIN entries'
  <2>1. CASE SameType(req.name, req.type)
    <3>1. req.name \in DOMAIN pub_count /\ pub_count[req.name] \in 0 .. UsizeMax
      BY <1>1, <2>1 DEF PublishFails, IsMap
    <3>2. Increment(pub_count[req.name]) \in 0 .. UsizeMax
      BY <3>1, IncrementRange
    <3>3. entries' = entries /\ pub_count' = [pub_count EXCEPT ![req.name] = Increment(@)]
      BY <1>2, <2>1 DEF create_entry
    <3>4. IsMap(pub_count', Names, 0 .. UsizeMax) /\ DOMAIN pub_count' = DOMAIN pub_count
      BY <1>1, <3>1, <3>2, <3>3 DEF IsMap
    <3> QED  BY <1>1, <3>1, <3>3, <3>4
  <2>2. CASE ~SameType(req.name, req.type)
    <3>1. 1 \in 0 .. UsizeMax /\ NewTopic(req.type) \in Topics
      BY NaturalBounds, DefaultType
    <3>2. /\ entries' = Put(entries, req.name, NewTopic(req.type))
          /\ pub_count' = Put(pub_count, req.name, 1)
      BY <1>2, <2>2 DEF create_entry
    <3>3. IsMap(entries', Names, Topics) /\ DOMAIN entries' = DOMAIN entries \cup {req.name}
      BY <1>1, <3>1, <3>2 DEF IsMap, Put
    <3>4. /\ IsMap(pub_count', Names, 0 .. UsizeMax)
          /\ DOMAIN pub_count' = DOMAIN pub_count \cup {req.name}
      BY <1>1, <3>1, <3>2 DEF IsMap, Put
    <3> QED  BY <1>1, <3>3, <3>4
  <2> QED  BY <2>1, <2>2
<1>4. pubs' \in [Clients -> Seq(Names)]
  BY <1>1, <1>2, AppendProperties
<1>5. /\ DOMAIN pub_ids' = Clients /\ \A d \in Clients : IsMap(pub_ids'[d], Names, Nat)
      /\ next_pub_id' \in [Clients -> Nat] /\ \A d \in Clients : next_pub_id'[d] > 0
      /\ AnnouncedMatchEntries' /\ Strangers' /\ IdsFresh' /\ IdsAdvance
  BY <1>2, <1>3, AnnounceKeeps
<1> QED  BY <1>1, <1>2, <1>3, <1>4, <1>5 DEF DirectoryInv, DirectoryTypes, CountsMatchEntries

\* PublishRel: the count decreases, or the topic goes.
LEMMA ReleaseKeeps ==
  ASSUME IInv, NEW req, ~ReleaseFails(req), HandleRelease(req), UNCHANGED greeting
  PROVE  DirectoryInv' /\ IdsAdvance
<1>1. /\ IsMap(pub_count, Names, 0 .. UsizeMax) /\ DOMAIN entries = DOMAIN pub_count
      /\ req.name \in DOMAIN pub_count /\ next_pub_id \in [Clients -> Nat]
  BY DEF IInv, DirectoryInv, DirectoryTypes, CountsMatchEntries, ReleaseFails
<1>2. clients' = clients /\ next_pub_id' = next_pub_id /\ pubs' = pubs
  BY DEF HandleRelease
<1>3. CASE LastPublisher(req.name)
  <2>1. /\ entries' = Without(entries, {req.name})
        /\ pub_count' = Without(pub_count, {req.name})
        /\ pub_ids' = [c \in Clients |-> Without(pub_ids[c], {req.name})]
    BY <1>3 DEF HandleRelease
  <2>2. IsMap(pub_count', Names, 0 .. UsizeMax) /\ DOMAIN pub_count' = DOMAIN pub_count \ {req.name}
    BY <1>1, <2>1 DEF IsMap, Without
  <2>3. Deletes({req.name}, {})
    BY <1>1, <1>2, <2>1 DEF Deletes
  <2>4. /\ IsMap(entries', Names, Topics) /\ DOMAIN entries' = DOMAIN entries \ {req.name}
        /\ DOMAIN pub_ids' = Clients /\ \A c \in Clients : IsMap(pub_ids'[c], Names, Nat)
        /\ next_pub_id' \in [Clients -> Nat] /\ \A c \in Clients : next_pub_id'[c] > 0
        /\ AnnouncedMatchEntries' /\ Strangers' /\ IdsFresh' /\ IdsAdvance
    BY <2>3, DeleteKeeps
  <2> QED  BY <1>1, <1>2, <2>2, <2>4
           DEF IInv, DirectoryInv, DirectoryTypes, CountsMatchEntries
<1>4. CASE ~LastPublisher(req.name)
  <2>1. /\ pub_count' = [pub_count EXCEPT ![req.name] = Decrease(@, 1)]
        /\ entries' = entries /\ pub_ids' = pub_ids
    BY <1>4 DEF HandleRelease
  <2>2. Decrease(pub_count[req.name], 1) \in 0 .. UsizeMax
    BY <1>1, DecreaseRange DEF IsMap
  <2>3. IsMap(pub_count', Names, 0 .. UsizeMax) /\ DOMAIN pub_count' = DOMAIN pub_count
    BY <1>1, <2>1, <2>2 DEF IsMap
  <2> QED  BY <1>1, <1>2, <2>1, <2>3
           DEF IInv, DirectoryInv, DirectoryTypes, CountsMatchEntries,
               AnnouncedMatchEntries, Strangers, IdsFresh, IdsAdvance
<1> QED  BY <1>3, <1>4

\* What only changes topics or counts leaves the ids as they are.
LEMMA SameTopicsKeep ==
  ASSUME IInv, UNCHANGED <<clients, pub_ids, next_pub_id, pubs, greeting>>,
         IsMap(entries', Names, Topics), IsMap(pub_count', Names, 0 .. UsizeMax),
         DOMAIN entries' = DOMAIN entries, DOMAIN pub_count' = DOMAIN pub_count
  PROVE  DirectoryInv' /\ IdsAdvance
  BY DEF IInv, DirectoryInv, DirectoryTypes, CountsMatchEntries, AnnouncedMatchEntries,
         Strangers, IdsFresh, IdsAdvance

\* What leaves the directory alone keeps the invariant.
LEMMA SameDirectoryKeeps ==
  ASSUME IInv, UNCHANGED <<directoryVars, greeting>>
  PROVE  DirectoryInv' /\ IdsAdvance
<1>1. IsMap(entries, Names, Topics) /\ IsMap(pub_count, Names, 0 .. UsizeMax)
  BY DEF IInv, DirectoryInv, DirectoryTypes
<1> QED  BY <1>1, SameTopicsKeep DEF directoryVars

\* The number of "persistent" flags is never negative.
LEMMA FlagsType ==
  ASSUME NEW name, NEW req, entries[name].flags \in Nat
  PROVE  NewFlags(name, req) \in Nat
<1>1. \A k, a \in Nat : (IF req.remove /\ k + a > 0 THEN k + a - 1 ELSE k + a) \in Nat
  OBVIOUS
<1>2. (IF req.add THEN 1 ELSE 0) \in Nat
  OBVIOUS
<1> QED  BY <1>1, <1>2 DEF NewFlags

\* SetFlags: the flags and the count of a topic change, its keys do not.
LEMMA SetFlagsKeeps ==
  ASSUME IInv, NEW req, ~SetFlagsFails(req), HandleSetFlags(req), UNCHANGED greeting
  PROVE  DirectoryInv' /\ IdsAdvance
<1>1. /\ IsMap(entries, Names, Topics) /\ IsMap(pub_count, Names, 0 .. UsizeMax)
      /\ req.name \in DOMAIN entries /\ req.name \in DOMAIN pub_count
  BY DEF IInv, DirectoryInv, DirectoryTypes, CountsMatchEntries, SetFlagsFails
<1>2. UNCHANGED <<clients, pub_ids, next_pub_id, pubs>> /\ update_flags(req)
  BY DEF HandleSetFlags
<1>3. IsMap(entries', Names, Topics) /\ DOMAIN entries' = DOMAIN entries
  <2>1. entries[req.name] \in Topics
    BY <1>1 DEF IsMap
  <2>2. NewFlags(req.name, req) \in Nat
    BY <2>1, FlagsType DEF Topics
  <2>3. [entries[req.name] EXCEPT !.flags = NewFlags(req.name, req)] \in Topics
    BY <2>1, <2>2 DEF Topics
  <2>4. entries' = [entries EXCEPT ![req.name] =
                      [entries[req.name] EXCEPT !.flags = NewFlags(req.name, req)]]
    BY <1>2 DEF update_flags
  <2> QED  BY <1>1, <2>3, <2>4 DEF IsMap
<1>4. IsMap(pub_count', Names, 0 .. UsizeMax) /\ DOMAIN pub_count' = DOMAIN pub_count
  <2>1. pub_count[req.name] \in Int
    BY <1>1 DEF IsMap
  <2>2. Increment(pub_count[req.name]) \in 0 .. UsizeMax
    BY <2>1, IncrementRange
  <2>3. Decrease(pub_count[req.name], 1) \in 0 .. UsizeMax
    BY <2>1, UsizeRange DEF Decrease
  <2>4. \/ pub_count' = [pub_count EXCEPT ![req.name] = Increment(@)]
        \/ pub_count' = [pub_count EXCEPT ![req.name] = Decrease(@, 1)]
        \/ pub_count' = pub_count
    BY <1>2 DEF update_flags
  <2> QED  BY <1>1, <2>2, <2>3, <2>4 DEF IsMap
<1> QED  BY <1>2, <1>3, <1>4, SameTopicsKeep

\* ValuePublish: a topic gets the value and timestamp of the request, or nothing.
LEMMA ValueKeeps ==
  ASSUME IInv, NEW c \in Clients, NEW req, req.value \in NTValues, req.timestamp \in Nat,
         ~ValueFails(c, req), HandleValue(c, req), UNCHANGED greeting
  PROVE  DirectoryInv' /\ IdsAdvance
<1> DEFINE name  == id_to_name(c, req.id)
           topic == set_value(entries[name], req)
<1>1. /\ IsMap(entries, Names, Topics) /\ IsMap(pub_count, Names, 0 .. UsizeMax)
      /\ name \in DOMAIN entries
  BY DEF IInv, DirectoryInv, DirectoryTypes, ValueFails
<1>2. /\ UNCHANGED <<clients, pub_count, pub_ids, next_pub_id, pubs>>
      /\ entries' = [entries EXCEPT ![name] = topic] \/ entries' = entries
  BY DEF HandleValue
<1>3. topic \in Topics
  <2>1. entries[name] \in Topics
    BY <1>1 DEF IsMap
  <2> QED  BY <2>1 DEF set_value, Topics
<1>4. IsMap(entries', Names, Topics) /\ DOMAIN entries' = DOMAIN entries
  BY <1>1, <1>2, <1>3 DEF IsMap
<1> QED  BY <1>1, <1>2, <1>4, SameTopicsKeep

\* How often a name occurs in pubs is a natural number.
LEMMA OccurrencesType ==
  ASSUME DirectoryTypes, NEW c \in Clients, NEW n
  PROVE  Occurrences(c, n) \in Nat
<1>1. pubs[c] \in Seq(Names)
  BY DEF DirectoryTypes
<1>2. DOMAIN pubs[c] = 1 .. Len(pubs[c]) /\ Len(pubs[c]) \in Nat
  BY <1>1, LenProperties
<1>3. IsFiniteSet(DOMAIN pubs[c])
  BY <1>2, FS_Interval
<1>4. IsFiniteSet({ i \in DOMAIN pubs[c] : pubs[c][i] = n })
  BY <1>3, FS_Subset
<1> QED  BY <1>4, FS_CardinalityType DEF Occurrences

\* ClientDisconnected: the client goes, and with it the topics it orphans.
LEMMA DisconnectKeeps ==
  ASSUME IInv, NEW c \in Clients, HandleDisconnect(c), UNCHANGED greeting
  PROVE  DirectoryInv' /\ IdsAdvance
<1>1. CASE c \notin clients
  BY <1>1, SameDirectoryKeeps DEF HandleDisconnect, directoryVars
<1>2. CASE c \in clients
  <2>1. /\ IsMap(pub_count, Names, 0 .. UsizeMax) /\ DOMAIN entries = DOMAIN pub_count
        /\ next_pub_id \in [Clients -> Nat] /\ pubs \in [Clients -> Seq(Names)]
        /\ clients \subseteq Clients
    BY DEF IInv, DirectoryInv, DirectoryTypes, CountsMatchEntries
  <2>2. /\ DropClient(c)
        /\ entries' = Without(entries, Orphans(c)) /\ pub_count' = CountsWithout(c)
        /\ pub_ids' = [d \in Clients |-> IF d = c THEN Empty ELSE Without(pub_ids[d], Orphans(c))]
    BY <1>2 DEF HandleDisconnect
  <2>3. Deletes(Orphans(c), {c})
    BY <2>1, <2>2 DEF Deletes, DropClient
  <2>4. /\ IsMap(entries', Names, Topics) /\ DOMAIN entries' = DOMAIN entries \ Orphans(c)
        /\ DOMAIN pub_ids' = Clients /\ \A d \in Clients : IsMap(pub_ids'[d], Names, Nat)
        /\ next_pub_id' \in [Clients -> Nat] /\ \A d \in Clients : next_pub_id'[d] > 0
        /\ AnnouncedMatchEntries' /\ Strangers' /\ IdsFresh' /\ IdsAdvance
    BY <2>3, DeleteKeeps
  <2>5. IsMap(pub_count', Names, 0 .. UsizeMax) /\ DOMAIN pub_count' = DOMAIN pub_count \ Orphans(c)
    <3>1. \A n \in DOMAIN pub_count : pub_count[n] \in Int /\ Occurrences(c, n) \in Int
      BY <2>1, OccurrencesType DEF IsMap, IInv, DirectoryInv
    <3>2. \A n \in DOMAIN pub_count : Decrease(pub_count[n], Occurrences(c, n)) \in 0 .. UsizeMax
      BY <3>1, DecreaseRange
    <3> QED  BY <2>1, <2>2, <3>2 DEF IsMap, CountsWithout
  <2>6. clients' \subseteq Clients /\ pubs' \in [Clients -> Seq(Names)]
    BY <2>1, <2>2, EmptySeq DEF DropClient
  <2> QED  BY <2>1, <2>4, <2>5, <2>6
           DEF IInv, DirectoryInv, DirectoryTypes, CountsMatchEntries
<1> QED  BY <1>1, <1>2

----------------------------------------------------------------------------
(* Persistence                                                             *)

\* A shape is read as a value of the variant that accepts it.
LEMMA ReadAsType ==
  ASSUME NEW v \in NTValues, NEW variant \in DataType, Accepts(variant, Shape(v))
  PROVE  ReadAs(variant, Shape(v)) \in NTValues
<1> USE DEF DataType, Scalars, Blobs, Arrays
<1>0. PICK t \in DataType : \E x \in Contents(t) : v = [type |-> t, content |-> x]
  BY DEF NTValues, ValueOf
<1>1. PICK x \in Contents(t) : v = [type |-> t, content |-> x]
  BY <1>0
<1>2. \A u \in DataType : \A y : y \in Contents(u) => ValueOf(u, y) \in NTValues
  BY DEF NTValues
<1>3. /\ \A u \in DataType : "default" \in Contents(u)
      /\ \A u \in DataType \ Blobs : "other" \in Contents(u) \/ u = "int[]"
  <2> SUFFICES ASSUME NEW u \in DataType
               PROVE  /\ "default" \in Contents(u)
                      /\ u \notin Blobs => "other" \in Contents(u) \/ u = "int[]"
    OBVIOUS
  <2>1. CASE u \in Scalars
    BY <2>1 DEF Contents
  <2>2. CASE u \in Blobs
    BY <2>2 DEF Contents
  <2>3. CASE u \in Arrays
    BY <2>3 DEF Contents
  <2> QED  BY <2>1, <2>2, <2>3
<1>4. CASE t \in Blobs
  <2>1. Shape(v) = <<"bin", x>> /\ x \in {"default", "ascii", "binary"}
    BY <1>1, <1>4 DEF Shape, Contents
  <2>2. variant = "string" /\ x # "binary"
    BY <2>1 DEF Accepts
  <2>3. ReadAs(variant, Shape(v)) = ValueOf("string", IF x = "ascii" THEN "other" ELSE x)
    BY <2>1, <2>2 DEF ReadAs
  <2> QED  BY <1>2, <1>3, <2>1, <2>2, <2>3
<1>5. CASE t \in Arrays /\ x = "default"
  <2>1. Shape(v) = <<"array", "empty">>
    BY <1>1, <1>5 DEF Shape
  <2>2. ReadAs(variant, Shape(v)) = ValueOf(variant, "default")
    <3>1. ReadAs(variant, <<"array", "empty">>) = default_value(variant)
      BY Zenon DEF ReadAs
    <3> QED  BY <2>1, <3>1 DEF default_value
  <2> QED  BY <1>2, <1>3, <2>2
<1>6. CASE t \in Arrays /\ x # "default"
  <2>1. Shape(v) = <<"array", t, x>>
    BY <1>1, <1>6 DEF Shape
  <2>2. ReadAs(variant, Shape(v)) = ValueOf(variant, IF x \in Contents(variant) THEN x ELSE "other")
    BY <2>1 DEF ReadAs
  <2>3. variant \in Blobs \/ variant = "int[]" => x \in Contents(variant)
    BY <1>6, <2>1 DEF Accepts, Contents
  <2> QED  BY <1>2, <1>3, <2>2, <2>3
<1>7. CASE t \in Scalars
  <2>1. Shape(v) = <<t, x>> /\ x \in {"default", "other"}
    BY <1>1, <1>7 DEF Shape, Contents
  <2>2. variant \in Scalars
    BY <1>7, <2>1 DEF Accepts
  <2>3. ReadAs(variant, Shape(v)) = ValueOf(variant, x)
    BY <1>7, <2>1 DEF ReadAs
  <2> QED  BY <1>2, <1>3, <2>1, <2>2, <2>3
<1> QED  BY <1>4, <1>5, <1>6, <1>7

\* A value that can be read back is a value.
LEMMA RestoredType ==
  ASSUME NEW v \in NTValues, Restored(v) # Undecodable
  PROVE  Restored(v) \in NTValues
<1> DEFINE accepted == { i \in DOMAIN Variants : Accepts(Variants[i], Shape(v)) }
           first    == CHOOSE i \in accepted : \A j \in accepted : i <= j
<1>1. accepted # {} /\ Restored(v) = ReadAs(Variants[first], Shape(v))
  BY DEF Restored
<1>2. DOMAIN Variants \subseteq Nat /\ \A i \in DOMAIN Variants : Variants[i] \in DataType
  BY DEF Variants, DataType, Scalars, Blobs, Arrays
<1>3. first \in accepted
  BY <1>1, <1>2, LeastNatural
<1> QED  BY <1>1, <1>2, <1>3, ReadAsType

\* The first variant that accepts the shape of a value is the one it is read as.
LEMMA FirstVariant ==
  ASSUME NEW v, NEW k \in 1 .. 12, Accepts(Variants[k], Shape(v)),
         \A j \in 1 .. k - 1 : ~Accepts(Variants[j], Shape(v))
  PROVE  Restored(v) = ReadAs(Variants[k], Shape(v))
<1> DEFINE accepted == { i \in DOMAIN Variants : Accepts(Variants[i], Shape(v)) }
           first    == CHOOSE i \in accepted : \A j \in accepted : i <= j
<1>1. DOMAIN Variants = 1 .. 12
  BY DEF Variants
<1>2. k \in accepted /\ \A j \in accepted : k <= j
  BY <1>1
<1>3. accepted \subseteq Int
  BY <1>1
<1>4. Restored(v) = IF accepted = {} THEN Undecodable ELSE ReadAs(Variants[first], Shape(v))
  BY DEF Restored
<1> HIDE DEF accepted
<1>5. first \in accepted /\ \A j \in accepted : first <= j
  BY <1>2
<1> HIDE DEF first
<1>6. first = k
  <2>1. first \in Int /\ k \in Int
    BY <1>2, <1>3, <1>5
  <2>2. first <= k /\ k <= first
    BY <1>2, <1>5
  <2> QED  BY <2>1, <2>2
<1> QED  BY <1>2, <1>4, <1>6

\* The values that are said to be stable come back as they were.
LEMMA StableRestored ==
  ASSUME NEW v \in Stable PROVE Restored(v) = v
<1> USE DEF DataType, Scalars, Blobs, Arrays
<1>0. PICK t \in DataType : \E x \in Contents(t) : v = [type |-> t, content |-> x]
  BY DEF Stable, NTValues, ValueOf
<1>1. PICK x \in Contents(t) : v = [type |-> t, content |-> x]
  BY <1>0
<1>2. \/ t \in {"boolean", "int", "float", "string"}
      \/ t \in {"boolean[]", "float[]", "string[]"} /\ x # "default"
      \/ t = "int[]" /\ x = "wide"
  BY <1>1 DEF Stable
<1>3. /\ Variants[1] = "int" /\ Variants[2] = "float" /\ Variants[3] = "double"
      /\ Variants[4] = "boolean" /\ Variants[5] = "raw" /\ Variants[6] = "rpc"
      /\ Variants[7] = "string" /\ Variants[8] = "boolean[]" /\ Variants[9] = "int[]"
      /\ Variants[10] = "float[]" /\ Variants[11] = "double[]" /\ Variants[12] = "string[]"
  BY DEF Variants
<1>4. CASE t \in {"boolean", "int", "float", "string"}
  <2>1. Shape(v) = <<t, x>>
    BY <1>1, <1>4 DEF Shape
  <2> DEFINE Takes(u) == Accepts(u, <<t, x>>) <=>
                           \/ u = t
                           \/ u \in {"float", "double"} /\ t \in {"int", "float"}
  <2>2. \A u \in DataType : Takes(u)
    <3> SUFFICES ASSUME NEW u \in DataType PROVE Takes(u)
      OBVIOUS
    <3>1. CASE u \in {"float", "double"}
      BY <1>4, <3>1 DEF Accepts
    <3>2. CASE u \in Blobs
      BY <1>4, <3>2 DEF Accepts
    <3>3. CASE u = "string"
      BY <1>4, <3>3 DEF Accepts
    <3>4. CASE u \in {"float[]", "double[]"}
      BY <1>4, <3>4 DEF Accepts
    <3>5. CASE u \in {"boolean[]", "int[]", "string[]"}
      BY <1>4, <3>5 DEF Accepts
    <3>6. CASE u \in {"boolean", "int"}
      BY <1>4, <3>6 DEF Accepts
    <3> QED  BY <3>1, <3>2, <3>3, <3>4, <3>5, <3>6
  <2>3. ReadAs(t, <<t, x>>) = v
    BY <1>1, <1>4 DEF ReadAs, ValueOf
  <2> DEFINE k == CASE t = "int" -> 1 [] t = "float" -> 2 [] t = "boolean" -> 4 [] OTHER -> 7
  <2>4. k \in 1 .. 12 /\ Variants[k] = t
    BY <1>3, <1>4
  <2>5. \A j \in 1 .. k - 1 : ~Accepts(Variants[j], Shape(v))
    BY <1>3, <1>4, <2>1, <2>2
  <2>6. Accepts(Variants[k], Shape(v))
    BY <2>1, <2>2, <2>4
  <2> HIDE DEF k
  <2> QED  BY <2>1, <2>3, <2>4, <2>5, <2>6, FirstVariant
<1>5. CASE t \in Arrays
  <2>1. Shape(v) = <<"array", t, x>>
    BY <1>1, <1>2, <1>5 DEF Shape
  <2> DEFINE Takes(u) == Accepts(u, <<"array", t, x>>) <=>
                           \/ u = t
                           \/ u \in {"float[]", "double[]"} /\ t \in {"int[]", "float[]"}
  <2>2. \A u \in DataType : Takes(u)
    <3> SUFFICES ASSUME NEW u \in DataType PROVE Takes(u)
      OBVIOUS
    <3>1. CASE u \in {"float", "double"}
      BY <1>2, <1>5, <3>1 DEF Accepts
    <3>2. CASE u \in Blobs
      BY <1>2, <1>5, <3>2 DEF Accepts
    <3>3. CASE u = "string"
      BY <1>2, <1>5, <3>3 DEF Accepts
    <3>4. CASE u \in {"float[]", "double[]"}
      BY <1>2, <1>5, <3>4 DEF Accepts
    <3>5. CASE u \in {"boolean[]", "int[]", "string[]"}
      BY <1>2, <1>5, <3>5 DEF Accepts
    <3>6. CASE u \in {"boolean", "int"}
      BY <1>2, <1>5, <3>6 DEF Accepts
    <3> QED  BY <3>1, <3>2, <3>3, <3>4, <3>5, <3>6
  <2>3. x \in Contents(t)
    OBVIOUS
  <2>4. ReadAs(t, <<"array", t, x>>) = v
    BY <1>1, <1>2, <1>5, <2>3 DEF ReadAs, ValueOf
  <2> DEFINE k == CASE t = "boolean[]" -> 8 [] t = "int[]" -> 9 [] t = "float[]" -> 10 [] OTHER -> 12
  <2>5. k \in 1 .. 12 /\ Variants[k] = t
    BY <1>2, <1>3, <1>5
  <2>6. \A j \in 1 .. k - 1 : ~Accepts(Variants[j], Shape(v))
    BY <1>2, <1>3, <1>5, <2>1, <2>2
  <2>7. Accepts(Variants[k], Shape(v))
    BY <2>1, <2>2, <2>5
  <2> HIDE DEF k
  <2> QED  BY <2>1, <2>4, <2>5, <2>6, <2>7, FirstVariant
<1> QED  BY <1>2, <1>4, <1>5

\* What restore_persistent yields has the types of entries and pub_count.
LEMMA RestoreTypes ==
  ASSUME NEW file, IsMap(file.topics, Names, Topics)
  PROVE  /\ IsMap(restore_persistent(file), Names, Topics)
         /\ IsMap(RestoredCount(file), Names, 0 .. UsizeMax)
         /\ DOMAIN RestoredCount(file) = DOMAIN restore_persistent(file)
<1>1. IsMap(restore_persistent(file), Names, Topics)
  <2>1. CASE ~Readable(file)
    BY <2>1, EmptyMap DEF restore_persistent
  <2>2. CASE Readable(file)
    <3>1. ASSUME NEW n \in DOMAIN file.topics
          PROVE  [file.topics[n] EXCEPT !.value = Restored(file.topics[n].value)] \in Topics
      <4>1. file.topics[n] \in Topics
        BY DEF IsMap
      <4>2. Restored(file.topics[n].value) \in NTValues
        BY <2>2, <4>1, RestoredType DEF Readable, Topics
      <4> QED  BY <4>1, <4>2 DEF Topics
    <3> QED  BY <2>2, <3>1 DEF restore_persistent, IsMap
  <2> QED  BY <2>1, <2>2
<1>2. 1 \in 0 .. UsizeMax
  BY NaturalBounds
<1> QED  BY <1>1, <1>2 DEF RestoredCount, IsMap

\* A flush writes topics.
LEMMA FlushTypes ==
  ASSUME IInv, FlushPersistent PROVE DiskTypes'
<1>1. IsMap(entries, Names, Topics)
  BY DEF IInv, DirectoryInv, DirectoryTypes
<1>2. disk'.topics = PersistentTopics
  BY DEF FlushPersistent
<1> QED  BY <1>1, <1>2 DEF DiskTypes, PersistentTopics, IsMap

----------------------------------------------------------------------------
(* Requests                                                                *)

\* A sequence of well-formed requests is one.
LEMMA SequenceWellFormed ==
  ASSUME NEW S, NEW reqs \in Seq(S), \A r \in S : WellFormed(r)
  PROVE  AreWellFormed(reqs)
<1>1. Len(reqs) \in Nat /\ DOMAIN reqs = 1 .. Len(reqs) /\ \A i \in DOMAIN reqs : reqs[i] \in S
  BY LenProperties
<1> QED  BY <1>1 DEF AreWellFormed, ToSet

\* Sending a well-formed request keeps them so.
LEMMA AppendWellFormed ==
  ASSUME NEW reqs, AreWellFormed(reqs), NEW req, WellFormed(req)
  PROVE  AreWellFormed(Append(reqs, req))
<1> DEFINE S == { r \in ToSet(reqs) : WellFormed(r) } \cup {req}
<1>1. reqs \in Seq(S) /\ req \in S /\ \A r \in S : WellFormed(r)
  BY SeqMonotonic DEF AreWellFormed
<1> HIDE DEF S
<1>2. Append(reqs, req) \in Seq(S)
  BY <1>1, AppendProperties
<1> QED  BY <1>1, <1>2, SequenceWellFormed

\* The request that is handled is well formed, and so are those behind it.
LEMMA HeadWellFormed ==
  ASSUME NEW reqs, AreWellFormed(reqs), reqs # << >>
  PROVE  WellFormed(Head(reqs)) /\ AreWellFormed(Tail(reqs))
<1> DEFINE S == { r \in ToSet(reqs) : WellFormed(r) }
<1>1. reqs \in Seq(S) /\ \A r \in S : WellFormed(r)
  BY DEF AreWellFormed
<1> HIDE DEF S
<1>2. Head(reqs) \in S /\ Tail(reqs) \in Seq(S)
  BY <1>1, HeadTailProperties
<1> QED  BY <1>1, <1>2, SequenceWellFormed

\* So are those that outlive a lost connection.
LEMMA KeptWellFormed ==
  ASSUME NEW reqs, AreWellFormed(reqs), NEW kept \in 0 .. Len(reqs)
  PROVE  AreWellFormed(SubSeq(reqs, 1, kept))
<1> DEFINE S == { r \in ToSet(reqs) : WellFormed(r) }
<1>1. reqs \in Seq(S) /\ \A r \in S : WellFormed(r)
  BY DEF AreWellFormed
<1> HIDE DEF S
<1>2. kept \in Int /\ \A i \in 1 .. kept : reqs[i] \in S
  BY <1>1, LenProperties, ElementOfSeq
<1>3. SubSeq(reqs, 1, kept) \in Seq(S)
  BY <1>2, SubSeqProperties
<1> QED  BY <1>1, <1>3, SequenceWellFormed

\* Sending a well-formed request keeps the invariant.
LEMMA SendKeeps ==
  ASSUME IInv, NEW c \in Clients, NEW kind, NEW req, WellFormed(req), Send(c, kind, req),
         published' \in [Clients -> SUBSET Names]
  PROVE  IInv' /\ IdsAdvance
<1>1. DirectoryInv' /\ IdsAdvance
  BY SameDirectoryKeeps DEF Send, taskVars
<1>2. inbound' = [inbound EXCEPT ![c] = Append(@, req)] /\ disk' = disk
  BY DEF Send, processVars
<1>3. DOMAIN inbound' = Clients /\ \A d \in Clients : AreWellFormed(inbound'[d])
  BY <1>2, AppendWellFormed DEF IInv, RequestTypes
<1> QED  BY <1>1, <1>2, <1>3 DEF IInv, RequestTypes, DiskTypes

\* Every step of a client keeps the invariant.
LEMMA ClientKeeps ==
  ASSUME IInv, NEW c \in Clients, ClientStep(c)
  PROVE  IInv' /\ IdsAdvance
<1>1. published \in [Clients -> SUBSET Names]
  BY DEF IInv, RequestTypes
<1>2. CASE SendPublish(c)
  <2>1. PICK n \in Names \ published[c], t \in Types :
          /\ Send(c, "publish", [kind |-> "publish", name |-> n, type |-> t])
          /\ published' = [published EXCEPT ![c] = @ \cup {n}]
    BY <1>2 DEF SendPublish
  <2>2. t \in DataType
    BY ValuesKnown DEF Types, NTValues, ValueOf
  <2>3. WellFormed([kind |-> "publish", name |-> n, type |-> t])
    BY <2>2 DEF WellFormed, RequestKinds
  <2>4. published' \in [Clients -> SUBSET Names]
    BY <1>1, <2>1
  <2> QED  BY <2>1, <2>3, <2>4, SendKeeps
<1>3. CASE SendRelease(c)
  <2>1. PICK n \in published[c] :
          /\ Send(c, "release", [kind |-> "release", name |-> n])
          /\ published' = [published EXCEPT ![c] = @ \ {n}]
    BY <1>3 DEF SendRelease
  <2>2. WellFormed([kind |-> "release", name |-> n])
    BY DEF WellFormed, RequestKinds
  <2>3. published' \in [Clients -> SUBSET Names]
    BY <1>1, <2>1
  <2> QED  BY <2>1, <2>2, <2>3, SendKeeps
<1>4. CASE SendSetFlags(c)
  <2>1. PICK n \in Names, adds \in BOOLEAN, removes \in BOOLEAN :
          /\ Send(c, "setflags", [kind |-> "setflags", name |-> n,
                                  add |-> adds, remove |-> removes])
          /\ UNCHANGED published
    BY <1>4 DEF SendSetFlags
  <2>2. WellFormed([kind |-> "setflags", name |-> n, add |-> adds, remove |-> removes])
    BY DEF WellFormed, RequestKinds
  <2> QED  BY <1>1, <2>1, <2>2, SendKeeps
<1>5. CASE SendValue(c)
  <2>1. PICK n \in published[c] \cap DOMAIN view[c], v \in Values, ts \in Timestamps :
          /\ Send(c, "value", [kind |-> "value", name |-> n, id |-> view[c][n].id,
                               value |-> v, timestamp |-> ts])
          /\ UNCHANGED published
    BY <1>5 DEF SendValue
  <2>2. v \in NTValues /\ ts \in Nat
    BY ValuesKnown, NaturalBounds
  <2>3. WellFormed([kind |-> "value", name |-> n, id |-> view[c][n].id,
                    value |-> v, timestamp |-> ts])
    BY <2>2 DEF WellFormed, RequestKinds
  <2> QED  BY <1>1, <2>1, <2>3, SendKeeps
<1>6. CASE SendTime(c)
  <2>1. Send(c, "time", [kind |-> "time"]) /\ UNCHANGED published
    BY <1>6 DEF SendTime
  <2>2. WellFormed([kind |-> "time"])
    BY DEF WellFormed, RequestKinds
  <2> QED  BY <1>1, <2>1, <2>2, SendKeeps
<1>7. CASE SendGetValues(c)
  <2>1. PICK n \in DOMAIN view[c] :
          /\ Send(c, "getvalues", [kind |-> "getvalues", name |-> n, id |-> view[c][n].id])
          /\ UNCHANGED published
    BY <1>7 DEF SendGetValues
  <2>2. WellFormed([kind |-> "getvalues", name |-> n, id |-> view[c][n].id])
    BY DEF WellFormed, RequestKinds
  <2> QED  BY <1>1, <2>1, <2>2, SendKeeps
<1>8. CASE SendSubscribe(c)
  <2>1. PICK uid \in SubIds, options \in SubOptions :
          /\ Send(c, "subscribe", [kind |-> "subscribe", sub |-> Sub(uid, options)])
          /\ UNCHANGED published
    BY <1>8 DEF SendSubscribe
  <2>2. Sub(uid, options) \in Subs
    BY OptionsKnown DEF Subscription, Sub, Subs
  <2>3. WellFormed([kind |-> "subscribe", sub |-> Sub(uid, options)])
    BY <2>2 DEF WellFormed, RequestKinds
  <2> QED  BY <1>1, <2>1, <2>3, SendKeeps
<1>9. CASE SendUnsubscribe(c)
  <2>1. PICK uid \in SubIds :
          /\ Send(c, "unsubscribe", [kind |-> "unsubscribe", subuid |-> uid])
          /\ UNCHANGED published
    BY <1>9 DEF SendUnsubscribe
  <2>2. WellFormed([kind |-> "unsubscribe", subuid |-> uid])
    BY DEF WellFormed, RequestKinds
  <2> QED  BY <1>1, <2>1, <2>2, SendKeeps
<1>10. CASE Leave(c) \/ Drop(c)
  <2>1. PICK kept \in 0 .. Len(inbound[c]) : Close(c, kept)
    <3>1. AreWellFormed(inbound[c])
      BY DEF IInv, RequestTypes
    <3>2. Len(inbound[c]) \in 0 .. Len(inbound[c])
      BY <3>1, LenProperties DEF AreWellFormed
    <3> QED  BY <1>10, <3>2 DEF Leave, Drop
  <2>2. DirectoryInv' /\ IdsAdvance
    BY <2>1, SameDirectoryKeeps DEF Close, taskVars
  <2>3. /\ inbound' = [inbound EXCEPT ![c] = Append(SubSeq(@, 1, kept), [kind |-> "disconnect"])]
        /\ disk' = disk /\ published' = published
    BY <2>1 DEF Close, processVars
  <2>4. AreWellFormed(Append(SubSeq(inbound[c], 1, kept), [kind |-> "disconnect"]))
    <3>1. AreWellFormed(SubSeq(inbound[c], 1, kept))
      BY KeptWellFormed DEF IInv, RequestTypes
    <3>2. WellFormed([kind |-> "disconnect"])
      BY DEF WellFormed, RequestKinds
    <3> QED  BY <3>1, <3>2, AppendWellFormed
  <2>5. DOMAIN inbound' = Clients /\ \A d \in Clients : AreWellFormed(inbound'[d])
    BY <2>3, <2>4 DEF IInv, RequestTypes
  <2> QED  BY <2>2, <2>3, <2>5 DEF IInv, RequestTypes, DiskTypes
<1>11. CASE ReadMessages(c)
  <2>1. UNCHANGED <<directoryVars, greeting, inbound, published, disk>>
    BY <1>11 DEF ReadMessages, taskVars, processVars
  <2> QED  BY <2>1, SameDirectoryKeeps DEF IInv, RequestTypes, DiskTypes
<1> QED  BY <1>2, <1>3, <1>4, <1>5, <1>6, <1>7, <1>8, <1>9, <1>10, <1>11 DEF ClientStep

\* A step that leaves all that the invariant is about as it is.
LEMMA IdleKeeps ==
  ASSUME IInv, UNCHANGED <<directoryVars, greeting, inbound, published, disk>>
  PROVE  IInv' /\ IdsAdvance
  BY SameDirectoryKeeps DEF IInv, RequestTypes, DiskTypes

\* A panic changes nothing but the record of it.
LEMMA PanicKeeps ==
  ASSUME IInv, NEW site, Panic(site) PROVE IInv' /\ IdsAdvance
  BY IdleKeeps DEF Panic, taskVars, clientVars

----------------------------------------------------------------------------
(* A frame of several values                                               *)

StoringStart == [topics |-> entries, updates |-> << >>]

\* The values of a frame are stored one after the other, in every set that
\* storing one of them does not leave.
LEMMA StoringIs ==
  ASSUME NEW c, NEW R, NEW frame \in Seq(R), NEW T, StoringStart \in T,
         \A done \in T, req \in R : StoreValue(c, done, req) \in T
  PROVE  /\ Storing(c, frame)[0] = StoringStart
         /\ \A i \in 1 .. Len(frame) :
               Storing(c, frame)[i] = StoreValue(c, Storing(c, frame)[i - 1], frame[i])
         /\ \A i \in 0 .. Len(frame) : Storing(c, frame)[i] \in T
<1> DEFINE n    == Len(frame)
           step == [p \in T \X R |-> StoreValue(c, p[1], p[2])]
           Runs(a) == a = [i \in 0 .. n |-> IF i = 0 THEN StoringStart
                                                     ELSE StoreValue(c, a[i - 1], frame[i])]
<1>1. n \in Nat /\ \A i \in 1 .. n : frame[i] \in R
  BY PlacesFinite
<1>2. step \in [T \X R -> T] /\ \A t \in T, r \in R : step[<< t, r >>] = StoreValue(c, t, r)
  OBVIOUS
<1> HIDE DEF step
<1>3. PICK f \in [0 .. n -> T] : StepsBy(f, StoringStart, step, frame)
  BY <1>2, StepsExist
<1>4. f[0] = StoringStart /\ \A i \in 1 .. n : f[i] = StoreValue(c, f[i - 1], frame[i])
  <2>1. ASSUME NEW i \in 1 .. n PROVE f[i] = StoreValue(c, f[i - 1], frame[i])
    <3>1. f[i - 1] \in T /\ frame[i] \in R
      BY <1>1
    <3> QED  BY <1>2, <1>3, <3>1 DEF StepsBy
  <2> QED  BY <1>3, <2>1 DEF StepsBy
<1>5. Runs(f)
  <2>1. \A i \in 0 .. n : f[i] = IF i = 0 THEN StoringStart ELSE StoreValue(c, f[i - 1], frame[i])
    BY <1>1, <1>4
  <2> QED  BY <2>1
<1>6. Storing(c, frame) = CHOOSE a : Runs(a)
  BY Zenon DEF Storing, StoringStart
<1> DEFINE after == Storing(c, frame)
<1>7. Runs(after)
  <2> HIDE DEF Runs
  <2> QED  BY <1>5, <1>6
<1> HIDE DEF after, n
<1>8. \A i \in 0 .. n : after[i] = IF i = 0 THEN StoringStart ELSE StoreValue(c, after[i - 1], frame[i])
  <2>1. \A a : Runs(a) =>
          \A i \in 0 .. n : a[i] = IF i = 0 THEN StoringStart ELSE StoreValue(c, a[i - 1], frame[i])
    BY Zenon
  <2> HIDE DEF Runs
  <2> QED  BY <1>7, <2>1, Zenon
<1>9. after[0] = StoringStart /\ \A i \in 1 .. n : after[i] = StoreValue(c, after[i - 1], frame[i])
  BY <1>1, <1>8
<1>10. \A i \in 0 .. n : after[i] \in T
  <2>1. \A i \in 1 .. n : after[i - 1] \in T => after[i] \in T
    BY <1>1, <1>9
  <2> QED  BY <1>1, <1>9, <2>1, StepsStay
<1> QED  BY <1>9, <1>10 DEF after, n

\* The requests that a frame of a client may hold without a panic.
FrameRequests(c) ==
    { r \in ToSet(inbound[c]) :
        r.kind \in InFrame /\ WellFormed(r) /\ (r.kind = "value" => IdKnown(c, r.id)) }

Updates == { u \in Snapshots : u.name \in DOMAIN entries }

\* A topic is as it was, or has a later value of the frame, which is among the
\* updates.
StoredWell(c, done, n) ==
    LET old == entries[n]
        new == done.topics[n]
    IN  /\ new.timestamp >= old.timestamp /\ new.flags = old.flags
        /\ \/ new = old
           \/ /\ \E i \in DOMAIN done.updates : done.updates[i] = snapshot(n, new)
              /\ \E r \in FrameRequests(c) :
                    r.kind = "value" /\ id_to_name(c, r.id) = n /\ new.value = r.value

StoredTypes == [topics : [DOMAIN entries -> Topics], updates : Seq(Updates)]

StoredSet(c) == { done \in StoredTypes : \A n \in DOMAIN entries : StoredWell(c, done, n) }

\* Storing a value keeps that.
LEMMA StoreValueKeeps ==
  ASSUME IInv, NEW c \in clients, NEW done \in StoredSet(c), NEW req \in FrameRequests(c)
  PROVE  StoreValue(c, done, req) \in StoredSet(c)
<1> DEFINE name   == id_to_name(c, req.id)
           next   == Stored(done.topics, req, name)
           update == snapshot(name, next[name])
           ups    == Append(done.updates, update)
<1>1. /\ done \in StoredTypes /\ \A n \in DOMAIN entries : StoredWell(c, done, n)
      /\ done.topics \in [DOMAIN entries -> Topics] /\ done.updates \in Seq(Updates)
      /\ done = [topics |-> done.topics, updates |-> done.updates]
  BY DEF StoredSet, StoredTypes
<1>2. CASE req.kind = "time"
  BY <1>2 DEF StoreValue
<1>3. CASE req.kind # "time"
  <2>1. req.kind = "value" /\ WellFormed(req) /\ IdKnown(c, req.id)
    BY <1>3 DEF FrameRequests, InFrame
  <2>2. name \in DOMAIN entries
    BY <2>1 DEF IdKnown, id_to_name, IInv, DirectoryInv, AnnouncedMatchEntries
  <2>3. DOMAIN entries \subseteq Names
    BY DEF IInv, DirectoryInv, DirectoryTypes, IsMap
  <2>4. req.value \in NTValues /\ req.timestamp \in Nat
    BY <2>1 DEF WellFormed
  <2>5. StoreValue(c, done, req) =
          [topics |-> next, updates |-> IF Accepted(done.topics[name], req) THEN ups ELSE done.updates]
    BY <1>3 DEF StoreValue
  <2>6. CASE ~Accepted(done.topics[name], req)
    <3>1. next = done.topics
      BY <2>6 DEF Stored
    <3> QED  BY <1>1, <2>5, <2>6, <3>1
  <2>7. CASE Accepted(done.topics[name], req)
    <3> HIDE DEF name
    <3>1. next = [done.topics EXCEPT ![name] = set_value(@, req)]
      BY <2>7 DEF Stored
    <3>2. done.topics[name] \in Topics
      BY <1>1, <2>2
    <3>3. /\ set_value(done.topics[name], req) \in Topics
          /\ set_value(done.topics[name], req).timestamp = req.timestamp
          /\ set_value(done.topics[name], req).value = req.value
          /\ set_value(done.topics[name], req).flags = done.topics[name].flags
      BY <2>4, <3>2 DEF set_value, Topics
    <3>4. /\ next \in [DOMAIN entries -> Topics]
          /\ next[name] = set_value(done.topics[name], req)
          /\ \A n \in DOMAIN entries \ {name} : next[n] = done.topics[n]
      BY <1>1, <2>2, <3>1, <3>3
    <3> HIDE DEF next
    <3>5. update \in Updates
      BY <2>2, <2>3, <3>3, <3>4 DEF snapshot, Updates, Snapshots, Topics
    <3> HIDE DEF update
    <3>6. /\ ups \in Seq(Updates) /\ Len(ups) = Len(done.updates) + 1 /\ Len(done.updates) \in Nat
          /\ ups[Len(done.updates) + 1] = update
          /\ \A i \in 1 .. Len(done.updates) : ups[i] = done.updates[i]
      BY <1>1, <3>5, AppendProperties, LenProperties
    <3>7. DOMAIN ups = 1 .. Len(done.updates) + 1 /\ DOMAIN done.updates = 1 .. Len(done.updates)
      BY <1>1, <3>6, PlacesFinite
    <3> HIDE DEF ups
    <3> DEFINE after == [topics |-> next, updates |-> ups]
    <3>8. ASSUME NEW n \in DOMAIN entries PROVE StoredWell(c, after, n)
      <4>1. StoredWell(c, done, n)
        BY <1>1
      <4>2. CASE n = name
        <5>1. \E i \in DOMAIN ups : ups[i] = snapshot(n, next[n])
          <6>1. Len(done.updates) + 1 \in DOMAIN ups
            BY <3>6, <3>7
          <6> QED  BY <3>6, <4>2, <6>1 DEF update
        <5>2. req.timestamp >= entries[n].timestamp
          <6>1. /\ done.topics[n].timestamp <= req.timestamp
                /\ done.topics[n].timestamp >= entries[n].timestamp
            BY <2>7, <4>1, <4>2 DEF Accepted, StoredWell
          <6>2. entries[n].timestamp \in Nat /\ done.topics[n].timestamp \in Nat
            BY <1>1 DEF IInv, DirectoryInv, DirectoryTypes, IsMap, Topics
          <6> QED  BY <2>4, <6>1, <6>2
        <5>3. next[n].flags = entries[n].flags
          BY <3>3, <3>4, <4>1, <4>2 DEF StoredWell
        <5>4. \E r \in FrameRequests(c) :
                 r.kind = "value" /\ id_to_name(c, r.id) = n /\ next[n].value = r.value
          BY <2>1, <3>3, <3>4, <4>2 DEF name
        <5> QED  BY <3>3, <3>4, <4>2, <5>1, <5>2, <5>3, <5>4 DEF StoredWell
      <4>3. CASE n # name
        <5>1. next[n] = done.topics[n]
          BY <3>4, <4>3
        <5>2. ASSUME NEW i \in DOMAIN done.updates PROVE i \in DOMAIN ups /\ ups[i] = done.updates[i]
          BY <3>6, <3>7
        <5> QED  BY <4>1, <5>1, <5>2 DEF StoredWell
      <4> QED  BY <4>2, <4>3
    <3>9. after \in StoredSet(c)
      BY <3>4, <3>6, <3>8 DEF StoredSet, StoredTypes
    <3> QED  BY <2>5, <2>7, <3>9
  <2> QED  BY <2>6, <2>7
<1> QED  BY <1>2, <1>3

\* It holds before the first value.
LEMMA StartStored ==
  ASSUME IInv, NEW c PROVE StoringStart \in StoredSet(c)
<1>1. entries \in [DOMAIN entries -> Topics] /\ << >> \in Seq(Updates)
  BY DEF IInv, DirectoryInv, DirectoryTypes, IsMap
<1>2. \A n \in DOMAIN entries : entries[n].timestamp \in Nat
  BY <1>1 DEF Topics
<1> QED  BY <1>1, <1>2 DEF StoringStart, StoredSet, StoredTypes, StoredWell

\* So it holds when the whole frame is stored.
LEMMA StoreFrameKeeps ==
  ASSUME IInv, NEW c \in clients, NEW frame \in Seq(FrameRequests(c))
  PROVE  /\ Storing(c, frame)[0] = StoringStart
         /\ \A i \in 1 .. Len(frame) :
               Storing(c, frame)[i] = StoreValue(c, Storing(c, frame)[i - 1], frame[i])
         /\ \A i \in 0 .. Len(frame) : Storing(c, frame)[i] \in StoredSet(c)
         /\ StoreFrame(c, frame) \in StoredSet(c)
<1> DEFINE T == StoredSet(c)
<1>1. StoringStart \in T /\ \A done \in T, req \in FrameRequests(c) : StoreValue(c, done, req) \in T
  BY StartStored, StoreValueKeeps
<1> HIDE DEF T
<1>2. /\ Storing(c, frame)[0] = StoringStart
      /\ \A i \in 1 .. Len(frame) :
            Storing(c, frame)[i] = StoreValue(c, Storing(c, frame)[i - 1], frame[i])
      /\ \A i \in 0 .. Len(frame) : Storing(c, frame)[i] \in T
  BY <1>1, StoringIs
<1>3. Len(frame) \in 0 .. Len(frame)
  BY PlacesFinite
<1> QED  BY <1>2, <1>3 DEF StoreFrame, T

\* What the step does once a number of values are stored: it distributes them,
\* or panics.
StoresFrame(c, stored) ==
    /\ entries' = StoreFrame(c, stored).topics
    /\ \/ /\ outbox' = SentTo(c, Times(stored))
          /\ panicked' = "channel_loop" /\ queued_updates' = queued_updates
       \/ /\ Distributed(c, stored, StoreFrame(c, stored).updates)
          /\ panicked' = panicked

\* The first requests in flight are a frame as long as their ids are known.
LEMMA FrameOf ==
  ASSUME IInv, NEW c \in Clients, NEW k \in FrameSizes(c)
  PROVE  LET frame == SubSeq(inbound[c], 1, k)
         IN  /\ k \in Nat /\ k <= Len(inbound[c]) /\ Len(inbound[c]) \in Nat
             /\ Len(frame) = k /\ DOMAIN frame = 1 .. k
             /\ (\A i \in 1 .. k : ~Unknown(c, frame[i])) => frame \in Seq(FrameRequests(c))
             /\ (\E i \in 1 .. k : Unknown(c, frame[i])) => Before(c, frame) \in Seq(FrameRequests(c))
<1> DEFINE reqs  == inbound[c]
           frame == SubSeq(reqs, 1, k)
           S     == { r \in ToSet(reqs) : WellFormed(r) }
<1>1. /\ k \in 2 .. MaxFrame /\ k <= Len(reqs) /\ \A i \in 1 .. k : reqs[i].kind \in InFrame
  BY DEF FrameSizes
<1>2. reqs \in Seq(S)
  BY DEF IInv, RequestTypes, AreWellFormed
<1>3. /\ k \in Nat /\ Len(reqs) \in Nat /\ DOMAIN reqs = 1 .. Len(reqs)
      /\ \A i \in DOMAIN reqs : reqs[i] \in S
  BY <1>1, <1>2, FrameBound, PlacesFinite
<1> HIDE DEF S
<1>4. /\ frame \in Seq(S) /\ Len(frame) = k /\ DOMAIN frame = 1 .. k
      /\ \A i \in 1 .. k : frame[i] = reqs[i]
  <2>1. k \in Int /\ 1 \in Int /\ \A i \in 1 .. k : reqs[i] \in S
    BY <1>1, <1>3
  <2> QED  BY <1>1, <1>3, <2>1, SubSeqProperties, PlacesFinite
<1>5. ASSUME NEW i \in 1 .. k, ~Unknown(c, frame[i]) PROVE frame[i] \in FrameRequests(c)
  BY <1>1, <1>3, <1>4, <1>5 DEF FrameRequests, Unknown, S, InFrame
<1> HIDE DEF frame
<1>6. ASSUME \A i \in 1 .. k : ~Unknown(c, frame[i]) PROVE frame \in Seq(FrameRequests(c))
  BY <1>3, <1>4, <1>5, <1>6, IsASeq
<1>7. ASSUME NEW u \in 1 .. k, Unknown(c, frame[u]) PROVE Before(c, frame) \in Seq(FrameRequests(c))
  <2> DEFINE I == { i \in 1 .. Len(frame) : Unknown(c, frame[i]) }
             m == Min(I) - 1
  <2>1. I \in SUBSET (1 .. k) /\ I # {}
    BY <1>4, <1>7
  <2>2. Before(c, frame) = SubSeq(frame, 1, m)
    BY <2>1 DEF Before, SelectInSeq
  <2>3. Min(I) \in I /\ \A i \in I : Min(I) <= i
    BY <1>3, <2>1, FirstPlace
  <2> HIDE DEF I
  <2>4. m \in Int /\ m <= k /\ \A i \in 1 .. m : i \in 1 .. k /\ i \notin I
    <3> DEFINE first == Min(I)
    <3>1. first \in 1 .. k
      BY <2>1, <2>3
    <3>2. \A i \in I : first <= i
      BY <2>3
    <3>3. m = first - 1
      OBVIOUS
    <3> HIDE DEF first, m
    <3>4. m \in Int /\ m <= k
      BY <1>3, <3>1, <3>3
    <3>5. ASSUME NEW i \in 1 .. m PROVE i \in 1 .. k /\ i < first
      BY <1>3, <3>1, <3>3
    <3>6. ASSUME NEW i \in 1 .. m PROVE i \notin I
      <4>1. CASE i \in I
        <5>1. first <= i /\ i < first /\ first \in Int /\ i \in Int
          BY <3>1, <3>2, <3>5, <4>1
        <5> QED  BY <5>1
      <4> QED  BY <4>1
    <3> QED  BY <3>4, <3>5, <3>6
  <2>5. \A i \in 1 .. m : frame[i] \in FrameRequests(c)
    BY <1>4, <1>5, <2>4 DEF I
  <2> HIDE DEF m
  <2> QED  BY <2>2, <2>4, <2>5, SubSeqProperties
<1> QED  BY <1>1, <1>3, <1>4, <1>6, <1>7 DEF frame

\* A frame stores all its values, or those before an unknown id.
LEMMA FrameStep ==
  ASSUME IInv, NEW c \in Clients, NEW k \in 2 .. MaxFrame, ReceiveFrame(c, k)
  PROVE  /\ c \in clients /\ \E stored \in Seq(FrameRequests(c)) : StoresFrame(c, stored)
         /\ Len(inbound[c]) \in Nat /\ k <= Len(inbound[c])
         /\ inbound' = [inbound EXCEPT ![c] = SubSeq(inbound[c], k + 1, Len(inbound[c]))]
         /\ UNCHANGED <<clients, pub_count, pub_ids, next_pub_id, pubs, subVars, taskVars,
                        clientVars, disk, restarts>>
<1> DEFINE frame == SubSeq(inbound[c], 1, k)
<1>1. c \in clients /\ k \in FrameSizes(c)
  BY DEF ReceiveFrame
<1>2. /\ Len(inbound[c]) \in Nat /\ k <= Len(inbound[c]) /\ DOMAIN frame = 1 .. k
      /\ (\A i \in 1 .. k : ~Unknown(c, frame[i])) => frame \in Seq(FrameRequests(c))
      /\ (\E i \in 1 .. k : Unknown(c, frame[i])) => Before(c, frame) \in Seq(FrameRequests(c))
  BY <1>1, FrameOf
<1>3. \E stored \in Seq(FrameRequests(c)) : StoresFrame(c, stored)
  <2>1. CASE \E i \in DOMAIN frame : Unknown(c, frame[i])
    <3>1. StoresFrame(c, Before(c, frame))
      BY <2>1 DEF ReceiveFrame, StoresFrame
    <3> QED  BY <1>2, <2>1, <3>1
  <2>2. CASE ~\E i \in DOMAIN frame : Unknown(c, frame[i])
    <3>1. StoresFrame(c, frame)
      BY <2>2 DEF ReceiveFrame, StoresFrame, processVars
    <3> QED  BY <1>2, <2>2, <3>1
  <2> QED  BY <2>1, <2>2
<1>4. /\ inbound' = [inbound EXCEPT ![c] = SubSeq(inbound[c], k + 1, Len(inbound[c]))]
      /\ UNCHANGED <<clients, pub_count, pub_ids, next_pub_id, pubs, subVars, taskVars,
                     clientVars, disk, restarts>>
  BY DEF ReceiveFrame, processVars
<1> QED  BY <1>1, <1>2, <1>3, <1>4

\* Then every topic is there with its flags, as it was or with a later value.
LEMMA FrameStoresTopics ==
  ASSUME IInv, NEW c \in Clients, NEW k \in 2 .. MaxFrame, ReceiveFrame(c, k)
  PROVE  /\ entries' \in [DOMAIN entries -> Topics] /\ DOMAIN entries' = DOMAIN entries
         /\ \A n \in DOMAIN entries :
               /\ entries'[n].timestamp >= entries[n].timestamp
               /\ entries'[n].flags = entries[n].flags
               /\ \/ entries'[n] = entries[n]
                  \/ \E r \in FrameRequests(c) :
                        r.kind = "value" /\ id_to_name(c, r.id) = n /\ entries'[n].value = r.value
<1>1. c \in clients
  BY FrameStep
<1>2. PICK stored \in Seq(FrameRequests(c)) : StoresFrame(c, stored)
  BY FrameStep
<1> DEFINE done == StoreFrame(c, stored)
<1>3. done \in StoredSet(c)
  BY <1>1, StoreFrameKeeps
<1>4. entries' = done.topics
  BY <1>2 DEF StoresFrame
<1> HIDE DEF done
<1> QED  BY <1>3, <1>4 DEF StoredSet, StoredTypes, StoredWell

\* The requests behind those that were handled are well formed.
LEMMA RestWellFormed ==
  ASSUME NEW reqs, AreWellFormed(reqs), NEW k \in Nat
  PROVE  AreWellFormed(SubSeq(reqs, k + 1, Len(reqs)))
<1> DEFINE S == { r \in ToSet(reqs) : WellFormed(r) }
<1>1. reqs \in Seq(S) /\ \A r \in S : WellFormed(r)
  BY DEF AreWellFormed
<1> HIDE DEF S
<1>2. k + 1 \in Int /\ Len(reqs) \in Int /\ \A i \in k + 1 .. Len(reqs) : reqs[i] \in S
  BY <1>1, LenProperties, ElementOfSeq
<1>3. SubSeq(reqs, k + 1, Len(reqs)) \in Seq(S)
  BY <1>2, SubSeqProperties
<1> QED  BY <1>1, <1>3, SequenceWellFormed

\* A frame keeps the invariant.
LEMMA FrameKeeps ==
  ASSUME IInv, NEW c \in Clients, NEW k \in 2 .. MaxFrame, ReceiveFrame(c, k)
  PROVE  IInv' /\ IdsAdvance
<1>1. /\ inbound' = [inbound EXCEPT ![c] = SubSeq(inbound[c], k + 1, Len(inbound[c]))]
      /\ UNCHANGED <<clients, pub_count, pub_ids, next_pub_id, pubs, greeting, published, disk>>
  BY FrameStep DEF taskVars, clientVars
<1>2. IsMap(entries', Names, Topics) /\ DOMAIN entries' = DOMAIN entries
  BY FrameStoresTopics DEF IInv, DirectoryInv, DirectoryTypes, IsMap
<1>3. DirectoryInv' /\ IdsAdvance
  BY <1>1, <1>2, SameTopicsKeep DEF IInv, DirectoryInv, DirectoryTypes
<1>4. DOMAIN inbound' = Clients /\ \A d \in Clients : AreWellFormed(inbound'[d])
  <2>1. k \in Nat
    BY FrameBound
  <2> QED  BY <1>1, <2>1, RestWellFormed DEF IInv, RequestTypes
<1> QED  BY <1>1, <1>3, <1>4 DEF IInv, RequestTypes, DiskTypes

----------------------------------------------------------------------------
(* Tasks of the server                                                     *)

\* Every handler of channel_loop keeps the invariant.
LEMMA ReceiveKeeps ==
  ASSUME IInv, NEW c \in Clients, Receive(c)
  PROVE  IInv' /\ IdsAdvance
<1> DEFINE req == Head(inbound[c])
<1>1. CASE HandlerFails(c, req)
  BY <1>1, PanicKeeps DEF Receive
<1>2. CASE ~HandlerFails(c, req)
  <2>1. /\ Handle(c, req)
        /\ inbound' = [inbound EXCEPT ![c] = Tail(@)]
        /\ UNCHANGED <<greeting, published, disk>>
    BY <1>2 DEF Receive, taskVars, clientVars, processVars
  <2>2. WellFormed(req) /\ AreWellFormed(Tail(inbound[c]))
    BY HeadWellFormed DEF Receive, IInv, RequestTypes
  <2> HIDE DEF req
  <2>3. DirectoryInv' /\ IdsAdvance
    <3>1. CASE req.kind = "publish" /\ HandlePublish(c, req)
      BY <1>2, <2>1, <2>2, <3>1, PublishKeeps DEF HandlerFails, WellFormed
    <3>2. CASE req.kind = "release" /\ HandleRelease(req)
      BY <1>2, <2>1, <3>2, ReleaseKeeps DEF HandlerFails
    <3>3. CASE req.kind = "setflags" /\ HandleSetFlags(req)
      BY <1>2, <2>1, <3>3, SetFlagsKeeps DEF HandlerFails
    <3>4. CASE req.kind = "value" /\ HandleValue(c, req)
      BY <1>2, <2>1, <2>2, <3>4, ValueKeeps DEF HandlerFails, WellFormed
    <3>5. CASE req.kind = "disconnect" /\ HandleDisconnect(c)
      BY <2>1, <3>5, DisconnectKeeps
    <3>6. CASE \/ HandleGetValues(c, req) \/ HandleSubscribe(c, req.sub)
               \/ HandleUnsubscribe(c, req) \/ HandleTime(c)
      BY <2>1, <3>6, SameDirectoryKeeps
         DEF HandleGetValues, HandleSubscribe, HandleUnsubscribe, HandleTime
    <3> QED  BY <2>1, <3>1, <3>2, <3>3, <3>4, <3>5, <3>6 DEF Handle
  <2>4. DOMAIN inbound' = Clients /\ \A d \in Clients : AreWellFormed(inbound'[d])
    BY <2>1, <2>2 DEF IInv, RequestTypes
  <2> QED  BY <2>1, <2>3, <2>4 DEF IInv, RequestTypes, DiskTypes
<1> QED  BY <1>1, <1>2

\* The listener inserts a client that has no ids yet.
LEMMA InsertKeeps ==
  ASSUME IInv, NEW c \in Clients, InsertClient(c)
  PROVE  IInv' /\ IdsAdvance
<1>1. /\ clients' = clients \cup {c} /\ greeting' = greeting \cup {c}
      /\ UNCHANGED <<entries, pub_count, pub_ids, next_pub_id, pubs, inbound, published, disk>>
  BY DEF InsertClient, clientVars, processVars
<1>2. DirectoryTypes' /\ CountsMatchEntries' /\ IdsFresh' /\ \A d \in Clients : next_pub_id'[d] > 0
  BY <1>1 DEF IInv, DirectoryInv, DirectoryTypes, CountsMatchEntries, IdsFresh
<1>3. AnnouncedMatchEntries' /\ Strangers'
  BY <1>1 DEF IInv, DirectoryInv, DirectoryTypes, AnnouncedMatchEntries, Strangers
<1>4. IdsAdvance
  BY <1>1 DEF IInv, DirectoryInv, DirectoryTypes, IdsAdvance
<1> QED  BY <1>1, <1>2, <1>3, <1>4 DEF IInv, DirectoryInv, RequestTypes, DiskTypes

\* update_new_client gives the client an id for each topic.
LEMMA GreetKeeps ==
  ASSUME IInv, NEW c \in clients, GreetClient(c)
  PROVE  IInv' /\ IdsAdvance
<1>1. /\ DOMAIN pub_ids = Clients /\ \A d \in Clients : IsMap(pub_ids[d], Names, Nat)
      /\ next_pub_id \in [Clients -> Nat] /\ next_pub_id[c] > 0
      /\ clients \subseteq Clients /\ greeting \subseteq Clients
      /\ DOMAIN pub_ids[c] \subseteq DOMAIN entries /\ DOMAIN entries \subseteq Names
  BY DEF IInv, DirectoryInv, DirectoryTypes, AnnouncedMatchEntries, IsMap
<1>2. PICK order \in SetToSeqs(DOMAIN entries) :
        pub_ids' = [pub_ids EXCEPT ![c] = GreetedIds(c, order)]
  BY DEF GreetClient
<1>3. /\ greeting' = greeting \ {c}
      /\ next_pub_id' = [next_pub_id EXCEPT ![c] = @ + Cardinality(DOMAIN entries)]
      /\ UNCHANGED <<clients, entries, pub_count, pubs, inbound, published, disk>>
  BY DEF GreetClient, clientVars, processVars
<1>4. IsFiniteSet(DOMAIN entries)
  BY <1>1, NamesFinite, FS_Subset
<1> DEFINE place(n) == CHOOSE i \in DOMAIN order : order[i] = n
<1>5. /\ Cardinality(DOMAIN entries) \in Nat
      /\ \A n \in DOMAIN entries : /\ place(n) \in 1 .. Cardinality(DOMAIN entries)
                                   /\ order[place(n)] = n
  BY <1>4, OrderIsBijection
<1>6. /\ DOMAIN pub_ids'[c] = DOMAIN entries
      /\ \A n \in DOMAIN entries : pub_ids'[c][n] = next_pub_id[c] - 1 + place(n)
  BY <1>1, <1>2 DEF GreetedIds
<1> HIDE DEF place
<1>7. DOMAIN pub_ids' = Clients /\ \A d \in Clients \ {c} : pub_ids'[d] = pub_ids[d]
  BY <1>1, <1>2
<1>8. IsMap(pub_ids'[c], Names, Nat)
  <2>1. pub_ids'[c] = [n \in DOMAIN entries |-> pub_ids'[c][n]]
    BY <1>1, <1>2, <1>6 DEF GreetedIds
  <2>2. \A n \in DOMAIN entries : pub_ids'[c][n] \in Nat
    BY <1>1, <1>5, <1>6
  <2> QED  BY <1>1, <2>1, <2>2, <1>6 DEF IsMap
<1>9. next_pub_id' \in [Clients -> Nat] /\ \A d \in Clients : next_pub_id'[d] > 0
  BY <1>1, <1>3, <1>5 DEF IInv, DirectoryInv
<1>10. DirectoryTypes' /\ CountsMatchEntries'
  BY <1>1, <1>3, <1>7, <1>8, <1>9 DEF IInv, DirectoryInv, DirectoryTypes, CountsMatchEntries
<1>11. AnnouncedMatchEntries' /\ Strangers'
  BY <1>1, <1>3, <1>6, <1>7 DEF IInv, DirectoryInv, AnnouncedMatchEntries, Strangers
<1>12. IdsFresh'
  <2>1. \A m, n \in DOMAIN entries : /\ pub_ids'[c][n] < next_pub_id'[c]
                                     /\ pub_ids'[c][m] = pub_ids'[c][n] => m = n
    <3>1. next_pub_id'[c] = next_pub_id[c] + Cardinality(DOMAIN entries)
      BY <1>1, <1>3
    <3> QED  BY <1>1, <1>5, <1>6, <3>1
  <2> QED  BY <1>1, <1>3, <1>6, <1>7, <2>1 DEF IInv, DirectoryInv, IdsFresh
<1>13. IdsAdvance
  <2>1. /\ next_pub_id'[c] >= next_pub_id[c]
        /\ \A n \in DOMAIN pub_ids'[c] : pub_ids'[c][n] >= next_pub_id[c]
    BY <1>1, <1>3, <1>5, <1>6
  <2>2. \A d \in Clients \ {c} : next_pub_id'[d] >= next_pub_id[d]
    BY <1>1, <1>3
  <2> QED  BY <1>1, <1>7, <2>1, <2>2 DEF IdsAdvance
<1> QED  BY <1>3, <1>9, <1>10, <1>11, <1>12, <1>13 DEF IInv, DirectoryInv, RequestTypes, DiskTypes

\* A new process: both the initial states and those after a restart.
NewProcess ==
    /\ entries = restore_persistent(disk) /\ pub_count = RestoredCount(disk)
    /\ clients = {} /\ greeting = {}
    /\ pub_ids = [c \in Clients |-> Empty] /\ next_pub_id = [c \in Clients |-> 1]
    /\ pubs = [c \in Clients |-> << >>] /\ inbound = [c \in Clients |-> << >>]
    /\ published = [c \in Clients |-> {}]

\* NTServer::new, with whatever file, establishes the invariant.
LEMMA NewProcessHolds == NewProcess /\ DiskTypes => IInv
<1> SUFFICES ASSUME NewProcess, DiskTypes PROVE IInv
  OBVIOUS
<1> USE DEF NewProcess
<1>1. /\ IsMap(entries, Names, Topics) /\ IsMap(pub_count, Names, 0 .. UsizeMax)
      /\ DOMAIN entries = DOMAIN pub_count
  BY RestoreTypes DEF DiskTypes
<1>2. \A c \in Clients : IsMap(pub_ids[c], Names, Nat) /\ DOMAIN pub_ids[c] = {}
  BY EmptyMap
<1>3. pubs \in [Clients -> Seq(Names)]
  BY EmptySeq
<1>4. DirectoryTypes /\ CountsMatchEntries
  BY <1>1, <1>2, <1>3 DEF DirectoryTypes, CountsMatchEntries
<1>5. AnnouncedMatchEntries /\ Strangers /\ IdsFresh
  BY <1>2 DEF AnnouncedMatchEntries, Strangers, IdsFresh
<1>6. \A c \in Clients : AreWellFormed(inbound[c])
  <2>1. AreWellFormed(<< >>)
    BY EmptySeq DEF AreWellFormed
  <2> QED  BY <2>1
<1>7. RequestTypes
  BY <1>6 DEF RequestTypes
<1> QED  BY <1>4, <1>5, <1>7 DEF IInv, DirectoryInv

\* So a restart keeps it.
LEMMA RestartKeeps ==
  ASSUME IInv, Restart PROVE IInv' /\ IdsAdvance
<1>1. NewProcess'
  BY DEF Restart, NewProcess
<1>2. DiskTypes'
  <2>1. disk' = disk \/ disk' = NoFile
    BY DEF Restart
  <2> QED  BY <2>1, EmptyMap DEF IInv, DiskTypes, NoFile
<1>3. (NewProcess /\ DiskTypes => IInv)'
  BY NewProcessHolds, PTL
<1>4. IdsAdvance
  BY DEF Restart, IdsAdvance
<1> QED  BY <1>1, <1>2, <1>3, <1>4

----------------------------------------------------------------------------
(* The theorems                                                            *)

\* The first process starts without a file.
LEMMA InitHolds == Init => IInv
<1> SUFFICES ASSUME Init PROVE IInv
  OBVIOUS
<1>1. disk = NoFile /\ NewProcess
  BY DEF Init, NewProcess
<1>2. DiskTypes
  BY <1>1, EmptyMap DEF DiskTypes, NoFile
<1> QED  BY <1>1, <1>2, NewProcessHolds

\* Every step keeps the invariant, and gives new ids only.
LEMMA NextKeeps == IInv /\ [Next]_vars => IInv' /\ IdsAdvance
<1> SUFFICES ASSUME IInv, [Next]_vars PROVE IInv' /\ IdsAdvance
  OBVIOUS
<1>1. ASSUME NEW c \in Clients, ClientStep(c) PROVE IInv' /\ IdsAdvance
  BY <1>1, ClientKeeps
<1>2. ASSUME NEW c \in Clients, ConnectionStep(c) PROVE IInv' /\ IdsAdvance
  <2>1. CASE Accept(c)
    BY <2>1, IdleKeeps DEF Accept, processVars
  <2>2. CASE InsertClient(c)
    BY <2>2, InsertKeeps
  <2>3. CASE update_new_client(c)
    BY <2>3, GreetKeeps, PanicKeeps DEF update_new_client
  <2> QED  BY <1>2, <2>1, <2>2, <2>3 DEF ConnectionStep
<1>3. ASSUME NEW c \in Clients, Receive(c) PROVE IInv' /\ IdsAdvance
  BY <1>3, ReceiveKeeps
<1>4. CASE BroadcastTick
  BY <1>4, IdleKeeps, PanicKeeps
     DEF BroadcastTick, ServeDefaultSubs, taskVars, clientVars, processVars
<1>5. ASSUME NEW t \in DOMAIN loops, LoopStep(t) PROVE IInv' /\ IdsAdvance
  <2>1. CASE LoopTick(t) \/ LoopEnd(t)
    BY <2>1, IdleKeeps DEF LoopTick, LoopEnd, taskVars, clientVars, processVars
  <2>2. CASE LoopRun(t)
    BY <2>2, IdleKeeps, PanicKeeps
       DEF LoopRun, ServeLoop, taskVars, clientVars, processVars
  <2> QED  BY <1>5, <2>1, <2>2 DEF LoopStep
<1>6. CASE FlushPersistent
  <2>1. UNCHANGED <<directoryVars, greeting, inbound, published>>
    BY <1>6 DEF FlushPersistent, taskVars, clientVars
  <2> QED  BY <1>6, <2>1, SameDirectoryKeeps, FlushTypes DEF IInv, RequestTypes
<1>7. CASE Restart
  BY <1>7, RestartKeeps
<1>8. CASE UNCHANGED vars
  BY <1>8, IdleKeeps DEF vars, taskVars, clientVars, processVars
<1>9. ASSUME NEW c \in Clients, NEW k \in 2 .. MaxFrame, ReceiveFrame(c, k)
      PROVE  IInv' /\ IdsAdvance
  BY <1>9, FrameKeeps
<1> QED  BY <1>1, <1>2, <1>3, <1>4, <1>5, <1>6, <1>7, <1>8, <1>9 DEF Next

\* The invariant holds in every reachable state.
LEMMA Invariance == Spec => []IInv
<1> QED  BY InitHolds, NextKeeps, PTL DEF Spec

\* Only a restart counts as one.
LEMMA ProcessGoesOn ==
  ASSUME [Next]_vars, ~Restart PROVE restarts' = restarts
<1> USE DEF processVars
<1>1. ASSUME NEW c \in Clients, ClientStep(c) PROVE restarts' = restarts
  BY <1>1 DEF ClientStep, SendPublish, SendRelease, SendSetFlags, SendValue, SendTime,
              SendGetValues, SendSubscribe, SendUnsubscribe, Send, Leave, Drop, Close,
              ReadMessages
<1>2. ASSUME NEW c \in Clients, ConnectionStep(c) PROVE restarts' = restarts
  BY <1>2 DEF ConnectionStep, Accept, InsertClient, update_new_client, GreetClient, Panic
<1>3. ASSUME NEW c \in Clients, Receive(c) PROVE restarts' = restarts
  BY <1>3 DEF Receive, Panic
<1>4. CASE BroadcastTick
  BY <1>4 DEF BroadcastTick, ServeDefaultSubs, Panic
<1>5. ASSUME NEW t \in DOMAIN loops, LoopStep(t) PROVE restarts' = restarts
  BY <1>5 DEF LoopStep, LoopTick, LoopRun, LoopEnd, ServeLoop, Panic
<1>6. CASE FlushPersistent
  BY <1>6 DEF FlushPersistent
<1>7. ASSUME NEW c \in Clients, NEW k \in 2 .. MaxFrame, ReceiveFrame(c, k)
      PROVE  restarts' = restarts
  BY <1>7 DEF ReceiveFrame
<1> QED  BY <1>1, <1>2, <1>3, <1>4, <1>5, <1>6, <1>7 DEF Next, vars

\* Topics, counts, ids and publications have their types, whatever the clients
\* do and whatever the persistence file makes of the values.
THEOREM DirectoryTypesHold == Spec => []DirectoryTypes
<1>1. IInv => DirectoryTypes
  BY DEF IInv, DirectoryInv
<1> QED  BY <1>1, Invariance, PTL

\* The entries and pub_count maps of NTServer always have the same keys.
THEOREM CountsAlwaysMatch == Spec => []CountsMatchEntries
<1>1. IInv => CountsMatchEntries
  BY DEF IInv, DirectoryInv
<1> QED  BY <1>1, Invariance, PTL

\* The ids of a greeted client are those of the topics that exist.
THEOREM AnnouncedAlwaysMatch == Spec => []AnnouncedMatchEntries
<1>1. IInv => AnnouncedMatchEntries
  BY DEF IInv, DirectoryInv
<1> QED  BY <1>1, Invariance, PTL

\* The ids of a client are distinct and below its counter.
THEOREM IdsAlwaysFresh == Spec => []IdsFresh
<1>1. IInv => IdsFresh
  BY DEF IInv, DirectoryInv
<1> QED  BY <1>1, Invariance, PTL

\* An id that no longer stands for a topic never does again.
THEOREM IdsAreNeverReused == Spec => IdsNeverReused
<1>1. IInv /\ [Next]_vars => [IdsAdvance]_<<clients, pub_ids, next_pub_id>>
  BY NextKeeps
<1> QED  BY <1>1, Invariance, PTL DEF Spec, IdsNeverReused

\* What a flush wrote comes back with a restart, unless the file is torn or the
\* encoding changes one of its values.
THEOREM StableTopicsAlwaysSurvive == Spec => StableTopicsSurvive
<1> DEFINE Survive == restarts' # restarts /\ disk'.intact
                      /\ (\A n \in DOMAIN disk'.topics : disk'.topics[n].value \in Stable)
                         => entries' = disk'.topics
<1>1. ASSUME IInv, IInv', [Next]_vars PROVE [Survive]_restarts
  <2>1. CASE Restart
    <3>1. SUFFICES ASSUME disk'.intact,
                          \A n \in DOMAIN disk'.topics : disk'.topics[n].value \in Stable
                   PROVE  entries' = disk'.topics
      OBVIOUS
    <3>2. \A n \in DOMAIN disk'.topics :
             /\ Restored(disk'.topics[n].value) = disk'.topics[n].value
             /\ disk'.topics[n] \in Topics
      BY <1>1, <3>1, StableRestored DEF IInv, DiskTypes, IsMap
    <3>3. Readable(disk')
      <4>1. Undecodable \notin Stable
        BY DEF Undecodable, Stable, NTValues, ValueOf, DataType, Scalars, Blobs, Arrays
      <4> QED  BY <3>1, <3>2, <4>1 DEF Readable
    <3>4. entries' = [n \in DOMAIN disk'.topics |->
                        [disk'.topics[n] EXCEPT !.value = Restored(disk'.topics[n].value)]]
      BY <2>1, <3>3 DEF Restart, restore_persistent
    <3>5. \A n \in DOMAIN disk'.topics :
             [disk'.topics[n] EXCEPT !.value = Restored(disk'.topics[n].value)] = disk'.topics[n]
      BY <3>2 DEF Topics
    <3>6. disk'.topics = [n \in DOMAIN disk'.topics |-> disk'.topics[n]]
      BY <1>1 DEF IInv, DiskTypes, IsMap
    <3> QED  BY <3>4, <3>5, <3>6
  <2>2. CASE ~Restart
    <3>1. restarts' = restarts
      BY <1>1, <2>2, ProcessGoesOn
    <3> QED  BY <3>1
  <2> QED  BY <2>1, <2>2
<1> QED  BY <1>1, Invariance, PTL DEF Spec, StableTopicsSurvive

\* A handler never sets the timestamp of a topic back, unless it replaces the
\* topic by one of another type.
LEMMA HandlerAdvances ==
  ASSUME IInv, NEW c \in Clients, Receive(c), NEW n \in DOMAIN entries \cap DOMAIN entries'
  PROVE  \/ entries'[n].timestamp >= entries[n].timestamp
         \/ entry_type(entries'[n]) # entry_type(entries[n])
<1> DEFINE req == Head(inbound[c])
           Goal == \/ entries'[n].timestamp >= entries[n].timestamp
                   \/ entry_type(entries'[n]) # entry_type(entries[n])
<1> USE DEF directoryVars
<1>1. /\ entries \in [DOMAIN entries -> Topics]
      /\ entries[n] \in Topics /\ entries[n].timestamp \in Nat
  BY DEF IInv, DirectoryInv, DirectoryTypes, IsMap, Topics
<1>2. CASE entries' = entries
  BY <1>1, <1>2
<1>3. CASE HandlePublish(c, req)
  <2>1. CASE SameType(req.name, req.type)
    BY <1>2, <1>3, <2>1 DEF HandlePublish, create_entry
  <2>2. CASE ~SameType(req.name, req.type)
    <3>1. entries' = Put(entries, req.name, NewTopic(req.type))
      BY <1>3, <2>2 DEF HandlePublish, create_entry
    <3>2. CASE n = req.name
      <4>1. entry_type(entries[n]) # req.type
        BY <2>2, <3>2 DEF SameType
      <4>2. entries'[n] = NewTopic(req.type)
        BY <3>1, <3>2 DEF Put
      <4>3. entry_type(NewTopic(req.type)) = req.type
        BY DEF entry_type, NewTopic, default_value, ValueOf
      <4> QED  BY <4>1, <4>2, <4>3
    <3>3. CASE n # req.name
      BY <1>1, <3>1, <3>3 DEF Put
    <3> QED  BY <3>2, <3>3
  <2> QED  BY <2>1, <2>2
<1>4. CASE HandleRelease(req)
  <2>1. entries' = Without(entries, {req.name}) \/ entries' = entries
    <3>1. CASE LastPublisher(req.name)
      BY <1>4, <3>1 DEF HandleRelease
    <3>2. CASE ~LastPublisher(req.name)
      BY <1>4, <3>2 DEF HandleRelease
    <3> QED  BY <3>1, <3>2
  <2>2. CASE entries' = Without(entries, {req.name})
    BY <1>1, <2>2 DEF Without
  <2> QED  BY <1>2, <2>1, <2>2
<1>5. CASE HandleSetFlags(req)
  <2>1. entries' = [entries EXCEPT ![req.name].flags = NewFlags(req.name, req)]
    BY <1>5 DEF HandleSetFlags, update_flags
  <2>2. entries'[n].timestamp = entries[n].timestamp
    BY <1>1, <2>1 DEF Topics
  <2> QED  BY <1>1, <2>2
<1>6. CASE HandleValue(c, req)
  <2> DEFINE name == id_to_name(c, req.id)
  <2>1. CASE ~Accepted(entries[name], req)
    BY <1>2, <1>6, <2>1 DEF HandleValue
  <2>2. CASE Accepted(entries[name], req)
    <3>1. entries' = [entries EXCEPT ![name] = set_value(entries[name], req)]
      BY <1>6, <2>2 DEF HandleValue
    <3>2. CASE n = name
      <4>1. entries'[n] = [entries[n] EXCEPT !.value = req.value, !.timestamp = req.timestamp]
        BY <1>1, <3>1, <3>2 DEF set_value
      <4>2. entries'[n].timestamp = req.timestamp
        BY <1>1, <4>1 DEF Topics
      <4>3. req.timestamp >= entries[n].timestamp
        BY <2>2, <3>2 DEF Accepted
      <4> QED  BY <4>2, <4>3
    <3>3. CASE n # name
      BY <1>1, <3>1, <3>3
    <3> QED  BY <3>2, <3>3
  <2> QED  BY <2>1, <2>2
<1>7. CASE HandleDisconnect(c)
  <2>1. CASE c \in clients
    <3>1. entries' = Without(entries, Orphans(c))
      BY <1>7, <2>1 DEF HandleDisconnect
    <3> QED  BY <1>1, <3>1 DEF Without
  <2>2. CASE c \notin clients
    BY <1>2, <1>7, <2>2 DEF HandleDisconnect
  <2> QED  BY <2>1, <2>2
<1>8. CASE \/ HandleGetValues(c, req) \/ HandleSubscribe(c, req.sub)
           \/ HandleUnsubscribe(c, req) \/ HandleTime(c)
  <2>1. entries' = entries
    BY <1>8 DEF HandleGetValues, HandleSubscribe, HandleUnsubscribe, HandleTime
  <2> QED  BY <1>2, <2>1
<1>9. CASE Panic("channel_loop")
  BY <1>2, <1>9 DEF Panic
<1> QED  BY <1>3, <1>4, <1>5, <1>6, <1>7, <1>8, <1>9 DEF Receive, Handle

\* The steps that handle requests.
Handles(c) == Receive(c) \/ \E k \in 2 .. MaxFrame : ReceiveFrame(c, k)

\* The other steps of a process leave the topics alone.
LEMMA TopicsStay ==
  ASSUME [Next]_vars, ~Restart, \A c \in Clients : ~Handles(c) PROVE entries' = entries
<1> USE DEF directoryVars
<1>1. ASSUME NEW c \in Clients, ClientStep(c) PROVE entries' = entries
  BY <1>1 DEF ClientStep, SendPublish, SendRelease, SendSetFlags, SendValue, SendTime,
              SendGetValues, SendSubscribe, SendUnsubscribe, Send, Leave, Drop, Close,
              ReadMessages
<1>2. ASSUME NEW c \in Clients, ConnectionStep(c) PROVE entries' = entries
  BY <1>2 DEF ConnectionStep, Accept, InsertClient, update_new_client, GreetClient, Panic
<1>3. CASE BroadcastTick
  BY <1>3 DEF BroadcastTick, ServeDefaultSubs, Panic
<1>4. ASSUME NEW t \in DOMAIN loops, LoopStep(t) PROVE entries' = entries
  BY <1>4 DEF LoopStep, LoopTick, LoopRun, LoopEnd, ServeLoop, Panic
<1>5. CASE FlushPersistent
  BY <1>5 DEF FlushPersistent
<1> QED  BY <1>1, <1>2, <1>3, <1>4, <1>5 DEF Next, Handles, vars

\* The number of restarts is one.
LEMMA RestartsCounted == Spec => [](restarts \in Nat)
<1>1. Init => restarts \in Nat
  BY DEF Init
<1>2. restarts \in Nat /\ [Next]_vars => (restarts \in Nat)'
  BY ProcessGoesOn DEF Restart
<1> QED  BY <1>1, <1>2, PTL DEF Spec

\* A step that is no restart panics at one of the sites, or goes on as before.
LEMMA PanicStep ==
  ASSUME [Next]_vars, ~Restart PROVE panicked' \in PanicSites \cup {panicked}
<1> USE DEF processVars, PanicSites
<1>1. ASSUME NEW c \in Clients, ClientStep(c) PROVE panicked' = panicked
  BY <1>1 DEF ClientStep, SendPublish, SendRelease, SendSetFlags, SendValue, SendTime,
              SendGetValues, SendSubscribe, SendUnsubscribe, Send, Leave, Drop, Close,
              ReadMessages
<1>2. ASSUME NEW c \in Clients, ConnectionStep(c)
      PROVE  panicked' \in {"update_new_client", panicked}
  BY <1>2 DEF ConnectionStep, Accept, InsertClient, update_new_client, GreetClient, Panic
<1>3. ASSUME NEW c \in Clients, Handles(c) PROVE panicked' \in {"channel_loop", panicked}
  BY <1>3 DEF Handles, Receive, ReceiveFrame, Panic
<1>4. CASE BroadcastTick
  BY <1>4 DEF BroadcastTick, ServeDefaultSubs, Panic
<1>5. ASSUME NEW t \in DOMAIN loops, LoopStep(t)
      PROVE  panicked' \in {"broadcast_with_period", panicked}
  BY <1>5 DEF LoopStep, LoopTick, LoopRun, LoopEnd, ServeLoop, Panic
<1>6. CASE FlushPersistent
  BY <1>6 DEF FlushPersistent
<1> QED  BY <1>1, <1>2, <1>3, <1>4, <1>5, <1>6 DEF Next, Handles, vars

\* What has stopped the server is one of the unwraps.
LEMMA PanicsKnown == Spec => [](panicked \in PanicSites \cup {NoPanic})
<1>1. Init => panicked \in PanicSites \cup {NoPanic}
  BY DEF Init, NewProcess
<1>2. panicked \in PanicSites \cup {NoPanic} /\ [Next]_vars
        => (panicked \in PanicSites \cup {NoPanic})'
  <2>1. Restart => panicked' = NoPanic
    BY DEF Restart, NewProcess
  <2> QED  BY <2>1, PanicStep
<1> QED  BY <1>1, <1>2, PTL DEF Spec

\* However late and in whatever order values arrive, no topic's timestamp goes
\* back while the topic lives.
THEOREM TimestampsAlwaysAdvance == Spec => TimestampsAdvance
<1> DEFINE Advance == \A n \in DOMAIN entries \cap DOMAIN entries' :
                         \/ entries'[n].timestamp >= entries[n].timestamp
                         \/ entry_type(entries'[n]) # entry_type(entries[n])
                         \/ restarts' # restarts
<1>1. ASSUME IInv, restarts \in Nat, [Next]_vars PROVE [Advance]_entries
  <2>1. CASE Restart
    BY <1>1, <2>1 DEF Restart
  <2>2. ASSUME NEW c \in Clients, Receive(c) PROVE Advance
    BY <1>1, <2>2, HandlerAdvances
  <2>3. ASSUME NEW c \in Clients, NEW k \in 2 .. MaxFrame, ReceiveFrame(c, k) PROVE Advance
    BY <1>1, <2>3, FrameStoresTopics
  <2>4. CASE ~Restart /\ \A c \in Clients : ~Handles(c)
    BY <1>1, <2>4, TopicsStay
  <2> QED  BY <2>1, <2>2, <2>3, <2>4 DEF Handles
<1> QED  BY <1>1, Invariance, RestartsCounted, PTL DEF Spec, TimestampsAdvance

============================================================================
