--------------------------- MODULE NT4CountProofs ---------------------------
(***************************************************************************)
(* The counts of publishers, for any number of clients and topics: as long *)
(* as nobody releases a topic or publishes it with another type, pub_count *)
(* is the number of publications of connected clients, and one for the     *)
(* flag, so that no topic goes while somebody wants it.                    *)
(***************************************************************************)
EXTENDS NT4ViewProofs

----------------------------------------------------------------------------
(* What it takes                                                           *)

\* A release is counted again by the disconnection, and another type sets the
\* count to 1: clients do neither.
NoRelease == \A c \in Clients : "release" \notin Requests[c]
OneType   == \A s, t \in Types : s = t

\* A usize is large enough, or the build checks it.
CountsFit == OverflowChecks \/ \A n \in DOMAIN pub_count : pub_count[n] < UsizeMax

----------------------------------------------------------------------------
(* The inductive invariant                                                 *)

PublicationsFinite == \A n \in Names : IsFiniteSet(PublicationsOf(n))

\* A client publishes nothing before it is inserted, nor after it is removed.
StrangersUnpublished == \A c \in Clients \ clients : pubs[c] = << >>

\* What connected clients publish is there, with their type; a topic that was
\* restored may have another, until it is published.
PublishedExist ==
    \A n \in Names : PublicationsOf(n) # {} =>
        n \in DOMAIN entries /\ entry_type(entries[n]) \in Types

Counted ==
    /\ PublicationsFinite
    /\ StrangersUnpublished
    /\ PublishedExist
    /\ PublishersCounted

Allowed(req) == req.kind # "release" /\ (req.kind = "publish" => req.type \in Types)

RequestsAllowed == \A c \in Clients : \A i \in DOMAIN inbound[c] : Allowed(inbound[c][i])

\* The file has persistent topics, which count as published once.
FilePersistent == \A n \in DOMAIN disk.topics : is_persistent(disk.topics[n])

CountInv == Counted /\ RequestsAllowed /\ FilePersistent

----------------------------------------------------------------------------
(* Publications                                                            *)

\* A publication is a client and a place in its pubs.
LEMMA PublicationIs ==
  ASSUME NEW n
  PROVE  /\ \A c \in clients : \A i \in DOMAIN pubs[c] :
                pubs[c][i] = n => <<c, i>> \in PublicationsOf(n)
         /\ \A p \in PublicationsOf(n) : \E c \in clients : \E i \in DOMAIN pubs[c] :
                pubs[c][i] = n /\ p = <<c, i>>
  BY DEF PublicationsOf

\* A step that changes neither publications nor counts, types and flags.
LEMMA SameCountsKeep ==
  ASSUME IInv, Counted, UNCHANGED <<clients, pubs, pub_count>>,
         DOMAIN entries' = DOMAIN entries,
         \A n \in DOMAIN entries : /\ entry_type(entries'[n]) = entry_type(entries[n])
                                   /\ is_persistent(entries'[n]) = is_persistent(entries[n])
  PROVE  Counted'
<1>1. \A n : PublicationsOf(n)' = PublicationsOf(n) /\ Publications(n)' = Publications(n)
  BY DEF PublicationsOf, Publications
<1>2. DOMAIN pub_count = DOMAIN entries
  BY DEF IInv, DirectoryInv, CountsMatchEntries
<1>3. PublicationsFinite' /\ PublishedExist' /\ StrangersUnpublished'
  BY <1>1 DEF Counted, PublicationsFinite, PublishedExist, StrangersUnpublished
<1>4. PublishersCounted'
  BY <1>1, <1>2 DEF Counted, PublishersCounted
<1> QED  BY <1>3, <1>4 DEF Counted

\* A handler that leaves the directory alone.
LEMMA SameDirectoryCounts ==
  ASSUME IInv, Counted, UNCHANGED <<clients, entries, pubs, pub_count>> PROVE Counted'
  BY SameCountsKeep

\* The count of a topic is a number, and above it there is one more.
LEMMA CountRange ==
  ASSUME IInv, NEW n \in DOMAIN pub_count
  PROVE  /\ pub_count[n] \in Nat /\ pub_count[n] <= UsizeMax /\ UsizeMax \in Nat
         /\ pub_count[n] < UsizeMax => Increment(pub_count[n]) = pub_count[n] + 1
         /\ \A k \in Nat : k <= pub_count[n] => Decrease(pub_count[n], k) = pub_count[n] - k
<1>1. pub_count[n] \in 0 .. UsizeMax /\ UsizeMax \in Nat
  BY NaturalBounds DEF IInv, DirectoryInv, DirectoryTypes, IsMap
<1>2. \A k \in 0 .. UsizeMax : k % (UsizeMax + 1) = k
  BY <1>1
<1> QED  BY <1>1, <1>2 DEF Increment, Decrease

\* PublishReq: one publication more, and one publisher.
LEMMA PublishKeepsCounts ==
  ASSUME IInv, Counted, OneType, CountsFit, NEW c \in Clients, NEW req, req.type \in Types,
         req.name \in Names, ~PublishFails(c, req), HandlePublish(c, req)
  PROVE  Counted'
<1> DEFINE name == req.name
           new  == <<c, Len(pubs[c]) + 1>>
<1>1. /\ c \in clients /\ clients' = clients /\ clients \subseteq Clients
      /\ pubs' = [pubs EXCEPT ![c] = Append(@, name)] /\ pubs \in [Clients -> Seq(Names)]
      /\ create_entry(name, req.type) /\ DOMAIN pub_count = DOMAIN entries
  BY DEF PublishFails, HandlePublish, IInv, DirectoryInv, DirectoryTypes, CountsMatchEntries
<1>2. /\ Len(pubs[c]) \in Nat /\ DOMAIN pubs[c] = 1 .. Len(pubs[c])
      /\ DOMAIN pubs'[c] = 1 .. Len(pubs[c]) + 1
      /\ \A i \in DOMAIN pubs[c] : pubs'[c][i] = pubs[c][i]
      /\ pubs'[c][Len(pubs[c]) + 1] = name
      /\ \A d \in Clients \ {c} : pubs'[d] = pubs[d]
  <2>1. PICK seq \in Seq(Names) : seq = pubs[c]
    BY <1>1
  <2>2. /\ Append(seq, name) \in Seq(Names) /\ Len(Append(seq, name)) = Len(seq) + 1
        /\ \A i \in 1 .. Len(seq) : Append(seq, name)[i] = seq[i]
        /\ Append(seq, name)[Len(seq) + 1] = name
    BY <2>1, AppendProperties
  <2>3. pubs'[c] = Append(seq, name)
    BY <1>1, <2>1
  <2> QED  BY <1>1, <2>1, <2>2, <2>3, LenProperties
<1> HIDE DEF name
<1>3. /\ PublicationsOf(name)' = PublicationsOf(name) \cup {new}
      /\ new \notin PublicationsOf(name)
      /\ \A n : n # name => PublicationsOf(n)' = PublicationsOf(n)
  <2>1. ASSUME NEW d \in clients, NEW i, NEW n
        PROVE  i \in DOMAIN pubs'[d] /\ pubs'[d][i] = n
                 <=> \/ i \in DOMAIN pubs[d] /\ pubs[d][i] = n
                     \/ n = name /\ <<d, i>> = new
    <3>1. CASE d = c
      BY <1>2, <3>1
    <3>2. CASE d # c
      BY <1>1, <1>2, <3>2
    <3> QED  BY <3>1, <3>2
  <2>2. ASSUME NEW n, NEW p
        PROVE  p \in PublicationsOf(n)' <=> p \in PublicationsOf(n) \/ (n = name /\ p = new)
    <3>1. p \in PublicationsOf(n) <=>
            \E d \in clients : \E i \in DOMAIN pubs[d] : pubs[d][i] = n /\ p = <<d, i>>
      BY PublicationIs
    <3>2. p \in PublicationsOf(n)' <=>
            \E d \in clients : \E i \in DOMAIN pubs'[d] : pubs'[d][i] = n /\ p = <<d, i>>
      BY <1>1 DEF PublicationsOf
    <3>3. new = <<c, Len(pubs[c]) + 1>>
      OBVIOUS
    <3> HIDE DEF new
    <3> QED  BY <1>1, <2>1, <3>1, <3>2, <3>3
  <2>3. new \notin PublicationsOf(name)
    <3>1. Len(pubs[c]) + 1 \notin DOMAIN pubs[c]
      BY <1>2
    <3> QED  BY <3>1, PublicationIs
  <2> HIDE DEF new
  <2>4. \A p : p \in PublicationsOf(name)' <=> p \in PublicationsOf(name) \cup {new}
    BY <2>2
  <2>5. ASSUME NEW n, n # name PROVE PublicationsOf(n)' = PublicationsOf(n)
    <3>1. \A p : p \in PublicationsOf(n)' <=> p \in PublicationsOf(n)
      BY <2>2, <2>5
    <3> QED  BY <3>1
  <2>6. PublicationsOf(name)' = PublicationsOf(name) \cup {new}
    BY <2>4
  <2> QED  BY <2>3, <2>5, <2>6
<1> HIDE DEF new
<1>4. /\ IsFiniteSet(PublicationsOf(name)) /\ name \in Names
      /\ IsFiniteSet(PublicationsOf(name)') /\ Publications(name)' = Publications(name) + 1
      /\ Publications(name) \in Nat
      /\ \A n : n # name => Publications(n)' = Publications(n)
  <2>1. IsFiniteSet(PublicationsOf(name)) /\ name \in Names
    BY DEF Counted, PublicationsFinite, name
  <2> QED  BY <1>3, <2>1, FS_AddElement, FS_CardinalityType DEF Publications
<1>5. PublicationsFinite' /\ StrangersUnpublished'
  BY <1>1, <1>2, <1>3, <1>4 DEF Counted, PublicationsFinite, StrangersUnpublished
<1>6. CASE SameType(name, req.type)
  <2>1. /\ name \in DOMAIN entries /\ entry_type(entries[name]) = req.type
        /\ pub_count' = [pub_count EXCEPT ![name] = Increment(@)] /\ entries' = entries
    BY <1>1, <1>6 DEF SameType, create_entry
  <2>2. pub_count'[name] = pub_count[name] + 1
    <3>1. pub_count[name] < UsizeMax
      <4>1. ~(OverflowChecks /\ pub_count[name] = UsizeMax)
        BY <1>6 DEF PublishFails, name
      <4> QED  BY <1>1, <2>1, <4>1, CountRange DEF CountsFit
    <3> QED  BY <1>1, <2>1, <3>1, CountRange
  <2>3. PublishersCounted'
    <3>1. ASSUME NEW n \in DOMAIN pub_count
          PROVE  pub_count'[n] = Publications(n)' + (IF is_persistent(entries'[n]) THEN 1 ELSE 0)
      <4>1. pub_count[n] = Publications(n) + (IF is_persistent(entries[n]) THEN 1 ELSE 0)
        BY DEF Counted, PublishersCounted
      <4> QED  BY <1>4, <2>1, <2>2, <4>1
    <3> QED  BY <2>1, <3>1 DEF PublishersCounted
  <2>4. PublishedExist'
    BY <1>3, <2>1 DEF Counted, PublishedExist
  <2> QED  BY <1>5, <2>3, <2>4 DEF Counted
<1>7. CASE ~SameType(name, req.type)
  <2>1. /\ pub_count' = Put(pub_count, name, 1)
        /\ entries' = Put(entries, name, NewTopic(req.type))
    BY <1>1, <1>7 DEF create_entry
  <2>2. PublicationsOf(name) = {}
    <3>1. name \in DOMAIN entries /\ entry_type(entries[name]) \in Types => FALSE
      BY <1>7 DEF OneType, SameType
    <3> QED  BY <1>4, <3>1 DEF Counted, PublishedExist
  <2>3. Publications(name)' = 1
    BY <1>4, <2>2, FS_EmptySet DEF Publications
  <2>4. entry_type(NewTopic(req.type)) = req.type /\ ~is_persistent(NewTopic(req.type))
    BY DEF entry_type, is_persistent, NewTopic, default_value, ValueOf
  <2>5. /\ DOMAIN entries' = DOMAIN entries \cup {name} /\ DOMAIN pub_count' = DOMAIN pub_count \cup {name}
        /\ entries'[name] = NewTopic(req.type) /\ pub_count'[name] = 1
        /\ \A n \in DOMAIN entries \ {name} :
              entries'[n] = entries[n] /\ pub_count'[n] = pub_count[n]
    BY <1>1, <2>1 DEF Put
  <2>6. PublishersCounted'
    <3>1. ASSUME NEW n \in DOMAIN pub_count'
          PROVE  pub_count'[n] = Publications(n)' + (IF is_persistent(entries'[n]) THEN 1 ELSE 0)
      <4>1. CASE n = name
        BY <2>3, <2>4, <2>5, <4>1
      <4>2. CASE n # name
        <5>1. pub_count[n] = Publications(n) + (IF is_persistent(entries[n]) THEN 1 ELSE 0)
          BY <2>5, <4>2 DEF Counted, PublishersCounted
        <5> QED  BY <1>1, <1>4, <2>5, <4>2, <5>1
      <4> QED  BY <4>1, <4>2
    <3> QED  BY <3>1 DEF PublishersCounted
  <2>7. PublishedExist'
    <3>1. \A n \in Names \ {name} : PublicationsOf(n)' # {} =>
             n \in DOMAIN entries' /\ entry_type(entries'[n]) \in Types
      BY <1>3, <2>5 DEF Counted, PublishedExist
    <3> QED  BY <2>4, <2>5, <3>1 DEF PublishedExist
  <2> QED  BY <1>5, <2>6, <2>7 DEF Counted
<1> QED  BY <1>6, <1>7

\* SetFlags: the flag counts as one publisher.
LEMMA SetFlagsKeepsCounts ==
  ASSUME IInv, Counted, CountsFit, NEW req, ~SetFlagsFails(req), HandleSetFlags(req)
  PROVE  Counted'
<1> DEFINE name == req.name
<1>1. /\ name \in DOMAIN entries /\ UNCHANGED <<clients, pubs>> /\ update_flags(req)
      /\ entries' = [entries EXCEPT ![name].flags = NewFlags(name, req)]
      /\ DOMAIN pub_count = DOMAIN entries /\ IsMap(entries, Names, Topics)
  BY DEF SetFlagsFails, HandleSetFlags, update_flags, IInv, DirectoryInv, DirectoryTypes,
         CountsMatchEntries
<1>2. \A n : PublicationsOf(n)' = PublicationsOf(n) /\ Publications(n)' = Publications(n)
  BY <1>1 DEF PublicationsOf, Publications
<1>3. /\ name \in Names /\ entries[name] \in Topics /\ NewFlags(name, req) \in Nat
      /\ entries'[name] = [entries[name] EXCEPT !.flags = NewFlags(name, req)]
      /\ DOMAIN entries' = DOMAIN entries
      /\ \A n \in DOMAIN entries \ {name} : entries'[n] = entries[n]
  <2>1. entries[name] \in Topics /\ name \in Names
    BY <1>1 DEF IsMap
  <2>2. entries[name].flags \in Nat
    BY <2>1 DEF Topics
  <2>3. NewFlags(name, req) \in Nat
    BY <2>2, FlagsType
  <2> HIDE DEF name
  <2> QED  BY <1>1, <2>1, <2>3 DEF IsMap
<1>4. /\ entry_type(entries'[name]) = entry_type(entries[name])
      /\ is_persistent(entries'[name]) <=> NewFlags(name, req) > 0
  BY <1>3 DEF entry_type, is_persistent, Topics
<1>5. PublicationsFinite' /\ StrangersUnpublished' /\ PublishedExist'
  <2>1. \A n \in DOMAIN entries : entry_type(entries'[n]) = entry_type(entries[n])
    BY <1>3, <1>4
  <2> QED  BY <1>1, <1>2, <1>3, <2>1
           DEF Counted, PublicationsFinite, StrangersUnpublished, PublishedExist
<1>6. /\ Publications(name) \in Nat
      /\ pub_count[name] = Publications(name) + (IF is_persistent(entries[name]) THEN 1 ELSE 0)
  BY <1>1, <1>3, FS_CardinalityType
     DEF Counted, PublicationsFinite, PublishersCounted, Publications
<1>7. /\ DOMAIN pub_count' = DOMAIN pub_count
      /\ \A n \in DOMAIN pub_count \ {name} : pub_count'[n] = pub_count[n]
      /\ pub_count'[name] = Publications(name) + (IF is_persistent(entries'[name]) THEN 1 ELSE 0)
  <2> HIDE DEF name
  <2>0. name = req.name
    BY DEF name
  <2>1. CASE BecomesPersistent(req)
    <3>1. pub_count' = [pub_count EXCEPT ![name] = Increment(@)]
      BY <1>1, <2>0, <2>1 DEF update_flags, BecomesPersistent, CeasesPersistent
    <3>2. pub_count[name] < UsizeMax
      <4>1. ~(OverflowChecks /\ pub_count[name] = UsizeMax)
        BY <2>0, <2>1 DEF SetFlagsFails
      <4> QED  BY <1>1, <4>1, CountRange DEF CountsFit
    <3>3. ~is_persistent(entries[name]) /\ is_persistent(entries'[name])
      BY <1>4, <2>0, <2>1 DEF BecomesPersistent
    <3>4. Increment(pub_count[name]) = pub_count[name] + 1
      BY <1>1, <3>2, CountRange
    <3> QED  BY <1>1, <1>6, <3>1, <3>3, <3>4
  <2>2. CASE CeasesPersistent(req)
    <3>1. is_persistent(entries[name]) /\ ~is_persistent(entries'[name])
      BY <1>4, <2>0, <2>2 DEF CeasesPersistent
    <3>2. pub_count' = [pub_count EXCEPT ![name] = Decrease(@, 1)]
      BY <1>1, <2>0, <2>2 DEF update_flags, BecomesPersistent, CeasesPersistent
    <3>3. Decrease(pub_count[name], 1) = pub_count[name] - 1
      BY <1>1, <1>6, <3>1, CountRange
    <3> QED  BY <1>1, <1>6, <3>1, <3>2, <3>3
  <2>3. CASE ~BecomesPersistent(req) /\ ~CeasesPersistent(req)
    <3>1. pub_count' = pub_count
      BY <1>1, <2>3 DEF update_flags
    <3>2. is_persistent(entries'[name]) <=> is_persistent(entries[name])
      BY <1>3, <1>4, <2>0, <2>3 DEF BecomesPersistent, CeasesPersistent
    <3> QED  BY <1>6, <3>1, <3>2
  <2> QED  BY <2>1, <2>2, <2>3
<1> HIDE DEF name
<1>8. PublishersCounted'
  <2>1. ASSUME NEW n \in DOMAIN pub_count
        PROVE  pub_count'[n] = Publications(n)' + (IF is_persistent(entries'[n]) THEN 1 ELSE 0)
    <3>1. CASE n = name
      BY <1>2, <1>7, <3>1
    <3>2. CASE n # name
      BY <1>1, <1>2, <1>3, <1>7, <3>2 DEF Counted, PublishersCounted
    <3> QED  BY <3>1, <3>2
  <2> QED  BY <1>7, <2>1 DEF PublishersCounted
<1> QED  BY <1>5, <1>8 DEF Counted

\* ValuePublish changes neither types nor flags.
LEMMA ValueKeepsCounts ==
  ASSUME IInv, ViewInv, Counted, NEW c \in Clients, NEW req, req.kind = "value",
         RequestHolds(c, req), req.value \in NTValues, req.timestamp \in Nat,
         ~ValueFails(c, req), HandleValue(c, req)
  PROVE  Counted'
<1> DEFINE name == id_to_name(c, req.id)
<1>1. \A n \in DOMAIN entries : entry_type(entries'[n]) = entry_type(entries[n])
  BY ValueTypeIs
<1>2. /\ UNCHANGED <<clients, pubs, pub_count>>
      /\ \/ entries' = entries
         \/ entries' = [entries EXCEPT ![name] = set_value(entries[name], req)]
  BY DEF HandleValue
<1>3. name \in DOMAIN entries /\ IsMap(entries, Names, Topics)
  BY DEF ValueFails, IInv, DirectoryInv, DirectoryTypes
<1> HIDE DEF name
<1>4. is_persistent(set_value(entries[name], req)) = is_persistent(entries[name])
  <2>1. entries[name] \in Topics
    BY <1>3 DEF IsMap
  <2>2. set_value(entries[name], req).flags = entries[name].flags
    BY <2>1 DEF set_value, Topics
  <2> QED  BY <2>2 DEF is_persistent
<1>5. /\ DOMAIN entries' = DOMAIN entries
      /\ \A n \in DOMAIN entries : is_persistent(entries'[n]) = is_persistent(entries[n])
  BY <1>2, <1>3, <1>4
<1> QED  BY <1>1, <1>2, <1>5, SameCountsKeep

\* Nor does a frame of values.
LEMMA FrameKeepsCounts ==
  ASSUME IInv, ViewInv, Counted, NEW c \in Clients, NEW k \in 2 .. MaxFrame, ReceiveFrame(c, k)
  PROVE  Counted' /\ DOMAIN entries' = DOMAIN entries
<1>1. UNCHANGED <<clients, pubs, pub_count>>
  BY FrameStep
<1>2. /\ DOMAIN entries' = DOMAIN entries
      /\ \A n \in DOMAIN entries : entries'[n].flags = entries[n].flags
  BY FrameStoresTopics
<1>3. \A n \in DOMAIN entries : is_persistent(entries'[n]) = is_persistent(entries[n])
  BY <1>2 DEF is_persistent
<1> QED  BY <1>1, <1>2, <1>3, FrameTypes, SameCountsKeep

\* ClientDisconnected: what only this client published, and is not persistent,
\* loses its last publisher.
LEMMA OrphansUnwanted ==
  ASSUME IInv, Counted, NEW c \in clients, NEW n \in DOMAIN entries
  PROVE  LET rest == PublicationsOf(n) \ ({c} \X { i \in DOMAIN pubs[c] : pubs[c][i] = n })
         IN  /\ IsFiniteSet(rest) /\ Cardinality(rest) \in Nat
             /\ Publications(n) = Cardinality(rest) + Occurrences(c, n)
             /\ Occurrences(c, n) \in Nat
             /\ pub_count[n] = Cardinality(rest) + Occurrences(c, n)
                                 + (IF is_persistent(entries[n]) THEN 1 ELSE 0)
             /\ n \in Orphans(c) => Cardinality(rest) = 0 /\ ~is_persistent(entries[n])
<1> DEFINE places == { i \in DOMAIN pubs[c] : pubs[c][i] = n }
           own    == {c} \X places
           rest   == PublicationsOf(n) \ own
<1>1. /\ c \in Clients /\ n \in Names /\ pubs \in [Clients -> Seq(Names)] /\ n \in DOMAIN pub_count
      /\ DirectoryTypes
  BY DEF IInv, DirectoryInv, DirectoryTypes, CountsMatchEntries, IsMap
<1>2. IsFiniteSet(places) /\ Cardinality(places) = Occurrences(c, n) /\ Occurrences(c, n) \in Nat
  <2>1. DOMAIN pubs[c] = 1 .. Len(pubs[c]) /\ Len(pubs[c]) \in Nat
    BY <1>1, LenProperties
  <2>2. IsFiniteSet(DOMAIN pubs[c])
    BY <2>1, FS_Interval
  <2> QED  BY <1>1, <2>2, FS_Subset, OccurrencesType DEF Occurrences
<1>3. own \subseteq PublicationsOf(n)
  <2>1. \A i \in places : <<c, i>> \in PublicationsOf(n)
    BY PublicationIs
  <2> QED  BY <2>1
<1>4. IsFiniteSet(own) /\ Cardinality(own) = Occurrences(c, n)
  <2> HIDE DEF places
  <2>1. IsFiniteSet({c}) /\ Cardinality({c}) = 1
    BY FS_Singleton
  <2>2. IsFiniteSet({c} \X places) /\ Cardinality({c} \X places) = Cardinality({c}) * Cardinality(places)
    BY <1>2, <2>1, FS_Product
  <2> QED  BY <1>2, <2>1, <2>2
<1>5. IsFiniteSet(PublicationsOf(n)) /\ Publications(n) \in Nat
  BY <1>1, FS_CardinalityType DEF Counted, PublicationsFinite, Publications
<1> HIDE DEF own
<1>6. /\ IsFiniteSet(rest) /\ Cardinality(rest) \in Nat
      /\ Publications(n) = Cardinality(rest) + Occurrences(c, n)
  <2>1. PublicationsOf(n) \cap own = own
    BY <1>3
  <2>2. IsFiniteSet(rest) /\ Cardinality(rest) = Publications(n) - Cardinality(PublicationsOf(n) \cap own)
    BY <1>5, FS_Difference DEF Publications
  <2>3. Cardinality(rest) \in Nat
    BY <2>2, FS_CardinalityType
  <2>4. Cardinality(rest) = Publications(n) - Occurrences(c, n)
    BY <1>4, <2>1, <2>2
  <2> HIDE DEF rest, places
  <2>5. Publications(n) = Cardinality(rest) + Occurrences(c, n)
    BY <1>2, <1>5, <2>3, <2>4
  <2> QED  BY <2>2, <2>3, <2>5
<1>7. pub_count[n] = Publications(n) + (IF is_persistent(entries[n]) THEN 1 ELSE 0)
  BY <1>1 DEF Counted, PublishersCounted
<1>8. n \in Orphans(c) => pub_count[n] <= Occurrences(c, n)
  <2>1. SUFFICES ASSUME NEW i \in Zeroes(c), n = pubs[c][i] PROVE pub_count[n] <= Occurrences(c, n)
    BY DEF Orphans
  <2>2. i \in DOMAIN pubs[c] /\ Repeats(c, i) = pub_count[n]
    BY <2>1 DEF Zeroes
  <2>3. DOMAIN pubs[c] = 1 .. Len(pubs[c]) /\ Len(pubs[c]) \in Nat
    BY <1>1, LenProperties
  <2>4. { j \in 1 .. i : pubs[c][j] = pubs[c][i] } \subseteq places
    BY <2>1, <2>2, <2>3
  <2>5. Cardinality({ j \in 1 .. i : pubs[c][j] = pubs[c][i] }) <= Cardinality(places)
    BY <1>2, <2>4, FS_Subset
  <2> QED  BY <1>2, <2>2, <2>5 DEF Repeats
<1> QED  BY <1>2, <1>6, <1>7, <1>8 DEF own

\* So the topics that go with a client are those that nobody else wants.
LEMMA DisconnectKeepsCounts ==
  ASSUME IInv, Counted, NEW c \in Clients, HandleDisconnect(c)
  PROVE  /\ Counted'
         /\ \A n \in DOMAIN entries \ DOMAIN entries' :
               ~is_persistent(entries[n]) /\ Publications(n)' = 0
<1>1. CASE c \notin clients
  BY <1>1, SameDirectoryCounts DEF HandleDisconnect, directoryVars
<1>2. CASE c \in clients
  <2> DEFINE rest(n) == PublicationsOf(n) \ ({c} \X { i \in DOMAIN pubs[c] : pubs[c][i] = n })
  <2>1. /\ clients' = clients \ {c} /\ pubs' = [pubs EXCEPT ![c] = << >>]
        /\ entries' = Without(entries, Orphans(c)) /\ pub_count' = CountsWithout(c)
        /\ clients \subseteq Clients /\ pubs \in [Clients -> Seq(Names)]
        /\ DOMAIN pub_count = DOMAIN entries
    BY <1>2 DEF HandleDisconnect, DropClient, IInv, DirectoryInv, DirectoryTypes, CountsMatchEntries
  <2>2. \A d \in clients' : d # c /\ d \in clients /\ pubs'[d] = pubs[d]
    BY <2>1
  <2>3. \A n : PublicationsOf(n)' = rest(n)
    <3>1. ASSUME NEW n, NEW p PROVE p \in PublicationsOf(n)' <=> p \in rest(n)
      <4>1. p \in PublicationsOf(n)' <=>
              \E d \in clients \ {c} : \E i \in DOMAIN pubs[d] : pubs[d][i] = n /\ p = <<d, i>>
        BY <2>1, <2>2 DEF PublicationsOf
      <4>2. p \in PublicationsOf(n) <=>
              \E d \in clients : \E i \in DOMAIN pubs[d] : pubs[d][i] = n /\ p = <<d, i>>
        BY PublicationIs
      <4> QED  BY <4>1, <4>2
    <3>2. \A n : \A p : p \in PublicationsOf(n)' <=> p \in rest(n)
      BY <3>1
    <3> HIDE DEF rest
    <3> QED  BY <3>2
  <2>4. \A n \in DOMAIN entries :
          /\ IsFiniteSet(rest(n)) /\ Cardinality(rest(n)) \in Nat
          /\ Occurrences(c, n) \in Nat
          /\ pub_count[n] = Cardinality(rest(n)) + Occurrences(c, n)
                              + (IF is_persistent(entries[n]) THEN 1 ELSE 0)
          /\ n \in Orphans(c) => Cardinality(rest(n)) = 0 /\ ~is_persistent(entries[n])
    BY <1>2, OrphansUnwanted
  <2>5. \A n \in Names : IsFiniteSet(rest(n)) /\ (rest(n) # {} => PublicationsOf(n) # {})
    BY FS_Difference DEF Counted, PublicationsFinite
  <2> HIDE DEF rest
  <2>6. \A n : Publications(n)' = Cardinality(rest(n))
    BY <2>3 DEF Publications
  <2>7. /\ DOMAIN entries' = DOMAIN entries \ Orphans(c) /\ DOMAIN pub_count' = DOMAIN entries'
        /\ \A n \in DOMAIN entries' :
              /\ entries'[n] = entries[n]
              /\ pub_count'[n] = Decrease(pub_count[n], Occurrences(c, n))
    BY <2>1 DEF Without, CountsWithout
  <2>8. PublicationsFinite'
    BY <2>3, <2>5 DEF PublicationsFinite
  <2>9. StrangersUnpublished'
    BY <2>1 DEF Counted, StrangersUnpublished
  <2>10. PublishedExist'
    <3>1. ASSUME NEW n \in Names, rest(n) # {}
          PROVE  n \in DOMAIN entries' /\ entry_type(entries'[n]) \in Types
      <4>1. n \in DOMAIN entries /\ entry_type(entries[n]) \in Types
        BY <2>5, <3>1 DEF Counted, PublishedExist
      <4>2. Cardinality(rest(n)) # 0
        BY <2>5, <3>1, FS_EmptySet
      <4> QED  BY <2>4, <2>7, <4>1, <4>2
    <3> QED  BY <2>3, <3>1 DEF PublishedExist
  <2>11. PublishersCounted'
    <3>1. ASSUME NEW n \in DOMAIN entries'
          PROVE  pub_count'[n] = Publications(n)' + (IF is_persistent(entries'[n]) THEN 1 ELSE 0)
      <4>1. n \in DOMAIN entries /\ n \in DOMAIN pub_count
        BY <2>1, <2>7
      <4>2. Occurrences(c, n) <= pub_count[n]
        BY <2>4, <4>1
      <4>3. Decrease(pub_count[n], Occurrences(c, n)) = pub_count[n] - Occurrences(c, n)
        BY <2>4, <4>1, <4>2, CountRange
      <4>4. pub_count[n] - Occurrences(c, n)
              = Cardinality(rest(n)) + (IF is_persistent(entries[n]) THEN 1 ELSE 0)
        BY <2>4, <4>1
      <4> QED  BY <2>6, <2>7, <4>3, <4>4
    <3> QED  BY <2>7, <3>1 DEF PublishersCounted
  <2> QED  BY <2>4, <2>6, <2>7, <2>8, <2>9, <2>10, <2>11 DEF Counted
<1> QED  BY <1>1, <1>2

----------------------------------------------------------------------------
(* Steps                                                                   *)

\* Handling requests brings no new ones.
LEMMA TakenAllowed ==
  ASSUME RequestsAllowed, RequestsTaken PROVE RequestsAllowed'
  BY DEF RequestsAllowed, RequestsTaken

\* Every handler of channel_loop keeps the counts, and deletes unwanted topics only.
LEMMA ReceiveKeepsCounts ==
  ASSUME IInv, ViewInv, CountInv, OneType, CountsFit, NEW c \in Clients, Receive(c)
  PROVE  /\ CountInv'
         /\ \A n \in DOMAIN entries \ DOMAIN entries' :
               ~is_persistent(entries[n]) /\ Publications(n)' = 0
<1> DEFINE req == Head(inbound[c])
<1>1. /\ WellFormed(req) /\ RequestsTaken
      /\ 1 \in DOMAIN inbound[c] /\ req = inbound[c][1]
  BY ReceivedIs
<1>2. RequestsAllowed' /\ FilePersistent'
  <2>1. disk' = disk
    BY DEF Receive, Panic, processVars
  <2> QED  BY <1>1, <2>1, TakenAllowed DEF CountInv, FilePersistent
<1>3. Allowed(req) /\ (c \in clients => RequestHolds(c, req))
  BY <1>1 DEF CountInv, RequestsAllowed, ViewInv, BeliefsHold
<1>4. CASE HandlerFails(c, req)
  <2>1. UNCHANGED <<clients, entries, pubs, pub_count>>
    BY <1>4 DEF Receive, Panic, directoryVars
  <2> QED  BY <1>2, <2>1, SameDirectoryCounts DEF CountInv
<1>5. CASE ~HandlerFails(c, req)
  <2>1. Handle(c, req)
    BY <1>5 DEF Receive
  <2> HIDE DEF req
  <2>2. CASE req.kind = "publish" /\ HandlePublish(c, req)
    <3>1. /\ req.type \in Types /\ req.name \in Names /\ ~PublishFails(c, req)
      BY <1>1, <1>3, <1>5, <2>2 DEF Allowed, WellFormed, HandlerFails
    <3>2. DOMAIN entries \subseteq DOMAIN entries'
      BY <2>2 DEF HandlePublish, create_entry, Put
    <3> QED  BY <1>2, <2>2, <3>1, <3>2, PublishKeepsCounts DEF CountInv
  <2>3. CASE req.kind = "release" /\ HandleRelease(req)
    BY <1>3, <2>3 DEF Allowed
  <2>4. CASE req.kind = "setflags" /\ HandleSetFlags(req)
    <3>1. ~SetFlagsFails(req)
      BY <1>5, <2>4 DEF HandlerFails
    <3>2. DOMAIN entries' = DOMAIN entries
      BY <2>4 DEF HandleSetFlags, update_flags
    <3> QED  BY <1>2, <2>4, <3>1, <3>2, SetFlagsKeepsCounts DEF CountInv
  <2>5. CASE req.kind = "value" /\ HandleValue(c, req)
    <3>1. ~ValueFails(c, req) /\ req.value \in NTValues /\ req.timestamp \in Nat
      BY <1>1, <1>5, <2>5 DEF HandlerFails, WellFormed
    <3>2. RequestHolds(c, req)
      BY <1>3, <3>1 DEF ValueFails
    <3>3. DOMAIN entries' = DOMAIN entries
      BY <2>5 DEF HandleValue
    <3> QED  BY <1>2, <2>5, <3>1, <3>2, <3>3, ValueKeepsCounts DEF CountInv
  <2>6. CASE \/ req.kind = "getvalues" /\ HandleGetValues(c, req)
             \/ req.kind = "subscribe" /\ HandleSubscribe(c, req.sub)
             \/ req.kind = "unsubscribe" /\ HandleUnsubscribe(c, req)
             \/ req.kind = "time" /\ HandleTime(c)
    <3>1. UNCHANGED <<clients, entries, pubs, pub_count>>
      BY <2>6 DEF HandleGetValues, HandleSubscribe, HandleUnsubscribe, HandleTime, directoryVars
    <3> QED  BY <1>2, <3>1, SameDirectoryCounts DEF CountInv
  <2>7. CASE req.kind = "disconnect" /\ HandleDisconnect(c)
    BY <1>2, <2>7, DisconnectKeepsCounts DEF CountInv
  <2> QED  BY <2>1, <2>2, <2>3, <2>4, <2>5, <2>6, <2>7 DEF Handle
<1> QED  BY <1>4, <1>5

\* What clients send is allowed.
LEMMA ClientKeepsCounts ==
  ASSUME IInv, CountInv, NoRelease, NEW c \in Clients, ClientStep(c) PROVE CountInv'
<1>1. /\ UNCHANGED <<clients, entries, pubs, pub_count, disk>> /\ DOMAIN inbound = Clients
  BY DEF ClientStep, SendPublish, SendRelease, SendSetFlags, SendValue, SendTime,
         SendGetValues, SendSubscribe, SendUnsubscribe, Send, Leave, Drop, Close, ReadMessages,
         directoryVars, processVars, IInv, RequestTypes
<1>2. ASSUME NEW req, Allowed(req), inbound' = [inbound EXCEPT ![c] = Append(@, req)]
      PROVE  RequestsAllowed'
  <2>1. \A i \in DOMAIN inbound'[c] : \/ \E j \in DOMAIN inbound[c] : inbound'[c][i] = inbound[c][j]
                                      \/ inbound'[c][i] = req
    BY <1>1, <1>2, AppendedRequest
  <2> QED  BY <1>1, <1>2, <2>1 DEF CountInv, RequestsAllowed
<1>3. ASSUME NEW kind, NEW req, Send(c, kind, req), req.kind \notin {"release", "publish"}
      PROVE  RequestsAllowed'
  BY <1>2, <1>3 DEF Allowed, Send
<1>4. RequestsAllowed'
  <2>1. CASE SendPublish(c)
    <3>1. PICK n \in Names, t \in Types :
             inbound' = [inbound EXCEPT ![c] = Append(@, [kind |-> "publish", name |-> n, type |-> t])]
      BY <2>1 DEF SendPublish, Send
    <3>2. Allowed([kind |-> "publish", name |-> n, type |-> t])
      BY DEF Allowed
    <3> QED  BY <1>2, <3>1, <3>2
  <2>2. CASE SendRelease(c)
    BY <2>2 DEF SendRelease, Send, NoRelease
  <2>3. CASE SendSetFlags(c)
    BY <1>3, <2>3 DEF SendSetFlags
  <2>4. CASE SendValue(c)
    BY <1>3, <2>4 DEF SendValue
  <2>5. CASE SendTime(c) \/ SendGetValues(c)
    BY <1>3, <2>5 DEF SendTime, SendGetValues
  <2>6. CASE SendSubscribe(c) \/ SendUnsubscribe(c)
    BY <1>3, <2>6 DEF SendSubscribe, SendUnsubscribe
  <2>7. CASE Leave(c) \/ Drop(c)
    <3> DEFINE goodbye == [kind |-> "disconnect"]
    <3>1. PICK kept \in 0 .. Len(inbound[c]) :
             inbound' = [inbound EXCEPT ![c] = Append(SubSeq(@, 1, kept), goodbye)]
      <4>1. Len(inbound[c]) \in 0 .. Len(inbound[c])
        BY LenProperties DEF IInv, RequestTypes, AreWellFormed
      <4> QED  BY <2>7, <4>1 DEF Leave, Drop, Close
    <3>2. Allowed(goodbye)
      BY DEF Allowed
    <3> HIDE DEF goodbye
    <3>3. \A i \in DOMAIN inbound'[c] :
             (\E j \in DOMAIN inbound[c] : inbound'[c][i] = inbound[c][j]) \/ inbound'[c][i] = goodbye
      <4>1. inbound'[c] = Append(SubSeq(inbound[c], 1, kept), goodbye)
        BY <1>1, <3>1
      <4> QED  BY <4>1, AppendedRequest
    <3> QED  BY <1>1, <3>1, <3>2, <3>3 DEF CountInv, RequestsAllowed
  <2>8. CASE ReadMessages(c)
    BY <2>8 DEF ReadMessages, CountInv, RequestsAllowed
  <2> QED  BY <2>1, <2>2, <2>3, <2>4, <2>5, <2>6, <2>7, <2>8 DEF ClientStep
<1> QED  BY <1>1, <1>4, SameDirectoryCounts DEF CountInv, FilePersistent

\* A new client has published nothing yet.
LEMMA InsertKeepsCounts ==
  ASSUME IInv, ViewInv, CountInv, NEW c \in Clients, InsertClient(c) PROVE CountInv'
<1>1. /\ clients' = clients \cup {c} /\ c \notin clients
      /\ UNCHANGED <<entries, pubs, pub_count, inbound, disk>>
  BY DEF InsertClient, processVars, ViewInv, Connections
<1>2. pubs[c] = << >>
  BY <1>1 DEF CountInv, Counted, StrangersUnpublished
<1>3. \A n : PublicationsOf(n)' = PublicationsOf(n)
  <2>1. ASSUME NEW n, NEW p PROVE p \in PublicationsOf(n)' <=> p \in PublicationsOf(n)
    <3>1. p \in PublicationsOf(n)' <=>
            \E d \in clients \cup {c} : \E i \in DOMAIN pubs[d] : pubs[d][i] = n /\ p = <<d, i>>
      BY <1>1 DEF PublicationsOf
    <3>2. p \in PublicationsOf(n) <=>
            \E d \in clients : \E i \in DOMAIN pubs[d] : pubs[d][i] = n /\ p = <<d, i>>
      BY PublicationIs
    <3> QED  BY <1>2, <3>1, <3>2
  <2> QED  BY <2>1
<1>4. Counted'
  <2>1. PublicationsFinite' /\ PublishedExist' /\ StrangersUnpublished'
    BY <1>1, <1>3 DEF CountInv, Counted, PublicationsFinite, PublishedExist, StrangersUnpublished
  <2>2. \A n : Publications(n)' = Publications(n)
    BY <1>3 DEF Publications
  <2>3. PublishersCounted'
    BY <1>1, <2>2 DEF CountInv, Counted, PublishersCounted
  <2> QED  BY <2>1, <2>3 DEF Counted
<1> QED  BY <1>1, <1>4 DEF CountInv, RequestsAllowed, FilePersistent

\* A new process counts each topic of the file once, for its flag.
LEMMA NewCountsHold == NewProcess /\ FilePersistent => CountInv
<1> SUFFICES ASSUME NewProcess, FilePersistent PROVE CountInv
  OBVIOUS
<1>1. \A n : PublicationsOf(n) = {} /\ Publications(n) = 0
  BY FS_EmptySet DEF NewProcess, PublicationsOf, Publications
<1>2. PublicationsFinite /\ PublishedExist /\ StrangersUnpublished /\ RequestsAllowed
  <2>1. PublicationsFinite /\ PublishedExist
    BY <1>1, FS_EmptySet DEF PublicationsFinite, PublishedExist
  <2>2. StrangersUnpublished /\ RequestsAllowed
    BY DEF NewProcess, StrangersUnpublished, RequestsAllowed
  <2> QED  BY <2>1, <2>2
<1>3. ASSUME NEW n \in DOMAIN pub_count PROVE pub_count[n] = 1 /\ is_persistent(entries[n])
  <2>1. n \in DOMAIN restore_persistent(disk) /\ pub_count[n] = 1
    BY <1>3 DEF NewProcess, RestoredCount
  <2>2. CASE Readable(disk)
    <3>1. /\ n \in DOMAIN disk.topics
          /\ entries[n] = [disk.topics[n] EXCEPT !.value = Restored(disk.topics[n].value)]
      BY <2>1, <2>2 DEF NewProcess, restore_persistent
    <3>2. entries[n].flags = disk.topics[n].flags
      BY <3>1
    <3> QED  BY <2>1, <3>1, <3>2 DEF FilePersistent, is_persistent
  <2>3. CASE ~Readable(disk)
    BY <2>1, <2>3 DEF restore_persistent, Empty
  <2> QED  BY <2>1, <2>2, <2>3
<1>4. PublishersCounted
  BY <1>1, <1>3 DEF PublishersCounted
<1> QED  BY <1>2, <1>4 DEF CountInv, Counted, FilePersistent

\* Every step keeps the invariant, and what goes while the process runs is unwanted.
LEMMA NextKeepsCounts ==
  ASSUME NoRelease, OneType, IInv, SubsInv, ViewInv, CountInv, CountsFit, [Next]_vars
  PROVE  /\ CountInv'
         /\ Restart \/ \A n \in DOMAIN entries \ DOMAIN entries' :
                          ~is_persistent(entries[n]) /\ Publications(n)' = 0
<1>1. ASSUME UNCHANGED <<clients, entries, pubs, pub_count, inbound, disk>> PROVE CountInv'
  BY <1>1, SameDirectoryCounts DEF CountInv, RequestsAllowed, FilePersistent
<1>2. ASSUME NEW c \in Clients, ConnectionStep(c) PROVE CountInv'
  <2>1. CASE InsertClient(c)
    BY <2>1, InsertKeepsCounts
  <2>2. CASE Accept(c) \/ update_new_client(c)
    <3>1. UNCHANGED <<clients, entries, pubs, pub_count, inbound, disk>>
      BY <2>2 DEF Accept, update_new_client, GreetClient, Panic, directoryVars, processVars
    <3> QED  BY <1>1, <3>1
  <2> QED  BY <1>2, <2>1, <2>2 DEF ConnectionStep
<1>3. CASE BroadcastTick \/ UNCHANGED vars
  BY <1>1, <1>3 DEF BroadcastTick, ServeDefaultSubs, Panic, directoryVars, processVars, vars
<1>4. ASSUME NEW t \in DOMAIN loops, LoopStep(t) PROVE CountInv'
  BY <1>1, <1>4 DEF LoopStep, LoopTick, LoopRun, LoopEnd, ServeLoop, Panic, directoryVars, processVars
<1>5. CASE FlushPersistent
  <2>1. UNCHANGED <<clients, entries, pubs, pub_count, inbound>>
    BY <1>5 DEF FlushPersistent, directoryVars
  <2>2. FilePersistent'
    BY <1>5 DEF FlushPersistent, FilePersistent, PersistentTopics
  <2> QED  BY <2>1, <2>2, SameDirectoryCounts DEF CountInv, RequestsAllowed
<1>6. CASE Restart
  <2>1. NewProcess'
    BY <1>6 DEF Restart, NewProcess
  <2>2. FilePersistent'
    <3>1. disk' = disk \/ disk' = NoFile
      BY <1>6 DEF Restart
    <3> QED  BY <3>1 DEF CountInv, FilePersistent, NoFile, Empty
  <2>3. (NewProcess /\ FilePersistent => CountInv)'
    BY NewCountsHold, PTL
  <2> QED  BY <1>6, <2>1, <2>2, <2>3
<1>7. ASSUME NEW c \in Clients, Receive(c)
      PROVE  /\ CountInv'
             /\ \A n \in DOMAIN entries \ DOMAIN entries' :
                   ~is_persistent(entries[n]) /\ Publications(n)' = 0
  BY <1>7, ReceiveKeepsCounts
<1>8. ASSUME NEW c \in Clients, NEW k \in 2 .. MaxFrame, ReceiveFrame(c, k)
      PROVE  CountInv' /\ DOMAIN entries' = DOMAIN entries
  <2>1. RequestsAllowed'
    BY <1>8, FrameTaken, TakenAllowed DEF CountInv
  <2>2. FilePersistent'
    BY <1>8, FrameStep DEF CountInv, FilePersistent
  <2> QED  BY <1>8, <2>1, <2>2, FrameKeepsCounts DEF CountInv
<1>9. CountInv'
  BY <1>2, <1>3, <1>4, <1>5, <1>6, <1>7, <1>8, ClientKeepsCounts DEF Next
<1>10. CASE ~Restart /\ \A c \in Clients : ~Handles(c)
  BY <1>9, <1>10, TopicsStay
<1> QED  BY <1>7, <1>8, <1>9, <1>10 DEF Handles

\* The invariant holds in every reachable state, as long as counts fit a usize.
LEMMA CountInvariance ==
  ASSUME NoRelease, OneType
  PROVE  Spec /\ []CountsFit => [](IInv /\ SubsInv /\ ViewInv /\ CountInv)
<1>1. Init => CountInv
  <2>1. Init => NewProcess /\ FilePersistent
    BY DEF Init, NewProcess, FilePersistent, NoFile, Empty
  <2> QED  BY <2>1, NewCountsHold
<1>2. IInv /\ SubsInv /\ ViewInv /\ CountInv /\ CountsFit /\ [Next]_vars => CountInv'
  BY NextKeepsCounts
<1> QED  BY <1>1, <1>2, ViewInvariance, PTL DEF Spec

----------------------------------------------------------------------------
(* The theorems                                                            *)

\* Without releases and with one type, the count of a topic is the number of the
\* publications of connected clients, and one for the flag, through disconnections,
\* flags and restarts (create_entry, update_flags, ClientDisconnected,
\* NTServer::new).
THEOREM PublishersAlwaysCounted ==
  ASSUME NoRelease, OneType
  PROVE  Spec /\ []CountsFit => []PublishersCounted
<1>1. CountInv => PublishersCounted
  BY DEF CountInv, Counted
<1> QED  BY <1>1, CountInvariance, PTL

\* Then a handler deletes a topic only when it is not persistent and no connected
\* client publishes it any more.
THEOREM WantedTopicsAlwaysStay ==
  ASSUME NoRelease, OneType
  PROVE  Spec /\ []CountsFit => TopicsStayWhileWanted
<1> DEFINE Stay == \A n \in DOMAIN entries : restarts' = restarts /\ n \notin DOMAIN entries' =>
                      ~is_persistent(entries[n]) /\ Publications(n)' = 0
<1>1. ASSUME IInv, SubsInv, ViewInv, CountInv, CountsFit, restarts \in Nat, [Next]_vars
      PROVE  [Stay]_entries
  <2>1. CASE Restart
    BY <1>1, <2>1 DEF Restart
  <2>2. CASE ~Restart
    BY <1>1, <2>2, NextKeepsCounts
  <2> QED  BY <2>1, <2>2
<1> QED  BY <1>1, CountInvariance, RestartsCounted, PTL DEF Spec, TopicsStayWhileWanted

==============================================================================
