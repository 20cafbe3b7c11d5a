-------------------------- MODULE CollectionLemmas --------------------------
(***************************************************************************)
(* What the operators on collections compute, for any arguments: maps, the *)
(* order in which a set is gone through, sequences of which only some      *)
(* places are kept, and flattened sequences.                               *)
(***************************************************************************)
EXTENDS Collections, TLAPS, FiniteSetTheorems, SequenceTheorems,
        WellFoundedInduction

----------------------------------------------------------------------------
(* Maps                                                                    *)

\* The empty map is a map of any kind.
LEMMA EmptyMap == ASSUME NEW K, NEW S PROVE IsMap(Empty, K, S) /\ DOMAIN Empty = {}
  BY DEF IsMap, Empty

\* Inserting a key keeps a map's kind, and adds that key.
LEMMA PutMap ==
  ASSUME NEW K, NEW S, NEW map, IsMap(map, K, S), NEW key \in K, NEW value \in S
  PROVE  /\ IsMap(Put(map, key, value), K, S)
         /\ DOMAIN Put(map, key, value) = DOMAIN map \cup {key}
         /\ Put(map, key, value)[key] = value
         /\ \A x \in DOMAIN map \ {key} : Put(map, key, value)[x] = map[x]
  BY DEF IsMap, Put

\* Removing keys keeps a map's kind.
LEMMA WithoutMap ==
  ASSUME NEW K, NEW S, NEW map, IsMap(map, K, S), NEW keys
  PROVE  /\ IsMap(Without(map, keys), K, S)
         /\ DOMAIN Without(map, keys) = DOMAIN map \ keys
         /\ \A x \in DOMAIN map \ keys : Without(map, keys)[x] = map[x]
  BY DEF IsMap, Without

\* Replacing the value of a key keeps a map's kind and its keys.
LEMMA ExceptMap ==
  ASSUME NEW K, NEW S, NEW map, IsMap(map, K, S), NEW key \in DOMAIN map, NEW value \in S
  PROVE  /\ IsMap([map EXCEPT ![key] = value], K, S)
         /\ DOMAIN [map EXCEPT ![key] = value] = DOMAIN map
  BY DEF IsMap

----------------------------------------------------------------------------
(* Induction.  It is stated of sets: the theorems of the library about     *)
(* predicates take an operator, which the provers do not instantiate.      *)

\* A set of naturals has a least element: of the intervals from 0 to each of
\* them one is minimal for inclusion.
LEMMA LeastNatural ==
  ASSUME NEW T \in SUBSET Nat, T # {}
  PROVE  \E m \in T : \A k \in T : m <= k
<1> DEFINE U == { 0 .. n : n \in T }
<1>1. U \subseteq FiniteSubsetsOf(Nat) /\ U # {}
  <2>1. \A n \in T : IsFiniteSet(0 .. n) /\ 0 .. n \subseteq Nat
    BY FS_Interval
  <2> QED  BY <2>1 DEF FiniteSubsetsOf
<1>2. PICK X \in U : \A Y \in U : <<Y, X>> \notin StrictSubsetOrdering(Nat)
  BY <1>1, FS_StrictSubsetOrderingWellFounded, WFMin
<1>3. PICK m \in T : X = 0 .. m
  BY <1>2
<1>4. ASSUME NEW k \in T, k < m PROVE FALSE
  <2>1. 0 .. k \in U /\ 0 .. k \subseteq 0 .. m /\ 0 .. k # 0 .. m /\ 0 .. m \subseteq Nat
    BY <1>3, <1>4
  <2> QED  BY <1>2, <1>3, <2>1 DEF StrictSubsetOrdering
<1> QED  BY <1>3, <1>4

\* A set that has 0, and with each natural the next, has all of them.
LEMMA NaturalInduction ==
  ASSUME NEW T, 0 \in T, \A k \in Nat : k \in T => k + 1 \in T
  PROVE  \A k \in Nat : k \in T
<1> SUFFICES ASSUME Nat \ T # {} PROVE FALSE
  OBVIOUS
<1>1. PICK m \in Nat \ T : \A k \in Nat \ T : m <= k
  BY LeastNatural
<1>2. m - 1 \in Nat /\ m - 1 \in T
  <2>1. m # 0
    BY <1>1
  <2>2. m - 1 \in Nat
    BY <1>1, <2>1
  <2> QED  BY <1>1, <2>2
<1> QED  BY <1>1, <1>2

\* A nonempty set of numbers up to n has a greatest element.
LEMMA GreatestPlace ==
  ASSUME NEW n \in Nat, NEW T \in SUBSET (1 .. n), T # {}
  PROVE  \E m \in T : \A k \in T : k <= m
<1>1. { n - k : k \in T } \subseteq Nat /\ { n - k : k \in T } # {}
  <2>1. \A k \in T : n - k \in Nat
    OBVIOUS
  <2> QED  BY <2>1
<1>2. PICK d \in { n - k : k \in T } : \A e \in { n - k : k \in T } : d <= e
  BY <1>1, LeastNatural
<1>3. PICK m \in T : d = n - m
  BY <1>2
<1>4. \A k \in T : n - m <= n - k
  BY <1>2, <1>3
<1> QED  BY <1>3, <1>4

\* The greatest of some places is one of them.
LEMMA LastPlace ==
  \A k \in Nat : \A s \in SUBSET (1 .. k) : s # {} =>
      Max(s) \in s /\ \A i \in s : i <= Max(s)
<1> SUFFICES ASSUME NEW k \in Nat, NEW s \in SUBSET (1 .. k), s # {}
             PROVE  Max(s) \in s /\ \A i \in s : i <= Max(s)
  OBVIOUS
<1>1. \E m \in s : \A i \in s : m >= i
  <2>1. PICK m \in s : \A i \in s : i <= m
    BY GreatestPlace
  <2>2. \A i \in s : m >= i
    BY <2>1
  <2> QED  BY <2>2
<1>2. Max(s) \in s /\ \A i \in s : Max(s) >= i
  BY <1>1, Zenon DEF Max
<1> QED  BY <1>2

\* An order of the elements of a set gives each of them a place of its own.
LEMMA OrderIsBijection ==
  ASSUME NEW S, IsFiniteSet(S), NEW order \in SetToSeqs(S)
  PROVE  /\ Cardinality(S) \in Nat /\ DOMAIN order = 1 .. Cardinality(S)
         /\ \A n \in S : \E i \in DOMAIN order : order[i] = n
<1> DEFINE D == 1 .. Cardinality(S)
<1>1. Cardinality(S) \in Nat
  BY FS_CardinalityType
<1>2. order \in [D -> S] /\ \A i, j \in D : i # j => order[i] # order[j]
  BY DEF SetToSeqs
<1>3. order \in Injection(D, S)
  BY <1>2 DEF Injection, IsInjective
<1>4. Cardinality(D) = Cardinality(S)
  BY <1>1, FS_Interval
<1>5. order \in Surjection(D, S)
  BY <1>3, <1>4, FS_Injection
<1> QED  BY <1>1, <1>2, <1>5 DEF Surjection

----------------------------------------------------------------------------
(* Sequences                                                               *)

\* The places of a sequence form a finite set.
LEMMA PlacesFinite ==
  ASSUME NEW S, NEW seq \in Seq(S)
  PROVE  /\ Len(seq) \in Nat /\ DOMAIN seq = 1 .. Len(seq)
         /\ \A i \in DOMAIN seq : seq[i] \in S
  BY LenProperties, ElementOfSeq

\* Ascending goes through all the elements of a set, each of them once.
LEMMA AscendingIsBijection ==
  ASSUME NEW n \in Nat, NEW S \in SUBSET (1 .. n)
  PROVE  /\ Cardinality(S) \in Nat
         /\ DOMAIN Ascending(S) = 1 .. Cardinality(S)
         /\ \A k \in DOMAIN Ascending(S) : Ascending(S)[k] \in S
         /\ \A k, l \in DOMAIN Ascending(S) : Ascending(S)[k] = Ascending(S)[l] => k = l
         /\ \A i \in S : \E k \in DOMAIN Ascending(S) : Ascending(S)[k] = i
<1> DEFINE below(i) == { j \in S : j <= i }
           rank     == [i \in S |-> Cardinality(below(i))]
<1>1. IsFiniteSet(S) /\ Cardinality(S) \in Nat
  <2>1. IsFiniteSet(1 .. n)
    BY FS_Interval
  <2>2. IsFiniteSet(S)
    BY <2>1, FS_Subset
  <2> QED  BY <2>2, FS_CardinalityType
<1>2. ASSUME NEW i \in S
      PROVE  IsFiniteSet(below(i)) /\ rank[i] \in 1 .. Cardinality(S)
  <2>1. IsFiniteSet(below(i)) /\ Cardinality(below(i)) <= Cardinality(S)
    BY <1>1, FS_Subset
  <2>2. Cardinality(below(i)) \in Nat /\ Cardinality(below(i)) # 0
    BY <2>1, FS_CardinalityType, FS_EmptySet
  <2> QED  BY <1>1, <2>1, <2>2
<1>3. ASSUME NEW i \in S, NEW j \in S, i < j PROVE rank[i] # rank[j]
  <2>1. below(i) \in SUBSET below(j) /\ j \in below(j) /\ j \notin below(i)
    <3>1. i \in Nat /\ j \in Nat /\ \A k \in S : k \in Nat
      OBVIOUS
    <3>2. \A k \in S : k <= i => k <= j
      BY <1>3, <3>1
    <3>3. below(i) \subseteq below(j)
      BY <3>2
    <3>4. j <= j /\ ~(j <= i)
      BY <1>3, <3>1
    <3> QED  BY <3>3, <3>4
  <2> HIDE DEF below
  <2>2. Cardinality(below(j)) # Cardinality(below(i))
    BY <1>2, <2>1, FS_Subset
  <2> QED  BY <2>2
<1>4. rank \in Injection(S, 1 .. Cardinality(S))
  <2>1. rank \in [S -> 1 .. Cardinality(S)]
    BY <1>2
  <2>2. \A i, j \in S : rank[i] = rank[j] => i = j
    BY <1>3
  <2> HIDE DEF rank
  <2> QED  BY <2>1, <2>2 DEF Injection, IsInjective
<1>5. rank \in Surjection(S, 1 .. Cardinality(S))
  <2>1. IsFiniteSet(1 .. Cardinality(S)) /\ Cardinality(1 .. Cardinality(S)) = Cardinality(S)
    BY <1>1, FS_Interval
  <2> HIDE DEF rank
  <2> QED  BY <1>4, <2>1, FS_Injection
<1>6. Ascending(S) = [k \in 1 .. Cardinality(S) |->
                        CHOOSE i \in S : Cardinality(below(i)) = k]
  BY DEF Ascending
<1>7. \A i, j \in S : rank[i] = rank[j] => i = j
  BY <1>4 DEF Injection, IsInjective
<1>8. \A k \in 1 .. Cardinality(S) : \E i \in S : rank[i] = k
  BY <1>5 DEF Surjection
<1>9. \A k \in 1 .. Cardinality(S) : Ascending(S)[k] \in S /\ rank[Ascending(S)[k]] = k
  <2>1. \A k \in 1 .. Cardinality(S) : \E i \in S : Cardinality(below(i)) = k
    BY <1>8
  <2>2. \A k \in 1 .. Cardinality(S) :
           Ascending(S)[k] \in S /\ Cardinality(below(Ascending(S)[k])) = k
    BY <1>6, <2>1
  <2> QED  BY <2>2
<1> HIDE DEF rank
<1>10. \A i \in S : rank[i] \in 1 .. Cardinality(S)
  BY <1>2
<1>11. DOMAIN Ascending(S) = 1 .. Cardinality(S)
  BY <1>6
<1>12. \A i \in S : Ascending(S)[rank[i]] = i
  BY <1>7, <1>9, <1>10
<1> QED  BY <1>1, <1>9, <1>10, <1>11, <1>12

\* AtPlaces has what the sequence has at those places, each of them once.
LEMMA AtPlacesOf ==
  ASSUME NEW S, NEW seq \in Seq(S), NEW places \in SUBSET DOMAIN seq
  PROVE  /\ AtPlaces(seq, places) \in Seq(S)
         /\ DOMAIN AtPlaces(seq, places) = DOMAIN Ascending(places)
         /\ \A k \in DOMAIN AtPlaces(seq, places) :
               /\ Ascending(places)[k] \in places
               /\ AtPlaces(seq, places)[k] = seq[Ascending(places)[k]]
         /\ \A k, l \in DOMAIN AtPlaces(seq, places) :
               Ascending(places)[k] = Ascending(places)[l] => k = l
         /\ \A i \in places : \E k \in DOMAIN AtPlaces(seq, places) :
               AtPlaces(seq, places)[k] = seq[i]
<1>1. Len(seq) \in Nat /\ DOMAIN seq = 1 .. Len(seq) /\ \A i \in DOMAIN seq : seq[i] \in S
  BY PlacesFinite
<1>2. /\ Cardinality(places) \in Nat
      /\ DOMAIN Ascending(places) = 1 .. Cardinality(places)
      /\ \A k \in DOMAIN Ascending(places) : Ascending(places)[k] \in places
      /\ \A k, l \in DOMAIN Ascending(places) : Ascending(places)[k] = Ascending(places)[l] => k = l
      /\ \A i \in places : \E k \in DOMAIN Ascending(places) : Ascending(places)[k] = i
  <2>1. places \in SUBSET (1 .. Len(seq))
    BY <1>1
  <2> QED  BY <1>1, <2>1, AscendingIsBijection
<1>3. AtPlaces(seq, places) = [k \in 1 .. Cardinality(places) |-> seq[Ascending(places)[k]]]
  BY <1>2 DEF AtPlaces
<1>4. AtPlaces(seq, places) \in [1 .. Cardinality(places) -> S]
  BY <1>1, <1>2, <1>3
<1>5. AtPlaces(seq, places) \in Seq(S)
  BY <1>2, <1>4, IsASeq
<1> QED  BY <1>2, <1>3, <1>5

\* The first place of a sequence that passes a test is one, and the test passes.
LEMMA FirstPlace ==
  ASSUME NEW n \in Nat, NEW I \in SUBSET (1 .. n), I # {}
  PROVE  Min(I) \in I /\ \A i \in I : Min(I) <= i
<1>1. \E m \in I : \A k \in I : m <= k
  BY LeastNatural
<1> QED  BY <1>1 DEF Min

\* What a concatenation has at its places.
LEMMA ConcatOf ==
  ASSUME NEW S, NEW s \in Seq(S), NEW t \in Seq(S)
  PROVE  /\ s \o t \in Seq(S)
         /\ Len(s) \in Nat /\ Len(t) \in Nat /\ Len(s \o t) = Len(s) + Len(t)
         /\ \A i \in 1 .. Len(s) : (s \o t)[i] = s[i]
         /\ \A i \in 1 .. Len(t) : (s \o t)[Len(s) + i] = t[i]
<1>1. Len(s) \in Nat /\ Len(t) \in Nat
  BY LenProperties
<1>2. /\ s \o t \in Seq(S) /\ Len(s \o t) = Len(s) + Len(t)
      /\ \A i \in 1 .. Len(s) + Len(t) :
            (s \o t)[i] = IF i <= Len(s) THEN s[i] ELSE t[i - Len(s)]
  BY ConcatProperties
<1>3. \A i \in 1 .. Len(t) : (s \o t)[Len(s) + i] = t[i]
  <2> SUFFICES ASSUME NEW i \in 1 .. Len(t) PROVE (s \o t)[Len(s) + i] = t[i]
    OBVIOUS
  <2>1. Len(s) + i \in 1 .. Len(s) + Len(t) /\ ~(Len(s) + i <= Len(s)) /\ Len(s) + i - Len(s) = i
    BY <1>1
  <2> QED  BY <1>2, <2>1
<1> QED  BY <1>1, <1>2, <1>3

\* A sequence with e put in at place i.
Inserted(new, seq, i, e) ==
    /\ Len(new) = Len(seq) + 1 /\ new[i] = e
    /\ \A k \in 1 .. i - 1 : new[k] = seq[k]
    /\ \A k \in i .. Len(seq) : new[k + 1] = seq[k]

\* Inserting an element into a sequence.
LEMMA InsertAtOf ==
  ASSUME NEW S, NEW seq \in Seq(S), NEW i \in 1 .. Len(seq) + 1, NEW e \in S
  PROVE  InsertAt(seq, i, e) \in Seq(S) /\ Inserted(InsertAt(seq, i, e), seq, i, e)
<1> DEFINE front == SubSeq(seq, 1, i - 1)
           back  == SubSeq(seq, i, Len(seq))
           most  == Append(front, e)
<1>1. Len(seq) \in Nat /\ DOMAIN seq = 1 .. Len(seq) /\ \A k \in DOMAIN seq : seq[k] \in S
  BY PlacesFinite
<1>2. /\ front \in Seq(S) /\ Len(front) = i - 1
      /\ \A k \in 1 .. i - 1 : front[k] = seq[k]
  BY <1>1, SubSeqProperties
<1>3. /\ back \in Seq(S) /\ Len(back) = Len(seq) - i + 1
      /\ \A k \in 1 .. Len(seq) - i + 1 : back[k] = seq[i + k - 1]
  BY <1>1, SubSeqProperties
<1>4. InsertAt(seq, i, e) = front \o <<e>> \o back
  BY DEF InsertAt
<1> HIDE DEF front, back
<1>5. front \o <<e>> = most
  BY <1>2, AppendIsConcat
<1>6. most \in Seq(S) /\ Len(most) = i /\ most[i] = e /\ \A k \in 1 .. i - 1 : most[k] = seq[k]
  BY <1>1, <1>2, AppendProperties
<1> HIDE DEF most
<1>7. /\ most \o back \in Seq(S) /\ Len(most \o back) = i + Len(back)
      /\ \A k \in 1 .. i : (most \o back)[k] = most[k]
      /\ \A k \in 1 .. Len(back) : (most \o back)[i + k] = back[k]
  <2>1. most \in Seq(S) /\ back \in Seq(S) /\ Len(most) = i
    BY <1>3, <1>6
  <2>2. /\ most \o back \in Seq(S) /\ Len(most \o back) = Len(most) + Len(back)
        /\ \A k \in 1 .. Len(most) : (most \o back)[k] = most[k]
        /\ \A k \in 1 .. Len(back) : (most \o back)[Len(most) + k] = back[k]
    <3>1. \A u, v \in Seq(S) :
             /\ u \o v \in Seq(S) /\ Len(u \o v) = Len(u) + Len(v)
             /\ \A k \in 1 .. Len(u) : (u \o v)[k] = u[k]
             /\ \A k \in 1 .. Len(v) : (u \o v)[Len(u) + k] = v[k]
      BY ConcatOf
    <3> QED  BY <2>1, <3>1
  <2> QED  BY <2>1, <2>2
<1>8. ASSUME NEW k \in i .. Len(seq) PROVE (most \o back)[k + 1] = seq[k]
  <2>1. k - i + 1 \in 1 .. Len(back) /\ i + (k - i + 1) = k + 1 /\ i + (k - i + 1) - 1 = k
    BY <1>1, <1>3
  <2>2. (most \o back)[i + (k - i + 1)] = back[k - i + 1]
    BY <1>7, <2>1
  <2>3. back[k - i + 1] = seq[i + (k - i + 1) - 1]
    BY <1>3, <2>1
  <2> QED  BY <2>1, <2>2, <2>3
<1>9. InsertAt(seq, i, e) = most \o back
  BY <1>4, <1>5
<1>10. i \in 1 .. i /\ \A k \in 1 .. i - 1 : k \in 1 .. i
  OBVIOUS
<1> QED  BY <1>1, <1>3, <1>6, <1>7, <1>8, <1>9, <1>10 DEF Inserted

\* f holds the concatenations of the first i of some sequences, for i up to k.
Joins(seqs, k, f) ==
    f = [i \in 1 .. k |-> IF i = 1 THEN seqs[i] ELSE f[i - 1] \o seqs[i]]

\* What they are.
LEMMA JoinsSteps ==
  ASSUME NEW seqs, NEW n, NEW f, Joins(seqs, n, f)
  PROVE  \A i \in 1 .. n : f[i] = IF i = 1 THEN seqs[i] ELSE f[i - 1] \o seqs[i]
<1>1. \A F : F = [i \in 1 .. n |-> IF i = 1 THEN seqs[i] ELSE F[i - 1] \o seqs[i]] =>
         \A i \in 1 .. n : F[i] = IF i = 1 THEN seqs[i] ELSE F[i - 1] \o seqs[i]
  BY Zenon
<1> QED  BY <1>1, Zenon DEF Joins

\* They exist.
LEMMA JoinsExist ==
  ASSUME NEW seqs, NEW n \in Nat
  PROVE  \E f : Joins(seqs, n, f)
<1> DEFINE T == { k \in Nat : \E f : Joins(seqs, k, f) }
<1>1. 0 \in T
  <2>1. Joins(seqs, 0, [i \in 1 .. 0 |-> << >>])
    BY DEF Joins
  <2> QED  BY <2>1
<1>2. ASSUME NEW k \in Nat, k \in T PROVE k + 1 \in T
  <2>1. PICK f : Joins(seqs, k, f)
    BY <1>2
  <2>2. \A i \in 1 .. k : f[i] = IF i = 1 THEN seqs[i] ELSE f[i - 1] \o seqs[i]
    BY <2>1, JoinsSteps
  <2> DEFINE g == [i \in 1 .. k + 1 |-> IF i \in 1 .. k THEN f[i]
                                        ELSE IF i = 1 THEN seqs[i] ELSE f[i - 1] \o seqs[i]]
  <2>3. ASSUME NEW i \in 1 .. k + 1
        PROVE  g[i] = IF i = 1 THEN seqs[i] ELSE g[i - 1] \o seqs[i]
    <3>1. i # 1 => i - 1 \in 1 .. k /\ g[i - 1] = f[i - 1]
      OBVIOUS
    <3>2. g[i] = IF i = 1 THEN seqs[i] ELSE f[i - 1] \o seqs[i]
      BY <2>2
    <3> HIDE DEF g
    <3> QED  BY <3>1, <3>2
  <2>4. Joins(seqs, k + 1, g)
    BY <2>3 DEF Joins
  <2> HIDE DEF g
  <2> QED  BY <2>4
<1> HIDE DEF T
<1>3. n \in T
  BY <1>1, <1>2, NaturalInduction
<1> QED  BY <1>3 DEF T

\* g holds the concatenation of the first i sequences, for every i from 0.
JoinedBy(seqs, g) ==
    g[0] = << >> /\ \A i \in 1 .. Len(seqs) : g[i] = g[i - 1] \o seqs[i]

\* Flattening joins one sequence after the other to what it has.
LEMMA FlattenSteps ==
  ASSUME NEW S, NEW seqs \in Seq(Seq(S))
  PROVE  \E g : /\ JoinedBy(seqs, g) /\ FlattenSeq(seqs) = g[Len(seqs)]
                /\ \A i \in 0 .. Len(seqs) : g[i] \in Seq(S)
<1> DEFINE n == Len(seqs)
           flatten == CHOOSE f : Joins(seqs, n, f)
           g == [i \in 0 .. n |-> IF i = 0 THEN << >> ELSE flatten[i]]
<1>1. n \in Nat /\ DOMAIN seqs = 1 .. n /\ \A i \in 1 .. n : seqs[i] \in Seq(S)
  BY PlacesFinite
<1>2. FlattenSeq(seqs) = g[n]
  <2>1. CASE n = 0
    <3>1. seqs = << >>
      BY <2>1, EmptySeq
    <3> QED  BY <2>1, <3>1, EmptySeq DEF FlattenSeq
  <2>2. CASE n # 0
    <3>1. FlattenSeq(seqs) = flatten[n]
      BY <2>2 DEF FlattenSeq, Joins
    <3>2. g[n] = flatten[n]
      BY <1>1, <2>2
    <3> QED  BY <3>1, <3>2
  <2> QED  BY <2>1, <2>2
<1>3. \A i \in 1 .. n : flatten[i] = IF i = 1 THEN seqs[i] ELSE flatten[i - 1] \o seqs[i]
  <2>1. Joins(seqs, n, flatten)
    BY <1>1, JoinsExist
  <2> HIDE DEF flatten, n
  <2> QED  BY <2>1, JoinsSteps
<1>4. /\ g[0] = << >>
      /\ \A i \in 1 .. n : g[i] = flatten[i] /\ (i # 1 => g[i - 1] = flatten[i - 1])
  BY <1>1
<1> HIDE DEF flatten, g
<1>5. ASSUME NEW i \in 1 .. n PROVE g[i] = g[i - 1] \o seqs[i]
  <2>1. CASE i = 1
    <3>1. g[i] = seqs[i] /\ g[i - 1] = << >>
      BY <1>3, <1>4, <2>1
    <3> QED  BY <1>1, <3>1, ConcatEmptySeq
  <2>2. CASE i # 1
    BY <1>3, <1>4, <2>2
  <2> QED  BY <2>1, <2>2
<1> DEFINE T == { k \in Nat : k <= n => g[k] \in Seq(S) }
<1>6. 0 \in T
  BY <1>4, EmptySeq
<1>7. ASSUME NEW k \in Nat, k \in T PROVE k + 1 \in T
  <2> SUFFICES ASSUME k + 1 <= n PROVE g[k + 1] \in Seq(S)
    OBVIOUS
  <2> DEFINE j == k + 1
  <2>1. j \in 1 .. n /\ j - 1 = k /\ g[k] \in Seq(S)
    BY <1>1, <1>7
  <2> HIDE DEF j
  <2>2. g[j] = g[j - 1] \o seqs[j] /\ seqs[j] \in Seq(S)
    BY <1>1, <1>5, <2>1
  <2>3. g[j] \in Seq(S)
    BY <2>1, <2>2, ConcatProperties
  <2> QED  BY <2>3 DEF j
<1>8. \A k \in Nat : k \in T
  <2> HIDE DEF T
  <2> QED  BY <1>6, <1>7, NaturalInduction
<1>9. \A i \in 0 .. n : i \in Nat /\ i <= n
  BY <1>1
<1>10. JoinedBy(seqs, g)
  BY <1>4, <1>5 DEF JoinedBy
<1>11. \A i \in 0 .. n : g[i] \in Seq(S)
  BY <1>8, <1>9
<1> QED  BY <1>2, <1>10, <1>11

\* There is one way to join them.
LEMMA FlattenIs ==
  ASSUME NEW S, NEW seqs \in Seq(Seq(S)), NEW g, JoinedBy(seqs, g)
  PROVE  FlattenSeq(seqs) = g[Len(seqs)]
<1>1. PICK f : JoinedBy(seqs, f) /\ FlattenSeq(seqs) = f[Len(seqs)]
  BY FlattenSteps
<1> DEFINE T == { k \in Nat : k <= Len(seqs) => f[k] = g[k] }
<1>2. Len(seqs) \in Nat
  BY PlacesFinite
<1>3. 0 \in T
  BY <1>1 DEF JoinedBy
<1>4. ASSUME NEW k \in Nat, k \in T PROVE k + 1 \in T
  <2> SUFFICES ASSUME k + 1 <= Len(seqs) PROVE f[k + 1] = g[k + 1]
    OBVIOUS
  <2> DEFINE j == k + 1
  <2>1. j \in 1 .. Len(seqs) /\ j - 1 = k /\ f[k] = g[k]
    BY <1>2, <1>4
  <2> HIDE DEF j
  <2>2. f[j] = f[j - 1] \o seqs[j] /\ g[j] = g[j - 1] \o seqs[j]
    BY <1>1, <2>1 DEF JoinedBy
  <2>3. f[j] = g[j]
    BY <2>1, <2>2
  <2> QED  BY <2>3 DEF j
<1> HIDE DEF T
<1>5. Len(seqs) \in T
  BY <1>2, <1>3, <1>4, NaturalInduction
<1> QED  BY <1>1, <1>2, <1>5 DEF T

\* Flattening joins sequences of the same kind into one.
LEMMA FlattenOf ==
  ASSUME NEW S, NEW seqs \in Seq(Seq(S))
  PROVE  FlattenSeq(seqs) \in Seq(S)
<1>1. PICK g : /\ JoinedBy(seqs, g) /\ FlattenSeq(seqs) = g[Len(seqs)]
               /\ \A i \in 0 .. Len(seqs) : g[i] \in Seq(S)
  BY FlattenSteps
<1>2. Len(seqs) \in 0 .. Len(seqs)
  BY PlacesFinite
<1> QED  BY <1>1, <1>2

\* Nothing is joined to nothing.
LEMMA FlattenNone == FlattenSeq(<< >>) = << >>
<1>1. << >> \in Seq(Seq({})) /\ Len(<< >>) = 0
  BY EmptySeq
<1>2. PICK g : JoinedBy(<< >>, g) /\ FlattenSeq(<< >>) = g[Len(<< >>)]
  BY <1>1, FlattenSteps
<1> QED  BY <1>1, <1>2 DEF JoinedBy

\* One sequence is itself.
LEMMA FlattenOne ==
  ASSUME NEW S, NEW s \in Seq(S)
  PROVE  FlattenSeq(<< s >>) = s
<1>1. << s >> \in Seq(Seq(S)) /\ Len(<< s >>) = 1 /\ << s >>[1] = s
  OBVIOUS
<1>2. PICK g : JoinedBy(<< s >>, g) /\ FlattenSeq(<< s >>) = g[Len(<< s >>)]
  BY <1>1, FlattenSteps
<1>3. g[0] = << >> /\ g[1] = g[1 - 1] \o << s >>[1]
  <2>1. 1 \in 1 .. Len(<< s >>)
    BY <1>1
  <2> QED  BY <1>2, <2>1, Zenon DEF JoinedBy
<1>4. 1 - 1 = 0
  OBVIOUS
<1>5. << >> \o s = s
  BY ConcatEmptySeq
<1> QED  BY <1>1, <1>2, <1>3, <1>4, <1>5

\* Flattening some sequences and then others.
LEMMA FlattenConcat ==
  ASSUME NEW S, NEW s \in Seq(Seq(S)), NEW t \in Seq(Seq(S))
  PROVE  FlattenSeq(s \o t) = FlattenSeq(s) \o FlattenSeq(t)
<1> DEFINE m == Len(s)
           n == Len(t)
<1>1. PICK f : /\ JoinedBy(s, f) /\ FlattenSeq(s) = f[m]
               /\ \A i \in 0 .. m : f[i] \in Seq(S)
  BY FlattenSteps
<1>2. PICK g : /\ JoinedBy(t, g) /\ FlattenSeq(t) = g[n]
               /\ \A i \in 0 .. n : g[i] \in Seq(S)
  BY FlattenSteps
<1>3. /\ s \o t \in Seq(Seq(S)) /\ m \in Nat /\ n \in Nat /\ Len(s \o t) = m + n
      /\ \A i \in 1 .. m : (s \o t)[i] = s[i]
      /\ \A i \in 1 .. n : (s \o t)[m + i] = t[i]
  BY ConcatOf
<1>4. \A i \in 1 .. n : t[i] \in Seq(S)
  BY PlacesFinite
<1> DEFINE h == [i \in 0 .. m + n |-> IF i <= m THEN f[i] ELSE f[m] \o g[i - m]]
<1>5. f[m] \in Seq(S)
  BY <1>1, <1>3
<1> HIDE DEF m, n
<1>6. /\ \A i \in 0 .. m : h[i] = f[i]
      /\ \A i \in 0 .. n : h[m + i] = f[m] \o g[i]
  <2>1. g[0] = << >> /\ f[m] \o << >> = f[m]
    BY <1>2, <1>5, ConcatEmptySeq DEF JoinedBy
  <2>2. \A i \in 0 .. m : i \in 0 .. m + n /\ i <= m
    BY <1>3
  <2>3. ASSUME NEW i \in 0 .. n PROVE h[m + i] = f[m] \o g[i]
    <3> DEFINE j == m + i
    <3>1. j \in 0 .. m + n /\ j - m = i /\ (j <= m => i = 0 /\ j = m)
      BY <1>3
    <3> HIDE DEF j
    <3>2. h[j] = IF j <= m THEN f[j] ELSE f[m] \o g[j - m]
      BY <3>1
    <3> QED  BY <2>1, <3>1, <3>2 DEF j
  <2> QED  BY <2>2, <2>3
<1> HIDE DEF h
<1>7. ASSUME NEW i \in 1 .. m + n PROVE h[i] = h[i - 1] \o (s \o t)[i]
  <2>1. CASE i <= m
    <3>1. i \in 1 .. m /\ i \in 0 .. m /\ i - 1 \in 0 .. m
      BY <1>3, <2>1
    <3> QED  BY <1>1, <1>3, <1>6, <3>1 DEF JoinedBy, m
  <2>2. CASE ~(i <= m)
    <3> DEFINE k == i - m
    <3>1. k \in 1 .. n /\ k \in 0 .. n /\ k - 1 \in 0 .. n /\ m + k = i /\ m + (k - 1) = i - 1
      BY <1>3, <2>2
    <3> HIDE DEF k
    <3>2. h[i] = f[m] \o g[k] /\ h[i - 1] = f[m] \o g[k - 1]
      BY <1>6, <3>1
    <3>3. (s \o t)[i] = t[k] /\ t[k] \in Seq(S) /\ g[k - 1] \in Seq(S)
      BY <1>2, <1>3, <1>4, <3>1
    <3>4. g[k] = g[k - 1] \o t[k]
      BY <1>2, <3>1 DEF JoinedBy, n
    <3>5. \A u, v, w \in Seq(S) : (u \o v) \o w = u \o (v \o w)
      BY ConcatAssociative
    <3>6. (f[m] \o g[k - 1]) \o t[k] = f[m] \o (g[k - 1] \o t[k])
      BY <1>5, <3>3, <3>5
    <3> QED  BY <3>2, <3>3, <3>4, <3>6
  <2> QED  BY <2>1, <2>2
<1>8. h[0] = << >>
  <2>1. 0 \in 0 .. m
    BY <1>3
  <2> QED  BY <1>1, <1>6, <2>1 DEF JoinedBy
<1>9. JoinedBy(s \o t, h)
  BY <1>3, <1>7, <1>8 DEF JoinedBy
<1>10. FlattenSeq(s \o t) = h[m + n]
  BY <1>3, <1>9, FlattenIs
<1>11. h[m + n] = f[m] \o g[n]
  <2>1. n \in 0 .. n
    BY <1>3
  <2> QED  BY <1>6, <2>1
<1> QED  BY <1>1, <1>2, <1>10, <1>11

\* Flattening sequences of one element each.
LEMMA FlattenSingles ==
  ASSUME NEW S, NEW seq \in Seq(S)
  PROVE  FlattenSeq([i \in DOMAIN seq |-> << seq[i] >>]) = seq
<1> DEFINE n == Len(seq)
           singles == [i \in DOMAIN seq |-> << seq[i] >>]
           g == [i \in 0 .. n |-> SubSeq(seq, 1, i)]
<1>1. n \in Nat /\ DOMAIN seq = 1 .. n /\ \A i \in 1 .. n : seq[i] \in S
  BY PlacesFinite
<1>2. singles \in Seq(Seq(S)) /\ Len(singles) = n /\ \A i \in 1 .. n : singles[i] = << seq[i] >>
  <2>1. singles \in [1 .. n -> Seq(S)]
    BY <1>1
  <2> QED  BY <1>1, <2>1, IsASeq, LenProperties
<1>3. \A i \in 0 .. n : g[i] = SubSeq(seq, 1, i)
  OBVIOUS
<1> HIDE DEF singles, g, n
<1>4. ASSUME NEW i \in 1 .. n PROVE g[i] = g[i - 1] \o singles[i]
  <2>1. i \in 0 .. n /\ i - 1 \in 0 .. n
    BY <1>1
  <2>2. g[i] = SubSeq(seq, 1, i) /\ g[i - 1] = SubSeq(seq, 1, i - 1) /\ singles[i] = << seq[i] >>
    BY <1>2, <1>3, <2>1
  <2>3. SubSeq(seq, 1, i) = SubSeq(seq, 1, i - 1) \o << seq[i] >>
    <3>1. 1 \in 1 .. Len(seq) /\ i \in 1 .. Len(seq)
      BY <1>1 DEF n
    <3> QED  BY <3>1, SubSeqRecursiveSecond
  <2> QED  BY <2>2, <2>3
<1>5. g[0] = << >> /\ g[n] = seq
  BY <1>1, <1>3, SubSeqEmpty, SubSeqFull DEF n
<1>6. JoinedBy(singles, g)
  BY <1>2, <1>4, <1>5 DEF JoinedBy
<1> QED  BY <1>2, <1>5, <1>6, FlattenIs DEF singles

----------------------------------------------------------------------------
(* Gathering                                                               *)

\* What F makes of the elements of a sequence, one after the other: a filter is
\* the case that F makes one element or nothing of each.
Parts(seq, F)  == [i \in DOMAIN seq |-> F[seq[i]]]
Gather(seq, F) == FlattenSeq(Parts(seq, F))

\* What the images of the elements of a sequence are, when they are in R.
ImagesOf(parts, seq, F, R) ==
    /\ parts \in Seq(R) /\ Len(parts) = Len(seq)
    /\ \A i \in 1 .. Len(seq) : parts[i] = F[seq[i]]

\* A function on the first naturals is a sequence.
LEMMA FunctionSeq ==
  ASSUME NEW S, NEW n \in Nat, NEW f \in [1 .. n -> S]
  PROVE  f \in Seq(S) /\ Len(f) = n
  OBVIOUS

\* What is flattened is a sequence of sequences.
LEMMA GatherParts ==
  ASSUME NEW S, NEW R, NEW seq \in Seq(S), NEW F \in [S -> R]
  PROVE  ImagesOf(Parts(seq, F), seq, F, R)
<1>1. Len(seq) \in Nat /\ DOMAIN seq = 1 .. Len(seq) /\ \A i \in DOMAIN seq : seq[i] \in S
  BY PlacesFinite
<1> DEFINE parts == [i \in 1 .. Len(seq) |-> F[seq[i]]]
<1>2. parts \in [1 .. Len(seq) -> R]
  BY <1>1
<1>3. Parts(seq, F) = parts /\ \A i \in 1 .. Len(seq) : parts[i] = F[seq[i]]
  BY <1>1 DEF Parts
<1> HIDE DEF parts
<1>4. parts \in Seq(R) /\ Len(parts) = Len(seq)
  BY <1>1, <1>2, FunctionSeq
<1> QED  BY <1>3, <1>4 DEF ImagesOf

\* What is gathered is a sequence.
LEMMA GatherOf ==
  ASSUME NEW S, NEW T, NEW seq \in Seq(S), NEW F \in [S -> Seq(T)]
  PROVE  Gather(seq, F) \in Seq(T)
<1>1. ImagesOf(Parts(seq, F), seq, F, Seq(T))
  BY GatherParts
<1>2. Parts(seq, F) \in Seq(Seq(T))
  BY <1>1 DEF ImagesOf
<1> QED  BY <1>2, FlattenOf DEF Gather

\* Nothing comes of nothing.
LEMMA GatherNone ==
  ASSUME NEW F PROVE Gather(<< >>, F) = << >>
<1>1. Parts(<< >>, F) = << >>
  BY DEF Parts
<1> QED  BY <1>1, FlattenNone DEF Gather

\* What is gathered from one element.
LEMMA GatherOne ==
  ASSUME NEW S, NEW T, NEW x \in S, NEW F \in [S -> Seq(T)]
  PROVE  Gather(<< x >>, F) = F[x]
<1>1. Parts(<< x >>, F) = << F[x] >>
  BY DEF Parts
<1>2. F[x] \in Seq(T)
  OBVIOUS
<1> QED  BY <1>1, <1>2, FlattenOne DEF Gather

\* What is gathered from a concatenation.
LEMMA GatherConcat ==
  ASSUME NEW S, NEW T, NEW s \in Seq(S), NEW t \in Seq(S), NEW F \in [S -> Seq(T)]
  PROVE  Gather(s \o t, F) = Gather(s, F) \o Gather(t, F)
<1> DEFINE u == s \o t
           ps == Parts(s, F)
           pt == Parts(t, F)
           pu == Parts(u, F)
<1>1. /\ u \in Seq(S) /\ Len(s) \in Nat /\ Len(t) \in Nat /\ Len(u) = Len(s) + Len(t)
      /\ \A i \in 1 .. Len(s) : u[i] = s[i]
      /\ \A i \in 1 .. Len(t) : u[Len(s) + i] = t[i]
  BY ConcatOf
<1>2. DOMAIN s = 1 .. Len(s) /\ DOMAIN t = 1 .. Len(t)
  BY PlacesFinite
<1> HIDE DEF u
<1>3. DOMAIN u = 1 .. Len(u)
  BY <1>1, PlacesFinite
<1>4. /\ ImagesOf(ps, s, F, Seq(T)) /\ ImagesOf(pt, t, F, Seq(T))
      /\ ImagesOf(pu, u, F, Seq(T))
  BY <1>1, GatherParts
<1> HIDE DEF ps, pt, pu
<1>5. /\ ps \in Seq(Seq(T)) /\ Len(ps) = Len(s) /\ pt \in Seq(Seq(T)) /\ Len(pt) = Len(t)
      /\ pu \in Seq(Seq(T)) /\ Len(pu) = Len(u)
  BY <1>4 DEF ImagesOf
<1>6. /\ \A i \in 1 .. Len(s) : ps[i] = F[s[i]]
      /\ \A i \in 1 .. Len(t) : pt[i] = F[t[i]]
      /\ \A i \in 1 .. Len(u) : pu[i] = F[u[i]]
  BY <1>4 DEF ImagesOf
<1>7. /\ ps \o pt \in Seq(Seq(T)) /\ Len(ps \o pt) = Len(s) + Len(t)
      /\ \A i \in 1 .. Len(s) : (ps \o pt)[i] = ps[i]
      /\ \A i \in 1 .. Len(t) : (ps \o pt)[Len(s) + i] = pt[i]
  <2>1. \A a, b \in Seq(Seq(T)) :
           /\ a \o b \in Seq(Seq(T)) /\ Len(a \o b) = Len(a) + Len(b)
           /\ \A i \in 1 .. Len(a) : (a \o b)[i] = a[i]
           /\ \A i \in 1 .. Len(b) : (a \o b)[Len(a) + i] = b[i]
    BY ConcatOf
  <2>2. /\ ps \o pt \in Seq(Seq(T)) /\ Len(ps \o pt) = Len(ps) + Len(pt)
        /\ \A i \in 1 .. Len(ps) : (ps \o pt)[i] = ps[i]
        /\ \A i \in 1 .. Len(pt) : (ps \o pt)[Len(ps) + i] = pt[i]
    BY <1>5, <2>1
  <2> QED  BY <1>5, <2>2
<1>8. ASSUME NEW i \in 1 .. Len(pu) PROVE pu[i] = (ps \o pt)[i]
  <2>1. CASE i <= Len(s)
    <3>1. i \in 1 .. Len(s) /\ i \in 1 .. Len(u)
      BY <1>1, <1>5, <2>1
    <3>2. pu[i] = F[u[i]] /\ ps[i] = F[s[i]] /\ (ps \o pt)[i] = ps[i] /\ u[i] = s[i]
      BY <1>1, <1>6, <1>7, <3>1
    <3> QED  BY <3>2
  <2>2. CASE ~(i <= Len(s))
    <3> DEFINE j == i - Len(s)
    <3>1. j \in 1 .. Len(t) /\ i \in 1 .. Len(u) /\ Len(s) + j = i
      BY <1>1, <1>5, <2>2
    <3> HIDE DEF j
    <3>2. u[Len(s) + j] = t[j] /\ (ps \o pt)[Len(s) + j] = pt[j]
      BY <1>1, <1>7, <3>1
    <3> QED  BY <1>6, <3>1, <3>2
  <2> QED  BY <2>1, <2>2
<1>9. pu = ps \o pt
  <2> DEFINE R == Seq(T)
             w == ps \o pt
  <2>1. pu \in Seq(R) /\ w \in Seq(R) /\ Len(pu) = Len(w)
    BY <1>1, <1>5, <1>7
  <2>2. \A i \in 1 .. Len(pu) : pu[i] = w[i]
    BY <1>8
  <2> HIDE DEF R, w
  <2>3. pu = w
    BY <2>1, <2>2, SeqEqual
  <2> QED  BY <2>3 DEF w
<1>10. FlattenSeq(ps \o pt) = FlattenSeq(ps) \o FlattenSeq(pt)
  BY <1>5, FlattenConcat
<1> QED  BY <1>9, <1>10 DEF Gather, ps, pt, pu, u

\* What is gathered when an element was appended.
LEMMA GatherAppend ==
  ASSUME NEW S, NEW T, NEW seq \in Seq(S), NEW x \in S, NEW F \in [S -> Seq(T)]
  PROVE  Gather(Append(seq, x), F) = Gather(seq, F) \o F[x]
<1>1. Append(seq, x) = seq \o << x >> /\ << x >> \in Seq(S)
  BY AppendIsConcat
<1>2. \A t \in Seq(S) : Gather(seq \o t, F) = Gather(seq, F) \o Gather(t, F)
  BY GatherConcat
<1>3. Gather(<< x >>, F) = F[x]
  BY GatherOne
<1> QED  BY <1>1, <1>2, <1>3

\* What is gathered from the first element and from the others.
LEMMA GatherFirst ==
  ASSUME NEW S, NEW T, NEW seq \in Seq(S), seq # << >>, NEW F \in [S -> Seq(T)]
  PROVE  /\ Head(seq) \in S /\ Tail(seq) \in Seq(S)
         /\ Gather(seq, F) = F[Head(seq)] \o Gather(Tail(seq), F)
<1>1. Head(seq) \in S /\ Tail(seq) \in Seq(S)
  BY HeadTailProperties
<1>2. seq = << Head(seq) >> \o Tail(seq) /\ << Head(seq) >> \in Seq(S)
  <2>1. Len(seq) \in Nat /\ Len(seq) >= 1 /\ DOMAIN seq = 1 .. Len(seq)
    <3>1. Len(seq) \in Nat \ {0}
      BY EmptySeq
    <3> QED  BY <3>1, PlacesFinite
  <2>2. << Head(seq) >> \in Seq(S) /\ Len(<< Head(seq) >>) = 1 /\ << Head(seq) >>[1] = seq[1]
    BY <1>1
  <2>3. Len(Tail(seq)) = Len(seq) - 1 /\ \A i \in 1 .. Len(Tail(seq)) : Tail(seq)[i] = seq[i + 1]
    BY HeadTailProperties
  <2> DEFINE h == << Head(seq) >>
             t == Tail(seq)
             u == h \o t
  <2>4. h \in Seq(S) /\ t \in Seq(S)
    BY <1>1, <2>2
  <2> HIDE DEF h, t
  <2>5. /\ u \in Seq(S) /\ Len(u) = Len(h) + Len(t)
        /\ \A i \in 1 .. Len(h) : u[i] = h[i]
        /\ \A i \in 1 .. Len(t) : u[Len(h) + i] = t[i]
    BY <2>4, ConcatOf
  <2> HIDE DEF u
  <2>6. Len(u) = Len(seq)
    BY <2>1, <2>2, <2>3, <2>5 DEF h, t
  <2>7. ASSUME NEW i \in 1 .. Len(seq) PROVE seq[i] = u[i]
    <3>1. CASE i = 1
      BY <2>2, <2>5, <3>1 DEF h
    <3>2. CASE i # 1
      <4> DEFINE j == i - 1
      <4>1. j \in 1 .. Len(t) /\ 1 + j = i /\ j + 1 = i
        BY <2>1, <2>3, <3>2 DEF t
      <4> HIDE DEF j
      <4>2. u[Len(h) + j] = t[j] /\ t[j] = seq[j + 1]
        BY <2>3, <2>5, <4>1 DEF t
      <4>3. Len(h) = 1
        BY <2>2 DEF h
      <4> QED  BY <4>1, <4>2, <4>3
    <3> QED  BY <3>1, <3>2
  <2>8. seq = u
    BY <2>5, <2>6, <2>7, SeqEqual
  <2> QED  BY <2>2, <2>8 DEF u, h, t
<1>3. \A s, t \in Seq(S) : Gather(s \o t, F) = Gather(s, F) \o Gather(t, F)
  BY GatherConcat
<1>4. Gather(<< Head(seq) >>, F) = F[Head(seq)]
  BY <1>1, GatherOne
<1> QED  BY <1>1, <1>2, <1>3, <1>4

\* What keeps every element keeps the sequence.
LEMMA GatherAll ==
  ASSUME NEW S, NEW seq \in Seq(S), NEW F, \A i \in DOMAIN seq : F[seq[i]] = << seq[i] >>
  PROVE  Gather(seq, F) = seq
<1>1. Parts(seq, F) = [i \in DOMAIN seq |-> << seq[i] >>]
  BY DEF Parts
<1> QED  BY <1>1, FlattenSingles DEF Gather

\* An element of which nothing is made can be put in anywhere.
LEMMA GatherInsert ==
  ASSUME NEW S, NEW T, NEW seq \in Seq(S), NEW i \in 1 .. Len(seq) + 1, NEW e \in S,
         NEW F \in [S -> Seq(T)], F[e] = << >>
  PROVE  Gather(InsertAt(seq, i, e), F) = Gather(seq, F)
<1> DEFINE front == SubSeq(seq, 1, i - 1)
           back  == SubSeq(seq, i, Len(seq))
<1>1. Len(seq) \in Nat /\ DOMAIN seq = 1 .. Len(seq) /\ \A k \in DOMAIN seq : seq[k] \in S
  BY PlacesFinite
<1>2. front \in Seq(S) /\ back \in Seq(S)
  <2>1. /\ \A k \in 1 .. i - 1 : seq[k] \in S
        /\ \A k \in i .. Len(seq) : seq[k] \in S
    BY <1>1
  <2> QED  BY <1>1, <2>1, SubSeqProperties
<1>3. InsertAt(seq, i, e) = (front \o << e >>) \o back
  BY DEF InsertAt
<1>4. front \o back = seq
  <2>1. /\ 1 \in 1 .. Len(seq) + 1 /\ i - 1 \in 1 - 1 .. Len(seq) /\ Len(seq) \in i - 1 .. Len(seq)
        /\ (i - 1) + 1 = i
    BY <1>1
  <2>2. SubSeq(seq, 1, i - 1) \o SubSeq(seq, (i - 1) + 1, Len(seq)) = SubSeq(seq, 1, Len(seq))
    BY <2>1, ConcatAdjacentSubSeq
  <2> QED  BY <2>1, <2>2, SubSeqFull
<1> HIDE DEF front, back
<1>5. /\ << e >> \in Seq(S)
      /\ front \o << e >> \in Seq(S)
  BY <1>2
<1>6. \A s, t \in Seq(S) : Gather(s \o t, F) = Gather(s, F) \o Gather(t, F)
  BY GatherConcat
<1>7. Gather(<< e >>, F) = << >> /\ Gather(front, F) \in Seq(T)
  BY <1>2, GatherOne, GatherOf
<1>8. Gather(front \o << e >>, F) = Gather(front, F)
  <2>1. Gather(front \o << e >>, F) = Gather(front, F) \o Gather(<< e >>, F)
    BY <1>2, <1>5, <1>6
  <2>2. Gather(front, F) \o << >> = Gather(front, F)
    BY <1>7, ConcatEmptySeq
  <2> QED  BY <1>7, <2>1, <2>2
<1>9. Gather((front \o << e >>) \o back, F) = Gather(front \o << e >>, F) \o Gather(back, F)
  BY <1>2, <1>5, <1>6
<1>10. Gather(front \o back, F) = Gather(front, F) \o Gather(back, F)
  BY <1>2, <1>6
<1> QED  BY <1>3, <1>4, <1>8, <1>9, <1>10

\* H makes of an element what G makes of what F makes of it.
Composed(H, G, F, S, T, U) ==
    /\ F \in [S -> Seq(T)] /\ G \in [T -> Seq(U)] /\ H \in [S -> Seq(U)]
    /\ \A x \in S : H[x] = Gather(F[x], G)

\* To gather from what was gathered is to gather at once.
LEMMA GatherTwice ==
  ASSUME NEW S, NEW T, NEW U, NEW seq \in Seq(S), NEW F, NEW G, NEW H,
         Composed(H, G, F, S, T, U)
  PROVE  Gather(Gather(seq, F), G) = Gather(seq, H)
<1> DEFINE parts == Parts(seq, F)
           wholes == Parts(seq, H)
           n     == Len(seq)
<1>1. n \in Nat /\ DOMAIN seq = 1 .. n /\ \A i \in DOMAIN seq : seq[i] \in S
  BY PlacesFinite
<1>2. parts \in Seq(Seq(T)) /\ Len(parts) = n /\ \A i \in 1 .. n : parts[i] = F[seq[i]]
  <2>1. ImagesOf(parts, seq, F, Seq(T))
    BY GatherParts DEF Composed
  <2> QED  BY <2>1 DEF ImagesOf
<1>3. /\ H \in [S -> Seq(U)] /\ G \in [T -> Seq(U)]
      /\ \A x \in S : H[x] = Gather(F[x], G)
  BY DEF Composed
<1>4. wholes \in Seq(Seq(U)) /\ Len(wholes) = n /\ \A i \in 1 .. n : wholes[i] = H[seq[i]]
  <2>1. ImagesOf(wholes, seq, H, Seq(U))
    BY <1>3, GatherParts
  <2> QED  BY <2>1 DEF ImagesOf
<1>5. \A i \in 1 .. n : wholes[i] = Gather(parts[i], G) /\ parts[i] \in Seq(T)
  BY <1>1, <1>2, <1>3, <1>4
<1>6. wholes \in Seq(Seq(U)) /\ Len(wholes) = n
  BY <1>3, <1>4
<1> HIDE DEF parts, wholes, n
<1>7. PICK g : /\ JoinedBy(parts, g) /\ FlattenSeq(parts) = g[Len(parts)]
               /\ \A i \in 0 .. Len(parts) : g[i] \in Seq(T)
  BY <1>2, FlattenSteps
<1> DEFINE h == [i \in 0 .. n |-> Gather(g[i], G)]
<1>8. \A i \in 0 .. n : h[i] = Gather(g[i], G)
  OBVIOUS
<1> HIDE DEF h
<1>9. ASSUME NEW i \in 1 .. n PROVE h[i] = h[i - 1] \o wholes[i]
  <2>1. i \in 0 .. n /\ i - 1 \in 0 .. n
    BY <1>1
  <2>2. g[i] = g[i - 1] \o parts[i] /\ g[i - 1] \in Seq(T)
    BY <1>2, <1>7, <2>1 DEF JoinedBy
  <2>3. \A s, t \in Seq(T) : Gather(s \o t, G) = Gather(s, G) \o Gather(t, G)
    BY <1>3, GatherConcat
  <2>4. Gather(g[i], G) = Gather(g[i - 1], G) \o Gather(parts[i], G)
    BY <1>5, <2>2, <2>3
  <2> QED  BY <1>5, <1>8, <2>1, <2>4
<1>10. h[0] = << >>
  <2>1. 0 \in 0 .. n
    BY <1>1
  <2> QED  BY <1>7, <1>8, <2>1, GatherNone DEF JoinedBy
<1>11. JoinedBy(wholes, h)
  BY <1>6, <1>9, <1>10 DEF JoinedBy
<1>12. FlattenSeq(wholes) = h[n]
  BY <1>6, <1>11, FlattenIs
<1>13. h[n] = Gather(FlattenSeq(parts), G)
  <2>1. n \in 0 .. n
    BY <1>1
  <2> QED  BY <1>2, <1>7, <1>8, <2>1
<1> QED  BY <1>12, <1>13 DEF Gather, parts, wholes

\* G makes of what F made of an element this element again.
Undoes(G, F, S, T) == F \in [S -> T] /\ \A x \in S : G[F[x]] = << x >>

\* What was made of each element can be undone.
LEMMA GatherBack ==
  ASSUME NEW S, NEW T, NEW seq \in Seq(S), NEW F, NEW G, Undoes(G, F, S, T)
  PROVE  Parts(seq, F) \in Seq(T) /\ Gather(Parts(seq, F), G) = seq
<1>1. ImagesOf(Parts(seq, F), seq, F, T)
  BY GatherParts DEF Undoes
<1> DEFINE images == Parts(seq, F)
<1>2. images \in Seq(T) /\ Len(images) = Len(seq) /\ \A i \in 1 .. Len(seq) : images[i] = F[seq[i]]
  BY <1>1 DEF ImagesOf
<1>3. DOMAIN seq = 1 .. Len(seq) /\ \A i \in DOMAIN seq : seq[i] \in S
  BY PlacesFinite
<1> HIDE DEF images
<1>4. DOMAIN images = DOMAIN seq
  BY <1>2, <1>3, PlacesFinite
<1>5. Parts(images, G) = [i \in DOMAIN seq |-> << seq[i] >>]
  BY <1>2, <1>3, <1>4 DEF Parts, Undoes
<1>6. Gather(images, G) = seq
  BY <1>5, FlattenSingles DEF Gather
<1> QED  BY <1>2, <1>6 DEF images

\* An element can be replaced by one of which the same is made.
LEMMA GatherReplaced ==
  ASSUME NEW S, NEW seq \in Seq(S), NEW k \in DOMAIN seq, NEW e, NEW F, F[e] = F[seq[k]]
  PROVE  Gather([seq EXCEPT ![k] = e], F) = Gather(seq, F)
<1>1. Parts([seq EXCEPT ![k] = e], F) = Parts(seq, F)
  BY DEF Parts
<1> QED  BY <1>1 DEF Gather

\* The elements of a sequence may be seen as members of a larger set.
LEMMA SeqSubset ==
  ASSUME NEW S, NEW T, S \subseteq T
  PROVE  Seq(S) \subseteq Seq(T)
<1> SUFFICES ASSUME NEW seq \in Seq(S) PROVE seq \in Seq(T)
  OBVIOUS
<1>1. Len(seq) \in Nat /\ DOMAIN seq = 1 .. Len(seq) /\ \A i \in DOMAIN seq : seq[i] \in S
  BY PlacesFinite
<1>2. seq \in [1 .. Len(seq) -> S]
  BY LenProperties
<1>3. seq \in [1 .. Len(seq) -> T]
  BY <1>2
<1> QED  BY <1>1, <1>3, FunctionSeq

\* A sequence is a prefix of what continues it.
LEMMA ConcatPrefix ==
  ASSUME NEW S, NEW s \in Seq(S), NEW t \in Seq(S)
  PROVE  Len(s) <= Len(s \o t) /\ IsPrefix(s, s \o t)
<1> DEFINE u == s \o t
<1>1. /\ u \in Seq(S) /\ Len(s) \in Nat /\ Len(t) \in Nat /\ Len(u) = Len(s) + Len(t)
      /\ \A i \in 1 .. Len(s) : u[i] = s[i]
  BY ConcatOf
<1> HIDE DEF u
<1>2. Len(s) <= Len(u)
  BY <1>1
<1> DEFINE front == SubSeq(u, 1, Len(s))
<1>3. DOMAIN u = 1 .. Len(u) /\ \A i \in DOMAIN u : u[i] \in S
  BY <1>1, PlacesFinite
<1>4. \A i \in 1 .. Len(s) : u[i] \in S
  BY <1>1, <1>2, <1>3
<1>5. front \in Seq(S) /\ Len(front) = Len(s) /\ \A i \in 1 .. Len(s) : front[i] = u[i]
  BY <1>1, <1>4, SubSeqProperties
<1> HIDE DEF front
<1>6. front = s
  BY <1>1, <1>5, SeqEqual
<1>7. SubSeq(s, 1, Len(s)) = s
  BY SubSeqFull
<1> QED  BY <1>2, <1>6, <1>7 DEF IsPrefix, front, u

\* A sequence is its first k elements and the others.
LEMMA SplitAt ==
  ASSUME NEW S, NEW s \in Seq(S), NEW k \in 0 .. Len(s)
  PROVE  /\ SubSeq(s, 1, k) \in Seq(S) /\ SubSeq(s, k + 1, Len(s)) \in Seq(S)
         /\ s = SubSeq(s, 1, k) \o SubSeq(s, k + 1, Len(s))
         /\ k = Len(s) => SubSeq(s, k + 1, Len(s)) = << >>
<1> DEFINE front == SubSeq(s, 1, k)
           back  == SubSeq(s, k + 1, Len(s))
<1>1. Len(s) \in Nat /\ \A i \in 1 .. Len(s) : s[i] \in S
  BY PlacesFinite
<1>2. /\ front \in Seq(S) /\ Len(front) = k
      /\ \A i \in 1 .. k : front[i] = s[i]
  BY <1>1, SubSeqProperties
<1>3. /\ back \in Seq(S) /\ Len(back) = Len(s) - k
      /\ \A i \in 1 .. Len(s) - k : back[i] = s[k + i]
  BY <1>1, SubSeqProperties
<1> HIDE DEF front, back
<1>4. /\ front \o back \in Seq(S) /\ Len(front \o back) = Len(s)
      /\ \A i \in 1 .. k : (front \o back)[i] = front[i]
      /\ \A i \in 1 .. Len(s) - k : (front \o back)[k + i] = back[i]
  BY <1>1, <1>2, <1>3, ConcatOf
<1> DEFINE whole == front \o back
<1> HIDE DEF whole
<1>5. ASSUME NEW i \in 1 .. Len(s) PROVE s[i] = whole[i]
  <2>1. CASE i <= k
    <3>1. i \in 1 .. k
      BY <1>1, <2>1
    <3> QED  BY <1>2, <1>4, <3>1 DEF whole
  <2>2. CASE i > k
    <3> DEFINE j == i - k
    <3>1. j \in 1 .. Len(s) - k /\ k + j = i
      BY <1>1, <2>2
    <3> HIDE DEF j
    <3> QED  BY <1>3, <1>4, <3>1 DEF whole
  <2> QED  BY <1>1, <2>1, <2>2
<1>6. s = whole
  BY <1>4, <1>5, SeqEqual DEF whole
<1>7. k = Len(s) => back = << >>
  BY <1>1, <1>3, EmptySeq
<1> QED  BY <1>2, <1>3, <1>6, <1>7 DEF whole, front, back

\* One element and what follows it.
LEMMA FirstAndRest ==
  ASSUME NEW S, NEW x \in S, NEW t \in Seq(S)
  PROVE  << x >> \o t # << >> /\ Head(<< x >> \o t) = x /\ Tail(<< x >> \o t) = t
<1> DEFINE h == << x >>
           u == h \o t
<1>1. h \in Seq(S) /\ Len(h) = 1 /\ h[1] = x
  OBVIOUS
<1>2. Len(t) \in Nat
  BY PlacesFinite
<1> HIDE DEF h
<1>3. /\ u \in Seq(S) /\ Len(u) = 1 + Len(t)
      /\ \A i \in 1 .. Len(h) : u[i] = h[i]
      /\ \A i \in 1 .. Len(t) : u[Len(h) + i] = t[i]
  <2>1. h \in Seq(S)
    BY <1>1
  <2>2. /\ u \in Seq(S) /\ Len(u) = Len(h) + Len(t)
        /\ \A i \in 1 .. Len(h) : u[i] = h[i]
        /\ \A i \in 1 .. Len(t) : u[Len(h) + i] = t[i]
    BY <2>1, ConcatOf
  <2> QED  BY <1>1, <2>2
<1> HIDE DEF u
<1>4. u # << >>
  BY <1>2, <1>3, EmptySeq
<1>5. /\ Head(u) = u[1] /\ Tail(u) \in Seq(S) /\ Len(Tail(u)) = Len(t)
      /\ \A i \in 1 .. Len(t) : Tail(u)[i] = u[i + 1]
  <2>1. /\ Tail(u) \in Seq(S) /\ Len(Tail(u)) = Len(u) - 1
        /\ \A i \in 1 .. Len(Tail(u)) : Tail(u)[i] = u[i + 1]
    BY <1>3, <1>4, HeadTailProperties
  <2> QED  BY <1>2, <1>3, <2>1
<1>6. \A i \in 1 .. Len(t) : Tail(u)[i] = t[i]
  <2> SUFFICES ASSUME NEW i \in 1 .. Len(t) PROVE Tail(u)[i] = t[i]
    OBVIOUS
  <2>1. i + 1 = 1 + i
    OBVIOUS
  <2> QED  BY <1>1, <1>3, <1>5, <2>1
<1>7. Tail(u) = t
  BY <1>5, <1>6, SeqEqual
<1> QED  BY <1>1, <1>3, <1>4, <1>5, <1>7 DEF u, h

\* Four sequences, one after the other.
Chained(a, b, c, d) == a \o (b \o (c \o d))

\* Concatenations may be made in any order.
Regrouped(s, t, u) == (s \o t) \o u = s \o (t \o u)

\* Concatenation is associative, in the form that the next lemma needs.
LEMMA ConcatRegrouped ==
  ASSUME NEW S, NEW s \in Seq(S), NEW t \in Seq(S), NEW u \in Seq(S)
  PROVE  Regrouped(s, t, u)
<1> QED  BY ConcatAssociative DEF Regrouped

\* What is at the end of one of four sequences can be moved to the next, and
\* what follows them is put at the end of the last.
Movable(a, b, c, d, e) ==
    /\ Chained(a \o e, b, c, d) = Chained(a, e \o b, c, d)
    /\ Chained(a, b \o e, c, d) = Chained(a, b, e \o c, d)
    /\ Chained(a, b, c \o e, d) = Chained(a, b, c, e \o d)
    /\ Chained(a, b, c, d) \o e = Chained(a, b, c, d \o e)

\* Four sequences of the same elements can be moved along in this way.
LEMMA ChainedMoves ==
  ASSUME NEW S, NEW a \in Seq(S), NEW b \in Seq(S), NEW c \in Seq(S), NEW d \in Seq(S),
         NEW e \in Seq(S)
  PROVE  Movable(a, b, c, d, e) /\ Chained(a, b, c, d) \in Seq(S)
<1> DEFINE cd  == c \o d
           bcd == b \o cd
<1>1. cd \in Seq(S)
  BY ConcatProperties
<1>2. bcd \in Seq(S)
  <2> HIDE DEF cd
  <2> QED  BY <1>1, ConcatProperties
<1> HIDE DEF cd, bcd
<1>3. /\ Regrouped(a, e, bcd) /\ Regrouped(e, b, cd) /\ Regrouped(b, e, cd)
      /\ Regrouped(e, c, d) /\ Regrouped(c, e, d)
      /\ Regrouped(a, bcd, e) /\ Regrouped(b, cd, e) /\ Regrouped(c, d, e)
  BY <1>1, <1>2, ConcatRegrouped
<1>4. /\ (a \o e) \o bcd = a \o (e \o bcd) /\ (e \o b) \o cd = e \o (b \o cd)
      /\ (b \o e) \o cd = b \o (e \o cd)   /\ (e \o c) \o d = e \o (c \o d)
      /\ (c \o e) \o d = c \o (e \o d)
      /\ (a \o bcd) \o e = a \o (bcd \o e) /\ (b \o cd) \o e = b \o (cd \o e)
      /\ (c \o d) \o e = c \o (d \o e)
  BY <1>3 DEF Regrouped
<1>5. cd = c \o d /\ bcd = b \o cd
  BY DEF cd, bcd
<1>6. a \o bcd \in Seq(S)
  BY <1>2, ConcatProperties
<1> QED  BY <1>4, <1>5, <1>6, Zenon DEF Chained, Movable

\* Flattening the first of some sequences and then the others.
LEMMA FlattenFirst ==
  ASSUME NEW T, NEW seqs \in Seq(Seq(T)), seqs # << >>
  PROVE  /\ Head(seqs) \in Seq(T) /\ Tail(seqs) \in Seq(Seq(T))
         /\ FlattenSeq(seqs) = Head(seqs) \o FlattenSeq(Tail(seqs))
<1> DEFINE S == Seq(T)
           Same == [s \in S |-> s]
<1>1. Same \in [S -> Seq(T)] /\ \A s \in S : Same[s] = s
  OBVIOUS
<1> HIDE DEF Same
<1>2. ASSUME NEW u \in Seq(S) PROVE Gather(u, Same) = FlattenSeq(u)
  <2>1. ImagesOf(Parts(u, Same), u, Same, S)
    BY <1>1, GatherParts
  <2>2. /\ Parts(u, Same) \in Seq(S) /\ Len(Parts(u, Same)) = Len(u)
        /\ \A i \in 1 .. Len(u) : Parts(u, Same)[i] = Same[u[i]]
    BY <2>1 DEF ImagesOf
  <2>3. DOMAIN u = 1 .. Len(u) /\ \A i \in DOMAIN u : u[i] \in S
    BY PlacesFinite
  <2> DEFINE parts == Parts(u, Same)
  <2> HIDE DEF S, parts
  <2>4. \A i \in 1 .. Len(parts) : parts[i] = u[i]
    BY <1>1, <2>2, <2>3 DEF parts
  <2>5. parts = u
    BY <2>2, <2>4, SeqEqual DEF parts
  <2> QED  BY <2>5 DEF Gather, parts
<1>3. Head(seqs) \in S /\ Tail(seqs) \in Seq(S)
  BY HeadTailProperties
<1>4. Gather(seqs, Same) = Same[Head(seqs)] \o Gather(Tail(seqs), Same)
  <2> HIDE DEF S
  <2>1. seqs \in Seq(S)
    BY DEF S
  <2> QED  BY <1>1, <2>1, GatherFirst DEF S
<1> QED  BY <1>1, <1>2, <1>3, <1>4

\* Nothing is gathered where nothing is made of any element.
LEMMA GatherSilent ==
  ASSUME NEW S, NEW seq \in Seq(S), NEW F, \A x \in S : F[x] = << >>
  PROVE  Gather(seq, F) = << >>
<1> DEFINE parts == Parts(seq, F)
           g == [i \in 0 .. Len(seq) |-> << >>]
<1>1. /\ Len(seq) \in Nat /\ DOMAIN seq = 1 .. Len(seq)
      /\ \A i \in 1 .. Len(seq) : F[seq[i]] = << >>
  BY PlacesFinite
<1>2. parts = [i \in 1 .. Len(seq) |-> << >>]
  BY <1>1 DEF Parts
<1>3. << >> \in Seq({})
  OBVIOUS
<1>4. parts \in Seq(Seq({})) /\ Len(parts) = Len(seq) /\ \A i \in 1 .. Len(seq) : parts[i] = << >>
  <2>1. parts \in [1 .. Len(seq) -> Seq({})]
    BY <1>2, <1>3
  <2> HIDE DEF parts
  <2> QED  BY <1>1, <1>2, <2>1, FunctionSeq
<1> HIDE DEF parts
<1>5. JoinedBy(parts, g)
  <2>1. << >> \o << >> = << >>
    BY <1>3, ConcatEmptySeq
  <2>2. \A i \in 1 .. Len(seq) : g[i] = << >> /\ g[i - 1] = << >>
    BY <1>1
  <2>3. g[0] = << >>
    BY <1>1
  <2> HIDE DEF g
  <2> QED  BY <1>4, <2>1, <2>2, <2>3 DEF JoinedBy
<1>6. FlattenSeq(parts) = g[Len(seq)]
  <2> HIDE DEF g
  <2> QED  BY <1>4, <1>5, FlattenIs
<1> QED  BY <1>1, <1>6 DEF Gather, parts

\* An element is somewhere in a sequence.
Holds(s, x) == \E j \in DOMAIN s : s[j] = x

\* What one element is made into is among what is gathered.
LEMMA GatherHas ==
  ASSUME NEW S, NEW T, NEW seq \in Seq(S), NEW F \in [S -> Seq(T)],
         NEW i \in DOMAIN seq, NEW x, F[seq[i]] = << x >>
  PROVE  Holds(Gather(seq, F), x)
<1>1. Len(seq) \in Nat /\ i \in 1 .. Len(seq) /\ seq[i] \in S /\ << x >> \in Seq(T)
  BY PlacesFinite
<1> DEFINE front == SubSeq(seq, 1, i)
           back  == SubSeq(seq, i + 1, Len(seq))
           first == SubSeq(seq, 1, i - 1)
<1>2. front \in Seq(S) /\ back \in Seq(S) /\ seq = front \o back
  <2>1. i \in 0 .. Len(seq)
    BY <1>1
  <2> QED  BY <2>1, SplitAt
<1>3. first \in Seq(S) /\ front = first \o << seq[i] >>
  <2>1. i - 1 \in 0 .. Len(seq)
    BY <1>1
  <2>2. 1 \in 1 .. Len(seq)
    BY <1>1
  <2> QED  BY <1>1, <2>1, <2>2, SplitAt, SubSeqRecursiveSecond
<1> HIDE DEF front, back, first
<1> DEFINE gf == Gather(first, F)
           gb == Gather(back, F)
<1>4. << seq[i] >> \in Seq(S)
  BY <1>1
<1>5. Gather(seq, F) = (gf \o << x >>) \o gb
  <2>1. \A s, t \in Seq(S) : Gather(s \o t, F) = Gather(s, F) \o Gather(t, F)
    BY GatherConcat
  <2>2. Gather(seq, F) = Gather(front, F) \o gb
    BY <1>2, <2>1
  <2>3. Gather(front, F) = gf \o Gather(<< seq[i] >>, F)
    BY <1>3, <1>4, <2>1
  <2>4. Gather(<< seq[i] >>, F) = << x >>
    BY <1>1, GatherOne
  <2> QED  BY <2>2, <2>3, <2>4
<1>6. gf \in Seq(T) /\ gb \in Seq(T)
  BY <1>2, <1>3, GatherOf
<1> HIDE DEF gf, gb
<1>7. \A s, t \in Seq(T) : /\ s \o t \in Seq(T)
                           /\ Len(s) \in Nat /\ Len(t) \in Nat /\ Len(s \o t) = Len(s) + Len(t)
                           /\ \A k \in 1 .. Len(s) : (s \o t)[k] = s[k]
                           /\ \A k \in 1 .. Len(t) : (s \o t)[Len(s) + k] = t[k]
  BY ConcatOf
<1> DEFINE h == gf \o << x >>
           j == Len(gf) + 1
<1>8. h \in Seq(T) /\ Len(h) = j /\ h[j] = x /\ j \in Nat /\ j >= 1
  <2>1. Len(<< x >>) = 1 /\ << x >>[1] = x
    OBVIOUS
  <2>2. /\ gf \o << x >> \in Seq(T) /\ Len(gf) \in Nat /\ Len(gf \o << x >>) = Len(gf) + 1
        /\ \A k \in 1 .. 1 : (gf \o << x >>)[Len(gf) + k] = << x >>[k]
    BY <1>1, <1>6, <1>7, <2>1
  <2> QED  BY <2>1, <2>2
<1> HIDE DEF h, j
<1>9. h \o gb \in Seq(T) /\ j \in 1 .. Len(h \o gb) /\ (h \o gb)[j] = h[j]
  BY <1>6, <1>7, <1>8
<1>10. j \in DOMAIN (h \o gb) /\ (h \o gb)[j] = x
  BY <1>8, <1>9, PlacesFinite
<1>11. Gather(seq, F) = h \o gb
  BY <1>5 DEF h
<1>12. Holds(h \o gb, x)
  BY <1>10 DEF Holds
<1> QED  BY <1>11, <1>12

----------------------------------------------------------------------------
(* Going through a sequence step by step                                   *)

\* f holds what the first i elements lead to from a start, for every i from 0.
StepsBy(f, start, step, seq) ==
    f[0] = start /\ \A i \in 1 .. Len(seq) : f[i] = step[<< f[i - 1], seq[i] >>]

\* Whatever the steps are, such a function exists.
LEMMA StepsExist ==
  ASSUME NEW T, NEW R, NEW start \in T, NEW step \in [T \X R -> T], NEW seq \in Seq(R)
  PROVE  \E f \in [0 .. Len(seq) -> T] : StepsBy(f, start, step, seq)
<1> DEFINE n == Len(seq)
           Up(k) == \E f \in [0 .. k -> T] :
                       f[0] = start /\ \A i \in 1 .. k : f[i] = step[<< f[i - 1], seq[i] >>]
           K == { k \in Nat : k <= n => Up(k) }
<1>1. n \in Nat /\ \A i \in 1 .. n : seq[i] \in R
  BY PlacesFinite
<1> HIDE DEF n
<1>2. 0 \in K
  <2> DEFINE f == [i \in 0 .. 0 |-> start]
  <2>1. f \in [0 .. 0 -> T] /\ f[0] = start /\ \A i \in 1 .. 0 : f[i] = step[<< f[i - 1], seq[i] >>]
    OBVIOUS
  <2> QED  BY <2>1
<1>3. ASSUME NEW k \in Nat, k \in K PROVE k + 1 \in K
  <2> SUFFICES ASSUME k + 1 <= n PROVE Up(k + 1)
    OBVIOUS
  <2>1. PICK f \in [0 .. k -> T] :
          f[0] = start /\ \A i \in 1 .. k : f[i] = step[<< f[i - 1], seq[i] >>]
    BY <1>1, <1>3
  <2> DEFINE g == [i \in 0 .. k + 1 |-> IF i = k + 1 THEN step[<< f[k], seq[k + 1] >>] ELSE f[i]]
  <2>2. f[k] \in T /\ seq[k + 1] \in R
    BY <1>1, <2>1
  <2>3. step[<< f[k], seq[k + 1] >>] \in T
    BY <2>2
  <2>4. g \in [0 .. k + 1 -> T]
    BY <2>1, <2>3
  <2>5. g[0] = start
    BY <2>1
  <2>6. ASSUME NEW i \in 1 .. k + 1 PROVE g[i] = step[<< g[i - 1], seq[i] >>]
    <3>1. CASE i = k + 1
      <4>1. g[i] = step[<< f[k], seq[k + 1] >>] /\ g[i - 1] = f[k]
        BY <3>1
      <4> QED  BY <3>1, <4>1
    <3>2. CASE i # k + 1
      <4>1. i \in 1 .. k /\ g[i] = f[i] /\ g[i - 1] = f[i - 1]
        BY <3>2
      <4> QED  BY <2>1, <4>1
    <3> QED  BY <3>1, <3>2
  <2> HIDE DEF g
  <2> QED  BY <2>4, <2>5, <2>6
<1>4. n \in K
  <2> HIDE DEF K
  <2> QED  BY <1>1, <1>2, <1>3, NaturalInduction
<1>5. Up(n)
  BY <1>1, <1>4
<1> QED  BY <1>5 DEF StepsBy, n

\* And its values are in every set that the steps do not leave.
LEMMA StepsStay ==
  ASSUME NEW n \in Nat, NEW T, NEW f, f[0] \in T,
         \A i \in 1 .. n : f[i - 1] \in T => f[i] \in T
  PROVE  \A i \in 0 .. n : f[i] \in T
<1> DEFINE K == { k \in Nat : k <= n => f[k] \in T }
<1>1. 0 \in K
  OBVIOUS
<1>2. ASSUME NEW k \in Nat, k \in K PROVE k + 1 \in K
  <2> SUFFICES ASSUME k + 1 <= n PROVE f[k + 1] \in T
    OBVIOUS
  <2>1. f[k] \in T /\ k + 1 \in 1 .. n /\ (k + 1) - 1 = k
    BY <1>2
  <2> QED  BY <2>1
<1>3. \A k \in Nat : k \in K
  <2> HIDE DEF K
  <2> QED  BY <1>1, <1>2, NaturalInduction
<1> QED  BY <1>3
==============================================================================
