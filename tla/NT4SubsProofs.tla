--------------------------- MODULE NT4SubsProofs ---------------------------
(***************************************************************************)
(* Subscriptions, the tasks that serve them and the messages that the      *)
(* server sends, for any number of clients and topics: every variable has  *)
(* its type, a subscription is matched only with topics the client has an  *)
(* id for, and a subscription with its own period has a running loop.      *)
(***************************************************************************)
EXTENDS NT4Proofs

----------------------------------------------------------------------------
(* Reading messages                                                        *)

\* What a client knows after each set of the first k messages.
Learnt(known, msgs, k, it) ==
    it = [s \in SUBSET (1 .. k) |-> IF s = {} THEN known
                                    ELSE Learn(it[s \ {Max(s)}], msgs[Max(s)])]

\* The fold that Replay stands for exists.
LEMMA LearntExists ==
  ASSUME NEW known, NEW msgs, NEW n \in Nat
  PROVE  \E it : Learnt(known, msgs, n, it)
<1> DEFINE T == { k \in Nat : \E it : Learnt(known, msgs, k, it) }
<1>1. 0 \in T
  <2>1. Learnt(known, msgs, 0, [s \in SUBSET (1 .. 0) |-> known])
    <3>1. SUBSET (1 .. 0) = {{}}
      OBVIOUS
    <3> QED  BY <3>1 DEF Learnt
  <2> QED  BY <2>1
<1>2. ASSUME NEW k \in Nat, k \in T PROVE k + 1 \in T
  <2>1. PICK it : Learnt(known, msgs, k, it)
    BY <1>2
  <2>2. \A s \in SUBSET (1 .. k) :
           it[s] = IF s = {} THEN known ELSE Learn(it[s \ {Max(s)}], msgs[Max(s)])
    <3>1. \A F : F = [s \in SUBSET (1 .. k) |-> IF s = {} THEN known
                                    ELSE Learn(F[s \ {Max(s)}], msgs[Max(s)])] =>
             \A s \in SUBSET (1 .. k) :
                F[s] = IF s = {} THEN known ELSE Learn(F[s \ {Max(s)}], msgs[Max(s)])
      BY Zenon
    <3> QED  BY <2>1, <3>1, Zenon DEF Learnt
  <2> DEFINE g == [s \in SUBSET (1 .. k + 1) |->
                     IF s \in SUBSET (1 .. k) THEN it[s] ELSE Learn(it[s \ {k + 1}], msgs[k + 1])]
  <2>3. ASSUME NEW s \in SUBSET (1 .. k + 1)
        PROVE  g[s] = IF s = {} THEN known ELSE Learn(g[s \ {Max(s)}], msgs[Max(s)])
    <3>1. CASE s \in SUBSET (1 .. k)
      <4>1. s # {} => s \ {Max(s)} \in SUBSET (1 .. k) /\ s \ {Max(s)} \in SUBSET (1 .. k + 1)
        BY <3>1
      <4>2. g[s] = it[s] /\ (s # {} => g[s \ {Max(s)}] = it[s \ {Max(s)}])
        BY <3>1, <4>1
      <4> HIDE DEF g
      <4> QED  BY <2>2, <3>1, <4>2
    <3>2. CASE s \notin SUBSET (1 .. k)
      <4>1. k + 1 \in s /\ s # {}
        BY <3>2
      <4>2. Max(s) = k + 1
        <5>1. k + 1 \in Nat
          OBVIOUS
        <5>2. Max(s) \in s /\ k + 1 <= Max(s)
          BY <4>1, <5>1, LastPlace
        <5>3. Max(s) \in 1 .. k + 1
          BY <5>2
        <5> QED  BY <5>2, <5>3
      <4>3. s \ {k + 1} \in SUBSET (1 .. k) /\ s \ {k + 1} \in SUBSET (1 .. k + 1)
        OBVIOUS
      <4>4. g[s] = Learn(it[s \ {k + 1}], msgs[k + 1]) /\ g[s \ {k + 1}] = it[s \ {k + 1}]
        BY <3>2, <4>3
      <4> HIDE DEF g
      <4> QED  BY <4>1, <4>2, <4>4
    <3> QED  BY <3>1, <3>2
  <2>4. Learnt(known, msgs, k + 1, g)
    BY <2>3 DEF Learnt
  <2> HIDE DEF g
  <2> QED  BY <2>4
<1> HIDE DEF T
<1>3. n \in T
  BY <1>1, <1>2, NaturalInduction
<1> QED  BY <1>3 DEF T

\* f holds what a client knows after each of some messages, in their order.
LearnsBy(known, msgs, f) ==
    f[0] = known /\ \A i \in 1 .. Len(msgs) : f[i] = Learn(f[i - 1], msgs[i])

\* Replay learns from one message after the other.
LEMMA ReplaySteps ==
  ASSUME NEW S, NEW known, NEW msgs \in Seq(S)
  PROVE  \E f : LearnsBy(known, msgs, f) /\ Replay(known, msgs) = f[Len(msgs)]
<1> DEFINE n == Len(msgs)
           it == CHOOSE it : Learnt(known, msgs, n, it)
           f  == [i \in 0 .. n |-> it[1 .. i]]
<1>1. n \in Nat /\ DOMAIN msgs = 1 .. n
  BY PlacesFinite
<1>2. Replay(known, msgs) = it[1 .. n]
  <2>1. Replay(known, msgs) =
          (CHOOSE iter : iter = [s \in SUBSET (DOMAIN msgs) |->
              IF s = {} THEN known ELSE Learn(iter[s \ {Max(s)}], msgs[Max(s)])])[DOMAIN msgs]
    BY Zenon DEF Replay, FoldLeft, MapThenFoldSet
  <2> QED  BY <1>1, <2>1, Zenon DEF Learnt
<1>3. Learnt(known, msgs, n, it)
  BY <1>1, LearntExists
<1> HIDE DEF it, n
<1>4. \A s \in SUBSET (1 .. n) :
         it[s] = IF s = {} THEN known ELSE Learn(it[s \ {Max(s)}], msgs[Max(s)])
  <2>1. \A F : F = [s \in SUBSET (1 .. n) |-> IF s = {} THEN known
                                  ELSE Learn(F[s \ {Max(s)}], msgs[Max(s)])] =>
           \A s \in SUBSET (1 .. n) :
              F[s] = IF s = {} THEN known ELSE Learn(F[s \ {Max(s)}], msgs[Max(s)])
    BY Zenon
  <2> QED  BY <1>3, <2>1, Zenon DEF Learnt
<1>5. f[0] = known
  <2>1. 1 .. 0 = {} /\ f[0] = it[1 .. 0] /\ {} \in SUBSET (1 .. n)
    BY <1>1
  <2> HIDE DEF f
  <2> QED  BY <1>4, <2>1
<1>6. ASSUME NEW i \in 1 .. n PROVE f[i] = Learn(f[i - 1], msgs[i])
  <2>1. f[i] = it[1 .. i] /\ f[i - 1] = it[1 .. i - 1]
    BY <1>1
  <2>2. 1 .. i \in SUBSET (1 .. n) /\ 1 .. i # {} /\ (1 .. i) \ {i} = 1 .. i - 1
    BY <1>1
  <2>3. Max(1 .. i) = i
    <3>1. i \in Nat /\ 1 .. i \in SUBSET (1 .. i) /\ i \in 1 .. i
      BY <1>1
    <3>2. Max(1 .. i) \in 1 .. i /\ i <= Max(1 .. i)
      BY <2>2, <3>1, LastPlace
    <3> QED  BY <3>2
  <2> HIDE DEF f
  <2> QED  BY <1>4, <2>1, <2>2, <2>3
<1>7. Replay(known, msgs) = f[n]
  BY <1>1, <1>2
<1> HIDE DEF f
<1>8. LearnsBy(known, msgs, f) /\ Replay(known, msgs) = f[Len(msgs)]
  BY <1>5, <1>6, <1>7 DEF LearnsBy, n
<1> QED  BY <1>8

\* There is one way to learn from messages one after the other.
LEMMA ReplayIs ==
  ASSUME NEW S, NEW known, NEW msgs \in Seq(S), NEW g, LearnsBy(known, msgs, g)
  PROVE  Replay(known, msgs) = g[Len(msgs)]
<1>1. PICK f : LearnsBy(known, msgs, f) /\ Replay(known, msgs) = f[Len(msgs)]
  BY ReplaySteps
<1> DEFINE T == { k \in Nat : k <= Len(msgs) => f[k] = g[k] }
<1>2. Len(msgs) \in Nat
  BY PlacesFinite
<1>3. 0 \in T
  BY <1>1 DEF LearnsBy
<1>4. ASSUME NEW k \in Nat, k \in T PROVE k + 1 \in T
  <2> SUFFICES ASSUME k + 1 <= Len(msgs) PROVE f[k + 1] = g[k + 1]
    OBVIOUS
  <2>1. k + 1 \in 1 .. Len(msgs) /\ k + 1 - 1 = k /\ f[k] = g[k]
    BY <1>2, <1>4
  <2> QED  BY <1>1, <2>1 DEF LearnsBy
<1> HIDE DEF T
<1>5. Len(msgs) \in T
  BY <1>2, <1>3, <1>4, NaturalInduction
<1> QED  BY <1>1, <1>2, <1>5 DEF T

\* To read some messages and then others is to read them all.
LEMMA ReplayConcat ==
  ASSUME NEW S, NEW known, NEW s \in Seq(S), NEW t \in Seq(S)
  PROVE  Replay(known, s \o t) = Replay(Replay(known, s), t)
<1> DEFINE m == Len(s)
           n == Len(t)
<1>1. PICK f : LearnsBy(known, s, f) /\ Replay(known, s) = f[m]
  BY ReplaySteps
<1>2. PICK g : LearnsBy(f[m], t, g) /\ Replay(f[m], t) = g[n]
  BY ReplaySteps
<1>3. /\ s \o t \in Seq(S) /\ m \in Nat /\ n \in Nat /\ Len(s \o t) = m + n
      /\ \A i \in 1 .. m : (s \o t)[i] = s[i]
      /\ \A i \in 1 .. n : (s \o t)[m + i] = t[i]
  BY ConcatOf
<1> DEFINE h == [i \in 0 .. m + n |-> IF i <= m THEN f[i] ELSE g[i - m]]
<1> HIDE DEF m, n
<1>4. /\ \A i \in 0 .. m : h[i] = f[i]
      /\ \A i \in 0 .. n : h[m + i] = g[i]
  <2>1. g[0] = f[m]
    BY <1>2 DEF LearnsBy
  <2>2. \A i \in 0 .. m : i \in 0 .. m + n /\ i <= m
    BY <1>3
  <2>3. ASSUME NEW i \in 0 .. n PROVE h[m + i] = g[i]
    <3> DEFINE j == m + i
    <3>1. j \in 0 .. m + n /\ j - m = i /\ (j <= m => i = 0 /\ j = m)
      BY <1>3
    <3> HIDE DEF j
    <3>2. h[j] = IF j <= m THEN f[j] ELSE g[j - m]
      BY <3>1
    <3> QED  BY <2>1, <3>1, <3>2 DEF j
  <2> QED  BY <2>2, <2>3
<1> HIDE DEF h
<1>5. ASSUME NEW i \in 1 .. m + n PROVE h[i] = Learn(h[i - 1], (s \o t)[i])
  <2>1. CASE i <= m
    <3>1. i \in 1 .. m /\ i \in 0 .. m /\ i - 1 \in 0 .. m
      BY <1>3, <2>1
    <3> QED  BY <1>1, <1>3, <1>4, <3>1 DEF LearnsBy, m
  <2>2. CASE ~(i <= m)
    <3>1. /\ i - m \in 1 .. n /\ i - m \in 0 .. n /\ i - m - 1 \in 0 .. n
          /\ m + (i - m) = i /\ m + (i - m - 1) = i - 1
      BY <1>3, <2>2
    <3>2. h[m + (i - m)] = g[i - m] /\ h[m + (i - m - 1)] = g[i - m - 1]
      BY <1>4, <3>1
    <3>3. (s \o t)[m + (i - m)] = t[i - m]
      BY <1>3, <3>1
    <3>4. g[i - m] = Learn(g[i - m - 1], t[i - m])
      BY <1>2, <3>1 DEF LearnsBy, n
    <3> QED  BY <3>1, <3>2, <3>3, <3>4
  <2> QED  BY <2>1, <2>2
<1>6. h[0] = known
  <2>1. 0 \in 0 .. m
    BY <1>3
  <2> QED  BY <1>1, <1>4, <2>1 DEF LearnsBy
<1>7. LearnsBy(known, s \o t, h)
  BY <1>3, <1>5, <1>6 DEF LearnsBy
<1>8. Replay(known, s \o t) = h[m + n]
  <2>1. s \o t \in Seq(S)
    BY <1>3
  <2>2. Replay(known, s \o t) = h[Len(s \o t)]
    BY <1>7, <2>1, ReplayIs
  <2> QED  BY <1>3, <2>2
<1>9. h[m + n] = g[n]
  <2>1. n \in 0 .. n
    BY <1>3
  <2> QED  BY <1>4, <2>1
<1> QED  BY <1>1, <1>2, <1>8, <1>9

\* Reading nothing teaches nothing.
LEMMA ReplayNone ==
  ASSUME NEW known PROVE Replay(known, << >>) = known
<1>1. << >> \in Seq({}) /\ Len(<< >>) = 0
  BY EmptySeq
<1>2. PICK f : LearnsBy(known, << >>, f) /\ Replay(known, << >>) = f[Len(<< >>)]
  BY <1>1, ReplaySteps
<1> QED  BY <1>1, <1>2 DEF LearnsBy

\* Reading one message.
LEMMA ReplayOne ==
  ASSUME NEW known, NEW msg PROVE Replay(known, << msg >>) = Learn(known, msg)
<1>1. << msg >> \in Seq({msg}) /\ Len(<< msg >>) = 1 /\ << msg >>[1] = msg
  OBVIOUS
<1>2. PICK f : LearnsBy(known, << msg >>, f) /\ Replay(known, << msg >>) = f[Len(<< msg >>)]
  BY <1>1, ReplaySteps
<1> QED  BY <1>1, <1>2 DEF LearnsBy

\* Neither topics nor their ids are learnt from a message with a value.
IsNews(msg) == msg.kind \in {"announce", "unannounce"}

\* Messages without news teach nothing.
LEMMA ReplaySilent ==
  ASSUME NEW S, NEW known, NEW msgs \in Seq(S), \A msg \in S : ~IsNews(msg)
  PROVE  Replay(known, msgs) = known
<1> DEFINE f == [i \in 0 .. Len(msgs) |-> known]
<1>1. Len(msgs) \in Nat /\ \A i \in 1 .. Len(msgs) : msgs[i] \in S
  BY PlacesFinite
<1>2. ASSUME NEW i \in 1 .. Len(msgs) PROVE Learn(known, msgs[i]) = known
  BY <1>1 DEF Learn, IsNews
<1>3. LearnsBy(known, msgs, f)
  BY <1>1, <1>2 DEF LearnsBy
<1> HIDE DEF f
<1>4. Replay(known, msgs) = f[Len(msgs)]
  BY <1>3, ReplayIs
<1> QED  BY <1>1, <1>4 DEF f

\* What every message of a kind keeps, reading messages of that kind keeps.
LEMMA ReplayKeeps ==
  ASSUME NEW S, NEW K, NEW known \in K, NEW msgs \in Seq(S),
         \A old \in K, msg \in S : Learn(old, msg) \in K
  PROVE  Replay(known, msgs) \in K
<1>1. PICK f : LearnsBy(known, msgs, f) /\ Replay(known, msgs) = f[Len(msgs)]
  BY ReplaySteps
<1> DEFINE T == { k \in Nat : k <= Len(msgs) => f[k] \in K }
<1>2. Len(msgs) \in Nat /\ \A i \in 1 .. Len(msgs) : msgs[i] \in S
  BY PlacesFinite
<1>3. 0 \in T
  BY <1>1 DEF LearnsBy
<1>4. ASSUME NEW k \in Nat, k \in T PROVE k + 1 \in T
  <2> SUFFICES ASSUME k + 1 <= Len(msgs) PROVE f[k + 1] \in K
    OBVIOUS
  <2>1. k + 1 \in 1 .. Len(msgs) /\ k + 1 - 1 = k /\ f[k] \in K
    BY <1>2, <1>4
  <2>2. f[k + 1] = Learn(f[k], msgs[k + 1])
    BY <1>1, <2>1 DEF LearnsBy
  <2> QED  BY <1>2, <2>1, <2>2
<1> HIDE DEF T
<1>5. Len(msgs) \in T
  BY <1>2, <1>3, <1>4, NaturalInduction
<1> QED  BY <1>1, <1>2, <1>5 DEF T

\* The names in some messages.
NamesIn(msgs) == { msgs[i].name : i \in DOMAIN msgs }

\* Messages that withdraw topics leave the others.
LEMMA ReplayDeletes ==
  ASSUME NEW S, NEW known, known = [x \in DOMAIN known |-> known[x]], NEW msgs \in Seq(S),
         \A i \in DOMAIN msgs : msgs[i].kind = "unannounce"
  PROVE  Replay(known, msgs) = Without(known, NamesIn(msgs))
<1> DEFINE gone(i) == { msgs[j].name : j \in 1 .. i }
           f == [i \in 0 .. Len(msgs) |-> Without(known, gone(i))]
<1>1. Len(msgs) \in Nat /\ DOMAIN msgs = 1 .. Len(msgs)
  BY PlacesFinite
<1>2. f[0] = known
  <2>1. gone(0) = {} /\ f[0] = Without(known, gone(0))
    BY <1>1
  <2> HIDE DEF f, gone
  <2> QED  BY <2>1 DEF Without
<1>3. ASSUME NEW i \in 1 .. Len(msgs) PROVE f[i] = Learn(f[i - 1], msgs[i])
  <2>1. f[i] = Without(known, gone(i)) /\ f[i - 1] = Without(known, gone(i - 1))
    BY <1>1
  <2>2. gone(i) = gone(i - 1) \cup {msgs[i].name}
    <3>1. 1 .. i = (1 .. i - 1) \cup {i}
      BY <1>1
    <3> QED  BY <3>1
  <2> HIDE DEF f, gone
  <2>3. Learn(f[i - 1], msgs[i]) = Without(f[i - 1], {msgs[i].name})
    BY <1>1 DEF Learn
  <2> QED  BY <2>1, <2>2, <2>3 DEF Without
<1>4. Without(known, NamesIn(msgs)) = f[Len(msgs)]
  <2>1. f[Len(msgs)] = Without(known, gone(Len(msgs)))
    BY <1>1
  <2>2. NamesIn(msgs) = gone(Len(msgs))
    BY <1>1 DEF NamesIn
  <2> HIDE DEF f, gone
  <2> QED  BY <2>1, <2>2
<1> HIDE DEF f
<1>5. LearnsBy(known, msgs, f)
  BY <1>2, <1>3 DEF LearnsBy
<1> QED  BY <1>4, <1>5, ReplayIs

\* A function from a set.
MapsFrom(map, D) == map = [x \in D |-> map[x]]

\* Messages that announce different topics replace what was known of them.
LEMMA ReplayAnnounces ==
  ASSUME NEW S, NEW known, MapsFrom(known, DOMAIN known), NEW msgs \in Seq(S),
         \A i \in DOMAIN msgs : msgs[i].kind = "announce",
         \A i, j \in DOMAIN msgs : msgs[i].name = msgs[j].name => i = j
  PROVE  /\ MapsFrom(Replay(known, msgs), DOMAIN known \cup NamesIn(msgs))
         /\ \A i \in DOMAIN msgs :
               Replay(known, msgs)[msgs[i].name] = [id |-> msgs[i].id, type |-> msgs[i].type]
         /\ \A x \in DOMAIN known \ NamesIn(msgs) : Replay(known, msgs)[x] = known[x]
<1> DEFINE names(i) == { msgs[j].name : j \in 1 .. i }
           place(x) == CHOOSE j \in DOMAIN msgs : msgs[j].name = x
           data(i)  == [id |-> msgs[i].id, type |-> msgs[i].type]
           f == [i \in 0 .. Len(msgs) |-> [x \in DOMAIN known \cup names(i) |->
                    IF x \in names(i) THEN data(place(x)) ELSE known[x]]]
<1>1. Len(msgs) \in Nat /\ DOMAIN msgs = 1 .. Len(msgs)
  BY PlacesFinite
<1>2. \A j \in DOMAIN msgs : place(msgs[j].name) = j
  OBVIOUS
<1> HIDE DEF place, data
<1>3. \A i \in 0 .. Len(msgs) :
         /\ f[i] = [x \in DOMAIN known \cup names(i) |->
                      IF x \in names(i) THEN data(place(x)) ELSE known[x]]
  OBVIOUS
<1> HIDE DEF f
<1>4. f[0] = known
  <2>1. names(0) = {} /\ 0 \in 0 .. Len(msgs)
    BY <1>1
  <2>2. f[0] = [x \in DOMAIN known \cup names(0) |->
                  IF x \in names(0) THEN data(place(x)) ELSE known[x]]
    BY <1>3, <2>1
  <2> HIDE DEF names
  <2>3. f[0] = [x \in DOMAIN known |-> known[x]]
    BY <2>1, <2>2
  <2> QED  BY <2>3 DEF MapsFrom
<1>5. ASSUME NEW i \in 1 .. Len(msgs) PROVE f[i] = Learn(f[i - 1], msgs[i])
  <2>1. i \in 0 .. Len(msgs) /\ i - 1 \in 0 .. Len(msgs) /\ i \in DOMAIN msgs
    BY <1>1
  <2>2. names(i) = names(i - 1) \cup {msgs[i].name}
    <3>1. 1 .. i = (1 .. i - 1) \cup {i}
      BY <1>1
    <3> QED  BY <3>1
  <2> HIDE DEF names
  <2>3. Learn(f[i - 1], msgs[i]) = Put(f[i - 1], msgs[i].name, data(i))
    BY <2>1 DEF Learn, data
  <2>4. place(msgs[i].name) = i
    BY <1>2, <2>1
  <2> DEFINE now == f[i]
             old == f[i - 1]
  <2>5. now = [x \in DOMAIN known \cup names(i) |->
                      IF x \in names(i) THEN data(place(x)) ELSE known[x]]
    BY <1>3, <2>1
  <2>6. old = [x \in DOMAIN known \cup names(i - 1) |->
                      IF x \in names(i - 1) THEN data(place(x)) ELSE known[x]]
    BY <1>3, <2>1
  <2> HIDE DEF now, old
  <2>7. now = Put(old, msgs[i].name, data(i))
    BY <2>2, <2>4, <2>5, <2>6 DEF Put
  <2> QED  BY <2>3, <2>7 DEF now, old
<1>6. Replay(known, msgs) = f[Len(msgs)]
  <2>1. LearnsBy(known, msgs, f)
    BY <1>4, <1>5 DEF LearnsBy
  <2> QED  BY <2>1, ReplayIs
<1> DEFINE last == Replay(known, msgs)
<1>7. last = [x \in DOMAIN known \cup NamesIn(msgs) |->
                IF x \in NamesIn(msgs) THEN data(place(x)) ELSE known[x]]
  <2>1. NamesIn(msgs) = names(Len(msgs)) /\ Len(msgs) \in 0 .. Len(msgs)
    BY <1>1 DEF NamesIn
  <2>2. f[Len(msgs)] = [x \in DOMAIN known \cup names(Len(msgs)) |->
                          IF x \in names(Len(msgs)) THEN data(place(x)) ELSE known[x]]
    BY <1>3, <2>1
  <2> HIDE DEF names
  <2> QED  BY <1>6, <2>1, <2>2
<1> HIDE DEF last
<1>8. last = [x \in DOMAIN known \cup NamesIn(msgs) |-> last[x]]
  BY <1>7
<1>9. \A i \in DOMAIN msgs : last[msgs[i].name] = data(i)
  <2>1. \A i \in DOMAIN msgs : msgs[i].name \in NamesIn(msgs)
    BY DEF NamesIn
  <2> QED  BY <1>2, <1>7, <2>1
<1>10. \A x \in DOMAIN known \ NamesIn(msgs) : last[x] = known[x]
  BY <1>7
<1> QED  BY <1>8, <1>9, <1>10 DEF last, data, MapsFrom

----------------------------------------------------------------------------
(* Reading values, likewise                                                *)

\* What a client has received with each set of the first k messages.
Gathered(got, msgs, k, it) ==
    it = [s \in SUBSET (1 .. k) |-> IF s = {} THEN got
                                    ELSE Receives(it[s \ {Max(s)}], msgs[Max(s)])]

\* The fold exists.
LEMMA GatheredExists ==
  ASSUME NEW got, NEW msgs, NEW n \in Nat
  PROVE  \E it : Gathered(got, msgs, n, it)
<1> DEFINE T == { k \in Nat : \E it : Gathered(got, msgs, k, it) }
<1>1. 0 \in T
  <2>1. Gathered(got, msgs, 0, [s \in SUBSET (1 .. 0) |-> got])
    <3>1. SUBSET (1 .. 0) = {{}}
      OBVIOUS
    <3> QED  BY <3>1 DEF Gathered
  <2> QED  BY <2>1
<1>2. ASSUME NEW k \in Nat, k \in T PROVE k + 1 \in T
  <2>1. PICK it : Gathered(got, msgs, k, it)
    BY <1>2
  <2>2. \A s \in SUBSET (1 .. k) :
           it[s] = IF s = {} THEN got ELSE Receives(it[s \ {Max(s)}], msgs[Max(s)])
    <3>1. \A F : F = [s \in SUBSET (1 .. k) |-> IF s = {} THEN got
                                    ELSE Receives(F[s \ {Max(s)}], msgs[Max(s)])] =>
             \A s \in SUBSET (1 .. k) :
                F[s] = IF s = {} THEN got ELSE Receives(F[s \ {Max(s)}], msgs[Max(s)])
      BY Zenon
    <3> QED  BY <2>1, <3>1, Zenon DEF Gathered
  <2> DEFINE g == [s \in SUBSET (1 .. k + 1) |->
                     IF s \in SUBSET (1 .. k) THEN it[s] ELSE Receives(it[s \ {k + 1}], msgs[k + 1])]
  <2>3. ASSUME NEW s \in SUBSET (1 .. k + 1)
        PROVE  g[s] = IF s = {} THEN got ELSE Receives(g[s \ {Max(s)}], msgs[Max(s)])
    <3>1. CASE s \in SUBSET (1 .. k)
      <4>1. s # {} => s \ {Max(s)} \in SUBSET (1 .. k) /\ s \ {Max(s)} \in SUBSET (1 .. k + 1)
        BY <3>1
      <4>2. g[s] = it[s] /\ (s # {} => g[s \ {Max(s)}] = it[s \ {Max(s)}])
        BY <3>1, <4>1
      <4> HIDE DEF g
      <4> QED  BY <2>2, <3>1, <4>2
    <3>2. CASE s \notin SUBSET (1 .. k)
      <4>1. k + 1 \in s /\ s # {} /\ k + 1 \in Nat
        BY <3>2
      <4>2. Max(s) \in s /\ k + 1 <= Max(s)
        BY <4>1, LastPlace
      <4>3. Max(s) = k + 1
        <5>1. Max(s) \in 1 .. k + 1
          BY <4>2
        <5> QED  BY <4>2, <5>1
      <4>4. s \ {k + 1} \in SUBSET (1 .. k) /\ s \ {k + 1} \in SUBSET (1 .. k + 1)
        OBVIOUS
      <4>5. g[s] = Receives(it[s \ {k + 1}], msgs[k + 1]) /\ g[s \ {k + 1}] = it[s \ {k + 1}]
        BY <3>2, <4>4
      <4> HIDE DEF g
      <4> QED  BY <4>1, <4>3, <4>5
    <3> QED  BY <3>1, <3>2
  <2>4. Gathered(got, msgs, k + 1, g)
    BY <2>3 DEF Gathered
  <2> HIDE DEF g
  <2> QED  BY <2>4
<1> HIDE DEF T
<1>3. n \in T
  BY <1>1, <1>2, NaturalInduction
<1> QED  BY <1>3 DEF T

\* What every message of a kind keeps, receiving messages of that kind keeps.
LEMMA ReceivingKeeps ==
  ASSUME NEW S, NEW K, NEW got \in K, NEW msgs \in Seq(S),
         \A old \in K, msg \in S : Receives(old, msg) \in K
  PROVE  FoldLeft(Receives, got, msgs) \in K
<1> DEFINE n  == Len(msgs)
           it == CHOOSE it : Gathered(got, msgs, n, it)
           T  == { k \in Nat : k <= n => it[1 .. k] \in K }
<1>1. n \in Nat /\ DOMAIN msgs = 1 .. n /\ \A i \in 1 .. n : msgs[i] \in S
  BY PlacesFinite
<1>2. FoldLeft(Receives, got, msgs) = it[1 .. n]
  <2>1. FoldLeft(Receives, got, msgs) =
          (CHOOSE iter : iter = [s \in SUBSET (DOMAIN msgs) |->
              IF s = {} THEN got ELSE Receives(iter[s \ {Max(s)}], msgs[Max(s)])])[DOMAIN msgs]
    BY Zenon DEF FoldLeft, MapThenFoldSet
  <2> QED  BY <1>1, <2>1, Zenon DEF Gathered
<1>3. Gathered(got, msgs, n, it)
  BY <1>1, GatheredExists
<1> HIDE DEF it, n
<1>4. \A s \in SUBSET (1 .. n) :
         it[s] = IF s = {} THEN got ELSE Receives(it[s \ {Max(s)}], msgs[Max(s)])
  <2>1. \A F : F = [s \in SUBSET (1 .. n) |-> IF s = {} THEN got
                                  ELSE Receives(F[s \ {Max(s)}], msgs[Max(s)])] =>
           \A s \in SUBSET (1 .. n) :
              F[s] = IF s = {} THEN got ELSE Receives(F[s \ {Max(s)}], msgs[Max(s)])
    BY Zenon
  <2> QED  BY <1>3, <2>1, Zenon DEF Gathered
<1>5. 0 \in T
  <2>1. 1 .. 0 = {} /\ {} \in SUBSET (1 .. n)
    OBVIOUS
  <2> QED  BY <1>4, <2>1
<1>6. ASSUME NEW k \in Nat, k \in T PROVE k + 1 \in T
  <2> SUFFICES ASSUME k + 1 <= n PROVE it[1 .. k + 1] \in K
    OBVIOUS
  <2>1. k <= n /\ k + 1 \in 1 .. n
    BY <1>1
  <2>2. k + 1 \in Nat /\ 1 .. k + 1 \in SUBSET (1 .. n) /\ 1 .. k + 1 \in SUBSET (1 .. k + 1)
    BY <1>1
  <2>3. k + 1 \in 1 .. k + 1 /\ 1 .. k + 1 # {} /\ (1 .. k + 1) \ {k + 1} = 1 .. k
    <3>1. \A i \in Int : i \in 1 .. k + 1 /\ i # k + 1 <=> i \in 1 .. k
      OBVIOUS
    <3>2. 1 .. k \subseteq Int /\ 1 .. k + 1 \subseteq Int /\ k + 1 \in 1 .. k + 1
      OBVIOUS
    <3> QED  BY <3>1, <3>2, Zenon
  <2>4. Max(1 .. k + 1) = k + 1
    <3>1. Max(1 .. k + 1) \in 1 .. k + 1 /\ k + 1 <= Max(1 .. k + 1)
      BY <2>2, <2>3, LastPlace
    <3> QED  BY <3>1
  <2>5. it[1 .. k + 1] = Receives(it[1 .. k], msgs[k + 1])
    BY <1>4, <2>2, <2>3, <2>4
  <2> QED  BY <1>1, <1>6, <2>1, <2>5
<1> HIDE DEF T
<1>7. n \in T
  BY <1>1, <1>5, <1>6, NaturalInduction
<1> QED  BY <1>1, <1>2, <1>7 DEF T

----------------------------------------------------------------------------
(* The inductive invariant                                                 *)

Views     == UNION { [S -> [id : Nat, type : DataType]] : S \in SUBSET Names }
Receipts  == UNION { [S -> [value : NTValues, timestamp : Nat]] : S \in SUBSET Names }

TaskTypes ==
    /\ loops \in Seq(LoopTasks)
    /\ subs \in [Clients -> Seq(Subs)]
    /\ DOMAIN sub_loop_channels = Clients
    /\ \A c \in Clients : IsMap(sub_loop_channels[c], SubIds, DOMAIN loops)
    /\ queued_updates \in [Clients -> Seq(Snapshots)]
    /\ outbox \in [Clients -> Seq(Messages)]

ClientTypes ==
    /\ accepting \subseteq Clients
    /\ conn \in [Clients -> {"fresh", "open", "closed"}]
    /\ view \in [Clients -> Views]
    /\ received \in [Clients -> Receipts]
    /\ requests \in [Clients -> Nat]

\* A client has no subscription before it is inserted, nor after it is removed.
StrangersUnsubscribed == \A c \in Clients \ clients : subs[c] = << >>

\* A client has one subscription of a uid at a time.
UidsDistinct ==
    \A c \in Clients : \A i, j \in DOMAIN subs[c] :
        subs[c][i].subuid = subs[c][j].subuid => i = j

\* The loop at the other end of a client's sender is its own, and runs.
SendersServed ==
    \A c \in Clients : \A u \in DOMAIN sub_loop_channels[c] :
        LET task == loops[sub_loop_channels[c][u]]
        IN  task.cid = c /\ task.pc # "ended"

SubsInv ==
    /\ TaskTypes
    /\ ClientTypes
    /\ StrangersUnsubscribed
    /\ UidsDistinct
    /\ SendersServed
    /\ CustomSubsServed
    /\ SubscribedTopicsAnnounced

----------------------------------------------------------------------------
(* Messages                                                                *)

\* What is sent to a client that knows the topics: values and times.
Current(c) ==
    { msg \in ValueMessages : Known(c, msg.name) /\ msg.id = lookup_id(c, msg.name) }
        \cup {TimeMsg}

\* Such messages are messages, and bring no news of topics.
LEMMA CurrentMessages ==
  ASSUME NEW c PROVE Current(c) \subseteq Messages /\ \A msg \in Current(c) : ~IsNews(msg)
  BY DEF Current, Messages, ValueMessages, TimeMsg, IsNews

\* The type of a topic is a DataType.
LEMMA TypeOfTopic ==
  ASSUME NEW topic \in Topics PROVE entry_type(topic) \in DataType
  BY DEF Topics, NTValues, ValueOf, entry_type

\* A topic has a snapshot.
LEMMA SnapshotType ==
  ASSUME DirectoryTypes, NEW name \in DOMAIN entries
  PROVE  snapshot(name, entries[name]) \in Snapshots
  BY DEF DirectoryTypes, IsMap, snapshot, Topics, Snapshots

\* A snapshot of a topic the client knows is sent as a current message.
LEMMA ValueMsgCurrent ==
  ASSUME DirectoryTypes, NEW c \in Clients, NEW update \in Snapshots, Known(c, update.name)
  PROVE  ValueMsg(lookup_id(c, update.name), update) \in Current(c)
<1>1. IsMap(pub_ids[c], Names, Nat)
  BY DEF DirectoryTypes
<1>2. lookup_id(c, update.name) \in Nat
  BY <1>1 DEF IsMap, Known, lookup_id
<1> QED  BY <1>2 DEF ValueMsg, Current, ValueMessages, Snapshots

\* The values of some snapshots.
LEMMA AsMessagesCurrent ==
  ASSUME DirectoryTypes, NEW c \in Clients, NEW queue \in Seq(Snapshots), AllKnown(c, queue)
  PROVE  AsMessages(c, queue) \in Seq(Current(c))
<1>1. Len(queue) \in Nat /\ DOMAIN queue = 1 .. Len(queue) /\ \A i \in DOMAIN queue : queue[i] \in Snapshots
  BY PlacesFinite
<1>2. \A i \in 1 .. Len(queue) : ValueMsg(lookup_id(c, queue[i].name), queue[i]) \in Current(c)
  BY <1>1, ValueMsgCurrent DEF AllKnown
<1>3. AsMessages(c, queue) = [i \in 1 .. Len(queue) |-> ValueMsg(lookup_id(c, queue[i].name), queue[i])]
  BY <1>1 DEF AsMessages
<1> QED  BY <1>1, <1>2, <1>3, IsASeq

\* What a tick selects of a queue whose topics are known.
LEMMA TickUpdatesKnown ==
  ASSUME NEW c \in Clients, NEW sub, NEW queue \in Seq(Snapshots), AllKnown(c, queue)
  PROVE  TickUpdates(sub, queue) \in Seq(Snapshots) /\ AllKnown(c, TickUpdates(sub, queue))
<1> DEFINE places == { i \in DOMAIN queue : IsMaxOfGroup(queue, i) }
<1>1. /\ AtPlaces(queue, places) \in Seq(Snapshots)
      /\ \A k \in DOMAIN AtPlaces(queue, places) :
            /\ Ascending(places)[k] \in places
            /\ AtPlaces(queue, places)[k] = queue[Ascending(places)[k]]
  <2>1. places \in SUBSET DOMAIN queue
    OBVIOUS
  <2> HIDE DEF places
  <2> QED  BY <2>1, AtPlacesOf
<1> HIDE DEF places
<1>2. AllKnown(c, AtPlaces(queue, places))
  BY <1>1 DEF AllKnown, places
<1> QED  BY <1>1, <1>2 DEF TickUpdates, MaxOfEachGroup, places

----------------------------------------------------------------------------
(* What the tasks send to clients that know the topics.                    *)

\* c is sent some messages, which reach it if its socket is open.
Gets(c, msgs) == outbox'[c] = IF conn[c] = "open" THEN outbox[c] \o msgs ELSE outbox[c]

\* A step sends each client only messages that are current.
Quiet ==
    /\ outbox' = [c \in Clients |-> outbox'[c]]
    /\ \A c \in Clients : \E msgs \in Seq(Current(c)) : Gets(c, msgs)

\* So does a step that sends nothing.
LEMMA SilenceIsQuiet ==
  ASSUME TaskTypes, outbox' = outbox PROVE Quiet
<1>1. \A c \in Clients : << >> \in Seq(Current(c)) /\ outbox[c] \o << >> = outbox[c]
  BY EmptySeq, ConcatEmptySeq DEF TaskTypes
<1> QED  BY <1>1 DEF Quiet, Gets, TaskTypes

\* And one that sends current messages to one client.
LEMMA OneIsQuiet ==
  ASSUME TaskTypes, NEW c \in Clients, NEW msgs \in Seq(Current(c)), outbox' = SentTo(c, msgs)
  PROVE  Quiet
<1>1. outbox' = [d \in Clients |-> IF conn[d] = "open"
                                   THEN outbox[d] \o (IF d = c THEN msgs ELSE << >>)
                                   ELSE outbox[d]]
  BY DEF SentTo, Sent
<1>2. \A d \in Clients : (IF d = c THEN msgs ELSE << >>) \in Seq(Current(d))
  BY EmptySeq
<1> QED  BY <1>1, <1>2 DEF Quiet, Gets

\* GetValues sends the value of a topic that the client has an id for.
LEMMA GetValuesQuiet ==
  ASSUME DirectoryTypes, TaskTypes, NEW c \in Clients, NEW req,
         ~GetValuesFails(c, req), HandleGetValues(c, req)
  PROVE  Quiet
<1> DEFINE name == id_to_name(c, req.id)
<1>1. name \in DOMAIN entries /\ Known(c, name) /\ lookup_id(c, name) = req.id
  <2>1. \E n \in DOMAIN pub_ids[c] : pub_ids[c][n] = req.id
    BY DEF GetValuesFails, IdKnown
  <2>2. name \in DOMAIN pub_ids[c] /\ pub_ids[c][name] = req.id
    BY <2>1 DEF id_to_name
  <2> QED  BY <2>2 DEF GetValuesFails, Known, lookup_id
<1>2. outbox' = SentTo(c, << ValueMsg(req.id, snapshot(name, entries[name])) >>)
  BY DEF HandleGetValues
<1> HIDE DEF name
<1>3. snapshot(name, entries[name]) \in Snapshots /\ snapshot(name, entries[name]).name = name
  BY <1>1, SnapshotType DEF snapshot
<1>4. ValueMsg(req.id, snapshot(name, entries[name])) \in Current(c)
  BY <1>1, <1>3, ValueMsgCurrent
<1>5. << ValueMsg(req.id, snapshot(name, entries[name])) >> \in Seq(Current(c))
  BY <1>4
<1> QED  BY <1>2, <1>5, OneIsQuiet

\* ValuePublish with id -1 is answered with the time.
LEMMA TimeQuiet ==
  ASSUME TaskTypes, NEW c \in Clients, HandleTime(c) PROVE Quiet
<1>1. << TimeMsg >> \in Seq(Current(c))
  BY DEF Current
<1> QED  BY <1>1, OneIsQuiet DEF HandleTime

\* Subscribe sends the values of the topics that it covers.
LEMMA InitialValuesCurrent ==
  ASSUME DirectoryTypes, NEW c \in Clients, NEW sub \in Subs, ~SubscribeFails(c, sub),
         NEW order \in SetToSeqs(DOMAIN entries)
  PROVE  InitialValues(c, sub, order) \in Seq(Current(c))
<1> DEFINE covered(i) == { j \in DOMAIN order : order[j] \in sub.prefixes[i] }
           names(i)   == AtPlaces(order, covered(i))
           message(n) == ValueMsg(lookup_id(c, n), snapshot(n, entries[n]))
           values(i)  == [j \in DOMAIN names(i) |-> message(names(i)[j])]
<1>1. order \in Seq(DOMAIN entries)
  <2>1. /\ DOMAIN entries \subseteq Names /\ IsFiniteSet(DOMAIN entries)
    BY NamesFinite, FS_Subset DEF DirectoryTypes, IsMap
  <2>2. Cardinality(DOMAIN entries) \in Nat
    BY <2>1, FS_CardinalityType
  <2>3. order \in [1 .. Cardinality(DOMAIN entries) -> DOMAIN entries]
    BY DEF SetToSeqs
  <2> QED  BY <2>2, <2>3
<1>2. Len(sub.prefixes) \in Nat /\ DOMAIN sub.prefixes = 1 .. Len(sub.prefixes)
  BY LenProperties DEF Subs
<1>3. ASSUME NEW i \in DOMAIN sub.prefixes PROVE values(i) \in Seq(Current(c))
  <2>1. /\ names(i) \in Seq(DOMAIN entries)
        /\ \A k \in DOMAIN names(i) : /\ Ascending(covered(i))[k] \in covered(i)
                                      /\ names(i)[k] = order[Ascending(covered(i))[k]]
    <3> HIDE DEF covered
    <3>1. covered(i) \in SUBSET DOMAIN order
      BY DEF covered
    <3> QED  BY <1>1, <3>1, AtPlacesOf
  <2>2. Len(names(i)) \in Nat /\ DOMAIN names(i) = 1 .. Len(names(i))
    BY <2>1, LenProperties
  <2>3. ASSUME NEW j \in DOMAIN names(i) PROVE message(names(i)[j]) \in Current(c)
    <3>1. names(i)[j] \in DOMAIN entries /\ names(i)[j] \in sub.prefixes[i]
      <4> HIDE DEF names
      <4> QED  BY <1>1, <2>1, <2>2, ElementOfSeq
    <3>2. Known(c, names(i)[j])
      BY <3>1 DEF SubscribeFails, Covers
    <3> DEFINE n == names(i)[j]
    <3> HIDE DEF n
    <3>3. snapshot(n, entries[n]) \in Snapshots /\ snapshot(n, entries[n]).name = n
      BY <3>1, SnapshotType DEF snapshot, n
    <3> QED  BY <3>2, <3>3, ValueMsgCurrent DEF n
  <2> HIDE DEF names, message
  <2>4. values(i) = [j \in 1 .. Len(names(i)) |-> message(names(i)[j])]
    BY <2>2
  <2> QED  BY <2>2, <2>3, <2>4, IsASeq
<1> HIDE DEF values
<1>4. [i \in 1 .. Len(sub.prefixes) |-> values(i)] \in Seq(Seq(Current(c)))
  BY <1>2, <1>3, IsASeq
<1>5. [i \in DOMAIN sub.prefixes |-> values(i)] \in Seq(Seq(Current(c)))
  BY <1>2, <1>4
<1>6. InitialValues(c, sub, order) = FlattenSeq([i \in DOMAIN sub.prefixes |-> values(i)])
  BY DEF InitialValues, values
<1> QED  BY <1>5, <1>6, FlattenOf

\* Subscribe sends current values.
LEMMA SubscribeQuiet ==
  ASSUME DirectoryTypes, TaskTypes, NEW c \in Clients, NEW sub \in Subs,
         ~SubscribeFails(c, sub), HandleSubscribe(c, sub)
  PROVE  Quiet
<1>1. PICK order \in SetToSeqs(DOMAIN entries) : outbox' = SentTo(c, InitialValues(c, sub, order))
  BY DEF HandleSubscribe
<1>2. InitialValues(c, sub, order) \in Seq(Current(c))
  BY InitialValuesCurrent
<1> QED  BY <1>1, <1>2, OneIsQuiet

\* The value of a topic is a value message or waits in the queues.
LEMMA UpdateType ==
  ASSUME DirectoryTypes, NEW name \in DOMAIN entries, NEW req,
         req.value \in NTValues, req.timestamp \in Nat
  PROVE  /\ snapshot(name, set_value(entries[name], req)) \in Snapshots
         /\ snapshot(name, set_value(entries[name], req)).name = name
<1>1. entries[name] \in Topics /\ name \in Names
  BY DEF DirectoryTypes, IsMap
<1> QED  BY <1>1 DEF set_value, snapshot, Topics, Snapshots

\* ValuePublish sends the value to the clients that take it at once, and queues
\* it for the others.
LEMMA ValueQuiet ==
  ASSUME DirectoryTypes, TaskTypes, NEW c \in Clients, NEW req,
         req.value \in NTValues, req.timestamp \in Nat,
         ~ValueFails(c, req), HandleValue(c, req)
  PROVE  Quiet /\ queued_updates' \in [Clients -> Seq(Snapshots)]
<1> DEFINE name   == id_to_name(c, req.id)
           update == snapshot(name, set_value(entries[name], req))
<1>1. name \in DOMAIN entries
  BY DEF ValueFails
<1>2. CASE Accepted(entries[name], req)
  <2>1. Distribute(update) /\ \A d \in Clients : SendsNow(d, name) => Known(d, name)
    BY <1>2 DEF HandleValue, ValueFails
  <2> HIDE DEF name
  <2>2. update \in Snapshots /\ update.name = name
    BY <1>1, UpdateType
  <2> HIDE DEF update
  <2> DEFINE sent(d) == IF SendsNow(d, update.name)
                        THEN << ValueMsg(lookup_id(d, update.name), update) >> ELSE << >>
  <2>3. ASSUME NEW d \in Clients PROVE sent(d) \in Seq(Current(d))
    <3>1. CASE SendsNow(d, update.name)
      <4>1. ValueMsg(lookup_id(d, update.name), update) \in Current(d)
        BY <2>1, <2>2, <3>1, ValueMsgCurrent
      <4> QED  BY <3>1, <4>1
    <3>2. CASE ~SendsNow(d, update.name)
      BY <3>2, EmptySeq
    <3> QED  BY <3>1, <3>2
  <2>4. outbox' = [d \in Clients |-> IF conn[d] = "open" THEN outbox[d] \o sent(d) ELSE outbox[d]]
    BY <2>1 DEF Distribute, Sent
  <2>5. queued_updates' = [d \in Clients |-> IF Queues(d, update.name)
                                             THEN Append(queued_updates[d], update)
                                             ELSE queued_updates[d]]
    BY <2>1 DEF Distribute
  <2> HIDE DEF sent
  <2>6. Quiet
    BY <2>3, <2>4 DEF Quiet, Gets
  <2>7. \A d \in Clients : Append(queued_updates[d], update) \in Seq(Snapshots)
    BY <2>2, AppendProperties DEF TaskTypes
  <2> QED  BY <2>5, <2>6, <2>7 DEF TaskTypes
<1>3. CASE ~Accepted(entries[name], req)
  <2>1. outbox' = outbox /\ queued_updates' = queued_updates
    BY <1>3 DEF HandleValue
  <2> QED  BY <2>1, SilenceIsQuiet DEF TaskTypes
<1> QED  BY <1>2, <1>3

\* What each request or update of a frame comes to, for one client.
TimesOf(c)  == [r \in FrameRequests(c) |-> IF r.kind = "time" THEN << TimeMsg >> ELSE << >>]
SentOf(d)   == [u \in Updates |-> IF SendsNow(d, u.name)
                                  THEN << ValueMsg(lookup_id(d, u.name), u) >> ELSE << >>]
QueuedOf(d) == [u \in Updates |-> IF Queues(d, u.name) THEN << u >> ELSE << >>]

\* The times of a frame.
LEMMA TimesGathered ==
  ASSUME NEW c, NEW frame \in Seq(FrameRequests(c))
  PROVE  /\ TimesOf(c) \in [FrameRequests(c) -> Seq({TimeMsg})]
         /\ Times(frame) = Gather(frame, TimesOf(c)) /\ Times(frame) \in Seq({TimeMsg})
<1>1. TimesOf(c) \in [FrameRequests(c) -> Seq({TimeMsg})]
  <2>1. << TimeMsg >> \in Seq({TimeMsg}) /\ << >> \in Seq({TimeMsg})
    BY EmptySeq
  <2> QED  BY <2>1 DEF TimesOf
<1>2. Times(frame) = Gather(frame, TimesOf(c))
  <2>1. \A i \in DOMAIN frame : frame[i] \in FrameRequests(c)
    BY PlacesFinite
  <2> DEFINE here == [i \in DOMAIN frame |-> IF frame[i].kind = "time" THEN << TimeMsg >> ELSE << >>]
  <2>2. Parts(frame, TimesOf(c)) = here
    BY <2>1 DEF Parts, TimesOf
  <2> QED  BY <2>2 DEF Times, Gather
<1> QED  BY <1>1, <1>2, GatherOf

\* What a frame sends to a client at once is current, as the client knows the
\* topics that it subscribes to.
LEMMA ImmediateGathered ==
  ASSUME DirectoryTypes, SubscribedTopicsAnnounced, NEW d \in Clients, NEW updates \in Seq(Updates)
  PROVE  /\ SentOf(d) \in [Updates -> Seq(Current(d))]
         /\ Immediate(d, updates) = Gather(updates, SentOf(d))
         /\ Immediate(d, updates) \in Seq(Current(d))
<1>1. SentOf(d) \in [Updates -> Seq(Current(d))]
  <2> SUFFICES ASSUME NEW u \in Updates
               PROVE  (IF SendsNow(d, u.name) THEN << ValueMsg(lookup_id(d, u.name), u) >> ELSE << >>)
                         \in Seq(Current(d))
    BY DEF SentOf
  <2>1. CASE SendsNow(d, u.name)
    <3>1. u \in Snapshots /\ Known(d, u.name)
      BY <2>1 DEF SendsNow, SubscribedTopicsAnnounced, Updates
    <3>2. ValueMsg(lookup_id(d, u.name), u) \in Current(d)
      BY <3>1, ValueMsgCurrent
    <3> QED  BY <2>1, <3>2
  <2>2. CASE ~SendsNow(d, u.name)
    BY <2>2, EmptySeq
  <2> QED  BY <2>1, <2>2
<1>2. Immediate(d, updates) = Gather(updates, SentOf(d))
  <2>1. \A i \in DOMAIN updates : updates[i] \in Updates
    BY PlacesFinite
  <2> DEFINE here == [i \in DOMAIN updates |->
                        IF SendsNow(d, updates[i].name)
                        THEN << ValueMsg(lookup_id(d, updates[i].name), updates[i]) >> ELSE << >>]
  <2>2. Parts(updates, SentOf(d)) = here
    BY <2>1 DEF Parts, SentOf
  <2> QED  BY <2>2 DEF Immediate, Gather
<1> QED  BY <1>1, <1>2, GatherOf

\* What a frame queues for a client are snapshots.
LEMMA QueuedGathered ==
  ASSUME NEW d, NEW updates \in Seq(Updates)
  PROVE  /\ QueuedOf(d) \in [Updates -> Seq(Snapshots)]
         /\ Queued(d, updates) = Gather(updates, QueuedOf(d))
         /\ Queued(d, updates) \in Seq(Snapshots)
<1>1. QueuedOf(d) \in [Updates -> Seq(Snapshots)]
  <2>1. \A u \in Updates : << u >> \in Seq(Snapshots)
    BY DEF Updates
  <2> QED  BY <2>1, EmptySeq DEF QueuedOf
<1>2. Queued(d, updates) = Gather(updates, QueuedOf(d))
  <2>1. \A i \in DOMAIN updates : updates[i] \in Updates
    BY PlacesFinite
  <2> DEFINE here == [i \in DOMAIN updates |->
                        IF Queues(d, updates[i].name) THEN << updates[i] >> ELSE << >>]
  <2>2. Parts(updates, QueuedOf(d)) = here
    BY <2>1 DEF Parts, QueuedOf
  <2> QED  BY <2>2 DEF Queued, Gather
<1> QED  BY <1>1, <1>2, GatherOf

\* A frame sends times and current values, and queues values.
LEMMA FrameQuiet ==
  ASSUME IInv, TaskTypes, SubscribedTopicsAnnounced,
         NEW c \in Clients, NEW k \in 2 .. MaxFrame, ReceiveFrame(c, k)
  PROVE  Quiet /\ queued_updates' \in [Clients -> Seq(Snapshots)]
<1>1. c \in clients /\ DirectoryTypes
  BY FrameStep DEF IInv, DirectoryInv
<1>2. PICK stored \in Seq(FrameRequests(c)) : StoresFrame(c, stored)
  BY FrameStep
<1> DEFINE updates == StoreFrame(c, stored).updates
           times   == Times(stored)
<1>3. updates \in Seq(Updates)
  BY <1>1, StoreFrameKeeps DEF StoredSet, StoredTypes
<1>4. \A d : times \in Seq(Current(d))
  <2>1. \A d : {TimeMsg} \subseteq Current(d)
    BY DEF Current
  <2>2. times \in Seq({TimeMsg})
    BY TimesGathered
  <2> QED  BY <2>1, <2>2, SeqSubset
<1> HIDE DEF updates, times
<1>5. CASE outbox' = SentTo(c, times) /\ queued_updates' = queued_updates
  BY <1>4, <1>5, OneIsQuiet DEF TaskTypes
<1>6. CASE Distributed(c, stored, updates)
  <2> DEFINE sent(d) == (IF d = c THEN times ELSE << >>) \o Immediate(d, updates)
  <2>1. ASSUME NEW d \in Clients PROVE sent(d) \in Seq(Current(d))
    <3>1. (IF d = c THEN times ELSE << >>) \in Seq(Current(d))
      BY <1>4, EmptySeq
    <3>2. Immediate(d, updates) \in Seq(Current(d))
      BY <1>1, <1>3, ImmediateGathered
    <3> QED  BY <3>1, <3>2, ConcatOf
  <2>2. outbox' = [d \in Clients |-> IF conn[d] = "open" THEN outbox[d] \o sent(d) ELSE outbox[d]]
    BY <1>6 DEF Distributed, Sent, times
  <2> HIDE DEF sent
  <2>3. Quiet
    BY <2>1, <2>2 DEF Quiet, Gets
  <2>4. ASSUME NEW d \in Clients PROVE queued_updates[d] \o Queued(d, updates) \in Seq(Snapshots)
    <3>1. queued_updates[d] \in Seq(Snapshots) /\ Queued(d, updates) \in Seq(Snapshots)
      BY <1>3, QueuedGathered DEF TaskTypes
    <3> QED  BY <3>1, ConcatOf
  <2>5. queued_updates' = [d \in Clients |-> queued_updates[d] \o Queued(d, updates)]
    BY <1>6 DEF Distributed
  <2> QED  BY <2>3, <2>4, <2>5
<1> QED  BY <1>2, <1>5, <1>6 DEF StoresFrame, updates, times

\* broadcast_loop sends what is queued for the clients it serves.
LEMMA ServeDefaultQuiet ==
  ASSUME DirectoryTypes, TaskTypes, ~BroadcastFails, ServeDefaultSubs
  PROVE  Quiet /\ queued_updates' \in [Clients -> Seq(Snapshots)]
<1> DEFINE sent(c) == IF Flushes(c)
                      THEN AsMessages(c, TickUpdates(DefaultSub(c), queued_updates[c]))
                      ELSE << >>
<1>1. ASSUME NEW c \in Clients PROVE sent(c) \in Seq(Current(c))
  <2>1. CASE Flushes(c)
    <3>1. queued_updates[c] \in Seq(Snapshots) /\ AllKnown(c, queued_updates[c])
      BY <2>1 DEF TaskTypes, BroadcastFails
    <3> DEFINE updates == TickUpdates(DefaultSub(c), queued_updates[c])
    <3>2. updates \in Seq(Snapshots) /\ AllKnown(c, updates)
      BY <3>1, TickUpdatesKnown
    <3> HIDE DEF updates
    <3>3. AsMessages(c, updates) \in Seq(Current(c))
      BY <3>2, AsMessagesCurrent
    <3> QED  BY <2>1, <3>3 DEF updates
  <2>2. CASE ~Flushes(c)
    BY <2>2, EmptySeq
  <2> QED  BY <2>1, <2>2
<1>2. /\ outbox' = [c \in Clients |-> IF conn[c] = "open" THEN outbox[c] \o sent(c) ELSE outbox[c]]
      /\ queued_updates' = [c \in Clients |-> IF Flushes(c) THEN << >> ELSE queued_updates[c]]
  BY DEF ServeDefaultSubs, Sent
<1> HIDE DEF sent
<1>3. Quiet
  BY <1>1, <1>2 DEF Quiet, Gets
<1> QED  BY <1>2, <1>3, EmptySeq DEF TaskTypes

\* broadcast_with_period sends what it takes from the queue of its client.
LEMMA ServeLoopQuiet ==
  ASSUME DirectoryTypes, TaskTypes, NEW t \in DOMAIN loops, ~LoopFails(t), ServeLoop(t)
  PROVE  Quiet /\ queued_updates' \in [Clients -> Seq(Snapshots)]
<1> DEFINE c     == loops[t].cid
           queue == queued_updates[c]
           here  == CoveredPlaces(t)
<1>1. c \in Clients /\ queue \in Seq(Snapshots)
  <2>1. loops[t] \in LoopTasks
    BY ElementOfSeq, LenProperties DEF TaskTypes
  <2> QED  BY <2>1 DEF TaskTypes, LoopTasks
<1>2. here \in SUBSET DOMAIN queue
  BY DEF CoveredPlaces
<1>3. /\ outbox' = SentTo(c, AsMessages(c, TickUpdates(loops[t].sub, Covered(t))))
      /\ queued_updates' = [queued_updates EXCEPT ![c] = Uncovered(t)]
      /\ AllKnown(c, Covered(t))
      /\ Covered(t) = AtPlaces(queue, here) /\ Uncovered(t) = AtPlaces(queue, DOMAIN queue \ here)
  BY DEF ServeLoop, LoopFails, Covered, Uncovered
<1> HIDE DEF c, queue, here
<1>4. AtPlaces(queue, here) \in Seq(Snapshots)
  BY <1>1, <1>2, AtPlacesOf
<1>5. AtPlaces(queue, DOMAIN queue \ here) \in Seq(Snapshots)
  BY <1>1, AtPlacesOf
<1> DEFINE updates == TickUpdates(loops[t].sub, Covered(t))
<1>6. updates \in Seq(Snapshots) /\ AllKnown(c, updates)
  BY <1>1, <1>3, <1>4, TickUpdatesKnown
<1> HIDE DEF updates
<1>7. AsMessages(c, updates) \in Seq(Current(c))
  BY <1>1, <1>6, AsMessagesCurrent
<1>8. Quiet
  BY <1>1, <1>3, <1>7, OneIsQuiet DEF updates
<1> QED  BY <1>1, <1>3, <1>5, <1>8 DEF TaskTypes

----------------------------------------------------------------------------
(* News of topics                                                          *)

\* Messages that a step sends are messages when they arrive.
LEMMA OutboxType ==
  ASSUME TaskTypes, outbox' = [c \in Clients |-> outbox'[c]],
         \A c \in Clients : \E msgs \in Seq(Messages) : Gets(c, msgs)
  PROVE  outbox' \in [Clients -> Seq(Messages)]
<1>1. ASSUME NEW c \in Clients PROVE outbox'[c] \in Seq(Messages)
  <2>1. PICK msgs \in Seq(Messages) : Gets(c, msgs)
    OBVIOUS
  <2>2. outbox[c] \in Seq(Messages) /\ outbox[c] \o msgs \in Seq(Messages)
    BY ConcatProperties DEF TaskTypes
  <2> QED  BY <2>1, <2>2 DEF Gets
<1> QED  BY <1>1

\* So a quiet step keeps the type of outbox.
LEMMA QuietType ==
  ASSUME TaskTypes, Quiet PROVE outbox' \in [Clients -> Seq(Messages)]
<1>1. \A c \in Clients : \E msgs \in Seq(Messages) : Gets(c, msgs)
  BY CurrentMessages, SeqMonotonic DEF Quiet
<1> QED  BY <1>1, OutboxType DEF Quiet

\* A publication is announced to each connected client, with its next id.
LEMMA PublishSends ==
  ASSUME DirectoryTypes, TaskTypes, NEW name \in Names, name \in DOMAIN entries',
         IsMap(entries', Names, Topics), AnnounceToAll(name)
  PROVE  /\ \A c \in Clients :
               Gets(c, IF c \in clients
                       THEN << AnnounceMsg(name, next_pub_id[c], entries'[name]) >> ELSE << >>)
         /\ outbox' \in [Clients -> Seq(Messages)]
<1> DEFINE message(c) == AnnounceMsg(name, next_pub_id[c], entries'[name])
           sent(c)    == IF c \in clients THEN << message(c) >> ELSE << >>
<1>1. outbox' = [c \in Clients |-> IF conn[c] = "open" THEN outbox[c] \o sent(c) ELSE outbox[c]]
  BY DEF AnnounceToAll, Announce, Sent
<1>2. \A c \in Clients : message(c) \in Messages
  <2>1. entry_type(entries'[name]) \in DataType
    BY TypeOfTopic DEF IsMap
  <2>2. \A c \in Clients : next_pub_id[c] \in Nat
    BY DEF DirectoryTypes
  <2> QED  BY <2>1, <2>2 DEF AnnounceMsg, Messages, Announcements
<1> HIDE DEF message
<1>3. \A c \in Clients : sent(c) \in Seq(Messages)
  BY <1>2, EmptySeq
<1> HIDE DEF sent
<1>4. \A c \in Clients : Gets(c, sent(c))
  BY <1>1 DEF Gets
<1>5. outbox' \in [Clients -> Seq(Messages)]
  BY <1>1, <1>3, <1>4, OutboxType
<1> QED  BY <1>4, <1>5 DEF sent, message

\* The messages that withdraw topics from a client that knows them.
LEMMA UnannouncementsAre ==
  ASSUME DirectoryTypes, NEW c \in Clients, NEW deleted \in Seq(Names),
         \A i \in DOMAIN deleted : Known(c, deleted[i])
  PROVE  /\ Unannouncements(c, deleted) \in Seq(Messages)
         /\ \A i \in DOMAIN Unannouncements(c, deleted) :
               Unannouncements(c, deleted)[i].kind = "unannounce"
         /\ NamesIn(Unannouncements(c, deleted)) = { deleted[i] : i \in DOMAIN deleted }
<1>1. /\ Len(deleted) \in Nat /\ DOMAIN deleted = 1 .. Len(deleted)
      /\ \A i \in DOMAIN deleted : deleted[i] \in Names
  BY PlacesFinite
<1>2. \A i \in DOMAIN deleted : lookup_id(c, deleted[i]) \in Nat
  BY DEF DirectoryTypes, IsMap, Known, lookup_id
<1> DEFINE message(i) == UnannounceMsg(deleted[i], lookup_id(c, deleted[i]))
<1>3. \A i \in DOMAIN deleted : /\ message(i) \in Messages
                                /\ message(i).kind = "unannounce" /\ message(i).name = deleted[i]
  BY <1>1, <1>2 DEF UnannounceMsg, Messages, Withdrawals
<1>4. Unannouncements(c, deleted) = [i \in 1 .. Len(deleted) |-> message(i)]
  BY <1>1 DEF Unannouncements
<1> HIDE DEF message
<1>5. Unannouncements(c, deleted) \in Seq(Messages)
  BY <1>1, <1>3, <1>4, IsASeq
<1> QED  BY <1>1, <1>3, <1>4, <1>5 DEF NamesIn

\* Deleting topics withdraws them from the clients that remain.
LEMMA DeleteSends ==
  ASSUME DirectoryTypes, TaskTypes, NEW gone, NEW deleted \in Seq(Names),
         ~UnannounceFails(clients \ gone, deleted),
         outbox' = [c \in Clients |->
                      IF conn[c] = "open"
                      THEN outbox[c] \o (IF c \in clients \ gone THEN Unannouncements(c, deleted)
                                                                ELSE << >>)
                      ELSE outbox[c]]
  PROVE  /\ \A c \in Clients :
               Gets(c, IF c \in clients \ gone THEN Unannouncements(c, deleted) ELSE << >>)
         /\ outbox' \in [Clients -> Seq(Messages)]
<1> DEFINE sent(c) == IF c \in clients \ gone THEN Unannouncements(c, deleted) ELSE << >>
<1>1. ASSUME NEW c \in Clients PROVE sent(c) \in Seq(Messages)
  <2>1. CASE c \in clients \ gone
    <3>1. \A i \in DOMAIN deleted : Known(c, deleted[i])
      BY <2>1 DEF UnannounceFails
    <3>2. Unannouncements(c, deleted) \in Seq(Messages)
      BY <3>1, UnannouncementsAre
    <3> QED  BY <2>1, <3>2
  <2>2. CASE c \notin clients \ gone
    BY <2>2, EmptySeq
  <2> QED  BY <2>1, <2>2
<1>2. \A c \in Clients : Gets(c, sent(c))
  BY DEF Gets
<1> HIDE DEF sent
<1>3. outbox' \in [Clients -> Seq(Messages)]
  BY <1>1, <1>2, OutboxType
<1> QED  BY <1>2, <1>3 DEF sent

\* A new client is told of every topic, once.
LEMMA GreetSends ==
  ASSUME IInv, TaskTypes, NEW c \in clients, NEW order \in SetToSeqs(DOMAIN entries),
         outbox' = SentTo(c, Greetings(c, order))
  PROVE  /\ Greetings(c, order) \in Seq(Messages)
         /\ \A d \in Clients : Gets(d, IF d = c THEN Greetings(c, order) ELSE << >>)
         /\ outbox' \in [Clients -> Seq(Messages)]
<1>1. /\ IsFiniteSet(DOMAIN entries) /\ IsMap(entries, Names, Topics)
      /\ c \in Clients /\ next_pub_id[c] \in Nat /\ next_pub_id[c] > 0
  <2>1. IsMap(entries, Names, Topics)
    BY DEF IInv, DirectoryInv, DirectoryTypes
  <2>2. IsFiniteSet(DOMAIN entries)
    BY <2>1, NamesFinite, FS_Subset DEF IsMap
  <2> QED  BY <2>1, <2>2 DEF IInv, DirectoryInv, DirectoryTypes
<1>2. /\ Cardinality(DOMAIN entries) \in Nat /\ DOMAIN order = 1 .. Cardinality(DOMAIN entries)
      /\ \A i \in DOMAIN order : order[i] \in DOMAIN entries
  <2>1. \A i \in DOMAIN order : order[i] \in DOMAIN entries
    BY DEF SetToSeqs
  <2> QED  BY <1>1, <2>1, OrderIsBijection
<1> DEFINE message(i) == AnnounceMsg(order[i], next_pub_id[c] + i - 1, entries[order[i]])
           size == Cardinality(DOMAIN entries)
<1>3. ASSUME NEW i \in 1 .. size PROVE message(i) \in Messages
  <2>1. order[i] \in Names /\ entries[order[i]] \in Topics
    BY <1>1, <1>2 DEF IsMap
  <2>2. entry_type(entries[order[i]]) \in DataType
    BY <2>1, TypeOfTopic
  <2>3. next_pub_id[c] + i - 1 \in Nat
    BY <1>1, <1>2
  <2> QED  BY <2>1, <2>2, <2>3 DEF AnnounceMsg, Messages, Announcements
<1>4. Greetings(c, order) = [i \in 1 .. size |-> message(i)]
  BY <1>2 DEF Greetings
<1> HIDE DEF message
<1>5. Greetings(c, order) \in Seq(Messages)
  BY <1>2, <1>3, <1>4, IsASeq
<1> DEFINE sent(d) == IF d = c THEN Greetings(c, order) ELSE << >>
<1>6. outbox' = [d \in Clients |-> IF conn[d] = "open" THEN outbox[d] \o sent(d) ELSE outbox[d]]
  BY DEF SentTo, Sent
<1>7. \A d \in Clients : sent(d) \in Seq(Messages)
  BY <1>5, EmptySeq
<1>8. \A d \in Clients : Gets(d, sent(d))
  BY <1>6 DEF Gets
<1> HIDE DEF sent
<1>9. outbox' \in [Clients -> Seq(Messages)]
  BY <1>6, <1>7, <1>8, OutboxType
<1> QED  BY <1>5, <1>8, <1>9 DEF sent

----------------------------------------------------------------------------
(* What clients come to know                                               *)

\* A client's view of the topics has the type of one after any message.
LEMMA ViewType ==
  ASSUME NEW known \in Views, NEW msgs \in Seq(Messages)
  PROVE  Replay(known, msgs) \in Views
<1>1. ASSUME NEW old \in Views, NEW msg \in Messages PROVE Learn(old, msg) \in Views
  <2> DEFINE V == [id : Nat, type : DataType]
  <2>1. PICK S \in SUBSET Names : old \in [S -> V]
    BY DEF Views
  <2>2. CASE msg \in Announcements
    <3>1. /\ msg.name \in Names /\ [id |-> msg.id, type |-> msg.type] \in V
          /\ Learn(old, msg) = Put(old, msg.name, [id |-> msg.id, type |-> msg.type])
      BY <2>2 DEF Announcements, Learn
    <3> HIDE DEF V
    <3>2. Learn(old, msg) \in [S \cup {msg.name} -> V]
      BY <2>1, <3>1 DEF Put
    <3> QED  BY <3>1, <3>2 DEF Views, V
  <2>3. CASE msg \in Withdrawals
    <3>1. Learn(old, msg) = Without(old, {msg.name})
      BY <2>3 DEF Withdrawals, Learn
    <3> HIDE DEF V
    <3>2. Learn(old, msg) \in [S \ {msg.name} -> V]
      BY <2>1, <3>1 DEF Without
    <3> QED  BY <3>2 DEF Views, V
  <2>4. CASE msg \in ValueMessages \/ msg = TimeMsg
    BY <2>4 DEF ValueMessages, TimeMsg, Learn
  <2> QED  BY <2>2, <2>3, <2>4 DEF Messages
<1> QED  BY <1>1, ReplayKeeps

\* So have the values it has received.
LEMMA ReceiptType ==
  ASSUME NEW got \in Receipts, NEW msgs \in Seq(Messages)
  PROVE  FoldLeft(Receives, got, msgs) \in Receipts
<1>1. ASSUME NEW old \in Receipts, NEW msg \in Messages PROVE Receives(old, msg) \in Receipts
  <2> DEFINE V == [value : NTValues, timestamp : Nat]
  <2>1. PICK S \in SUBSET Names : old \in [S -> V]
    BY DEF Receipts
  <2>2. CASE msg \in ValueMessages
    <3> DEFINE last == [value |-> msg.value, timestamp |-> msg.timestamp]
    <3>1. msg.name \in Names /\ last \in V /\ Receives(old, msg) = Put(old, msg.name, last)
      BY <2>2 DEF ValueMessages, Receives
    <3> HIDE DEF V, last
    <3>2. Receives(old, msg) \in [S \cup {msg.name} -> V]
      BY <2>1, <3>1 DEF Put
    <3> QED  BY <3>1, <3>2 DEF Receipts, V
  <2>3. CASE msg \notin ValueMessages
    BY <2>3 DEF Messages, Announcements, Withdrawals, TimeMsg, Receives
  <2> QED  BY <2>2, <2>3
<1> QED  BY <1>1, ReceivingKeeps

----------------------------------------------------------------------------
(* Steps that leave subscriptions and loops alone                          *)

\* A topic that a client has an id for, or that a step gives it one for, may
\* be covered by its subscriptions.
LEMMA CoveredStay ==
  ASSUME SubscribedTopicsAnnounced,
         \A c \in clients' : /\ c \in clients /\ subs'[c] = subs[c]
                             /\ \A n \in DOMAIN entries' :
                                   \/ Known(c, n)'
                                   \/ n \in DOMAIN entries /\ ~Known(c, n)
  PROVE  SubscribedTopicsAnnounced'
<1> SUFFICES ASSUME NEW c \in clients', NEW n \in DOMAIN entries', subscribed_to(c, n)'
             PROVE  Known(c, n)'
  BY DEF SubscribedTopicsAnnounced
<1>1. subscribed_to(c, n)
  BY DEF subscribed_to
<1>2. n \in DOMAIN entries => Known(c, n)
  BY <1>1 DEF SubscribedTopicsAnnounced
<1> QED  BY <1>2

\* Such a step keeps the invariant if what it sends and queues is of its type.
LEMMA SubsStay ==
  ASSUME SubsInv, UNCHANGED <<clients, subVars>>, ClientTypes', SubscribedTopicsAnnounced',
         queued_updates' \in [Clients -> Seq(Snapshots)], outbox' \in [Clients -> Seq(Messages)]
  PROVE  SubsInv'
<1>1. TaskTypes'
  BY DEF SubsInv, TaskTypes, subVars
<1>2. StrangersUnsubscribed' /\ UidsDistinct' /\ SendersServed'
  BY DEF SubsInv, StrangersUnsubscribed, UidsDistinct, SendersServed, subVars
<1>3. CustomSubsServed'
  BY DEF SubsInv, CustomSubsServed, subVars
<1> QED  BY <1>1, <1>2, <1>3 DEF SubsInv

\* Nothing of a client changes.
LEMMA ClientsStay ==
  ASSUME SubsInv, UNCHANGED <<accepting, clientVars>> PROVE ClientTypes'
  BY DEF SubsInv, ClientTypes, clientVars

----------------------------------------------------------------------------
(* The handlers of channel_loop                                            *)

\* PublishReq: whoever is connected gets an id for the topic.
LEMMA PublishKeepsSubs ==
  ASSUME IInv, SubsInv, NEW c \in Clients, NEW req, req.name \in Names, req.type \in DataType,
         ~PublishFails(c, req), HandlePublish(c, req), UNCHANGED <<taskVars, clientVars>>,
         IInv'
  PROVE  SubsInv'
<1>1. AnnounceToAll(req.name) /\ clients' = clients /\ UNCHANGED <<subVars, queued_updates>>
  BY DEF HandlePublish
<1>2. DOMAIN entries' = DOMAIN entries \cup {req.name} /\ IsMap(entries', Names, Topics)
  <2>1. DOMAIN entries' = DOMAIN entries \cup {req.name}
    BY DEF HandlePublish, create_entry, SameType, Put
  <2> QED  BY <2>1 DEF IInv, DirectoryInv, DirectoryTypes
<1>3. outbox' \in [Clients -> Seq(Messages)]
  BY <1>1, <1>2, PublishSends DEF IInv, DirectoryInv, SubsInv
<1>4. \A d \in clients : DOMAIN pub_ids'[d] = DOMAIN pub_ids[d] \cup {req.name}
  <2>1. \A d \in clients : pub_ids'[d] = Put(pub_ids[d], req.name, next_pub_id[d])
    BY <1>1 DEF AnnounceToAll, Announce, announced_ids, IInv, DirectoryInv, DirectoryTypes
  <2> QED  BY <2>1 DEF Put
<1>5. SubscribedTopicsAnnounced'
  <2>1. \A d \in clients, n \in DOMAIN entries' :
           Known(d, n)' \/ (n \in DOMAIN entries /\ ~Known(d, n))
    BY <1>2, <1>4 DEF Known
  <2> QED  BY <1>1, <2>1, CoveredStay DEF SubsInv, subVars
<1>6. ClientTypes'
  BY ClientsStay DEF taskVars
<1> QED  BY <1>1, <1>3, <1>5, <1>6, SubsStay DEF SubsInv, TaskTypes

\* A quiet step that leaves the topics and ids alone.
LEMMA QuietKeepsSubs ==
  ASSUME SubsInv, Quiet, UNCHANGED <<clients, pub_ids, subVars, accepting, clientVars>>,
         DOMAIN entries' = DOMAIN entries, queued_updates' \in [Clients -> Seq(Snapshots)]
  PROVE  SubsInv'
<1>1. SubscribedTopicsAnnounced'
  BY CoveredStay DEF SubsInv, subVars, Known
<1>2. outbox' \in [Clients -> Seq(Messages)] /\ ClientTypes'
  BY QuietType, ClientsStay DEF SubsInv
<1> QED  BY <1>1, <1>2, SubsStay

\* PublishRel: the last release takes the topic and everybody's ids for it.
LEMMA ReleaseKeepsSubs ==
  ASSUME IInv, SubsInv, NEW req, ~ReleaseFails(req), HandleRelease(req),
         UNCHANGED <<taskVars, clientVars>>
  PROVE  SubsInv'
<1>1. UNCHANGED <<clients, subVars, queued_updates>>
  BY DEF HandleRelease
<1>2. CASE LastPublisher(req.name)
  <2>1. /\ entries' = Without(entries, {req.name})
        /\ pub_ids' = [c \in Clients |-> Without(pub_ids[c], {req.name})]
        /\ outbox' = [c \in Clients |-> IF conn[c] = "open"
                        THEN outbox[c] \o (IF c \in clients THEN Unannouncements(c, << req.name >>)
                                                            ELSE << >>)
                        ELSE outbox[c]]
        /\ ~UnannounceFails(clients, << req.name >>)
    BY <1>2 DEF HandleRelease, Sent, ReleaseFails
  <2>2. << req.name >> \in Seq(Names)
    BY DEF ReleaseFails, IInv, DirectoryInv, DirectoryTypes, IsMap
  <2>3. clients \ {} = clients
    OBVIOUS
  <2>4. outbox' \in [Clients -> Seq(Messages)]
    BY <2>1, <2>2, <2>3, DeleteSends DEF IInv, DirectoryInv, SubsInv
  <2>5. SubscribedTopicsAnnounced'
    <3>1. \A c \in clients : DOMAIN pub_ids'[c] = DOMAIN pub_ids[c] \ {req.name}
      BY <2>1 DEF Without, IInv, DirectoryInv, DirectoryTypes
    <3>2. DOMAIN entries' = DOMAIN entries \ {req.name}
      BY <2>1 DEF Without
    <3> QED  BY <1>1, <3>1, <3>2, CoveredStay DEF SubsInv, Known, subVars
  <2> QED  BY <1>1, <2>4, <2>5, ClientsStay, SubsStay DEF SubsInv, TaskTypes, taskVars
<1>3. CASE ~LastPublisher(req.name)
  <2>1. UNCHANGED <<entries, pub_ids, outbox>>
    BY <1>3 DEF HandleRelease
  <2> QED  BY <1>1, <2>1, SilenceIsQuiet, QuietKeepsSubs DEF SubsInv, TaskTypes, taskVars
<1> QED  BY <1>2, <1>3

\* The index of a subscription is its place, or 0 when the uid is new.
LEMMA SubIndexIs ==
  ASSUME NEW c \in Clients, NEW uid, subs[c] \in Seq(Subs)
  PROVE  \/ SubIndex(c, uid) \in 1 .. Len(subs[c]) /\ subs[c][SubIndex(c, uid)].subuid = uid
         \/ SubIndex(c, uid) = 0 /\ \A i \in 1 .. Len(subs[c]) : subs[c][i].subuid # uid
<1> DEFINE I == { i \in 1 .. Len(subs[c]) : subs[c][i].subuid = uid }
<1>1. SubIndex(c, uid) = IF I # {} THEN Min(I) ELSE 0
  BY DEF SubIndex, SelectInSeq
<1>2. CASE I # {}
  <2>1. Len(subs[c]) \in Nat
    BY LenProperties
  <2>2. I \in SUBSET (1 .. Len(subs[c]))
    OBVIOUS
  <2> HIDE DEF I
  <2>3. Min(I) \in I
    BY <1>2, <2>1, <2>2, FirstPlace
  <2> QED  BY <1>1, <1>2, <2>3 DEF I
<1>3. CASE I = {}
  BY <1>1, <1>3
<1> QED  BY <1>2, <1>3

\* Subscribing adds the subscription, in the place of the one of its uid if there
\* is one.
LEMMA SubscribedAsIs ==
  ASSUME NEW c \in Clients, NEW sub \in Subs, subs[c] \in Seq(Subs),
         \A i, j \in DOMAIN subs[c] : subs[c][i].subuid = subs[c][j].subuid => i = j,
         NEW as \in SubscribedAs(c, sub)
  PROVE  /\ as \in Seq(Subs)
         /\ \A i \in DOMAIN as :
               \/ as[i] = sub
               \/ \E j \in DOMAIN subs[c] : as[i] = subs[c][j] /\ as[i].subuid # sub.subuid
         /\ \A i, j \in DOMAIN as : as[i].subuid = as[j].subuid => i = j
<1> DEFINE old == subs[c]
           k   == SubIndex(c, sub.subuid)
<1>1. Len(old) \in Nat /\ DOMAIN old = 1 .. Len(old) /\ \A i \in DOMAIN old : old[i] \in Subs
  BY PlacesFinite
<1>2. \/ k \in 1 .. Len(old) /\ old[k].subuid = sub.subuid
      \/ k = 0 /\ \A i \in 1 .. Len(old) : old[i].subuid # sub.subuid
  BY SubIndexIs
<1>3. /\ k > 0 => as = [old EXCEPT ![k] = sub]
      /\ ~(k > 0) => \E i \in 1 .. Len(old) + 1 : as = InsertAt(old, i, sub)
  BY DEF SubscribedAs, ReplaceAt
<1>4. old \in Seq(Subs) /\ \A i, j \in DOMAIN old : old[i].subuid = old[j].subuid => i = j
  OBVIOUS
<1>5. \A i \in DOMAIN old : old[i] = subs[c][i]
  OBVIOUS
<1>6. DOMAIN subs[c] = DOMAIN old
  OBVIOUS
<1> HIDE DEF old, k
<1>7. CASE k \in 1 .. Len(old) /\ old[k].subuid = sub.subuid
  <2>1. as = [old EXCEPT ![k] = sub] /\ DOMAIN as = DOMAIN old
    <3>1. k > 0
      BY <1>1, <1>7
    <3> QED  BY <1>3, <3>1
  <2>2. as \in Seq(Subs)
    BY <1>1, <1>4, <1>7, <2>1, ExceptSeq
  <2>3. \A i \in DOMAIN as : as[i].subuid = old[i].subuid
    BY <1>7, <2>1
  <2>4. ASSUME NEW i \in DOMAIN as, i # k PROVE as[i] = old[i] /\ as[i].subuid # sub.subuid
    BY <1>1, <1>4, <1>7, <2>1, <2>4
  <2>5. as[k] = sub
    BY <1>1, <1>7, <2>1
  <2>6. \A i \in DOMAIN as : as[i] = sub \/ \E j \in DOMAIN subs[c] :
                                  as[i] = subs[c][j] /\ as[i].subuid # sub.subuid
    BY <1>5, <1>6, <2>1, <2>4, <2>5
  <2>7. \A i, j \in DOMAIN as : as[i].subuid = as[j].subuid => i = j
    <3>1. DOMAIN as = DOMAIN old
      BY <2>1
    <3>2. ASSUME NEW i \in DOMAIN as, NEW j \in DOMAIN as, as[i].subuid = as[j].subuid
          PROVE  i = j
      <4>1. old[i].subuid = old[j].subuid
        BY <2>3, <3>2
      <4> QED  BY <1>4, <3>1, <4>1
    <3> QED  BY <3>2
  <2> QED  BY <2>2, <2>6, <2>7
<1>8. CASE k = 0 /\ \A i \in 1 .. Len(old) : old[i].subuid # sub.subuid
  <2>1. PICK p \in 1 .. Len(old) + 1 : as = InsertAt(old, p, sub)
    <3>1. ~(k > 0)
      BY <1>8
    <3> QED  BY <1>3, <3>1
  <2>2. /\ as \in Seq(Subs) /\ Len(as) = Len(old) + 1 /\ as[p] = sub
        /\ \A i \in 1 .. p - 1 : as[i] = old[i]
        /\ \A i \in p .. Len(old) : as[i + 1] = old[i]
    BY <1>4, <2>1, InsertAtOf DEF Inserted
  <2>3. DOMAIN as = 1 .. Len(old) + 1
    BY <2>2, LenProperties
  <2> DEFINE from(i) == IF i < p THEN i ELSE i - 1
  <2>4. ASSUME NEW i \in DOMAIN as, i # p
        PROVE  from(i) \in DOMAIN old /\ as[i] = old[from(i)]
    <3>1. CASE i < p
      <4>1. i \in 1 .. p - 1 /\ i \in 1 .. Len(old)
        BY <1>1, <2>3, <3>1
      <4> QED  BY <1>1, <2>2, <3>1, <4>1
    <3>2. CASE ~(i < p)
      <4>1. i - 1 \in p .. Len(old) /\ i - 1 \in 1 .. Len(old) /\ (i - 1) + 1 = i
        BY <1>1, <2>3, <2>4, <3>2
      <4> QED  BY <1>1, <2>2, <3>2, <4>1
    <3> QED  BY <3>1, <3>2
  <2>5. ASSUME NEW i \in DOMAIN as, NEW j \in DOMAIN as, i # p, j # p, from(i) = from(j)
        PROVE  i = j
    BY <1>1, <2>3, <2>5
  <2> HIDE DEF from
  <2>6. \A i \in DOMAIN as : i # p => as[i].subuid # sub.subuid
    BY <1>1, <1>8, <2>4
  <2>7. ASSUME NEW i \in DOMAIN as, NEW j \in DOMAIN as, as[i].subuid = as[j].subuid
        PROVE  i = j
    <3>1. CASE i = p \/ j = p
      BY <2>2, <2>6, <2>7, <3>1
    <3>2. CASE i # p /\ j # p
      <4>1. from(i) = from(j)
        BY <1>4, <2>4, <2>7, <3>2
      <4> QED  BY <2>5, <3>2, <4>1
    <3> QED  BY <3>1, <3>2
  <2>8. \A i \in DOMAIN as : as[i] = sub \/ \E j \in DOMAIN subs[c] :
                                  as[i] = subs[c][j] /\ as[i].subuid # sub.subuid
    BY <1>5, <1>6, <2>2, <2>4, <2>6
  <2> QED  BY <2>2, <2>7, <2>8
<1> QED  BY <1>2, <1>7, <1>8

\* Subscribe: a subscription with its own period gets a loop, and the sender of
\* the one it overwrites goes.
LEMMA SubscribeKeepsSubs ==
  ASSUME IInv, SubsInv, NEW c \in Clients, NEW sub \in Subs,
         ~SubscribeFails(c, sub), HandleSubscribe(c, sub), UNCHANGED <<taskVars, clientVars>>
  PROVE  SubsInv'
<1>1. /\ TaskTypes /\ DirectoryTypes /\ c \in clients
      /\ UNCHANGED <<clients, entries, pub_ids, queued_updates>>
  BY DEF SubsInv, IInv, DirectoryInv, SubscribeFails, HandleSubscribe, directoryVars
<1>2. PICK as \in SubscribedAs(c, sub) : subs' = [subs EXCEPT ![c] = as]
  BY DEF HandleSubscribe
<1>3. /\ as \in Seq(Subs)
      /\ \A i \in DOMAIN as :
            \/ as[i] = sub
            \/ \E j \in DOMAIN subs[c] : as[i] = subs[c][j] /\ as[i].subuid # sub.subuid
      /\ \A i, j \in DOMAIN as : as[i].subuid = as[j].subuid => i = j
  <2>1. /\ subs[c] \in Seq(Subs)
        /\ \A i, j \in DOMAIN subs[c] : subs[c][i].subuid = subs[c][j].subuid => i = j
    BY <1>1 DEF TaskTypes, SubsInv, UidsDistinct
  <2> QED  BY <2>1, SubscribedAsIs
<1>4. /\ subs' \in [Clients -> Seq(Subs)] /\ subs'[c] = as
      /\ \A d \in Clients \ {c} : subs'[d] = subs[d]
  BY <1>1, <1>2, <1>3 DEF TaskTypes
<1> DEFINE task == [cid |-> c, sub |-> sub, pc |-> "select"]
           new  == Len(loops) + 1
           uid  == sub.subuid
<1>5. /\ Len(loops) \in Nat /\ DOMAIN loops = 1 .. Len(loops) /\ loops \in Seq(LoopTasks)
      /\ \A t \in DOMAIN loops : loops[t] \in LoopTasks
  BY <1>1, PlacesFinite DEF TaskTypes
<1>6. task \in LoopTasks /\ uid \in SubIds
  BY DEF LoopTasks, Subs
<1>7. /\ sub.periodic = "custom" =>
            /\ loops' = Append(loops, task)
            /\ sub_loop_channels' = [sub_loop_channels EXCEPT ![c] = Put(@, uid, new)]
      /\ sub.periodic # "custom" =>
            loops' = loops /\ sub_loop_channels' = sub_loop_channels
  BY DEF HandleSubscribe, Spawned
<1>8. task.cid = c /\ task.sub = sub /\ task.pc # "ended"
  OBVIOUS
<1> HIDE DEF task, new, uid
<1>9. /\ loops' \in Seq(LoopTasks) /\ DOMAIN loops \subseteq DOMAIN loops'
      /\ \A t \in DOMAIN loops : loops'[t] = loops[t]
      /\ sub.periodic = "custom" => new \in DOMAIN loops' /\ loops'[new] = task
  <2>1. CASE sub.periodic = "custom"
    <3>1. /\ loops' = Append(loops, task) /\ Append(loops, task) \in Seq(LoopTasks)
          /\ Len(Append(loops, task)) = Len(loops) + 1
          /\ Append(loops, task)[Len(loops) + 1] = task
          /\ \A t \in 1 .. Len(loops) : Append(loops, task)[t] = loops[t]
      BY <1>5, <1>6, <1>7, <2>1, AppendProperties
    <3>2. DOMAIN loops' = 1 .. Len(loops) + 1
      BY <3>1, LenProperties
    <3> QED  BY <1>5, <3>1, <3>2 DEF new
  <2>2. CASE sub.periodic # "custom"
    BY <1>5, <1>7, <2>2
  <2> QED  BY <2>1, <2>2
<1>10. ASSUME NEW d \in Clients
       PROVE  /\ IsMap(sub_loop_channels'[d], SubIds, DOMAIN loops')
              /\ \A u \in DOMAIN sub_loop_channels[d] :
                    (d # c \/ u # uid) => /\ u \in DOMAIN sub_loop_channels'[d]
                                          /\ sub_loop_channels'[d][u] = sub_loop_channels[d][u]
              /\ \A u \in DOMAIN sub_loop_channels'[d] :
                    \/ /\ u \in DOMAIN sub_loop_channels[d]
                       /\ sub_loop_channels'[d][u] = sub_loop_channels[d][u]
                    \/ d = c /\ sub.periodic = "custom" /\ sub_loop_channels'[d][u] = new
              /\ d = c /\ sub.periodic = "custom" =>
                    uid \in DOMAIN sub_loop_channels'[d] /\ sub_loop_channels'[d][uid] = new
  <2>1. IsMap(sub_loop_channels[d], SubIds, DOMAIN loops')
    <3>1. IsMap(sub_loop_channels[d], SubIds, DOMAIN loops)
      BY <1>1 DEF TaskTypes
    <3> QED  BY <1>9, <3>1 DEF IsMap
  <2>2. CASE d = c /\ sub.periodic = "custom"
    <3>1. sub_loop_channels'[d] = Put(sub_loop_channels[d], uid, new)
      BY <1>1, <1>7, <2>2 DEF TaskTypes
    <3>2. new \in DOMAIN loops'
      BY <1>9, <2>2
    <3> DEFINE map == sub_loop_channels[d]
    <3> HIDE DEF map
    <3>3. /\ IsMap(Put(map, uid, new), SubIds, DOMAIN loops')
          /\ DOMAIN Put(map, uid, new) = DOMAIN map \cup {uid}
          /\ Put(map, uid, new)[uid] = new
          /\ \A x \in DOMAIN map \ {uid} : Put(map, uid, new)[x] = map[x]
      <4>1. IsMap(map, SubIds, DOMAIN loops')
        BY <2>1 DEF map
      <4> QED  BY <1>6, <3>2, <4>1 DEF IsMap, Put
    <3> QED  BY <2>2, <3>1, <3>3 DEF map
  <2>3. CASE ~(d = c /\ sub.periodic = "custom")
    <3>1. sub_loop_channels'[d] = sub_loop_channels[d]
      BY <1>1, <1>7, <2>3 DEF TaskTypes
    <3> QED  BY <2>1, <2>3, <3>1
  <2> QED  BY <2>2, <2>3
<1>11. TaskTypes'
  <2>1. outbox' \in [Clients -> Seq(Messages)]
    BY <1>1, SubscribeQuiet, QuietType
  <2>2. DOMAIN sub_loop_channels' = Clients
    BY <1>1, <1>7 DEF TaskTypes
  <2> QED  BY <1>1, <1>4, <1>9, <1>10, <2>1, <2>2 DEF TaskTypes
<1>12. ClientTypes'
  BY ClientsStay DEF taskVars
<1>13. StrangersUnsubscribed' /\ UidsDistinct'
  <2>1. StrangersUnsubscribed'
    BY <1>1, <1>4 DEF SubsInv, StrangersUnsubscribed
  <2>2. ASSUME NEW d \in Clients, NEW i \in DOMAIN subs'[d], NEW j \in DOMAIN subs'[d],
               subs'[d][i].subuid = subs'[d][j].subuid
        PROVE  i = j
    <3>1. CASE d = c
      BY <1>3, <1>4, <2>2, <3>1
    <3>2. CASE d # c
      BY <1>4, <2>2, <3>2 DEF SubsInv, UidsDistinct
    <3> QED  BY <3>1, <3>2
  <2> QED  BY <2>1, <2>2 DEF UidsDistinct
<1>14. SendersServed'
  <2> SUFFICES ASSUME NEW d \in Clients, NEW u \in DOMAIN sub_loop_channels'[d]
               PROVE  /\ loops'[sub_loop_channels'[d][u]].cid = d
                      /\ loops'[sub_loop_channels'[d][u]].pc # "ended"
    BY DEF SendersServed
  <2>1. CASE /\ u \in DOMAIN sub_loop_channels[d]
             /\ sub_loop_channels'[d][u] = sub_loop_channels[d][u]
    <3>1. sub_loop_channels[d][u] \in DOMAIN loops
      BY <1>1, <2>1 DEF TaskTypes, IsMap
    <3>2. /\ loops[sub_loop_channels[d][u]].cid = d
          /\ loops[sub_loop_channels[d][u]].pc # "ended"
      BY <2>1 DEF SubsInv, SendersServed
    <3> QED  BY <1>9, <2>1, <3>1, <3>2
  <2>2. CASE d = c /\ sub.periodic = "custom" /\ sub_loop_channels'[d][u] = new
    BY <1>8, <1>9, <2>2
  <2> QED  BY <1>10, <2>1, <2>2
<1>15. CustomSubsServed'
  <2> SUFFICES ASSUME NEW d \in clients', NEW i \in DOMAIN subs'[d],
                      subs'[d][i].periodic = "custom"
               PROVE  /\ subs'[d][i].subuid \in DOMAIN sub_loop_channels'[d]
                      /\ LET new_task == loops'[sub_loop_channels'[d][subs'[d][i].subuid]]
                         IN  /\ new_task.cid = d /\ new_task.sub = subs'[d][i]
                             /\ new_task.pc # "ended"
    BY DEF CustomSubsServed
  <2>1. d \in clients /\ d \in Clients
    BY <1>1 DEF DirectoryTypes
  <2>2. CASE d = c /\ subs'[d][i] = sub
    BY <1>4, <1>8, <1>9, <1>10, <2>2 DEF uid
  <2>3. ASSUME NEW j \in DOMAIN subs[d], subs'[d][i] = subs[d][j],
               d # c \/ subs'[d][i].subuid # uid
        PROVE  /\ subs'[d][i].subuid \in DOMAIN sub_loop_channels'[d]
               /\ LET new_task == loops'[sub_loop_channels'[d][subs'[d][i].subuid]]
                  IN  /\ new_task.cid = d /\ new_task.sub = subs'[d][i]
                      /\ new_task.pc # "ended"
    <3> DEFINE u == subs[d][j].subuid
    <3>1. /\ u \in DOMAIN sub_loop_channels[d]
          /\ LET old_task == loops[sub_loop_channels[d][u]]
             IN  old_task.cid = d /\ old_task.sub = subs[d][j] /\ old_task.pc # "ended"
      BY <2>1, <2>3 DEF SubsInv, CustomSubsServed
    <3>2. sub_loop_channels[d][u] \in DOMAIN loops
      BY <1>1, <2>1, <3>1 DEF TaskTypes, IsMap
    <3>3. u \in DOMAIN sub_loop_channels'[d] /\ sub_loop_channels'[d][u] = sub_loop_channels[d][u]
      BY <1>10, <2>1, <2>3, <3>1
    <3> QED  BY <1>9, <2>3, <3>1, <3>2, <3>3
  <2>4. CASE d # c
    BY <1>4, <2>1, <2>3, <2>4
  <2>5. CASE d = c /\ subs'[d][i] # sub
    <3>1. PICK j \in DOMAIN subs[c] : as[i] = subs[c][j] /\ as[i].subuid # sub.subuid
      BY <1>3, <1>4, <2>5
    <3> QED  BY <1>4, <2>3, <2>5, <3>1 DEF uid
  <2> QED  BY <2>2, <2>4, <2>5
<1>16. SubscribedTopicsAnnounced'
  <2> SUFFICES ASSUME NEW d \in clients', NEW n \in DOMAIN entries', NEW i \in DOMAIN subs'[d],
                      Covers(subs'[d][i], n)
               PROVE  Known(d, n)'
    BY DEF SubscribedTopicsAnnounced, subscribed_to
  <2>1. d \in clients /\ d \in Clients /\ n \in DOMAIN entries
    BY <1>1 DEF DirectoryTypes
  <2>2. Known(d, n)' <=> Known(d, n)
    BY <1>1 DEF Known
  <2>3. ASSUME NEW j \in DOMAIN subs[d], subs'[d][i] = subs[d][j] PROVE Known(d, n)
    BY <2>1, <2>3 DEF SubsInv, SubscribedTopicsAnnounced, subscribed_to
  <2>4. CASE d # c
    BY <1>4, <2>1, <2>2, <2>3, <2>4
  <2>5. CASE d = c
    <3>1. i \in DOMAIN as /\ subs'[d][i] = as[i]
      BY <1>4, <2>5
    <3>2. CASE as[i] = sub
      BY <2>1, <2>2, <2>5, <3>1, <3>2 DEF SubscribeFails
    <3>3. CASE \E j \in DOMAIN subs[c] : as[i] = subs[c][j]
      BY <2>2, <2>3, <2>5, <3>1, <3>3
    <3> QED  BY <1>3, <3>1, <3>2, <3>3
  <2> QED  BY <2>4, <2>5
<1> QED  BY <1>11, <1>12, <1>13, <1>14, <1>15, <1>16 DEF SubsInv

\* Unsubscribing takes away the subscription of the uid, and no other.
LEMMA UnsubscribedIs ==
  ASSUME NEW c \in Clients, NEW uid, subs[c] \in Seq(Subs),
         \A i, j \in DOMAIN subs[c] : subs[c][i].subuid = subs[c][j].subuid => i = j
  PROVE  /\ Unsubscribed(c, uid) \in Seq(Subs)
         /\ \A k \in DOMAIN Unsubscribed(c, uid) : \E i \in DOMAIN subs[c] :
               Unsubscribed(c, uid)[k] = subs[c][i] /\ subs[c][i].subuid # uid
         /\ \A k, l \in DOMAIN Unsubscribed(c, uid) :
               Unsubscribed(c, uid)[k].subuid = Unsubscribed(c, uid)[l].subuid => k = l
<1> DEFINE places == { i \in DOMAIN subs[c] : subs[c][i].subuid # uid }
           left   == AtPlaces(subs[c], places)
<1>1. places \in SUBSET DOMAIN subs[c] /\ \A i \in places : subs[c][i].subuid # uid
  OBVIOUS
<1>2. Unsubscribed(c, uid) = left
  BY DEF Unsubscribed
<1> HIDE DEF places
<1>3. /\ left \in Seq(Subs)
      /\ \A k \in DOMAIN left : Ascending(places)[k] \in places /\ left[k] = subs[c][Ascending(places)[k]]
      /\ \A k, l \in DOMAIN left : Ascending(places)[k] = Ascending(places)[l] => k = l
  BY <1>1, AtPlacesOf
<1> HIDE DEF left
<1>4. \A k \in DOMAIN left : \E i \in DOMAIN subs[c] : left[k] = subs[c][i] /\ subs[c][i].subuid # uid
  BY <1>1, <1>3
<1>5. ASSUME NEW k \in DOMAIN left, NEW l \in DOMAIN left, left[k].subuid = left[l].subuid
      PROVE  k = l
  <2>1. Ascending(places)[k] = Ascending(places)[l]
    BY <1>1, <1>3, <1>5
  <2> QED  BY <1>3, <2>1
<1> QED  BY <1>2, <1>3, <1>4, <1>5

\* Unsubscribe: the sender goes with the subscription.
LEMMA UnsubscribeKeepsSubs ==
  ASSUME IInv, SubsInv, NEW c \in Clients, NEW req, ~UnsubscribeFails(c),
         HandleUnsubscribe(c, req), UNCHANGED <<taskVars, clientVars>>
  PROVE  SubsInv'
<1> DEFINE uid  == req.subuid
           left == Unsubscribed(c, uid)
<1>1. /\ TaskTypes /\ DirectoryTypes /\ c \in clients
      /\ UNCHANGED <<clients, entries, pub_ids, queued_updates, loops, outbox>>
  BY DEF SubsInv, IInv, DirectoryInv, UnsubscribeFails, HandleUnsubscribe, directoryVars
<1>2. /\ left \in Seq(Subs)
      /\ \A k \in DOMAIN left : \E i \in DOMAIN subs[c] :
            left[k] = subs[c][i] /\ subs[c][i].subuid # uid
      /\ \A k, l \in DOMAIN left : left[k].subuid = left[l].subuid => k = l
  <2>1. /\ subs[c] \in Seq(Subs)
        /\ \A i, j \in DOMAIN subs[c] : subs[c][i].subuid = subs[c][j].subuid => i = j
    BY <1>1 DEF TaskTypes, SubsInv, UidsDistinct
  <2> QED  BY <2>1, UnsubscribedIs
<1>3. /\ subs' = [subs EXCEPT ![c] = left]
      /\ sub_loop_channels' = [sub_loop_channels EXCEPT ![c] = Without(@, {uid})]
  BY DEF HandleUnsubscribe
<1> HIDE DEF left, uid
<1>4. /\ subs' \in [Clients -> Seq(Subs)] /\ subs'[c] = left
      /\ \A d \in Clients \ {c} : subs'[d] = subs[d]
  BY <1>1, <1>2, <1>3 DEF TaskTypes
<1>5. ASSUME NEW d \in Clients
      PROVE  /\ IsMap(sub_loop_channels'[d], SubIds, DOMAIN loops)
             /\ DOMAIN sub_loop_channels'[d] \subseteq DOMAIN sub_loop_channels[d]
             /\ \A u \in DOMAIN sub_loop_channels[d] :
                   d # c \/ u # uid => u \in DOMAIN sub_loop_channels'[d]
             /\ \A u \in DOMAIN sub_loop_channels'[d] :
                   sub_loop_channels'[d][u] = sub_loop_channels[d][u]
  <2>1. IsMap(sub_loop_channels[d], SubIds, DOMAIN loops)
    BY <1>1 DEF TaskTypes
  <2>2. CASE d = c
    <3> DEFINE map == sub_loop_channels[d]
    <3>1. sub_loop_channels'[d] = Without(map, {uid})
      BY <1>1, <1>3, <2>2 DEF TaskTypes
    <3> HIDE DEF map
    <3>2. IsMap(map, SubIds, DOMAIN loops)
      BY <2>1 DEF map
    <3>3. /\ IsMap(Without(map, {uid}), SubIds, DOMAIN loops)
          /\ DOMAIN Without(map, {uid}) = DOMAIN map \ {uid}
          /\ \A u \in DOMAIN map \ {uid} : Without(map, {uid})[u] = map[u]
      BY <3>2 DEF IsMap, Without
    <3> QED  BY <2>2, <3>1, <3>3 DEF map
  <2>3. CASE d # c
    <3>1. sub_loop_channels'[d] = sub_loop_channels[d]
      BY <1>1, <1>3, <2>3 DEF TaskTypes
    <3> QED  BY <2>1, <3>1
  <2> QED  BY <2>2, <2>3
<1>6. TaskTypes'
  <2>1. DOMAIN sub_loop_channels' = Clients
    BY <1>1, <1>3 DEF TaskTypes
  <2> QED  BY <1>1, <1>4, <1>5, <2>1 DEF TaskTypes
<1>7. ClientTypes'
  BY ClientsStay DEF taskVars
<1>8. ASSUME NEW d \in Clients, NEW i \in DOMAIN subs'[d]
      PROVE  \E j \in DOMAIN subs[d] :
                subs'[d][i] = subs[d][j] /\ (d # c \/ subs'[d][i].subuid # uid)
  BY <1>2, <1>4
<1>9. StrangersUnsubscribed' /\ UidsDistinct'
  <2>1. StrangersUnsubscribed'
    BY <1>1, <1>4 DEF SubsInv, StrangersUnsubscribed
  <2>2. ASSUME NEW d \in Clients, NEW i \in DOMAIN subs'[d], NEW j \in DOMAIN subs'[d],
               subs'[d][i].subuid = subs'[d][j].subuid
        PROVE  i = j
    <3>1. CASE d = c
      BY <1>2, <1>4, <2>2, <3>1
    <3>2. CASE d # c
      BY <1>4, <2>2, <3>2 DEF SubsInv, UidsDistinct
    <3> QED  BY <3>1, <3>2
  <2> QED  BY <2>1, <2>2 DEF UidsDistinct
<1>10. SendersServed'
  BY <1>1, <1>5 DEF SubsInv, SendersServed
<1>11. CustomSubsServed'
  <2> SUFFICES ASSUME NEW d \in clients, NEW i \in DOMAIN subs'[d],
                      subs'[d][i].periodic = "custom"
               PROVE  /\ subs'[d][i].subuid \in DOMAIN sub_loop_channels'[d]
                      /\ LET task == loops[sub_loop_channels'[d][subs'[d][i].subuid]]
                         IN  task.cid = d /\ task.sub = subs'[d][i] /\ task.pc # "ended"
    BY <1>1 DEF CustomSubsServed
  <2>1. d \in Clients
    BY <1>1 DEF DirectoryTypes
  <2>2. PICK j \in DOMAIN subs[d] :
           subs'[d][i] = subs[d][j] /\ (d # c \/ subs'[d][i].subuid # uid)
    BY <1>8, <2>1
  <2>3. /\ subs[d][j].subuid \in DOMAIN sub_loop_channels[d]
        /\ LET task == loops[sub_loop_channels[d][subs[d][j].subuid]]
           IN  task.cid = d /\ task.sub = subs[d][j] /\ task.pc # "ended"
    BY <2>2 DEF SubsInv, CustomSubsServed
  <2> QED  BY <1>5, <2>1, <2>2, <2>3
<1>12. SubscribedTopicsAnnounced'
  <2> SUFFICES ASSUME NEW d \in clients, NEW n \in DOMAIN entries, NEW i \in DOMAIN subs'[d],
                      Covers(subs'[d][i], n)
               PROVE  Known(d, n)'
    BY <1>1 DEF SubscribedTopicsAnnounced, subscribed_to
  <2>1. d \in Clients
    BY <1>1 DEF DirectoryTypes
  <2>2. Known(d, n)
    BY <1>8, <2>1 DEF SubsInv, SubscribedTopicsAnnounced, subscribed_to
  <2> QED  BY <1>1, <2>2 DEF Known
<1> QED  BY <1>6, <1>7, <1>9, <1>10, <1>11, <1>12 DEF SubsInv

\* The topics that go with a client, in the order in which it published them.
LEMMA OrphansListed ==
  ASSUME DirectoryTypes, NEW c \in Clients
  PROVE  /\ OrphansInOrder(c) \in Seq(Names)
         /\ { OrphansInOrder(c)[i] : i \in DOMAIN OrphansInOrder(c) } = Orphans(c)
<1>1. pubs[c] \in Seq(Names) /\ Zeroes(c) \in SUBSET DOMAIN pubs[c]
  BY DEF DirectoryTypes, Zeroes
<1> DEFINE places == Zeroes(c)
           seq    == pubs[c]
           list   == AtPlaces(seq, places)
<1>2. list = OrphansInOrder(c) /\ Orphans(c) = { seq[i] : i \in places }
  BY DEF OrphansInOrder, Orphans
<1>3. seq \in Seq(Names) /\ places \in SUBSET DOMAIN seq
  BY <1>1
<1> HIDE DEF places, seq
<1>4. /\ list \in Seq(Names)
      /\ \A k \in DOMAIN list : Ascending(places)[k] \in places /\ list[k] = seq[Ascending(places)[k]]
      /\ \A i \in places : \E k \in DOMAIN list : list[k] = seq[i]
  BY <1>3, AtPlacesOf
<1> HIDE DEF list
<1>5. { list[k] : k \in DOMAIN list } = { seq[i] : i \in places }
  BY <1>4
<1> QED  BY <1>2, <1>4, <1>5

\* ClientDisconnected: the client goes, with its subscriptions and senders, and
\* so do the topics that only it published.
LEMMA DisconnectKeepsSubs ==
  ASSUME IInv, SubsInv, NEW c \in Clients, ~DisconnectFails(c), HandleDisconnect(c),
         UNCHANGED <<taskVars, clientVars>>
  PROVE  SubsInv'
<1>1. CASE c \notin clients
  <2>1. UNCHANGED <<directoryVars, subVars, queued_updates, outbox>>
    BY <1>1 DEF HandleDisconnect
  <2> QED  BY <2>1, SilenceIsQuiet, QuietKeepsSubs DEF SubsInv, TaskTypes, directoryVars, taskVars
<1>2. CASE c \in clients
  <2>1. TaskTypes /\ DirectoryTypes /\ clients \subseteq Clients
    BY DEF SubsInv, IInv, DirectoryInv, DirectoryTypes
  <2>2. /\ DropClient(c) /\ loops' = loops
        /\ entries' = Without(entries, Orphans(c))
        /\ pub_ids' = [d \in Clients |-> IF d = c THEN Empty ELSE Without(pub_ids[d], Orphans(c))]
        /\ outbox' = Sent(LAMBDA d : IF d \in clients'
                                     THEN Unannouncements(d, OrphansInOrder(c)) ELSE << >>)
    BY <1>2 DEF HandleDisconnect
  <2>3. /\ clients' = clients \ {c}
        /\ subs' \in [Clients -> Seq(Subs)] /\ subs'[c] = << >>
        /\ \A d \in Clients \ {c} : subs'[d] = subs[d]
        /\ DOMAIN sub_loop_channels' = Clients /\ sub_loop_channels'[c] = Empty
        /\ \A d \in Clients \ {c} : sub_loop_channels'[d] = sub_loop_channels[d]
        /\ queued_updates' \in [Clients -> Seq(Snapshots)]
    BY <2>1, <2>2, EmptySeq DEF DropClient, TaskTypes
  <2>4. outbox' \in [Clients -> Seq(Messages)]
    <3>1. outbox' = [d \in Clients |->
                       IF conn[d] = "open"
                       THEN outbox[d] \o (IF d \in clients \ {c}
                                          THEN Unannouncements(d, OrphansInOrder(c)) ELSE << >>)
                       ELSE outbox[d]]
      BY <2>2, <2>3 DEF Sent
    <3>2. ~UnannounceFails(clients \ {c}, OrphansInOrder(c))
      BY <1>2 DEF DisconnectFails
    <3> QED  BY <2>1, <3>1, <3>2, OrphansListed, DeleteSends
  <2>5. TaskTypes'
    <3>1. \A d \in Clients : IsMap(sub_loop_channels'[d], SubIds, DOMAIN loops)
      BY <2>1, <2>3, EmptyMap DEF TaskTypes
    <3> QED  BY <2>1, <2>2, <2>3, <2>4, <3>1 DEF TaskTypes
  <2>6. ClientTypes'
    BY ClientsStay DEF taskVars
  <2>7. StrangersUnsubscribed' /\ UidsDistinct'
    <3>1. StrangersUnsubscribed'
      BY <2>3 DEF SubsInv, StrangersUnsubscribed
    <3>2. ASSUME NEW d \in Clients, NEW i \in DOMAIN subs'[d], NEW j \in DOMAIN subs'[d],
                 subs'[d][i].subuid = subs'[d][j].subuid
          PROVE  i = j
      <4>1. CASE d = c
        BY <2>3, <3>2, <4>1, EmptySeq
      <4>2. CASE d # c
        <5>1. subs'[d] = subs[d]
          BY <2>3, <4>2
        <5> QED  BY <3>2, <5>1 DEF SubsInv, UidsDistinct
      <4> QED  BY <4>1, <4>2
    <3> QED  BY <3>1, <3>2 DEF UidsDistinct
  <2>8. SendersServed'
    <3> SUFFICES ASSUME NEW d \in Clients, NEW u \in DOMAIN sub_loop_channels'[d]
                 PROVE  /\ loops[sub_loop_channels'[d][u]].cid = d
                        /\ loops[sub_loop_channels'[d][u]].pc # "ended"
      BY <2>2 DEF SendersServed
    <3>1. d # c
      BY <2>3, EmptyMap
    <3>2. sub_loop_channels'[d] = sub_loop_channels[d]
      BY <2>3, <3>1
    <3> QED  BY <3>2 DEF SubsInv, SendersServed
  <2>9. CustomSubsServed'
    <3> SUFFICES ASSUME NEW d \in clients', NEW i \in DOMAIN subs'[d],
                        subs'[d][i].periodic = "custom"
                 PROVE  /\ subs'[d][i].subuid \in DOMAIN sub_loop_channels'[d]
                        /\ LET task == loops[sub_loop_channels'[d][subs'[d][i].subuid]]
                           IN  task.cid = d /\ task.sub = subs'[d][i] /\ task.pc # "ended"
      BY <2>2 DEF CustomSubsServed
    <3>1. d \in clients /\ d \in Clients \ {c}
      BY <2>1, <2>3
    <3>2. subs'[d] = subs[d] /\ sub_loop_channels'[d] = sub_loop_channels[d]
      BY <2>3, <3>1
    <3> QED  BY <3>1, <3>2 DEF SubsInv, CustomSubsServed
  <2>10. SubscribedTopicsAnnounced'
    <3>1. DOMAIN entries' = DOMAIN entries \ Orphans(c)
      BY <2>2 DEF Without
    <3>2. \A d \in clients' : DOMAIN pub_ids'[d] = DOMAIN pub_ids[d] \ Orphans(c)
      BY <2>1, <2>2, <2>3 DEF Without
    <3>3. \A d \in clients', n \in DOMAIN entries' : Known(d, n)' \/ ~Known(d, n)
      BY <3>1, <3>2 DEF Known
    <3> QED  BY <2>1, <2>3, <3>1, <3>3, CoveredStay DEF SubsInv
  <2> QED  BY <2>5, <2>6, <2>7, <2>8, <2>9, <2>10 DEF SubsInv
<1> QED  BY <1>1, <1>2

\* A step that leaves the topics, the ids, the subscriptions and the loops alone.
LEMMA BystanderKeepsSubs ==
  ASSUME SubsInv, UNCHANGED <<clients, entries, pub_ids, subVars, queued_updates>>,
         ClientTypes', outbox' \in [Clients -> Seq(Messages)]
  PROVE  SubsInv'
<1>1. SubscribedTopicsAnnounced'
  BY CoveredStay DEF SubsInv, subVars, Known
<1> QED  BY <1>1, SubsStay DEF SubsInv, TaskTypes

\* A panic changes nothing but the record of it.
LEMMA PanicKeepsSubs ==
  ASSUME SubsInv, NEW site, Panic(site) PROVE SubsInv'
  BY BystanderKeepsSubs DEF Panic, directoryVars, taskVars, clientVars, SubsInv, ClientTypes, TaskTypes

\* Every handler of channel_loop keeps the invariant.
LEMMA ReceiveKeepsSubs ==
  ASSUME IInv, SubsInv, NEW c \in Clients, Receive(c), IInv'
  PROVE  SubsInv'
<1> DEFINE req == Head(inbound[c])
<1>1. CASE HandlerFails(c, req)
  BY <1>1, PanicKeepsSubs DEF Receive
<1>2. CASE ~HandlerFails(c, req)
  <2>1. Handle(c, req) /\ UNCHANGED <<taskVars, clientVars>>
    BY <1>2 DEF Receive
  <2>2. WellFormed(req)
    BY HeadWellFormed DEF Receive, IInv, RequestTypes
  <2>3. TaskTypes /\ DirectoryTypes
    BY DEF SubsInv, IInv, DirectoryInv
  <2> HIDE DEF req
  <2>4. CASE req.kind = "publish" /\ HandlePublish(c, req)
    BY <1>2, <2>1, <2>2, <2>4, PublishKeepsSubs DEF HandlerFails, WellFormed
  <2>5. CASE req.kind = "release" /\ HandleRelease(req)
    BY <1>2, <2>1, <2>5, ReleaseKeepsSubs DEF HandlerFails
  <2>6. CASE req.kind = "setflags" /\ HandleSetFlags(req)
    <3>1. /\ UNCHANGED <<clients, pub_ids, subVars, queued_updates, outbox>>
          /\ DOMAIN entries' = DOMAIN entries
      BY <2>6 DEF HandleSetFlags, update_flags
    <3> QED  BY <2>1, <2>3, <3>1, SilenceIsQuiet, QuietKeepsSubs DEF taskVars, TaskTypes
  <2>7. CASE req.kind = "getvalues" /\ HandleGetValues(c, req)
    <3>1. Quiet /\ UNCHANGED <<clients, entries, pub_ids, subVars, queued_updates>>
      BY <1>2, <2>3, <2>7, GetValuesQuiet DEF HandlerFails, HandleGetValues, directoryVars
    <3> QED  BY <2>1, <2>3, <3>1, QuietKeepsSubs DEF taskVars, TaskTypes
  <2>8. CASE req.kind = "subscribe" /\ HandleSubscribe(c, req.sub)
    BY <1>2, <2>1, <2>2, <2>8, SubscribeKeepsSubs DEF HandlerFails, WellFormed
  <2>9. CASE req.kind = "unsubscribe" /\ HandleUnsubscribe(c, req)
    BY <1>2, <2>1, <2>9, UnsubscribeKeepsSubs DEF HandlerFails
  <2>10. CASE req.kind = "value" /\ HandleValue(c, req)
    <3>1. Quiet /\ queued_updates' \in [Clients -> Seq(Snapshots)]
      BY <1>2, <2>2, <2>3, <2>10, ValueQuiet DEF HandlerFails, WellFormed
    <3>2. UNCHANGED <<clients, pub_ids, subVars>> /\ DOMAIN entries' = DOMAIN entries
      BY <2>10 DEF HandleValue
    <3> QED  BY <2>1, <3>1, <3>2, QuietKeepsSubs DEF taskVars
  <2>11. CASE req.kind = "time" /\ HandleTime(c)
    <3>1. Quiet /\ UNCHANGED <<clients, entries, pub_ids, subVars, queued_updates>>
      BY <2>3, <2>11, TimeQuiet DEF HandleTime, directoryVars
    <3> QED  BY <2>1, <2>3, <3>1, QuietKeepsSubs DEF taskVars, TaskTypes
  <2>12. CASE req.kind = "disconnect" /\ HandleDisconnect(c)
    BY <1>2, <2>1, <2>12, DisconnectKeepsSubs DEF HandlerFails
  <2> QED  BY <2>1, <2>4, <2>5, <2>6, <2>7, <2>8, <2>9, <2>10, <2>11, <2>12 DEF Handle
<1> QED  BY <1>1, <1>2

----------------------------------------------------------------------------
(* The broadcast tasks                                                     *)

\* broadcast_loop.
LEMMA BroadcastKeepsSubs ==
  ASSUME IInv, SubsInv, BroadcastTick PROVE SubsInv'
<1>1. CASE BroadcastFails
  BY <1>1, PanicKeepsSubs DEF BroadcastTick
<1>2. CASE ~BroadcastFails
  <2>1. ServeDefaultSubs
    BY <1>2 DEF BroadcastTick
  <2>2. Quiet /\ queued_updates' \in [Clients -> Seq(Snapshots)]
    BY <1>2, <2>1, ServeDefaultQuiet DEF SubsInv, IInv, DirectoryInv
  <2> QED  BY <2>1, <2>2, QuietKeepsSubs DEF ServeDefaultSubs, directoryVars, taskVars
<1> QED  BY <1>1, <1>2

\* A loop that ends is one whose sender has gone.
LEMMA MoveKeepsSubs ==
  ASSUME IInv, SubsInv, NEW t \in DOMAIN loops, NEW pc \in {"select", "ticked", "ended"}, MoveTo(t, pc),
         pc = "ended" => ~ChannelOpen(t),
         UNCHANGED <<clients, entries, pub_ids, subs, sub_loop_channels, accepting, clientVars>>,
         queued_updates' \in [Clients -> Seq(Snapshots)], outbox' \in [Clients -> Seq(Messages)]
  PROVE  SubsInv'
<1>1. /\ Len(loops) \in Nat /\ DOMAIN loops = 1 .. Len(loops) /\ loops \in Seq(LoopTasks)
      /\ \A s \in DOMAIN loops : loops[s] \in LoopTasks
  BY PlacesFinite DEF SubsInv, TaskTypes
<1> DEFINE moved == [loops[t] EXCEPT !.pc = pc]
<1>2. moved \in LoopTasks /\ moved.cid = loops[t].cid /\ moved.sub = loops[t].sub /\ moved.pc = pc
  <2>1. loops[t] \in LoopTasks
    BY <1>1
  <2> QED  BY <2>1 DEF LoopTasks
<1>3. loops' = [loops EXCEPT ![t] = moved]
  BY DEF MoveTo
<1> HIDE DEF moved
<1>4. loops' \in Seq(LoopTasks)
  BY <1>1, <1>2, <1>3, ExceptSeq
<1>5. DOMAIN loops' = DOMAIN loops
  BY <1>3
<1>6. ASSUME NEW s \in DOMAIN loops
      PROVE  /\ loops'[s].cid = loops[s].cid /\ loops'[s].sub = loops[s].sub
             /\ loops'[s].pc = IF s = t THEN pc ELSE loops[s].pc
  BY <1>1, <1>2, <1>3
<1>7. TaskTypes'
  BY <1>4, <1>5 DEF SubsInv, TaskTypes
<1>8. ClientTypes'
  BY ClientsStay
<1>9. StrangersUnsubscribed' /\ UidsDistinct'
  BY DEF SubsInv, StrangersUnsubscribed, UidsDistinct
<1>10. ASSUME NEW c \in Clients, NEW u \in DOMAIN sub_loop_channels[c]
       PROVE  LET s == sub_loop_channels[c][u]
              IN  s \in DOMAIN loops /\ loops'[s].cid = c /\ loops'[s].pc # "ended"
  <2> DEFINE s == sub_loop_channels[c][u]
  <2>1. s \in DOMAIN loops /\ loops[s].cid = c /\ loops[s].pc # "ended"
    BY DEF SubsInv, TaskTypes, IsMap, SendersServed
  <2>2. s = t => pc # "ended"
    BY <2>1 DEF ChannelOpen
  <2> QED  BY <1>6, <2>1, <2>2
<1>11. SendersServed'
  BY <1>10 DEF SendersServed
<1>12. CustomSubsServed'
  <2> SUFFICES ASSUME NEW c \in clients, NEW i \in DOMAIN subs[c], subs[c][i].periodic = "custom"
               PROVE  /\ subs[c][i].subuid \in DOMAIN sub_loop_channels[c]
                      /\ LET task == loops'[sub_loop_channels[c][subs[c][i].subuid]]
                         IN  task.cid = c /\ task.sub = subs[c][i] /\ task.pc # "ended"
    BY DEF CustomSubsServed
  <2> DEFINE u == subs[c][i].subuid
             s == sub_loop_channels[c][u]
  <2>1. u \in DOMAIN sub_loop_channels[c] /\ loops[s].cid = c /\ loops[s].sub = subs[c][i]
    BY DEF SubsInv, CustomSubsServed
  <2>2. c \in Clients
    BY DEF IInv, DirectoryInv, DirectoryTypes
  <2>3. s \in DOMAIN loops /\ loops'[s].pc # "ended"
    BY <1>10, <2>1, <2>2
  <2> QED  BY <1>6, <2>1, <2>3
<1>13. SubscribedTopicsAnnounced'
  BY CoveredStay DEF SubsInv, Known
<1> QED  BY <1>7, <1>8, <1>9, <1>11, <1>12, <1>13 DEF SubsInv

\* broadcast_with_period.
LEMMA LoopKeepsSubs ==
  ASSUME IInv, SubsInv, NEW t \in DOMAIN loops, LoopStep(t) PROVE SubsInv'
<1>1. CASE LoopTick(t) \/ LoopEnd(t)
  <2>1. /\ MoveTo(t, "ticked") \/ (MoveTo(t, "ended") /\ ~ChannelOpen(t))
        /\ UNCHANGED <<clients, entries, pub_ids, subs, sub_loop_channels, queued_updates,
                       outbox, accepting, clientVars>>
    BY <1>1 DEF LoopTick, LoopEnd, directoryVars, taskVars
  <2> QED  BY <2>1, MoveKeepsSubs DEF SubsInv, TaskTypes
<1>2. CASE LoopRun(t)
  <2>1. CASE LoopFails(t)
    BY <1>2, <2>1, PanicKeepsSubs DEF LoopRun
  <2>2. CASE ~LoopFails(t)
    <3>1. ServeLoop(t)
      BY <1>2, <2>2 DEF LoopRun
    <3>2. Quiet /\ queued_updates' \in [Clients -> Seq(Snapshots)]
      BY <2>2, <3>1, ServeLoopQuiet DEF SubsInv, IInv, DirectoryInv
    <3>3. outbox' \in [Clients -> Seq(Messages)]
      BY <3>2, QuietType DEF SubsInv
    <3> QED  BY <3>1, <3>2, <3>3, MoveKeepsSubs DEF ServeLoop, directoryVars, taskVars
  <2> QED  BY <2>1, <2>2
<1> QED  BY <1>1, <1>2 DEF LoopStep

----------------------------------------------------------------------------
(* Connections and clients                                                 *)

\* The listener accepts a client, and then inserts it.
LEMMA ConnectKeepsSubs ==
  ASSUME IInv, SubsInv, NEW c \in Clients, Accept(c) \/ InsertClient(c) PROVE SubsInv'
<1>1. CASE Accept(c)
  <2>1. /\ conn' = [conn EXCEPT ![c] = "open"] /\ accepting' = accepting \cup {c}
        /\ UNCHANGED <<clients, entries, pub_ids, subVars, queued_updates, outbox, view,
                       received, requests>>
    BY <1>1 DEF Accept, directoryVars
  <2>2. ClientTypes'
    BY <2>1 DEF SubsInv, ClientTypes
  <2> QED  BY <2>1, <2>2, BystanderKeepsSubs DEF SubsInv, TaskTypes
<1>2. CASE InsertClient(c)
  <2>1. /\ accepting' = accepting \ {c} /\ clients' = clients \cup {c}
        /\ UNCHANGED <<entries, pub_ids, subVars, queued_updates, outbox, clientVars>>
    BY <1>2 DEF InsertClient
  <2>2. ClientTypes'
    BY <2>1 DEF SubsInv, ClientTypes, clientVars
  <2>3. TaskTypes'
    BY <2>1 DEF SubsInv, TaskTypes, subVars
  <2>4. StrangersUnsubscribed' /\ UidsDistinct' /\ SendersServed'
    BY <2>1 DEF SubsInv, StrangersUnsubscribed, UidsDistinct, SendersServed, subVars
  <2>5. ASSUME NEW d \in clients', NEW i \in DOMAIN subs[d] PROVE d \in clients
    <3>1. DOMAIN << >> = {} /\ d \in Clients
      BY <2>1 DEF IInv, DirectoryInv, DirectoryTypes
    <3> QED  BY <2>5, <3>1 DEF SubsInv, StrangersUnsubscribed
  <2>6. CustomSubsServed'
    BY <2>1, <2>5 DEF SubsInv, CustomSubsServed, subVars
  <2>7. SubscribedTopicsAnnounced'
    BY <2>1, <2>5 DEF SubsInv, SubscribedTopicsAnnounced, subscribed_to, subVars, Known
  <2> QED  BY <2>2, <2>3, <2>4, <2>6, <2>7 DEF SubsInv
<1> QED  BY <1>1, <1>2

\* update_new_client.
LEMMA GreetKeepsSubs ==
  ASSUME IInv, SubsInv, NEW c \in clients, GreetClient(c) PROVE SubsInv'
<1>1. PICK order \in SetToSeqs(DOMAIN entries) :
         /\ outbox' = SentTo(c, Greetings(c, order))
         /\ pub_ids' = [pub_ids EXCEPT ![c] = GreetedIds(c, order)]
  BY DEF GreetClient
<1>2. UNCHANGED <<clients, entries, subVars, queued_updates, accepting, clientVars>>
  BY DEF GreetClient
<1>3. outbox' \in [Clients -> Seq(Messages)]
  BY <1>1, GreetSends DEF SubsInv
<1>4. \A d \in clients, n \in DOMAIN entries : Known(d, n) => Known(d, n)'
  <2>1. DOMAIN GreetedIds(c, order) = DOMAIN pub_ids[c] \cup DOMAIN entries
    BY DEF GreetedIds
  <2>2. clients \subseteq Clients /\ DOMAIN pub_ids = Clients
    BY DEF IInv, DirectoryInv, DirectoryTypes
  <2> QED  BY <1>1, <2>1, <2>2 DEF Known
<1>5. SubscribedTopicsAnnounced'
  BY <1>2, <1>4, CoveredStay DEF SubsInv, subVars
<1> QED  BY <1>2, <1>3, <1>5, ClientsStay, SubsStay DEF SubsInv, TaskTypes

\* What clients do.
LEMMA ClientKeepsSubs ==
  ASSUME IInv, SubsInv, NEW c \in Clients, ClientStep(c) PROVE SubsInv'
<1>1. ASSUME NEW kind, NEW req, Send(c, kind, req) PROVE SubsInv'
  <2>1. /\ requests' = [requests EXCEPT ![c] = @ + 1]
        /\ UNCHANGED <<clients, entries, pub_ids, subVars, queued_updates, outbox,
                       accepting, conn, view, received>>
    BY <1>1 DEF Send, directoryVars, taskVars
  <2>2. ClientTypes'
    BY <2>1 DEF SubsInv, ClientTypes
  <2> QED  BY <2>1, <2>2, BystanderKeepsSubs DEF SubsInv, TaskTypes
<1>2. ASSUME NEW kept, Close(c, kept) PROVE SubsInv'
  <2>1. /\ conn' = [conn EXCEPT ![c] = "closed"] /\ outbox' = [outbox EXCEPT ![c] = << >>]
        /\ UNCHANGED <<clients, entries, pub_ids, subVars, queued_updates, accepting, view,
                       received, requests>>
    BY <1>2 DEF Close, directoryVars, taskVars
  <2>2. ClientTypes'
    BY <2>1 DEF SubsInv, ClientTypes
  <2>3. outbox' \in [Clients -> Seq(Messages)]
    BY <2>1, EmptySeq DEF SubsInv, TaskTypes
  <2> QED  BY <2>1, <2>2, <2>3, BystanderKeepsSubs
<1>3. CASE ReadMessages(c)
  <2>1. /\ view' = [view EXCEPT ![c] = Replay(@, outbox[c])]
        /\ received' = [received EXCEPT ![c] = FoldLeft(Receives, @, outbox[c])]
        /\ outbox' = [outbox EXCEPT ![c] = << >>]
        /\ UNCHANGED <<clients, entries, pub_ids, subVars, queued_updates, accepting, conn,
                       requests>>
    BY <1>3 DEF ReadMessages, directoryVars, taskVars
  <2>2. outbox' \in [Clients -> Seq(Messages)]
    BY <2>1, EmptySeq DEF SubsInv, TaskTypes
  <2>3. /\ Replay(view[c], outbox[c]) \in Views
        /\ FoldLeft(Receives, received[c], outbox[c]) \in Receipts
    <3>1. view[c] \in Views /\ received[c] \in Receipts /\ outbox[c] \in Seq(Messages)
      BY DEF SubsInv, ClientTypes, TaskTypes
    <3> QED  BY <3>1, ViewType, ReceiptType
  <2>4. ClientTypes'
    BY <2>1, <2>3 DEF SubsInv, ClientTypes
  <2> QED  BY <2>1, <2>2, <2>4, BystanderKeepsSubs
<1>4. CASE \/ SendPublish(c) \/ SendRelease(c) \/ SendSetFlags(c) \/ SendValue(c)
           \/ SendTime(c) \/ SendGetValues(c) \/ SendSubscribe(c) \/ SendUnsubscribe(c)
  BY <1>1, <1>4 DEF SendPublish, SendRelease, SendSetFlags, SendValue, SendTime,
                    SendGetValues, SendSubscribe, SendUnsubscribe
<1>5. CASE Leave(c) \/ Drop(c)
  BY <1>2, <1>5 DEF Leave, Drop
<1> QED  BY <1>3, <1>4, <1>5 DEF ClientStep

----------------------------------------------------------------------------
(* The invariant                                                           *)

\* A new process has no client, no subscription and no loop.
NewTasks ==
    /\ clients = {} /\ accepting = {} /\ loops = << >>
    /\ subs = [c \in Clients |-> << >>]
    /\ sub_loop_channels = [c \in Clients |-> Empty]
    /\ queued_updates = [c \in Clients |-> << >>]
    /\ conn = [c \in Clients |-> "fresh"]
    /\ outbox = [c \in Clients |-> << >>]
    /\ view = [c \in Clients |-> Empty]
    /\ received = [c \in Clients |-> Empty]
    /\ requests \in [Clients -> Nat]

\* It establishes the invariant.
LEMMA NewTasksHold == NewTasks => SubsInv
<1> SUFFICES ASSUME NewTasks PROVE SubsInv
  OBVIOUS
<1> USE DEF NewTasks
<1>1. \A c \in Clients : IsMap(sub_loop_channels[c], SubIds, DOMAIN loops)
  BY EmptyMap
<1>2. TaskTypes
  BY <1>1, EmptySeq DEF TaskTypes
<1>3. Empty \in Views /\ Empty \in Receipts
  <2>1. \A V : Empty \in [{} -> V]
    BY DEF Empty
  <2> QED  BY <2>1 DEF Views, Receipts
<1>4. ClientTypes
  BY <1>3 DEF ClientTypes
<1>5. StrangersUnsubscribed /\ UidsDistinct
  BY DEF StrangersUnsubscribed, UidsDistinct
<1>6. SendersServed
  BY EmptyMap DEF SendersServed
<1>7. CustomSubsServed /\ SubscribedTopicsAnnounced
  BY DEF CustomSubsServed, SubscribedTopicsAnnounced
<1> QED  BY <1>2, <1>4, <1>5, <1>6, <1>7 DEF SubsInv

\* Every step keeps the invariant.
LEMMA NextKeepsSubs == IInv /\ SubsInv /\ [Next]_vars => SubsInv'
<1> SUFFICES ASSUME IInv, SubsInv, [Next]_vars PROVE SubsInv'
  OBVIOUS
<1>1. IInv'
  BY NextKeeps
<1>2. ASSUME NEW c \in Clients, ConnectionStep(c) PROVE SubsInv'
  <2>1. CASE Accept(c) \/ InsertClient(c)
    BY <2>1, ConnectKeepsSubs
  <2>2. CASE update_new_client(c)
    BY <2>2, GreetKeepsSubs, PanicKeepsSubs DEF update_new_client
  <2> QED  BY <1>2, <2>1, <2>2 DEF ConnectionStep
<1>3. CASE FlushPersistent
  <2>1. /\ UNCHANGED <<clients, entries, pub_ids, subVars, queued_updates, outbox, accepting,
                       clientVars>>
    BY <1>3 DEF FlushPersistent, directoryVars, taskVars
  <2> QED  BY <2>1, ClientsStay, BystanderKeepsSubs DEF SubsInv, TaskTypes
<1>4. CASE Restart
  <2>1. NewTasks'
    BY <1>4 DEF Restart, NewTasks, SubsInv, ClientTypes
  <2>2. (NewTasks => SubsInv)'
    BY NewTasksHold, PTL
  <2> QED  BY <2>1, <2>2
<1>5. CASE UNCHANGED vars
  <2>1. UNCHANGED <<clients, entries, pub_ids, subVars, queued_updates, outbox, accepting,
                    clientVars>>
    BY <1>5 DEF vars, directoryVars, taskVars
  <2> QED  BY <2>1, ClientsStay, BystanderKeepsSubs DEF SubsInv, TaskTypes
<1>6. ASSUME NEW c \in Clients, NEW k \in 2 .. MaxFrame, ReceiveFrame(c, k) PROVE SubsInv'
  <2>1. Quiet /\ queued_updates' \in [Clients -> Seq(Snapshots)]
    BY <1>6, FrameQuiet DEF SubsInv
  <2>2. UNCHANGED <<clients, pub_ids, subVars, accepting, clientVars>> /\ DOMAIN entries' = DOMAIN entries
    BY <1>6, FrameStep, FrameStoresTopics DEF taskVars
  <2> QED  BY <2>1, <2>2, QuietKeepsSubs
<1> QED  BY <1>1, <1>2, <1>3, <1>4, <1>5, <1>6, ClientKeepsSubs, ReceiveKeepsSubs,
         BroadcastKeepsSubs, LoopKeepsSubs DEF Next

\* The invariants hold in every reachable state.
LEMMA SubsInvariance == Spec => [](IInv /\ SubsInv)
<1>1. Init => NewTasks
  BY DEF Init, NewTasks
<1>2. Init => IInv /\ SubsInv
  BY <1>1, InitHolds, NewTasksHold
<1>3. (IInv /\ SubsInv) /\ [Next]_vars => (IInv /\ SubsInv)'
  BY NextKeeps, NextKeepsSubs
<1> QED  BY <1>2, <1>3, PTL DEF Spec

----------------------------------------------------------------------------
(* Frames and their values one by one                                      *)

\* A frame that does not panic stores and distributes all its values.
LEMMA FrameComplete ==
  ASSUME IInv, NEW c \in Clients, NEW k \in 2 .. MaxFrame, ReceiveFrame(c, k), panicked' = NoPanic
  PROVE  LET frame == SubSeq(inbound[c], 1, k)
         IN  /\ frame \in Seq(FrameRequests(c)) /\ Len(frame) = k /\ c \in clients
             /\ entries' = StoreFrame(c, frame).topics
             /\ Distributed(c, frame, StoreFrame(c, frame).updates)
<1> DEFINE frame == SubSeq(inbound[c], 1, k)
<1>1. c \in clients /\ k \in FrameSizes(c)
  BY DEF ReceiveFrame
<1>2. /\ Len(frame) = k /\ DOMAIN frame = 1 .. k
      /\ (\A i \in 1 .. k : ~Unknown(c, frame[i])) => frame \in Seq(FrameRequests(c))
  BY <1>1, FrameOf
<1>3. ~\E i \in DOMAIN frame : Unknown(c, frame[i])
  BY DEF ReceiveFrame, NoPanic
<1>4. /\ entries' = StoreFrame(c, frame).topics
      /\ Distributed(c, frame, StoreFrame(c, frame).updates)
  BY <1>3 DEF ReceiveFrame
<1> QED  BY <1>1, <1>2, <1>3, <1>4

\* What handlers of one value each would have sent and queued of what is stored.
SentAfter(d, updates) ==
    IF conn[d] = "open" THEN outbox[d] \o Immediate(d, updates) ELSE outbox[d]
HandledAfter(done) ==
    [ topics |-> done.topics,
      sent   |-> [d \in Clients |-> SentAfter(d, done.updates)],
      queues |-> [d \in Clients |-> queued_updates[d] \o Queued(d, done.updates)] ]

\* One more update is sent or queued at the end.
LEMMA DistributedAppend ==
  ASSUME DirectoryTypes, TaskTypes, SubscribedTopicsAnnounced,
         NEW d \in Clients, NEW updates \in Seq(Updates), NEW update \in Updates
  PROVE  /\ SentAfter(d, Append(updates, update)) =
               IF SendsNow(d, update.name) /\ conn[d] = "open"
               THEN Append(SentAfter(d, updates), ValueMsg(lookup_id(d, update.name), update))
               ELSE SentAfter(d, updates)
         /\ queued_updates[d] \o Queued(d, Append(updates, update)) =
               IF Queues(d, update.name)
               THEN Append(queued_updates[d] \o Queued(d, updates), update)
               ELSE queued_updates[d] \o Queued(d, updates)
<1> DEFINE ups == Append(updates, update)
           now == Immediate(d, updates)
           new == SentOf(d)[update]
           msg == ValueMsg(lookup_id(d, update.name), update)
           wait == Queued(d, updates)
           late == QueuedOf(d)[update]
<1>1. ups \in Seq(Updates)
  BY AppendProperties
<1>2. /\ SentOf(d) \in [Updates -> Seq(Current(d))] /\ now \in Seq(Current(d))
      /\ Immediate(d, ups) = Gather(ups, SentOf(d)) /\ now = Gather(updates, SentOf(d))
  BY <1>1, ImmediateGathered
<1>3. Immediate(d, ups) = now \o new
  <2>1. \A F \in [Updates -> Seq(Current(d))] :
           Gather(Append(updates, update), F) = Gather(updates, F) \o F[update]
    BY GatherAppend
  <2> QED  BY <1>2, <2>1
<1>4. /\ QueuedOf(d) \in [Updates -> Seq(Snapshots)] /\ wait \in Seq(Snapshots)
      /\ Queued(d, ups) = Gather(ups, QueuedOf(d)) /\ wait = Gather(updates, QueuedOf(d))
  BY <1>1, QueuedGathered
<1>5. Queued(d, ups) = wait \o late
  <2>1. \A F \in [Updates -> Seq(Snapshots)] :
           Gather(Append(updates, update), F) = Gather(updates, F) \o F[update]
    BY GatherAppend
  <2> QED  BY <1>4, <2>1
<1>6. /\ new = IF SendsNow(d, update.name) THEN << msg >> ELSE << >>
      /\ late = IF Queues(d, update.name) THEN << update >> ELSE << >>
  BY DEF SentOf, QueuedOf
<1>7. /\ outbox[d] \in Seq(Messages) /\ now \in Seq(Messages) /\ new \in Seq(Messages)
      /\ queued_updates[d] \in Seq(Snapshots) /\ late \in Seq(Snapshots)
  BY <1>2, <1>4, CurrentMessages, SeqSubset DEF TaskTypes
<1> HIDE DEF ups, now, new, wait, late, msg
<1>8. /\ outbox[d] \o (now \o new) = (outbox[d] \o now) \o new
      /\ queued_updates[d] \o (wait \o late) = (queued_updates[d] \o wait) \o late
  <2>1. Regrouped(outbox[d], now, new)
    BY <1>7, ConcatRegrouped
  <2>2. Regrouped(queued_updates[d], wait, late)
    BY <1>4, <1>7, ConcatRegrouped
  <2> QED  BY <2>1, <2>2 DEF Regrouped
<1>9. outbox[d] \o now \in Seq(Messages) /\ queued_updates[d] \o wait \in Seq(Snapshots)
  BY <1>4, <1>7, ConcatOf
<1>10. (outbox[d] \o now) \o new =
          IF SendsNow(d, update.name) THEN Append(outbox[d] \o now, msg) ELSE outbox[d] \o now
  <2>1. CASE SendsNow(d, update.name)
    <3>1. msg \in Messages
      <4>1. new = << msg >>
        BY <1>6, <2>1
      <4>2. << msg >> \in Seq(Messages) /\ Len(<< msg >>) = 1 /\ << msg >>[1] = msg
        BY <1>7, <4>1
      <4> QED  BY <4>2, ElementOfSeq
    <3> QED  BY <1>6, <1>9, <2>1, <3>1, AppendIsConcat
  <2>2. CASE ~SendsNow(d, update.name)
    BY <1>6, <1>9, <2>2, ConcatEmptySeq
  <2> QED  BY <2>1, <2>2
<1>11. (queued_updates[d] \o wait) \o late =
          IF Queues(d, update.name) THEN Append(queued_updates[d] \o wait, update)
                                    ELSE queued_updates[d] \o wait
  <2>1. CASE Queues(d, update.name)
    BY <1>6, <1>9, <2>1, AppendIsConcat DEF Updates
  <2>2. CASE ~Queues(d, update.name)
    BY <1>6, <1>9, <2>2, ConcatEmptySeq
  <2> QED  BY <2>1, <2>2
<1>12. SentAfter(d, ups) = IF conn[d] = "open" THEN outbox[d] \o (now \o new) ELSE outbox[d]
  BY <1>3 DEF SentAfter
<1>13. SentAfter(d, updates) = IF conn[d] = "open" THEN outbox[d] \o now ELSE outbox[d]
  BY DEF SentAfter, now
<1>14. SentAfter(d, ups) = IF SendsNow(d, update.name) /\ conn[d] = "open"
                           THEN Append(SentAfter(d, updates), msg) ELSE SentAfter(d, updates)
  BY <1>8, <1>10, <1>12, <1>13
<1>15. queued_updates[d] \o Queued(d, ups) =
         IF Queues(d, update.name) THEN Append(queued_updates[d] \o wait, update)
                                   ELSE queued_updates[d] \o wait
  BY <1>5, <1>8, <1>11
<1> QED  BY <1>14, <1>15 DEF ups, wait, msg

\* The handler of one value does what the frame will have done with it.
LEMMA AloneKeeps ==
  ASSUME IInv, TaskTypes, SubscribedTopicsAnnounced, NEW c \in clients,
         NEW done \in StoredSet(c), NEW req \in FrameRequests(c)
  PROVE  HandledAlone(c, HandledAfter(done), req) = HandledAfter(StoreValue(c, done, req))
<1> DEFINE name   == id_to_name(c, req.id)
           topic  == set_value(done.topics[name], req)
           update == snapshot(name, topic)
           next   == Stored(done.topics, req, name)
<1>1. /\ done.topics \in [DOMAIN entries -> Topics] /\ done.updates \in Seq(Updates)
      /\ done = [topics |-> done.topics, updates |-> done.updates]
  BY DEF StoredSet, StoredTypes
<1>2. CASE req.kind = "time"
  BY <1>2 DEF HandledAlone, StoreValue
<1>3. CASE req.kind # "time"
  <2>1. req.kind = "value" /\ WellFormed(req) /\ IdKnown(c, req.id)
    BY <1>3 DEF FrameRequests, InFrame
  <2>2. name \in DOMAIN entries
    BY <2>1 DEF IdKnown, id_to_name, IInv, DirectoryInv, AnnouncedMatchEntries
  <2>3. StoreValue(c, done, req) =
          [topics |-> next, updates |-> IF Accepted(done.topics[name], req)
                                        THEN Append(done.updates, snapshot(name, next[name]))
                                        ELSE done.updates]
    BY <1>3 DEF StoreValue
  <2>4. HandledAfter(done).topics = done.topics
    BY DEF HandledAfter
  <2>5. CASE ~Accepted(done.topics[name], req)
    <3>1. HandledAlone(c, HandledAfter(done), req) = HandledAfter(done)
      BY <1>3, <2>4, <2>5 DEF HandledAlone
    <3>2. StoreValue(c, done, req) = done
      BY <1>1, <2>3, <2>5 DEF Stored
    <3> QED  BY <3>1, <3>2
  <2>6. CASE Accepted(done.topics[name], req)
    <3>1. next = [done.topics EXCEPT ![name] = topic] /\ next[name] = topic
      <4> HIDE DEF name
      <4> QED  BY <1>1, <2>2, <2>6 DEF Stored
    <3>2. update \in Updates /\ update.name = name
      <4>1. done.topics[name] \in Topics /\ req.value \in NTValues /\ req.timestamp \in Nat
        BY <1>1, <2>1, <2>2 DEF WellFormed
      <4>2. DOMAIN entries \subseteq Names
        BY DEF IInv, DirectoryInv, DirectoryTypes, IsMap
      <4> HIDE DEF name
      <4> QED  BY <2>2, <4>1, <4>2 DEF set_value, snapshot, Topics, Updates, Snapshots
    <3>3. StoreValue(c, done, req) = [topics |-> next, updates |-> Append(done.updates, update)]
      BY <2>3, <2>6, <3>1
    <3>4. HandledAlone(c, HandledAfter(done), req) =
            [ topics |-> [done.topics EXCEPT ![name] = topic],
              sent   |-> [d \in Clients |->
                            IF SendsNow(d, name) /\ conn[d] = "open"
                            THEN Append(SentAfter(d, done.updates), ValueMsg(lookup_id(d, name), update))
                            ELSE SentAfter(d, done.updates)],
              queues |-> [d \in Clients |->
                            IF Queues(d, name)
                            THEN Append(queued_updates[d] \o Queued(d, done.updates), update)
                            ELSE queued_updates[d] \o Queued(d, done.updates)] ]
      <4> DEFINE state == HandledAfter(done)
      <4>1. /\ state.topics = done.topics
            /\ \A d \in Clients : /\ state.sent[d] = SentAfter(d, done.updates)
                                  /\ state.queues[d] = queued_updates[d] \o Queued(d, done.updates)
        BY DEF HandledAfter
      <4> HIDE DEF state
      <4>2. HandledAlone(c, state, req) =
            [ topics |-> [state.topics EXCEPT ![name] = set_value(state.topics[name], req)],
              sent   |-> [d \in Clients |->
                            IF SendsNow(d, name) /\ conn[d] = "open"
                            THEN Append(state.sent[d], ValueMsg(lookup_id(d, name),
                                            snapshot(name, set_value(state.topics[name], req))))
                            ELSE state.sent[d]],
              queues |-> [d \in Clients |->
                            IF Queues(d, name)
                            THEN Append(state.queues[d],
                                        snapshot(name, set_value(state.topics[name], req)))
                            ELSE state.queues[d]] ]
        <5>1. Accepted(state.topics[name], req)
          BY <2>6, <4>1
        <5> QED  BY <1>3, <5>1 DEF HandledAlone
      <4> HIDE DEF name
      <4> QED  BY <4>1, <4>2 DEF state
    <3>5. ASSUME NEW d \in Clients
          PROVE  /\ SentAfter(d, Append(done.updates, update)) =
                      IF SendsNow(d, name) /\ conn[d] = "open"
                      THEN Append(SentAfter(d, done.updates), ValueMsg(lookup_id(d, name), update))
                      ELSE SentAfter(d, done.updates)
                 /\ queued_updates[d] \o Queued(d, Append(done.updates, update)) =
                      IF Queues(d, name)
                      THEN Append(queued_updates[d] \o Queued(d, done.updates), update)
                      ELSE queued_updates[d] \o Queued(d, done.updates)
      <4> DEFINE updates == done.updates
      <4>1. updates \in Seq(Updates) /\ DirectoryTypes
        BY <1>1 DEF IInv, DirectoryInv
      <4> HIDE DEF updates, update, name
      <4>2. update \in Updates /\ update.name = name
        BY <3>2
      <4> QED  BY <4>1, <4>2, DistributedAppend DEF updates
    <3>6. HandledAfter(StoreValue(c, done, req)) =
            [ topics |-> next,
              sent   |-> [d \in Clients |-> SentAfter(d, Append(done.updates, update))],
              queues |-> [d \in Clients |->
                            queued_updates[d] \o Queued(d, Append(done.updates, update))] ]
      <4> DEFINE after == [topics |-> next, updates |-> Append(done.updates, update)]
      <4>1. after.topics = next /\ after.updates = Append(done.updates, update)
        OBVIOUS
      <4> HIDE DEF after
      <4>2. HandledAfter(after) =
              [ topics |-> next,
                sent   |-> [d \in Clients |-> SentAfter(d, Append(done.updates, update))],
                queues |-> [d \in Clients |->
                              queued_updates[d] \o Queued(d, Append(done.updates, update))] ]
        BY <4>1 DEF HandledAfter
      <4> QED  BY <3>3, <4>2 DEF after
    <3> HIDE DEF name, topic, update, next
    <3> QED  BY <3>1, <3>4, <3>5, <3>6
  <2> QED  BY <2>5, <2>6
<1> QED  BY <1>2, <1>3

\* Hence handlers of one value each and a frame do the same of it.
LEMMA AloneIs ==
  ASSUME IInv, TaskTypes, SubscribedTopicsAnnounced, NEW c \in clients,
         NEW frame \in Seq(FrameRequests(c))
  PROVE  \A i \in 0 .. Len(frame) : HandlingAlone(c, frame)[i] = HandledAfter(Storing(c, frame)[i])
<1> DEFINE n     == Len(frame)
           start == [topics |-> entries, sent |-> outbox, queues |-> queued_updates]
           f     == [i \in 0 .. n |-> HandledAfter(Storing(c, frame)[i])]
           Runs(a) == a = [i \in 0 .. n |-> IF i = 0 THEN start
                                                     ELSE HandledAlone(c, a[i - 1], frame[i])]
<1>1. n \in Nat /\ \A i \in 1 .. n : frame[i] \in FrameRequests(c)
  BY PlacesFinite
<1>2. /\ Storing(c, frame)[0] = StoringStart
      /\ \A i \in 1 .. n : Storing(c, frame)[i] = StoreValue(c, Storing(c, frame)[i - 1], frame[i])
      /\ \A i \in 0 .. n : Storing(c, frame)[i] \in StoredSet(c)
  BY StoreFrameKeeps
<1>3. HandledAfter(StoringStart) = start
  <2>1. \A d \in Clients : SentAfter(d, << >>) = outbox[d]
    <3>1. \A d \in Clients : Immediate(d, << >>) = << >> /\ outbox[d] \o << >> = outbox[d]
      BY FlattenNone, ConcatEmptySeq DEF Immediate, TaskTypes
    <3> QED  BY <3>1 DEF SentAfter
  <2>2. \A d \in Clients : queued_updates[d] \o Queued(d, << >>) = queued_updates[d]
    BY FlattenNone, ConcatEmptySeq DEF Queued, TaskTypes
  <2>3. /\ outbox = [d \in Clients |-> outbox[d]]
        /\ queued_updates = [d \in Clients |-> queued_updates[d]]
    BY DEF TaskTypes
  <2> QED  BY <2>1, <2>2, <2>3 DEF HandledAfter, StoringStart
<1> HIDE DEF start
<1>4. ASSUME NEW i \in 1 .. n
      PROVE  HandledAlone(c, HandledAfter(Storing(c, frame)[i - 1]), frame[i]) =
                HandledAfter(Storing(c, frame)[i])
  <2>1. Storing(c, frame)[i - 1] \in StoredSet(c) /\ frame[i] \in FrameRequests(c)
    BY <1>1, <1>2
  <2> QED  BY <1>2, <2>1, AloneKeeps
<1>5. Runs(f)
  <2>1. \A i \in 0 .. n : f[i] = IF i = 0 THEN start ELSE HandledAlone(c, f[i - 1], frame[i])
    BY <1>1, <1>2, <1>3, <1>4
  <2> QED  BY <2>1
<1>6. HandlingAlone(c, frame) = CHOOSE a : Runs(a)
  BY Zenon DEF HandlingAlone, start
<1> DEFINE after == HandlingAlone(c, frame)
<1>7. Runs(after)
  <2> HIDE DEF Runs
  <2> QED  BY <1>5, <1>6
<1> HIDE DEF after, n
<1>8. \A i \in 0 .. n : after[i] = IF i = 0 THEN start ELSE HandledAlone(c, after[i - 1], frame[i])
  <2>1. \A a : Runs(a) =>
          \A i \in 0 .. n : a[i] = IF i = 0 THEN start ELSE HandledAlone(c, a[i - 1], frame[i])
    BY Zenon
  <2> HIDE DEF Runs
  <2> QED  BY <1>7, <2>1, Zenon
<1> DEFINE K == { k \in Nat : k <= n => after[k] = HandledAfter(Storing(c, frame)[k]) }
<1>9. 0 \in K
  BY <1>1, <1>2, <1>3, <1>8
<1>10. ASSUME NEW k \in Nat, k \in K PROVE k + 1 \in K
  <2> SUFFICES ASSUME k + 1 <= n PROVE after[k + 1] = HandledAfter(Storing(c, frame)[k + 1])
    OBVIOUS
  <2>1. k + 1 \in 1 .. n /\ k + 1 \in 0 .. n /\ k + 1 # 0 /\ k + 1 - 1 = k
    BY <1>1
  <2>2. after[k] = HandledAfter(Storing(c, frame)[k])
    BY <1>1, <1>10
  <2> QED  BY <1>4, <1>8, <2>1, <2>2
<1> HIDE DEF K
<1>11. \A k \in Nat : k \in K
  BY <1>9, <1>10, NaturalInduction
<1> QED  BY <1>1, <1>11 DEF K, after, n

\* A frame takes as many requests as it has.
LEMMA SizeOfFrame ==
  ASSUME IInv, NEW c \in Clients, NEW k \in 2 .. MaxFrame, ReceiveFrame(c, k)
  PROVE  Len(inbound[c]) - Len(inbound'[c]) = k
<1>1. /\ inbound' = [inbound EXCEPT ![c] = SubSeq(inbound[c], k + 1, Len(inbound[c]))]
      /\ k \in Nat /\ Len(inbound[c]) \in Nat /\ k <= Len(inbound[c])
  BY FrameStep, FrameBound
<1>2. PICK S : inbound[c] \in Seq(S)
  BY DEF IInv, RequestTypes, AreWellFormed
<1>3. PICK reqs \in Seq(S) : reqs = inbound[c]
  BY <1>2
<1> DEFINE rest == SubSeq(reqs, k + 1, Len(reqs))
<1>4. DOMAIN reqs = 1 .. Len(reqs) /\ \A i \in DOMAIN reqs : reqs[i] \in S
  BY <1>3, PlacesFinite
<1>5. Len(rest) = Len(reqs) - k
  BY <1>1, <1>3, <1>4, SubSeqProperties
<1>6. inbound'[c] = rest
  BY <1>1, <1>3 DEF IInv, RequestTypes
<1> HIDE DEF rest
<1> QED  BY <1>1, <1>3, <1>5, <1>6

\* And no other step takes several, unless the connection or the process ends.
LEMMA OnlyFramesTakeSeveral ==
  ASSUME IInv, ClientTypes, [Next]_vars, ~Restart, NEW c \in Clients, conn'[c] = conn[c],
         \A k \in 2 .. MaxFrame : ~ReceiveFrame(c, k)
  PROVE  Len(inbound[c]) - Len(inbound'[c]) <= 1
<1>1. PICK S : inbound[c] \in Seq(S)
  BY DEF IInv, RequestTypes, AreWellFormed
<1>2. PICK reqs \in Seq(S) : reqs = inbound[c]
  BY <1>1
<1>3. Len(reqs) \in Nat /\ DOMAIN inbound = Clients
  BY <1>2, LenProperties DEF IInv, RequestTypes
<1>4. CASE inbound'[c] = inbound[c]
  BY <1>2, <1>3, <1>4
<1>5. ASSUME NEW d \in Clients, ClientStep(d) PROVE Len(inbound[c]) - Len(inbound'[c]) <= 1
  <2>1. ASSUME NEW kind, NEW req, Send(d, kind, req) PROVE Len(inbound[c]) - Len(inbound'[c]) <= 1
    <3>1. inbound' = [inbound EXCEPT ![d] = Append(inbound[d], req)]
      BY <2>1 DEF Send
    <3>2. CASE d = c
      <4>1. reqs \in Seq(S \cup {req}) /\ req \in S \cup {req}
        BY <1>2, SeqSubset
      <4>2. Len(Append(reqs, req)) = Len(reqs) + 1
        BY <4>1, AppendProperties
      <4>3. inbound'[c] = Append(reqs, req)
        BY <1>2, <1>3, <3>1, <3>2
      <4> QED  BY <1>2, <1>3, <4>2, <4>3
    <3>3. CASE d # c
      BY <1>3, <1>4, <3>1, <3>3
    <3> QED  BY <3>2, <3>3
  <2>2. ASSUME NEW kept, Close(d, kept) PROVE inbound'[c] = inbound[c]
    <3>1. d # c
      <4>1. conn[d] = "open" /\ conn' = [conn EXCEPT ![d] = "closed"]
        BY <2>2 DEF Close
      <4> QED  BY <4>1 DEF ClientTypes
    <3> QED  BY <1>3, <2>2, <3>1 DEF Close
  <2>3. CASE \/ SendPublish(d) \/ SendRelease(d) \/ SendSetFlags(d) \/ SendValue(d)
             \/ SendTime(d) \/ SendGetValues(d) \/ SendSubscribe(d) \/ SendUnsubscribe(d)
    BY <2>1, <2>3 DEF SendPublish, SendRelease, SendSetFlags, SendValue, SendTime,
                      SendGetValues, SendSubscribe, SendUnsubscribe
  <2>4. CASE Leave(d) \/ Drop(d)
    BY <1>4, <2>2, <2>4 DEF Leave, Drop
  <2>5. CASE ReadMessages(d)
    BY <1>4, <2>5 DEF ReadMessages
  <2> QED  BY <1>5, <2>3, <2>4, <2>5 DEF ClientStep
<1>6. ASSUME NEW d \in Clients, ConnectionStep(d) PROVE inbound' = inbound
  BY <1>6 DEF ConnectionStep, Accept, InsertClient, update_new_client, GreetClient, Panic
<1>7. ASSUME NEW d \in Clients, Receive(d) PROVE Len(inbound[c]) - Len(inbound'[c]) <= 1
  <2>1. inbound' = inbound \/ inbound' = [inbound EXCEPT ![d] = Tail(inbound[d])]
    BY <1>7 DEF Receive, Panic
  <2>2. inbound[d] # << >>
    BY <1>7 DEF Receive
  <2>3. CASE d = c
    <3>1. Len(Tail(reqs)) = Len(reqs) - 1
      BY <1>2, <2>2, <2>3, HeadTailProperties
    <3>2. inbound'[c] = inbound[c] \/ inbound'[c] = Tail(reqs)
      BY <1>2, <1>3, <2>1, <2>3
    <3> QED  BY <1>2, <1>3, <1>4, <3>1, <3>2
  <2>4. CASE d # c
    BY <1>3, <1>4, <2>1, <2>4
  <2> QED  BY <2>3, <2>4
<1>8. ASSUME NEW d \in Clients, NEW k \in 2 .. MaxFrame, ReceiveFrame(d, k)
      PROVE  inbound'[c] = inbound[c]
  BY <1>3, <1>8, FrameStep
<1>9. ASSUME NEW t \in DOMAIN loops, LoopStep(t) PROVE inbound' = inbound
  BY <1>9 DEF LoopStep, LoopTick, LoopRun, LoopEnd, ServeLoop, Panic
<1>10. CASE BroadcastTick \/ FlushPersistent \/ UNCHANGED vars
  BY <1>4, <1>10 DEF BroadcastTick, ServeDefaultSubs, Panic, FlushPersistent, vars
<1> QED  BY <1>4, <1>5, <1>6, <1>7, <1>8, <1>9, <1>10 DEF Next

\* The messages but the times.
ButTimes == [m \in Messages |-> IF m.kind = "time" THEN << >> ELSE << m >>]

\* They are gathered from the messages.
LEMMA ValuesGathered ==
  ASSUME NEW msgs \in Seq(Messages)
  PROVE  /\ ButTimes \in [Messages -> Seq(Messages)]
         /\ WithoutTimes(msgs) = Gather(msgs, ButTimes) /\ WithoutTimes(msgs) \in Seq(Messages)
<1>1. ButTimes \in [Messages -> Seq(Messages)]
  <2>1. \A m \in Messages : << m >> \in Seq(Messages) /\ << >> \in Seq(Messages)
    BY EmptySeq
  <2> QED  BY <2>1 DEF ButTimes
<1>2. WithoutTimes(msgs) = Gather(msgs, ButTimes)
  <2>1. \A i \in DOMAIN msgs : msgs[i] \in Messages
    BY PlacesFinite
  <2> DEFINE here == [i \in DOMAIN msgs |-> IF msgs[i].kind = "time" THEN << >> ELSE << msgs[i] >>]
  <2>2. Parts(msgs, ButTimes) = here
    BY <2>1 DEF Parts, ButTimes
  <2> QED  BY <2>2 DEF WithoutTimes, Gather
<1> QED  BY <1>1, <1>2, GatherOf

\* Those of two sequences, one after the other.
LEMMA ValuesConcat ==
  ASSUME NEW s \in Seq(Messages), NEW t \in Seq(Messages)
  PROVE  WithoutTimes(s \o t) = WithoutTimes(s) \o WithoutTimes(t)
<1>1. s \o t \in Seq(Messages)
  BY ConcatOf
<1>2. Gather(s \o t, ButTimes) = Gather(s, ButTimes) \o Gather(t, ButTimes)
  <2>1. ButTimes \in [Messages -> Seq(Messages)]
    BY ValuesGathered
  <2> QED  BY <2>1, GatherConcat
<1> QED  BY <1>1, <1>2, ValuesGathered

\* Of messages and times, only the messages are values.
LEMMA TimesLeftOut ==
  ASSUME NEW sent \in Seq(Messages), NEW times \in Seq({TimeMsg}), NEW now \in Seq(Messages)
  PROVE  WithoutTimes(sent \o (times \o now)) = WithoutTimes(sent \o now)
<1>1. times \in Seq(Messages)
  <2>1. {TimeMsg} \subseteq Messages
    BY DEF Messages
  <2> QED  BY <2>1, SeqSubset
<1>2. WithoutTimes(times) = << >>
  <2>1. \A m \in {TimeMsg} : ButTimes[m] = << >>
    BY DEF Messages, TimeMsg, ButTimes
  <2>2. Gather(times, ButTimes) = << >>
    BY <2>1, GatherSilent
  <2> QED  BY <1>1, <2>2, ValuesGathered
<1> DEFINE late == times \o now
<1>3. late \in Seq(Messages)
  BY <1>1, ConcatOf
<1>4. WithoutTimes(late) = WithoutTimes(now)
  <2>1. WithoutTimes(late) = WithoutTimes(times) \o WithoutTimes(now)
    BY <1>1, ValuesConcat
  <2>2. WithoutTimes(now) \in Seq(Messages)
    BY ValuesGathered
  <2> QED  BY <1>2, <2>1, <2>2, ConcatEmptySeq
<1> HIDE DEF late
<1>5. /\ WithoutTimes(sent \o late) = WithoutTimes(sent) \o WithoutTimes(late)
      /\ WithoutTimes(sent \o now) = WithoutTimes(sent) \o WithoutTimes(now)
  BY <1>3, ValuesConcat
<1> QED  BY <1>4, <1>5 DEF late

\* A frame does what handlers of one value each would.
LEMMA FrameLikeRun ==
  ASSUME IInv, SubsInv, NEW c \in clients, NEW k \in 2 .. MaxFrame, ReceiveFrame(c, k),
         panicked' = NoPanic
  PROVE  LET alone == HandlingAlone(c, SubSeq(inbound[c], 1, k))[k]
         IN  /\ entries' = alone.topics
             /\ queued_updates' = alone.queues
             /\ \A d \in Clients : WithoutTimes(outbox'[d]) = WithoutTimes(alone.sent[d])
<1> DEFINE frame   == SubSeq(inbound[c], 1, k)
           done    == StoreFrame(c, frame)
           updates == done.updates
           times   == Times(frame)
           alone   == HandlingAlone(c, frame)[k]
<1>1. c \in Clients /\ TaskTypes /\ SubscribedTopicsAnnounced /\ DirectoryTypes
  BY DEF IInv, DirectoryInv, DirectoryTypes, SubsInv
<1>2. /\ frame \in Seq(FrameRequests(c)) /\ Len(frame) = k /\ k \in 0 .. k
      /\ entries' = done.topics /\ Distributed(c, frame, updates)
  BY <1>1, FrameComplete, FrameBound
<1> HIDE DEF frame
<1>3. alone = HandledAfter(Storing(c, frame)[k])
  BY <1>1, <1>2, AloneIs
<1>4. Storing(c, frame)[k] = done
  BY <1>2 DEF StoreFrame
<1>5. updates \in Seq(Updates) /\ times \in Seq({TimeMsg})
  BY <1>2, StoreFrameKeeps, TimesGathered DEF StoredSet, StoredTypes
<1> HIDE DEF done, alone
<1>6. /\ outbox' = [d \in Clients |->
                      IF conn[d] = "open"
                      THEN outbox[d] \o ((IF d = c THEN times ELSE << >>) \o Immediate(d, updates))
                      ELSE outbox[d]]
      /\ queued_updates' = [d \in Clients |-> queued_updates[d] \o Queued(d, updates)]
  BY <1>2 DEF Distributed, Sent
<1>7. /\ alone.topics = done.topics
      /\ alone.sent = [d \in Clients |-> SentAfter(d, updates)]
      /\ alone.queues = [d \in Clients |-> queued_updates[d] \o Queued(d, updates)]
  BY <1>3, <1>4 DEF HandledAfter
<1> HIDE DEF times, updates
<1>8. ASSUME NEW d \in Clients PROVE WithoutTimes(outbox'[d]) = WithoutTimes(alone.sent[d])
  <2> DEFINE now   == Immediate(d, updates)
             first == IF d = c THEN times ELSE << >>
  <2>1. outbox[d] \in Seq(Messages) /\ now \in Seq(Messages) /\ first \in Seq({TimeMsg})
    <3>1. now \in Seq(Current(d))
      BY <1>1, <1>5, ImmediateGathered
    <3> QED  BY <1>1, <1>5, <3>1, CurrentMessages, SeqSubset, EmptySeq DEF TaskTypes
  <2>2. outbox'[d] = IF conn[d] = "open" THEN outbox[d] \o (first \o now) ELSE outbox[d]
    BY <1>6
  <2>3. alone.sent[d] = IF conn[d] = "open" THEN outbox[d] \o now ELSE outbox[d]
    BY <1>7 DEF SentAfter
  <2> HIDE DEF now, first
  <2>4. WithoutTimes(outbox[d] \o (first \o now)) = WithoutTimes(outbox[d] \o now)
    BY <2>1, TimesLeftOut
  <2> QED  BY <2>2, <2>3, <2>4
<1>9. entries' = alone.topics /\ queued_updates' = alone.queues
  BY <1>2, <1>6, <1>7
<1> QED  BY <1>8, <1>9 DEF alone, frame

----------------------------------------------------------------------------
(* Where a stored value goes                                               *)

\* A place after the first ones, and what is there.
After(s, k, x) == \E i \in DOMAIN s : i > k /\ s[i] = x

\* The second of two sequences comes after the first.
LEMMA ConcatHas ==
  ASSUME NEW S, NEW s \in Seq(S), NEW t \in Seq(S), NEW x, Holds(t, x)
  PROVE  After(s \o t, Len(s), x) /\ Holds(s \o t, x)
<1> DEFINE u == s \o t
<1>0. PICK j \in DOMAIN t : t[j] = x
  BY DEF Holds
<1>1. /\ u \in Seq(S) /\ Len(s) \in Nat /\ Len(t) \in Nat /\ Len(u) = Len(s) + Len(t)
      /\ \A i \in 1 .. Len(t) : u[Len(s) + i] = t[i]
  BY ConcatOf
<1>2. DOMAIN t = 1 .. Len(t) /\ DOMAIN u = 1 .. Len(u)
  BY <1>1, PlacesFinite
<1> HIDE DEF u
<1>3. Len(s) + j \in DOMAIN u /\ Len(s) + j > Len(s) /\ u[Len(s) + j] = x
  BY <1>0, <1>1, <1>2
<1>4. After(u, Len(s), x) /\ Holds(u, x)
  BY <1>3 DEF Holds, After
<1> QED  BY <1>4 DEF u

\* A snapshot that is among the messages of a step is sent to an open client.
LEMMA SendingIs ==
  ASSUME NEW d \in Clients, NEW update, NEW sent \in Seq(Messages), TaskTypes, conn[d] = "open",
         Holds(sent, ValueMsg(lookup_id(d, update.name), update)),
         outbox'[d] = IF conn[d] = "open" THEN outbox[d] \o sent ELSE outbox[d]
  PROVE  SentNow(d, update)
<1> DEFINE msg == ValueMsg(lookup_id(d, update.name), update)
           box == outbox[d]
<1>1. box \in Seq(Messages)
  BY DEF TaskTypes
<1>2. Holds(sent, msg) /\ outbox'[d] = box \o sent
  OBVIOUS
<1> HIDE DEF msg, box
<1>3. After(outbox'[d], Len(box), msg)
  BY <1>1, <1>2, ConcatHas
<1> QED  BY <1>3 DEF After, SentNow, msg, box

\* A frame distributes every value that it stores.
LEMMA FrameDistributes ==
  ASSUME IInv, SubsInv, NEW c \in Clients, NEW k \in 2 .. MaxFrame, ReceiveFrame(c, k),
         panicked' = NoPanic, NEW n \in DOMAIN entries, entries'[n] # entries[n],
         NEW d \in clients
  PROVE  LET update == snapshot(n, entries'[n])
         IN  /\ SendsNow(d, n) /\ conn[d] = "open" => SentNow(d, update)
             /\ Queues(d, n) => QueuedNow(d, update)
<1> DEFINE frame   == SubSeq(inbound[c], 1, k)
           done    == StoreFrame(c, frame)
           updates == done.updates
           update  == snapshot(n, entries'[n])
<1>1. d \in Clients /\ TaskTypes /\ SubscribedTopicsAnnounced /\ DirectoryTypes
  BY DEF IInv, DirectoryInv, DirectoryTypes, SubsInv
<1>2. /\ frame \in Seq(FrameRequests(c)) /\ c \in clients
      /\ entries' = done.topics /\ Distributed(c, frame, updates) /\ conn' = conn
  BY FrameComplete, FrameStep DEF clientVars
<1> HIDE DEF frame
<1>3. done \in StoredSet(c) /\ Times(frame) \in Seq({TimeMsg})
  BY <1>2, StoreFrameKeeps, TimesGathered
<1> HIDE DEF done
<1>4. PICK p \in DOMAIN updates : updates[p] = update
  BY <1>2, <1>3 DEF StoredSet, StoredWell
<1>5. updates \in Seq(Updates)
  BY <1>3 DEF StoredSet, StoredTypes
<1> HIDE DEF updates
<1>6. update \in Updates /\ update.name = n
  <2>1. update.name = n
    BY DEF snapshot
  <2> HIDE DEF update
  <2> QED  BY <1>4, <1>5, <2>1, PlacesFinite
<1> DEFINE first == IF d = c THEN Times(frame) ELSE << >>
           now   == Immediate(d, updates)
           wait  == Queued(d, updates)
<1>7. /\ outbox'[d] = IF conn[d] = "open" THEN outbox[d] \o (first \o now) ELSE outbox[d]
      /\ queued_updates'[d] = queued_updates[d] \o wait
  BY <1>1, <1>2 DEF Distributed, Sent
<1> HIDE DEF update
<1>8. ASSUME Queues(d, n) PROVE QueuedNow(d, update)
  <2>1. /\ QueuedOf(d) \in [Updates -> Seq(Snapshots)] /\ wait \in Seq(Snapshots)
        /\ wait = Gather(updates, QueuedOf(d))
    BY <1>5, QueuedGathered
  <2>2. QueuedOf(d)[updates[p]] = << update >>
    BY <1>4, <1>6, <1>8 DEF QueuedOf
  <2> HIDE DEF wait
  <2>3. Holds(wait, update)
    <3> DEFINE F == QueuedOf(d)
    <3> HIDE DEF F
    <3>1. F \in [Updates -> Seq(Snapshots)] /\ F[updates[p]] = << update >>
      BY <2>1, <2>2 DEF F
    <3>2. Holds(Gather(updates, F), update)
      BY <1>5, <3>1, GatherHas
    <3> QED  BY <2>1, <3>2 DEF F
  <2>4. After(queued_updates'[d], Len(queued_updates[d]), update)
    <3> DEFINE queue == queued_updates[d]
    <3>1. queue \in Seq(Snapshots)
      BY <1>1 DEF TaskTypes
    <3> HIDE DEF queue
    <3>2. After(queue \o wait, Len(queue), update)
      BY <2>1, <2>3, <3>1, ConcatHas
    <3> QED  BY <1>7, <3>2 DEF queue
  <2> QED  BY <2>4 DEF After, QueuedNow
<1>9. ASSUME SendsNow(d, n), conn[d] = "open" PROVE SentNow(d, update)
  <2> DEFINE msg == ValueMsg(lookup_id(d, update.name), update)
  <2>1. /\ SentOf(d) \in [Updates -> Seq(Current(d))] /\ now \in Seq(Current(d))
        /\ now = Gather(updates, SentOf(d))
    BY <1>1, <1>5, ImmediateGathered
  <2>2. SentOf(d)[updates[p]] = << msg >>
    BY <1>4, <1>6, <1>9 DEF SentOf
  <2> HIDE DEF msg
  <2>3. Holds(now, msg)
    <3> DEFINE F == SentOf(d)
               S == Current(d)
    <3> HIDE DEF F, S, now
    <3>1. F \in [Updates -> Seq(S)] /\ F[updates[p]] = << msg >>
      BY <2>1, <2>2 DEF F, S
    <3>2. Holds(Gather(updates, F), msg)
      BY <1>5, <3>1, GatherHas
    <3> QED  BY <2>1, <3>2 DEF F
  <2>4. first \in Seq(Messages) /\ now \in Seq(Messages)
    <3>1. {TimeMsg} \subseteq Messages
      BY DEF Messages
    <3>2. now \in Seq(Messages)
      BY <2>1, CurrentMessages, SeqSubset
    <3>3. first \in Seq(Messages)
      BY <1>3, <3>1, EmptySeq, SeqSubset
    <3> QED  BY <3>2, <3>3
  <2> HIDE DEF first, now
  <2> DEFINE sent == first \o now
  <2>5. Holds(sent, msg)
    BY <2>3, <2>4, ConcatHas
  <2>6. sent \in Seq(Messages)
    BY <2>4, ConcatOf
  <2>7. outbox'[d] = IF conn[d] = "open" THEN outbox[d] \o sent ELSE outbox[d]
    BY <1>7
  <2> HIDE DEF sent
  <2> QED  BY <1>1, <1>9, <2>5, <2>6, <2>7, SendingIs DEF msg
<1> QED  BY <1>8, <1>9 DEF update

\* Only a value changes the value or timestamp of a topic that keeps its type.
LEMMA OnlyValuesStore ==
  ASSUME IInv, NEW c \in Clients, Receive(c), NEW n \in DOMAIN entries \cap DOMAIN entries',
         StoredAnew(n)
  PROVE  LET req  == Head(inbound[c])
             name == id_to_name(c, req.id)
         IN  /\ ~ValueFails(c, req) /\ HandleValue(c, req) /\ Accepted(entries[name], req)
             /\ n = name /\ conn' = conn /\ req.value \in NTValues /\ req.timestamp \in Nat
<1> DEFINE req  == Head(inbound[c])
           name == id_to_name(c, req.id)
<1> USE DEF directoryVars
<1>1. /\ entries \in [DOMAIN entries -> Topics]
      /\ entries[n] \in Topics
  BY DEF IInv, DirectoryInv, DirectoryTypes, IsMap
<1>2. /\ entries' # entries /\ entries'[n] # entries[n]
      /\ snapshot(n, entries'[n]) # snapshot(n, entries[n])
      /\ entry_type(entries'[n]) = entry_type(entries[n])
  BY DEF StoredAnew
<1>3. ~HandlerFails(c, req) /\ Handle(c, req) /\ conn' = conn
  BY <1>2 DEF Receive, Panic, taskVars, clientVars
<1>4. WellFormed(req)
  BY HeadWellFormed DEF Receive, IInv, RequestTypes
<1> HIDE DEF req
<1>5. ~HandlePublish(c, req)
  <2> SUFFICES ASSUME HandlePublish(c, req) PROVE FALSE
    OBVIOUS
  <2>1. /\ entries' = Put(entries, req.name, NewTopic(req.type))
        /\ ~SameType(req.name, req.type)
    BY <1>2 DEF HandlePublish, create_entry
  <2>2. entry_type(NewTopic(req.type)) = req.type
    BY DEF NewTopic, entry_type, default_value, ValueOf
  <2>3. n = req.name /\ entries'[n] = NewTopic(req.type)
    BY <1>2, <2>1 DEF Put
  <2> QED  BY <1>2, <2>1, <2>2, <2>3 DEF SameType
<1>6. ~HandleRelease(req)
  <2>1. HandleRelease(req) => entries' = Without(entries, {req.name})
    BY <1>2 DEF HandleRelease
  <2> QED  BY <1>1, <1>2, <2>1 DEF Without
<1>7. ~HandleSetFlags(req)
  <2>1. HandleSetFlags(req) => entries' = [entries EXCEPT ![req.name].flags = NewFlags(req.name, req)]
    BY DEF HandleSetFlags, update_flags
  <2>2. HandleSetFlags(req) => /\ entries'[n].value = entries[n].value
                               /\ entries'[n].timestamp = entries[n].timestamp
    BY <1>1, <2>1 DEF Topics
  <2> QED  BY <1>2, <2>2 DEF snapshot
<1>8. ~HandleDisconnect(c)
  <2>1. HandleDisconnect(c) => entries' = Without(entries, Orphans(c)) \/ entries' = entries
    BY DEF HandleDisconnect, DropClient
  <2> QED  BY <1>1, <1>2, <2>1 DEF Without
<1>9. req.kind = "value" /\ HandleValue(c, req)
  BY <1>2, <1>3, <1>5, <1>6, <1>7, <1>8
     DEF Handle, HandleGetValues, HandleSubscribe, HandleUnsubscribe, HandleTime
<1>10. ~ValueFails(c, req) /\ req.value \in NTValues /\ req.timestamp \in Nat
  BY <1>3, <1>4, <1>9 DEF HandlerFails, WellFormed
<1>11. /\ Accepted(entries[name], req)
       /\ entries' = [entries EXCEPT ![name] = set_value(entries[name], req)]
  BY <1>2, <1>9 DEF HandleValue
<1> HIDE DEF name
<1>12. n = name
  BY <1>1, <1>2, <1>11
<1> QED  BY <1>3, <1>9, <1>10, <1>11, <1>12 DEF req, name

\* The value of a frame of one goes to every subscriber, too.
LEMMA ValueDistributes ==
  ASSUME IInv, SubsInv, NEW c \in Clients, Receive(c), NEW n \in DOMAIN entries \cap DOMAIN entries',
         StoredAnew(n), NEW d \in clients
  PROVE  LET update == snapshot(n, entries'[n])
         IN  /\ SendsNow(d, n) /\ conn[d] = "open" => SentNow(d, update)
             /\ Queues(d, n) => QueuedNow(d, update)
<1> DEFINE req    == Head(inbound[c])
           name   == id_to_name(c, req.id)
           update == snapshot(n, entries'[n])
<1>1. /\ ~ValueFails(c, req) /\ HandleValue(c, req) /\ Accepted(entries[name], req)
      /\ n = name /\ conn' = conn /\ req.value \in NTValues /\ req.timestamp \in Nat
  BY OnlyValuesStore
<1>2. d \in Clients /\ TaskTypes /\ SubscribedTopicsAnnounced /\ DirectoryTypes
  BY DEF IInv, DirectoryInv, DirectoryTypes, SubsInv
<1> HIDE DEF req
<1>3. /\ entries' = [entries EXCEPT ![n] = set_value(entries[n], req)]
      /\ Distribute(snapshot(n, set_value(entries[n], req)))
  BY <1>1 DEF HandleValue
<1> HIDE DEF name
<1>4. update = snapshot(n, set_value(entries[n], req))
  BY <1>3
<1>5. update \in Snapshots /\ update.name = n
  BY <1>1, <1>2, <1>4, UpdateType
<1> HIDE DEF update
<1> DEFINE msg  == ValueMsg(lookup_id(d, update.name), update)
           sent == IF SendsNow(d, update.name) THEN << msg >> ELSE << >>
<1>6. /\ outbox'[d] = IF conn[d] = "open" THEN outbox[d] \o sent ELSE outbox[d]
      /\ queued_updates'[d] = IF Queues(d, update.name) THEN Append(queued_updates[d], update)
                                                        ELSE queued_updates[d]
  BY <1>2, <1>3, <1>4 DEF Distribute, Sent
<1>7. ASSUME Queues(d, n) PROVE QueuedNow(d, update)
  <2>1. queued_updates[d] \in Seq(Snapshots)
    BY <1>2 DEF TaskTypes
  <2> DEFINE queue == Append(queued_updates[d], update)
  <2>2. /\ queue \in Seq(Snapshots) /\ Len(queue) = Len(queued_updates[d]) + 1
        /\ queue[Len(queued_updates[d]) + 1] = update
    BY <1>5, <2>1, AppendProperties
  <2>3. /\ Len(queue) \in DOMAIN queue /\ queue[Len(queue)] = update
        /\ Len(queue) > Len(queued_updates[d])
    BY <2>1, <2>2, LenProperties
  <2>4. queued_updates'[d] = queue
    BY <1>5, <1>6, <1>7
  <2> HIDE DEF queue
  <2> QED  BY <2>3, <2>4 DEF QueuedNow
<1>8. ASSUME SendsNow(d, n), conn[d] = "open" PROVE SentNow(d, update)
  <2>1. msg \in Messages
    <3>1. Known(d, n)
      BY <1>2, <1>8 DEF SendsNow, SubscribedTopicsAnnounced
    <3> QED  BY <1>2, <1>5, <3>1, ValueMsgCurrent, CurrentMessages
  <2> HIDE DEF msg
  <2>2. sent \in Seq(Messages) /\ 1 \in DOMAIN sent /\ sent[1] = msg
    BY <1>5, <1>8, <2>1
  <2> HIDE DEF sent
  <2>3. Holds(sent, msg)
    BY <2>2 DEF Holds
  <2> QED  BY <1>2, <1>6, <1>8, <2>2, <2>3, SendingIs DEF msg
<1> QED  BY <1>7, <1>8 DEF update

----------------------------------------------------------------------------
(* The theorems                                                            *)

\* Every variable keeps its type, whatever the clients send and the tasks do.
THEOREM TypesHold == Spec => []TypeOK
<1>1. ASSUME NEW known \in Views PROVE IsMap(known, Names, [id : Nat, type : DataType])
  BY DEF Views, IsMap
<1>2. ASSUME NEW got \in Receipts PROVE IsMap(got, Names, [value : NTValues, timestamp : Nat])
  BY DEF Receipts, IsMap
<1>3. IInv /\ SubsInv /\ restarts \in Nat /\ panicked \in PanicSites \cup {NoPanic} => TypeOK
  BY <1>1, <1>2 DEF IInv, DirectoryInv, RequestTypes, DiskTypes, SubsInv, TaskTypes, ClientTypes,
                    TypeOK
<1> QED  BY <1>3, SubsInvariance, RestartsCounted, PanicsKnown, PTL

\* The lookup_id of an immediate update never fails: a client has an id for every
\* topic that a subscription of its covers (Subscribe, ValuePublish).
THEOREM SubscribedTopicsAlwaysAnnounced == Spec => []SubscribedTopicsAnnounced
<1>1. IInv /\ SubsInv => SubscribedTopicsAnnounced
  BY DEF SubsInv
<1> QED  BY <1>1, SubsInvariance, PTL

\* A subscription with its own period has a running loop with its present
\* prefixes and options (Subscribe, Unsubscribe, broadcast_with_period).
THEOREM CustomSubsAlwaysServed == Spec => []CustomSubsServed
<1>1. IInv /\ SubsInv => CustomSubsServed
  BY DEF SubsInv
<1> QED  BY <1>1, SubsInvariance, PTL

\* A frame of several values does to topics, queues and the values that are sent
\* what its values would do one by one (the two loops of ValuePublish in
\* loop_.rs), repeats of a topic and outdated values included.
THEOREM FramesAlwaysLikeRuns == Spec => FramesLikeRuns
<1>1. ASSUME IInv, SubsInv, restarts \in Nat, [Next]_vars PROVE LikeRuns
  <2> SUFFICES ASSUME NEW c \in clients, NEW k \in 2 .. MaxFrame,
                      Len(inbound[c]) - Len(inbound'[c]) = k,
                      restarts' = restarts, conn'[c] = conn[c], panicked' = NoPanic
               PROVE  LET alone == HandlingAlone(c, SubSeq(inbound[c], 1, k))[k]
                      IN  /\ entries' = alone.topics
                          /\ queued_updates' = alone.queues
                          /\ \A d \in Clients : WithoutTimes(outbox'[d]) = WithoutTimes(alone.sent[d])
    BY DEF LikeRuns
  <2>1. c \in Clients /\ ~Restart
    BY <1>1 DEF IInv, DirectoryInv, DirectoryTypes, Restart
  <2>2. PICK j \in 2 .. MaxFrame : ReceiveFrame(c, j)
    <3>1. ~(Len(inbound[c]) - Len(inbound'[c]) <= 1)
      BY FrameBound
    <3> QED  BY <1>1, <2>1, <3>1, OnlyFramesTakeSeveral DEF SubsInv
  <2>3. j = k
    BY <1>1, <2>1, <2>2, SizeOfFrame
  <2> QED  BY <1>1, <2>2, <2>3, FrameLikeRun
<1> QED  BY <1>1, SubsInvariance, RestartsCounted, PTL DEF Spec, FramesLikeRuns

\* A value that was stored is sent to each subscriber with an immediate
\* subscription, and queued for each other, when the step is over and did not panic
\* (ValuePublish of loop_.rs).
THEOREM StoredValuesAlwaysDistributed == Spec => StoredValuesDistributed
<1>1. ASSUME IInv, SubsInv, restarts \in Nat, [Next]_vars PROVE StoredDistributed
  <2> SUFFICES ASSUME restarts' = restarts, panicked' = NoPanic,
                      NEW n \in DOMAIN entries \cap DOMAIN entries', NEW d \in clients \cap clients',
                      StoredAnew(n), subscribed_to(d, n)
               PROVE  IF subscription(d, n).immediate
                      THEN conn[d] = "open" => SentNow(d, snapshot(n, entries'[n]))
                      ELSE QueuedNow(d, snapshot(n, entries'[n]))
    BY DEF StoredDistributed
  <2> DEFINE update == snapshot(n, entries'[n])
             Distributes == /\ SendsNow(d, n) /\ conn[d] = "open" => SentNow(d, update)
                            /\ Queues(d, n) => QueuedNow(d, update)
  <2>1. ~Restart
    BY <1>1 DEF Restart
  <2>2. entries' # entries /\ entries'[n] # entries[n]
    BY DEF StoredAnew
  <2>3. PICK c \in Clients : Handles(c)
    BY <1>1, <2>1, <2>2, TopicsStay
  <2>4. CASE Receive(c)
    <3>1. Distributes
      BY <1>1, <2>4, ValueDistributes
    <3> QED  BY <3>1 DEF SendsNow, Queues
  <2>5. ASSUME NEW k \in 2 .. MaxFrame, ReceiveFrame(c, k)
        PROVE  IF subscription(d, n).immediate THEN conn[d] = "open" => SentNow(d, update)
                                               ELSE QueuedNow(d, update)
    <3>1. Distributes
      BY <1>1, <2>2, <2>5, FrameDistributes
    <3> QED  BY <3>1 DEF SendsNow, Queues
  <2> QED  BY <2>3, <2>4, <2>5 DEF Handles
<1> QED  BY <1>1, SubsInvariance, RestartsCounted, PTL DEF Spec, StoredValuesDistributed

============================================================================
