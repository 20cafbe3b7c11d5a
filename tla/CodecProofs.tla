---------------------------- MODULE CodecProofs ----------------------------
(***************************************************************************)
(* The binary codec, for messages, foreign values, widths and batches of   *)
(* any number and size: every message that was decoded has the types of    *)
(* its fields and can be sent on unchanged, and what a handler submits     *)
(* arrives once and in order.                                              *)
(***************************************************************************)
EXTENDS CodecProperties, CollectionLemmas

----------------------------------------------------------------------------
(* Numbers                                                                 *)

\* A remainder is below the modulus, and what is below it is its own.
LEMMA Remainder ==
  ASSUME NEW m \in Nat \ {0}, NEW n \in Int
  PROVE  /\ n % m \in 0 .. m - 1
         /\ n \in 0 .. m - 1 => n % m = n
  OBVIOUS

\* A cast has the width it casts to, and changes no number of that width.
LEMMA WrapFits ==
  ASSUME NEW half \in Nat \ {0}, NEW n \in Int
  PROVE  /\ Wrap(n, half) \in -half .. half - 1
         /\ n \in -half .. half - 1 => Wrap(n, half) = n
<1> DEFINE m == 2 * half
           k == n + half
<1>1. m \in Nat \ {0} /\ k \in Int
  OBVIOUS
<1>2. Wrap(n, half) = (k % m) - half
  BY DEF Wrap
<1>3. n \in -half .. half - 1 => k \in 0 .. m - 1
  OBVIOUS
<1>4. \A x \in 0 .. m - 1 : x - half \in -half .. half - 1
  OBVIOUS
<1>5. k - half = n
  OBVIOUS
<1> HIDE DEF m, k
<1>6. k % m \in 0 .. m - 1 /\ (k \in 0 .. m - 1 => k % m = k)
  BY <1>1, Remainder
<1> QED  BY <1>2, <1>3, <1>4, <1>5, <1>6

\* A number of quarters that is cast to a single is even, and stays what it
\* was if it is.
LEMMA SingleEven ==
  ASSUME NEW q \in Int
  PROVE  /\ Single(q) \in { x \in Int : x % 2 = 0 }
         /\ q % 2 = 0 => Single(q) = q
  BY DEF Single

----------------------------------------------------------------------------
(* Values                                                                  *)

\* An option is nothing or something.
LEMMA SomeIsNotNone ==
  ASSUME NEW x PROVE Some(x) # None /\ Some(x)[1] = x
<1>1. << x >>[1] = x /\ Len(<< x >>) = 1 /\ Len(<< >>) = 0
  OBVIOUS
<1> QED  BY <1>1 DEF Some, None

\* The scalars and blobs that a MessagePack value is read as have their type.
LEMMA ScalarDecodes ==
  ASSUME NEW type \in Scalars \cup Blobs, NEW item, IsLiteral(item),
         AsScalar(type, item) # None
  PROVE  \E x \in ScalarData(type) : AsScalar(type, item) = Some(x)
<1>1. CASE type = "int"
  <2>1. item[1] = "int" /\ AsScalar(type, item) = Some(Wrap(item[2], Half64))
    BY <1>1 DEF AsScalar, Blobs
  <2>2. item[2] \in Int /\ Half64 \in Nat \ {0}
    BY <2>1, WidthsOrdered DEF IsLiteral
  <2>3. Wrap(item[2], Half64) \in -Half64 .. Half64 - 1
    BY <2>2, WrapFits
  <2>4. ScalarData(type) = -Half64 .. Half64 - 1
    BY <1>1 DEF ScalarData, Blobs
  <2> QED  BY <2>1, <2>3, <2>4
<1>2. CASE type = "boolean"
  BY <1>2 DEF AsScalar, ScalarData, IsLiteral
<1>3. CASE type \in Blobs
  BY <1>3 DEF AsScalar, ScalarData, IsLiteral, Blobs
<1>4. CASE type = "string"
  BY <1>4 DEF AsScalar, ScalarData, IsLiteral, Blobs
<1>5. CASE type = "float"
  <2>1. \/ item[1] \in {"f32", "f64"} /\ AsScalar(type, item) = Some(Single(item[2]))
        \/ item[1] = "int" /\ AsScalar(type, item) = Some(Single(4 * item[2]))
    BY <1>5 DEF AsScalar, Blobs
  <2>2. item[2] \in Int /\ 4 * item[2] \in Int
    BY <2>1, WidthsOrdered DEF IsLiteral
  <2>3. /\ Single(item[2]) \in { x \in Int : x % 2 = 0 }
        /\ Single(4 * item[2]) \in { x \in Int : x % 2 = 0 }
    BY <2>2, SingleEven
  <2>4. ScalarData(type) = { x \in Int : x % 2 = 0 }
    BY <1>5 DEF ScalarData, Blobs
  <2> QED  BY <2>1, <2>3, <2>4
<1>6. CASE type = "double"
  <2>1. \/ item[1] \in {"f32", "f64"} /\ AsScalar(type, item) = Some(item[2])
        \/ item[1] = "int" /\ AsScalar(type, item) = Some(4 * item[2])
    BY <1>6 DEF AsScalar, Blobs
  <2>2. item[2] \in Int /\ 4 * item[2] \in Int
    BY <2>1, WidthsOrdered DEF IsLiteral
  <2>3. ScalarData(type) = Int
    BY <1>6 DEF ScalarData, Blobs
  <2> QED  BY <2>1, <2>2, <2>3
<1> QED  BY <1>1, <1>2, <1>3, <1>4, <1>5, <1>6 DEF Scalars

\* A scalar or blob is read as what was written.
LEMMA ScalarKept ==
  ASSUME NEW type \in Scalars \cup Blobs, NEW x \in ScalarData(type)
  PROVE  AsScalar(type, << KindOf(type), x >>) = Some(x)
<1> DEFINE item == << KindOf(type), x >>
<1>1. item[1] = KindOf(type) /\ item[2] = x
  OBVIOUS
<1> HIDE DEF item
<1>2. CASE type = "int"
  <2>1. x \in -Half64 .. Half64 - 1 /\ x \in Int /\ Half64 \in Nat \ {0}
    BY <1>2, WidthsOrdered DEF ScalarData, Blobs
  <2>2. Wrap(x, Half64) = x
    BY <2>1, WrapFits
  <2>3. AsScalar(type, item) = Some(Wrap(x, Half64))
    BY <1>1, <1>2 DEF AsScalar, KindOf, Blobs
  <2> QED  BY <2>2, <2>3 DEF item
<1>3. CASE type = "boolean"
  <2>1. AsScalar(type, item) = Some(x)
    BY <1>1, <1>3 DEF AsScalar, KindOf
  <2> QED  BY <2>1 DEF item
<1>4. CASE type \in Blobs
  <2>1. AsScalar(type, item) = Some(x)
    BY <1>1, <1>4 DEF AsScalar, KindOf, Blobs
  <2> QED  BY <2>1 DEF item
<1>5. CASE type = "string"
  <2>1. AsScalar(type, item) = Some(x)
    BY <1>1, <1>5 DEF AsScalar, KindOf, Blobs
  <2> QED  BY <2>1 DEF item
<1>6. CASE type = "float"
  <2>1. x \in Int /\ x % 2 = 0
    BY <1>6 DEF ScalarData, Blobs
  <2>2. Single(x) = x
    BY <2>1, SingleEven
  <2>3. AsScalar(type, item) = Some(Single(x))
    BY <1>1, <1>6 DEF AsScalar, KindOf, Blobs
  <2> QED  BY <2>2, <2>3 DEF item
<1>7. CASE type = "double"
  <2>1. AsScalar(type, item) = Some(x)
    BY <1>1, <1>7 DEF AsScalar, KindOf, Blobs
  <2> QED  BY <2>1 DEF item
<1> QED  BY <1>2, <1>3, <1>4, <1>5, <1>6, <1>7 DEF Scalars

\* The elements of an array are scalars.
LEMMA ElementsScalar ==
  ASSUME NEW type \in Arrays
  PROVE  ElementType(type) \in Scalars \cup Blobs
  BY DEF Arrays, Scalars, ElementType

\* A field that is read as a type has that type.
LEMMA ValueDecodes ==
  ASSUME NEW type \in DataType, NEW item, IsField(item), Unpacked(type, item) # None
  PROVE  \E x \in Data(type) : Unpacked(type, item) = Some(x)
<1>1. CASE type \notin Arrays
  <2>1. type \in Scalars \cup Blobs /\ Data(type) = ScalarData(type)
    BY <1>1 DEF DataType, Data
  <2>2. Unpacked(type, item) = AsScalar(type, item) /\ IsLiteral(item)
    BY <1>1 DEF Unpacked, IsField
  <2> QED  BY <2>1, <2>2, ScalarDecodes
<1>2. CASE type \in Arrays
  <2> DEFINE of == ElementType(type)
             elements == [i \in DOMAIN item[2] |-> AsScalar(of, item[2][i])]
             data == [i \in DOMAIN elements |-> elements[i][1]]
  <2>1. /\ item[1] = "array" /\ \A i \in DOMAIN elements : elements[i] # None
        /\ Unpacked(type, item) = Some(data)
    BY <1>2 DEF Unpacked
  <2>2. of \in Scalars \cup Blobs
    BY <1>2, ElementsScalar
  <2>3. item[2] \in Seq(ToSet(item[2])) /\ \A i \in DOMAIN item[2] : IsLiteral(item[2][i])
    BY <2>1 DEF IsField, IsSeq, ToSet
  <2>4. Len(item[2]) \in Nat /\ DOMAIN item[2] = 1 .. Len(item[2])
    BY <2>3, PlacesFinite
  <2> HIDE DEF of
  <2>5. ASSUME NEW i \in 1 .. Len(item[2]) PROVE elements[i][1] \in ScalarData(of)
    <3>1. elements[i] = AsScalar(of, item[2][i]) /\ elements[i] # None
      BY <2>1, <2>4
    <3>2. \E x \in ScalarData(of) : AsScalar(of, item[2][i]) = Some(x)
      BY <2>2, <2>3, <2>4, <3>1, ScalarDecodes
    <3>3. PICK x \in ScalarData(of) : elements[i] = Some(x)
      BY <3>1, <3>2
    <3> QED  BY <3>3, SomeIsNotNone
  <2>6. data = [i \in 1 .. Len(item[2]) |-> elements[i][1]]
    BY <2>4
  <2> HIDE DEF elements, data
  <2>7. data \in Seq(ScalarData(of))
    BY <2>4, <2>5, <2>6, IsASeq
  <2> QED  BY <1>2, <2>1, <2>7 DEF Data, of
<1> QED  BY <1>1, <1>2

\* A value is read as what was written, array or not.
LEMMA ValueKept ==
  ASSUME NEW type \in DataType, NEW x \in Data(type)
  PROVE  Unpacked(type, SerializedValue(<< type, x >>)) = Some(x)
<1> DEFINE value == << type, x >>
<1>1. value[1] = type /\ value[2] = x
  OBVIOUS
<1> HIDE DEF value
<1>2. CASE type \notin Arrays
  <2>1. type \in Scalars \cup Blobs /\ x \in ScalarData(type)
    BY <1>2 DEF DataType, Data
  <2>2. SerializedValue(value) = << KindOf(type), x >>
    BY <1>1, <1>2 DEF SerializedValue
  <2>3. AsScalar(type, << KindOf(type), x >>) = Some(x)
    BY <2>1, ScalarKept
  <2> QED  BY <1>2, <2>2, <2>3 DEF Unpacked, value
<1>3. CASE type \in Arrays
  <2> DEFINE of == ElementType(type)
             items == [i \in DOMAIN x |-> << KindOf(of), x[i] >>]
             item == << "array", items >>
             elements == [i \in DOMAIN item[2] |-> AsScalar(of, item[2][i])]
             data == [i \in DOMAIN elements |-> elements[i][1]]
  <2>1. SerializedValue(value) = item
    BY <1>1, <1>3 DEF SerializedValue
  <2>2. item[1] = "array" /\ item[2] = items
    OBVIOUS
  <2>3. of \in Scalars \cup Blobs /\ x \in Seq(ScalarData(of))
    BY <1>3, ElementsScalar DEF Data
  <2>4. Len(x) \in Nat /\ DOMAIN x = 1 .. Len(x) /\ \A i \in DOMAIN x : x[i] \in ScalarData(of)
    BY <2>3, PlacesFinite
  <2>5. Unpacked(type, item) = IF \E i \in DOMAIN elements : elements[i] = None THEN None
                               ELSE Some(data)
    BY <1>3, <2>2 DEF Unpacked
  <2> HIDE DEF of, item
  <2>6. DOMAIN items = DOMAIN x /\ \A i \in DOMAIN x : items[i] = << KindOf(of), x[i] >>
    OBVIOUS
  <2> HIDE DEF items
  <2>7. DOMAIN elements = DOMAIN x
    BY <2>2, <2>6
  <2>8. ASSUME NEW i \in DOMAIN x PROVE elements[i] = Some(x[i])
    <3>1. elements[i] = AsScalar(of, << KindOf(of), x[i] >>)
      BY <2>2, <2>6
    <3>2. AsScalar(of, << KindOf(of), x[i] >>) = Some(x[i])
      BY <2>3, <2>4, ScalarKept
    <3> QED  BY <3>1, <3>2
  <2> HIDE DEF elements
  <2>9. \A i \in DOMAIN x : elements[i] # None /\ elements[i][1] = x[i]
    BY <2>8, SomeIsNotNone
  <2>10. data = [i \in DOMAIN x |-> x[i]]
    BY <2>7, <2>9
  <2>11. x = [i \in DOMAIN x |-> x[i]]
    <3>1. x \in [1 .. Len(x) -> ScalarData(of)]
      BY <2>3, LenProperties
    <3> QED  BY <2>4, <3>1
  <2> HIDE DEF data
  <2>12. Unpacked(type, item) = Some(data)
    BY <2>5, <2>7, <2>9
  <2> QED  BY <2>1, <2>10, <2>11, <2>12 DEF value
<1> QED  BY <1>2, <1>3

\* from_slice knows the number that each type is written as.
LEMMA TypeKept ==
  ASSUME NEW type \in DataType
  PROVE  TypeNumber(type) \in KnownNumbers /\ TypeOf(TypeNumber(type)) = type
<1>1. TypeNumber(type) \in KnownNumbers
  BY DEF DataType, Scalars, Blobs, Arrays, TypeNumber, KnownNumbers
<1>2. << TypeNumber(type), type >> \in
         { << 0, "boolean" >>, << 1, "double" >>, << 2, "int" >>, << 3, "float" >>,
           << 4, "string" >>, << 5, "raw" >>, << 6, "rpc" >>, << 16, "boolean[]" >>,
           << 17, "double[]" >>, << 18, "int[]" >>, << 19, "float[]" >>, << 20, "string[]" >> }
  BY DEF DataType, Scalars, Blobs, Arrays, TypeNumber
<1> QED  BY <1>1, <1>2 DEF TypeOf

\* Every number that from_slice knows stands for a type.
LEMMA TypeKnown ==
  ASSUME NEW n \in KnownNumbers
  PROVE  TypeOf(n) \in DataType
<1>1. n \in 0 .. 6 \/ n \in 16 .. 20
  BY DEF KnownNumbers
<1>2. n \in {0, 1, 2, 3, 4, 5, 6, 16, 17, 18, 19, 20}
  BY <1>1
<1> QED  BY <1>2 DEF DataType, Scalars, Blobs, Arrays, TypeOf

----------------------------------------------------------------------------
(* Messages                                                                *)

\* The messages as a set.
AllMessages ==
    [id : -Half32 .. Half32 - 1, timestamp : 0 .. 2 * Half64 - 1,
     value : UNION { {type} \X Data(type) : type \in DataType }]

\* They are the well-typed ones.
LEMMA MessagesTyped ==
  \A m : m \in AllMessages <=> WellTyped(m)
<1>1. \A v : v \in UNION { {type} \X Data(type) : type \in DataType } <=> IsValue(v)
  BY DEF IsValue
<1>2. \A m : m \in AllMessages <=>
        /\ m = [id |-> m.id, timestamp |-> m.timestamp, value |-> m.value]
        /\ m.id \in -Half32 .. Half32 - 1 /\ m.timestamp \in 0 .. 2 * Half64 - 1
        /\ m.value \in UNION { {type} \X Data(type) : type \in DataType }
  BY DEF AllMessages
<1> QED  BY <1>1, <1>2 DEF WellTyped, IsId, Message

\* A message that is sent is read as itself.
LEMMA MessageKept ==
  ASSUME NEW m \in AllMessages
  PROVE  Result(Serialized(m)) = << "ok", m >>
<1> DEFINE values == << << "int", m.id >>, << "int", m.timestamp >>,
                        << "int", TypeNumber(m.value[1]) >>, SerializedValue(m.value) >>
<1>1. /\ m = [id |-> m.id, timestamp |-> m.timestamp, value |-> m.value]
      /\ m.id \in -Half32 .. Half32 - 1 /\ m.timestamp \in 0 .. 2 * Half64 - 1
  BY DEF AllMessages
<1>2. PICK type \in DataType : m.value \in {type} \X Data(type)
  BY DEF AllMessages
<1>3. PICK x \in Data(type) : m.value = << type, x >>
  BY <1>2
<1>4. m.value[1] = type
  BY <1>3
<1>5. TypeNumber(type) \in KnownNumbers /\ TypeOf(TypeNumber(type)) = type
  BY TypeKept
<1>6. Unpacked(type, SerializedValue(m.value)) = Some(x)
  BY <1>3, ValueKept
<1>7. /\ Len(values) = 4 /\ values[1] = << "int", m.id >> /\ values[2] = << "int", m.timestamp >>
      /\ values[3] = << "int", TypeNumber(type) >> /\ values[4] = SerializedValue(m.value)
  BY <1>4
<1>8. Serialized(m) = << "array", values >>
  BY DEF Serialized
<1> HIDE DEF values
<1>9. Expected(values, 1) /\ Expected(values, 2) /\ Expected(values, 3) /\ Expected(values, 4)
  <2>1. Expected(values, 1)
    BY <1>1, <1>7, WidthsOrdered DEF Expected
  <2>2. Expected(values, 2)
    BY <1>1, <1>7, WidthsOrdered DEF Expected
  <2>3. Expected(values, 3)
    BY <1>5, <1>7 DEF Expected
  <2>4. Expected(values, 4)
    BY <1>5, <1>6, <1>7, SomeIsNotNone DEF Expected
  <2> QED  BY <2>1, <2>2, <2>3, <2>4
<1>10. Fits(values, 4)
  <2>1. \A f \in 1 .. 4 : f <= 4 /\ (f = 1 \/ f = 2 \/ f = 3 \/ f = 4)
    OBVIOUS
  <2> QED  BY <1>7, <1>9, <2>1 DEF Fits
<1>11. Result(<< "array", values >>) = << "ok", Decoded(values) >>
  BY <1>10 DEF Result
<1>12. Decoded(values) = m
  <2>1. Wrap(m.id, Half32) = m.id
    BY <1>1, WidthsOrdered, WrapFits
  <2>2. DecodedId(values) = m.id
    BY <1>7, <2>1 DEF DecodedId
  <2>3. Unpacked(TypeOf(values[3][2]), values[4])[1] = x /\ TypeOf(values[3][2]) = type
    BY <1>5, <1>6, <1>7, SomeIsNotNone
  <2> QED  BY <1>1, <1>3, <1>7, <2>2, <2>3 DEF Decoded, Message
<1> QED  BY <1>8, <1>11, <1>12

\* What from_slice makes of an item is a message, an error or a panic.
LEMMA ResultKinds ==
  ASSUME NEW item, IsItem(item)
  PROVE  \/ Result(item) = Error
         \/ Result(item) = Panicked
         \/ /\ item[1] = "array" /\ Fits(item[2], 4)
            /\ Result(item) = << "ok", Decoded(item[2]) >>
<1> DEFINE values == item[2]
           first  == CHOOSE f \in 1 .. 4 : Fits(values, f - 1) /\ ~Fits(values, f)
<1>1. CASE item[1] # "array"
  BY <1>1 DEF Result
<1>2. CASE item[1] = "array" /\ Fits(values, 4)
  BY <1>2 DEF Result
<1>3. CASE item[1] = "array" /\ ~Fits(values, 4)
  <2>1. first \in 1 .. 4
    <3>1. Fits(values, 0)
      BY DEF Fits
    <3>2. \E f \in {1, 2, 3, 4} : Fits(values, f - 1) /\ ~Fits(values, f)
      BY <1>3, <3>1
    <3>3. \E f \in 1 .. 4 : Fits(values, f - 1) /\ ~Fits(values, f)
      BY <3>2
    <3> QED  BY <3>3
  <2>2. Len(values) \in Nat
    <3>1. values \in Seq(ToSet(values))
      BY <1>3 DEF IsItem, IsSeq
    <3> QED  BY <3>1, PlacesFinite
  <2>3. Result(item) = CASE Fits(values, 4)        -> << "ok", Decoded(values) >>
               [] ~Fits(values, 4) /\ first > Len(values)  -> Panicked
               [] ~Fits(values, 4) /\ first <= Len(values) -> Error
    BY <1>3 DEF Result
  <2> HIDE DEF first
  <2>4. CASE first > Len(values)
    BY <1>3, <2>3, <2>4
  <2>5. CASE ~(first > Len(values))
    <3>1. first <= Len(values)
      BY <2>1, <2>2, <2>5
    <3> QED  BY <1>3, <2>3, <2>5, <3>1
  <2> QED  BY <2>4, <2>5
<1> QED  BY <1>1, <1>2, <1>3

\* The message that is read from an item has the types of its fields.
LEMMA MessageDecodes ==
  ASSUME NEW item, IsItem(item), Result(item)[1] = "ok"
  PROVE  \E m \in AllMessages : Result(item) = << "ok", m >>
<1> DEFINE values == item[2]
           type   == TypeOf(values[3][2])
<1>1. item[1] = "array" /\ Fits(values, 4) /\ Result(item) = << "ok", Decoded(values) >>
  BY ResultKinds DEF Error, Panicked
<1>2. values \in Seq(ToSet(values)) /\ \A field \in ToSet(values) : IsField(field)
  BY <1>1 DEF IsItem, IsSeq
<1>3. Len(values) \in Nat /\ \A i \in 1 .. Len(values) : IsField(values[i])
  BY <1>2, PlacesFinite DEF ToSet
<1>4. \A f \in 1 .. 4 : IsField(values[f]) /\ Expected(values, f)
  <2>1. \A f \in 1 .. 4 : f \in Nat /\ f >= 1 /\ f <= Len(values) /\ Expected(values, f)
    BY <1>1 DEF Fits
  <2>2. \A f \in 1 .. 4 : f \in 1 .. Len(values)
    BY <1>3, <2>1
  <2> QED  BY <1>3, <2>1, <2>2
<1> HIDE DEF values
<1>5. values[1][1] = "int" /\ values[1][2] \in Int
  BY <1>4, WidthsOrdered DEF Expected, IsField, IsLiteral
<1>6. values[2][2] \in 0 .. 2 * Half64 - 1
  BY <1>4, WidthsOrdered DEF Expected, IsField, IsLiteral
<1>7. type \in DataType
  BY <1>4, TypeKnown DEF Expected
<1>8. PICK x \in Data(type) : Unpacked(type, values[4]) = Some(x)
  <2>1. Unpacked(type, values[4]) # None /\ IsField(values[4])
    BY <1>4 DEF Expected
  <2> HIDE DEF type
  <2> QED  BY <1>7, <2>1, ValueDecodes
<1>9. DecodedId(values) \in -Half32 .. Half32 - 1
  BY <1>5, WidthsOrdered, WrapFits DEF DecodedId
<1>10. Decoded(values) = [id |-> DecodedId(values), timestamp |-> values[2][2], value |-> << type, x >>]
  BY <1>8, SomeIsNotNone DEF Decoded, Message
<1> HIDE DEF type
<1>11. << type, x >> \in UNION { {t} \X Data(t) : t \in DataType }
  BY <1>7, <1>8
<1>12. Decoded(values) \in AllMessages
  BY <1>6, <1>9, <1>10, <1>11 DEF AllMessages
<1> QED  BY <1>1, <1>12

----------------------------------------------------------------------------
(* Batches                                                                 *)

\* The quotient of a division that is rounded up.
LEMMA RoundedUp ==
  ASSUME NEW n \in Nat, NEW size \in Nat \ {0}
  PROVE  LET k == (n + size - 1) \div size
         IN  k \in Nat /\ n <= k * size /\ k * size < n + size
<1> DEFINE m == n + size - 1
<1>1. m \in Nat
  OBVIOUS
<1> HIDE DEF m
<1>2. m \div size \in Nat /\ (m \div size) * size <= m /\ m < (m \div size) * size + size
  BY <1>1
<1> QED  BY <1>2 DEF m

\* Products grow with their factors.
LEMMA ProductsGrow ==
  ASSUME NEW a \in Nat, NEW b \in Nat, a <= b, NEW size \in Nat \ {0}
  PROVE  /\ a * size \in Nat /\ a * size <= b * size
         /\ (a - 1) * size = a * size - size
<1>1. PICK d \in Nat : b = a + d
  BY b - a \in Nat /\ b = a + (b - a)
<1>2. b * size = a * size + d * size /\ d * size \in Nat /\ a * size \in Nat
  BY <1>1
<1>3. (a - 1) * size = a * size - size
  OBVIOUS
<1> QED  BY <1>2, <1>3

\* batch_messages keeps all messages in their order, and no batch is empty or
\* too long.
LEMMA BatchesOf ==
  ASSUME NEW S, NEW msgs \in Seq(S), NEW size \in Nat \ {0}
  PROVE  /\ batch_messages(msgs, size) \in Seq(Seq(S))
         /\ FlattenSeq(batch_messages(msgs, size)) = msgs
         /\ \A i \in DOMAIN batch_messages(msgs, size) :
               Len(batch_messages(msgs, size)[i]) \in 1 .. size
<1> DEFINE n == Len(msgs)
           k == (n + size - 1) \div size
           end(i) == IF i * size < n THEN i * size ELSE n
           batches == [i \in 1 .. k |-> SubSeq(msgs, (i - 1) * size + 1, end(i))]
           g == [i \in 0 .. k |-> SubSeq(msgs, 1, end(i))]
<1>1. n \in Nat /\ DOMAIN msgs = 1 .. n /\ \A i \in 1 .. n : msgs[i] \in S
  BY PlacesFinite
<1>2. k \in Nat /\ n <= k * size /\ k * size < n + size
  BY <1>1, RoundedUp
<1>3. batch_messages(msgs, size) = batches
  BY DEF batch_messages
<1> HIDE DEF k, n
<1>4. ASSUME NEW i \in 1 .. k
      PROVE  /\ (i - 1) * size \in 0 .. n /\ end(i - 1) = (i - 1) * size
             /\ end(i) \in 0 .. n /\ end(i) - (i - 1) * size \in 1 .. size
  <2>1. i \in Nat /\ i - 1 \in Nat /\ i <= k
    BY <1>2
  <2>2. i * size \in Nat /\ i * size <= k * size /\ (i - 1) * size = i * size - size
    BY <1>2, <2>1, ProductsGrow
  <2>3. (i - 1) * size \in Nat
    BY <2>1
  <2> DEFINE a == i * size
             b == (i - 1) * size
             c == k * size
  <2>4. a \in Nat /\ b \in Nat /\ b = a - size /\ a <= c /\ c < n + size
    BY <1>2, <2>2, <2>3
  <2> HIDE DEF a, b, c
  <2>5. b < n /\ b \in 0 .. n
    BY <1>1, <1>2, <2>4 DEF c
  <2>6. end(i - 1) = b /\ end(i) = IF a < n THEN a ELSE n
    BY <2>5 DEF a, b
  <2> HIDE DEF end
  <2>7. end(i) \in 0 .. n /\ end(i) - b \in 1 .. size
    BY <1>1, <2>4, <2>5, <2>6
  <2> QED  BY <2>5, <2>6, <2>7 DEF b
<1>5. end(0) = 0 /\ end(k) = n
  <2>1. 0 * size = 0
    OBVIOUS
  <2>2. end(0) = 0
    BY <1>1, <2>1
  <2>3. ~(k * size < n)
    BY <1>1, <1>2
  <2> QED  BY <2>2, <2>3
<1> HIDE DEF end
<1>6. ASSUME NEW i \in 1 .. k
      PROVE  batches[i] \in Seq(S) /\ Len(batches[i]) \in 1 .. size
  <2> DEFINE b == (i - 1) * size
             e == end(i)
  <2>1. batches[i] = SubSeq(msgs, b + 1, e)
    OBVIOUS
  <2>2. b \in 0 .. n /\ e \in 0 .. n /\ e - b \in 1 .. size
    BY <1>4
  <2> HIDE DEF b, e, batches
  <2>3. b + 1 \in Int /\ e \in Int /\ \A j \in b + 1 .. e : msgs[j] \in S
    BY <1>1, <2>2
  <2>4. /\ SubSeq(msgs, b + 1, e) \in Seq(S)
        /\ Len(SubSeq(msgs, b + 1, e)) = IF b + 1 <= e THEN e - (b + 1) + 1 ELSE 0
    BY <2>3, SubSeqProperties
  <2> QED  BY <1>1, <2>1, <2>2, <2>4
<1>7. batches \in Seq(Seq(S)) /\ Len(batches) = k
  <2>1. batches \in [1 .. k -> Seq(S)]
    BY <1>6
  <2> HIDE DEF batches
  <2>2. batches \in Seq(Seq(S)) /\ DOMAIN batches = 1 .. k
    BY <1>2, <2>1
  <2> QED  BY <1>2, <2>2, LenProperties
<1>8. ASSUME NEW i \in 1 .. k PROVE g[i] = g[i - 1] \o batches[i]
  <2> DEFINE b == end(i - 1)
             e == end(i)
  <2>1. b = (i - 1) * size /\ b \in 0 .. n /\ e \in 0 .. n /\ e - b \in 1 .. size
    BY <1>4
  <2>2. g[i] = SubSeq(msgs, 1, e) /\ g[i - 1] = SubSeq(msgs, 1, b)
    <3>1. i \in 0 .. k /\ i - 1 \in 0 .. k
      BY <1>2
    <3> QED  BY <3>1
  <2>3. batches[i] = SubSeq(msgs, b + 1, e)
    BY <2>1
  <2> HIDE DEF b, e, batches, g
  <2>4. 1 \in 1 .. Len(msgs) + 1 /\ b \in 1 - 1 .. Len(msgs) /\ e \in b .. Len(msgs)
    BY <1>1, <2>1 DEF n
  <2>5. SubSeq(msgs, 1, b) \o SubSeq(msgs, b + 1, e) = SubSeq(msgs, 1, e)
    BY <2>4, ConcatAdjacentSubSeq
  <2> QED  BY <2>2, <2>3, <2>5
<1>9. g[0] = << >> /\ g[k] = msgs
  <2>1. 0 \in 0 .. k /\ k \in 0 .. k
    BY <1>2
  <2>2. g[0] = SubSeq(msgs, 1, end(0)) /\ g[k] = SubSeq(msgs, 1, end(k))
    BY <2>1
  <2> HIDE DEF g
  <2>3. g[0] = SubSeq(msgs, 1, 0) /\ g[k] = SubSeq(msgs, 1, n)
    BY <1>5, <2>2
  <2>4. SubSeq(msgs, 1, 0) = << >>
    BY SubSeqEmpty
  <2>5. SubSeq(msgs, 1, Len(msgs)) = msgs
    BY SubSeqFull
  <2> QED  BY <2>3, <2>4, <2>5 DEF n
<1> HIDE DEF batches, g
<1>10. JoinedBy(batches, g)
  BY <1>7, <1>8, <1>9 DEF JoinedBy
<1>11. FlattenSeq(batches) = msgs
  BY <1>7, <1>9, <1>10, FlattenIs
<1>12. DOMAIN batches = 1 .. k
  BY <1>7, PlacesFinite
<1> QED  BY <1>3, <1>6, <1>7, <1>11, <1>12

----------------------------------------------------------------------------
(* The messages on their way                                               *)

\* What handlers submit, and what frames are made of.
OwnMsgs == { m \in AllMessages : m.timestamp > 0 }
Foreign == UNION ToSet(ForeignItems)
Items   == { Serialized(m) : m \in OwnMsgs } \cup Foreign

\* What start_send writes for a message; what poll_next accepts of an item;
\* what of it was submitted; and the same of an item and of a frame.
Written  == [m \in OwnMsgs |-> Serialized(m)]
Taken    == [item \in Items |-> Accepted(Result(item))]
OwnOf    == [m \in AllMessages |-> OwnPart(m)]
OwnIn    == [item \in Items |-> Gather(Taken[item], OwnOf)]
FrameOwn == [frame \in Seq(Items) |-> Gather(frame, OwnIn)]

\* The submitted messages in all frames.
Arriving == Gather(wire, FrameOwn)

\* What the variables hold.
CodecTypes ==
    /\ submitted \in Seq(OwnMsgs) /\ Len(submitted) <= Len(OwnMessages)
    /\ queue \in Seq(OwnMsgs) /\ packets \in Seq(Seq(OwnMsgs))
    /\ \A i \in DOMAIN packets : Len(packets[i]) \in 1 .. BatchSize
    /\ wire \in Seq(Seq(Items)) /\ received \in Seq(AllMessages)
    /\ reader \in {"reading", "panicked"} /\ foreign \in 0 .. Len(ForeignItems)

\* Nothing follows a partial value in its frame.
PartialsLast ==
    \A f \in DOMAIN wire : \A i \in DOMAIN wire[f] : wire[f][i] = Partial => i = Len(wire[f])

\* As long as the reader runs, what was received, the frames, the batches and
\* the current Vec are, in this order, what was submitted.
InOrder ==
    reader = "reading" => submitted = Chained(Own, Arriving, FlattenSeq(packets), queue)

\* After a panic, what was received is still the beginning of it.
Begun == reader = "panicked" => \E rest \in Seq(AllMessages) : submitted = Own \o rest

CodecInv == CodecTypes /\ PartialsLast /\ InOrder /\ Begun

\* A submitted message is a message.
LEMMA OwnAreMessages ==
  /\ OwnMsgs \subseteq AllMessages /\ Seq(OwnMsgs) \subseteq Seq(AllMessages)
<1>1. OwnMsgs \subseteq AllMessages
  BY DEF OwnMsgs
<1> QED  BY <1>1, SeqSubset

\* The functions that the messages go through have their types.
LEMMA WaysTyped ==
  /\ Written \in [OwnMsgs -> Items]
  /\ Taken \in [Items -> Seq(AllMessages)]
  /\ OwnOf \in [AllMessages -> Seq(AllMessages)]
  /\ OwnIn \in [Items -> Seq(AllMessages)]
  /\ FrameOwn \in [Seq(Items) -> Seq(AllMessages)]
<1>1. Written \in [OwnMsgs -> Items]
  BY DEF Written, Items
<1>2. ASSUME NEW item \in Items PROVE Accepted(Result(item)) \in Seq(AllMessages)
  <2>1. CASE \E m \in OwnMsgs : item = Serialized(m)
    <3>1. PICK m \in AllMessages : Result(item) = << "ok", m >>
      BY <2>1, MessageKept, OwnAreMessages
    <3> QED  BY <3>1 DEF Accepted
  <2>2. CASE item \in Foreign
    <3>1. IsItem(item)
      BY <2>2, ForeignTyped DEF Foreign
    <3>2. CASE Result(item)[1] = "ok"
      <4>1. PICK m \in AllMessages : Result(item) = << "ok", m >>
        BY <3>1, <3>2, MessageDecodes
      <4> QED  BY <4>1 DEF Accepted
    <3>3. CASE Result(item)[1] # "ok"
      <4>1. Accepted(Result(item)) = << >>
        BY <3>3 DEF Accepted
      <4> QED  BY <4>1
    <3> QED  BY <3>2, <3>3
  <2> QED  BY <2>1, <2>2 DEF Items
<1>3. Taken \in [Items -> Seq(AllMessages)]
  BY <1>2 DEF Taken
<1>4. ASSUME NEW m \in AllMessages PROVE OwnPart(m) \in Seq(AllMessages)
  BY DEF OwnPart
<1>5. OwnOf \in [AllMessages -> Seq(AllMessages)]
  BY <1>4 DEF OwnOf
<1>6. ASSUME NEW item \in Items PROVE Gather(Taken[item], OwnOf) \in Seq(AllMessages)
  <2>1. Taken[item] \in Seq(AllMessages)
    BY <1>3
  <2> QED  BY <1>5, <2>1, GatherOf
<1>7. OwnIn \in [Items -> Seq(AllMessages)]
  BY <1>6 DEF OwnIn
<1>8. ASSUME NEW frame \in Seq(Items) PROVE Gather(frame, OwnIn) \in Seq(AllMessages)
  BY <1>7, GatherOf
<1>9. FrameOwn \in [Seq(Items) -> Seq(AllMessages)]
  BY <1>8 DEF FrameOwn
<1> QED  BY <1>1, <1>3, <1>5, <1>7, <1>9

\* Of a submitted message that was written, itself arrives.
LEMMA WrittenArrives ==
  ASSUME NEW m \in OwnMsgs
  PROVE  Serialized(m) \in Items /\ OwnIn[Serialized(m)] = << m >>
<1> DEFINE item == Serialized(m)
<1>1. item \in Items /\ m \in AllMessages /\ m.timestamp > 0
  BY DEF Items, OwnMsgs
<1>2. Result(item) = << "ok", m >>
  BY <1>1, MessageKept
<1> HIDE DEF item
<1>3. Taken[item] = << m >>
  BY <1>1, <1>2 DEF Taken, Accepted
<1>4. OwnOf[m] = << m >>
  BY <1>1 DEF OwnOf, OwnPart
<1>5. Gather(<< m >>, OwnOf) = OwnOf[m]
  BY <1>1, WaysTyped, GatherOne
<1>6. OwnIn[item] = << m >>
  BY <1>1, <1>3, <1>4, <1>5 DEF OwnIn
<1> QED  BY <1>1, <1>6 DEF item

\* Of a foreign value, nothing that was submitted arrives.
LEMMA ForeignIsForeign ==
  ASSUME NEW item \in Foreign
  PROVE  item \in Items /\ OwnIn[item] = << >>
<1>1. item \in Items /\ IsItem(item)
  BY ForeignTyped DEF Items, Foreign
<1>2. CASE Result(item)[1] = "ok"
  <2>1. PICK m \in AllMessages : Result(item) = << "ok", m >>
    BY <1>1, <1>2, MessageDecodes
  <2>2. m.timestamp = 0
    <3>1. Result(item)[2].timestamp = 0
      BY <1>2, ForeignAtZero DEF Foreign
    <3> QED  BY <2>1, <3>1
  <2>3. Taken[item] = << m >>
    BY <1>1, <2>1 DEF Taken, Accepted
  <2>4. OwnOf[m] = << >>
    BY <2>2 DEF OwnOf, OwnPart
  <2>5. Gather(<< m >>, OwnOf) = << >>
    BY <2>4, WaysTyped, GatherOne
  <2> QED  BY <1>1, <2>3, <2>5 DEF OwnIn
<1>3. CASE Result(item)[1] # "ok"
  <2>1. Taken[item] = << >>
    BY <1>1, <1>3 DEF Taken, Accepted
  <2>2. Gather(<< >>, OwnOf) = << >>
    BY GatherNone
  <2> QED  BY <1>1, <2>1, <2>2 DEF OwnIn
<1> QED  BY <1>2, <1>3

\* The submitted messages among others.
LEMMA OwnGathered ==
  ASSUME NEW messages \in Seq(AllMessages)
  PROVE  FlattenSeq([i \in DOMAIN messages |-> OwnPart(messages[i])]) = Gather(messages, OwnOf)
<1>1. \A i \in DOMAIN messages : messages[i] \in AllMessages
  BY PlacesFinite
<1>2. Parts(messages, OwnOf) = [i \in DOMAIN messages |-> OwnPart(messages[i])]
  BY <1>1 DEF Parts, OwnOf
<1> QED  BY <1>2 DEF Gather

\* What poll_next accepts of a frame is what it accepts of all its items: from
\* a partial value nothing is read.
LEMMA SliceAccepts ==
  ASSUME NEW frame \in Seq(Items),
         \A i \in DOMAIN frame : frame[i] = Partial => i = Len(frame)
  PROVE  FlattenSeq([i \in DOMAIN from_slice(frame) |-> Accepted(from_slice(frame)[i])])
            = Gather(frame, Taken)
<1> DEFINE n     == Len(frame)
           whole == { i \in DOMAIN frame : \A j \in 1 .. i : frame[j] # Partial }
           slice == from_slice(frame)
           taken == [i \in DOMAIN slice |-> Accepted(slice[i])]
<1>1. n \in Nat /\ DOMAIN frame = 1 .. n /\ \A i \in 1 .. n : frame[i] \in Items
  BY PlacesFinite
<1>2. slice = [i \in whole |-> Result(frame[i])]
  BY DEF from_slice
<1> HIDE DEF slice
<1>3. taken = [i \in whole |-> Accepted(Result(frame[i]))]
  BY <1>2
<1>4. taken = [i \in whole |-> Taken[frame[i]]]
  <2>1. \A i \in whole : frame[i] \in Items
    BY <1>1
  <2> QED  BY <1>3, <2>1 DEF Taken
<1> HIDE DEF taken
<1>5. CASE \A i \in 1 .. n : frame[i] # Partial
  <2>1. whole = DOMAIN frame
    <3>1. ASSUME NEW i \in DOMAIN frame, NEW j \in 1 .. i PROVE frame[j] # Partial
      BY <1>1, <1>5
    <3> QED  BY <3>1
  <2>2. taken = Parts(frame, Taken)
    BY <1>4, <2>1 DEF Parts
  <2> QED  BY <2>2 DEF Gather, taken, slice
<1>6. CASE ~ \A i \in 1 .. n : frame[i] # Partial
  <2> DEFINE front == SubSeq(frame, 1, n - 1)
  <2>1. n >= 1 /\ frame[n] = Partial /\ \A i \in 1 .. n - 1 : frame[i] # Partial
    BY <1>1, <1>6
  <2>2. /\ front \in Seq(Items) /\ Len(front) = n - 1
        /\ \A i \in 1 .. n - 1 : front[i] = frame[i]
    <3>1. 1 \in Int /\ n - 1 \in Int /\ \A i \in 1 .. n - 1 : frame[i] \in Items
      BY <1>1
    <3> QED  BY <1>1, <2>1, <3>1, SubSeqProperties
  <2>3. whole = 1 .. n - 1
    <3>1. ASSUME NEW i \in whole PROVE i \in 1 .. n - 1
      <4>1. i \in 1 .. n /\ i \in 1 .. i /\ frame[i] # Partial
        BY <1>1
      <4> QED  BY <1>1, <2>1, <4>1
    <3>2. ASSUME NEW i \in 1 .. n - 1 PROVE i \in whole
      <4>1. i \in 1 .. n /\ \A j \in 1 .. i : j \in 1 .. n - 1
        BY <1>1
      <4> QED  BY <1>1, <2>1, <4>1
    <3> QED  BY <3>1, <3>2
  <2>4. front \o << Partial >> = frame
    <3>1. 1 \in 1 .. Len(frame) /\ n \in 1 .. Len(frame)
      BY <1>1, <2>1
    <3>2. SubSeq(frame, 1, n) = SubSeq(frame, 1, n - 1) \o << frame[n] >>
      BY <3>1, SubSeqRecursiveSecond
    <3>3. SubSeq(frame, 1, n) = frame
      BY SubSeqFull
    <3> QED  BY <2>1, <3>2, <3>3
  <2> HIDE DEF front, whole
  <2>5. taken = Parts(front, Taken)
    <3>1. DOMAIN front = 1 .. n - 1
      BY <2>2, PlacesFinite
    <3> QED  BY <1>4, <2>2, <2>3, <3>1 DEF Parts
  <2>6. Partial \in Items
    BY <1>1, <2>1
  <2>7. Taken[Partial] = << >>
    <3>1. Result(Partial) = Error
      BY DEF Result, Partial
    <3> QED  BY <2>6, <3>1 DEF Taken, Accepted, Error
  <2>8. Gather(front \o << Partial >>, Taken) = Gather(front, Taken) \o Gather(<< Partial >>, Taken)
    <3>1. << Partial >> \in Seq(Items)
      BY <2>6
    <3>2. \A s, t \in Seq(Items) : Gather(s \o t, Taken) = Gather(s, Taken) \o Gather(t, Taken)
      BY WaysTyped, GatherConcat
    <3> QED  BY <2>2, <3>1, <3>2
  <2>9. Gather(<< Partial >>, Taken) = << >>
    <3>1. Gather(<< Partial >>, Taken) = Taken[Partial]
      BY <2>6, WaysTyped, GatherOne
    <3> QED  BY <2>7, <3>1
  <2>10. Gather(front, Taken) \in Seq(AllMessages)
    BY <2>2, WaysTyped, GatherOf
  <2>11. Gather(frame, Taken) = Gather(front, Taken)
    BY <2>4, <2>8, <2>9, <2>10, ConcatEmptySeq
  <2> QED  BY <2>5, <2>11 DEF Gather, taken, slice
<1> QED  BY <1>5, <1>6

\* The submitted messages in a frame are those among what is accepted of it.
LEMMA FrameKeepsOwn ==
  ASSUME NEW frame \in Seq(Items)
  PROVE  /\ Gather(frame, Taken) \in Seq(AllMessages)
         /\ Gather(Gather(frame, Taken), OwnOf) = FrameOwn[frame]
<1>1. Gather(frame, Taken) \in Seq(AllMessages)
  BY WaysTyped, GatherOf
<1>2. Gather(Gather(frame, Taken), OwnOf) = Gather(frame, OwnIn)
  <2>1. \A item \in Items : OwnIn[item] = Gather(Taken[item], OwnOf)
    BY DEF OwnIn
  <2>2. Composed(OwnIn, OwnOf, Taken, Items, AllMessages, AllMessages)
    BY <2>1, WaysTyped DEF Composed
  <2> QED  BY <2>2, GatherTwice
<1>3. Gather(frame, OwnIn) = FrameOwn[frame]
  BY DEF FrameOwn
<1> QED  BY <1>1, <1>2, <1>3

----------------------------------------------------------------------------
(* The invariant                                                           *)

\* Nothing was submitted or received: the chain of the messages is empty.
LEMMA CodecStarts == Init => CodecInv
<1> SUFFICES ASSUME Init PROVE CodecInv
  OBVIOUS
<1>1. CodecTypes
  <2>1. Len(OwnMessages) \in Nat /\ Len(ForeignItems) \in Nat
    BY OwnTyped, ForeignTyped, PlacesFinite DEF IsSeq
  <2> QED  BY <2>1 DEF Init, CodecTypes
<1>2. Own = << >> /\ Arriving = << >>
  <2>1. Own = Gather(<< >>, OwnOf)
    <3>1. << >> \in Seq(AllMessages) /\ received = << >>
      BY DEF Init
    <3> QED  BY <3>1, OwnGathered DEF Own
  <2> QED  BY <2>1, GatherNone DEF Init, Arriving
<1>3. FlattenSeq(packets) = << >>
  BY FlattenNone DEF Init
<1>4. PartialsLast /\ Begun
  BY DEF Init, PartialsLast, Begun
<1>5. InOrder
  BY <1>2, <1>3 DEF Init, InOrder, Chained
<1> QED  BY <1>1, <1>4, <1>5 DEF CodecInv

\* What is on the way are sequences of messages.
LEMMA WayTyped ==
  CodecTypes => /\ Own \in Seq(AllMessages) /\ Own = Gather(received, OwnOf)
                /\ Arriving \in Seq(AllMessages)
                /\ FlattenSeq(packets) \in Seq(AllMessages) /\ queue \in Seq(AllMessages)
                /\ submitted \in Seq(AllMessages)
<1> SUFFICES ASSUME CodecTypes
             PROVE  /\ Own \in Seq(AllMessages) /\ Own = Gather(received, OwnOf)
                    /\ Arriving \in Seq(AllMessages)
                    /\ FlattenSeq(packets) \in Seq(AllMessages) /\ queue \in Seq(AllMessages)
                    /\ submitted \in Seq(AllMessages)
  OBVIOUS
<1>1. Own = Gather(received, OwnOf)
  BY OwnGathered DEF CodecTypes, Own
<1>2. Gather(received, OwnOf) \in Seq(AllMessages)
  <2>1. received \in Seq(AllMessages) /\ OwnOf \in [AllMessages -> Seq(AllMessages)]
    BY WaysTyped DEF CodecTypes
  <2> QED  BY <2>1, GatherOf
<1>3. Arriving \in Seq(AllMessages)
  <2>1. wire \in Seq(Seq(Items)) /\ FrameOwn \in [Seq(Items) -> Seq(AllMessages)]
    BY WaysTyped DEF CodecTypes
  <2>2. Gather(wire, FrameOwn) \in Seq(AllMessages)
    BY <2>1, GatherOf
  <2> QED  BY <2>2 DEF Arriving
<1>4. FlattenSeq(packets) \in Seq(OwnMsgs)
  BY FlattenOf DEF CodecTypes
<1> QED  BY <1>1, <1>2, <1>3, <1>4, OwnAreMessages DEF CodecTypes

\* A submitted message is put at the end of the way.
LEMMA SubmitKeeps == CodecInv /\ Submit => CodecInv'
<1> SUFFICES ASSUME CodecInv, Submit PROVE CodecInv'
  OBVIOUS
<1>1. CodecTypes /\ PartialsLast /\ InOrder /\ Begun
  BY DEF CodecInv
<1>2. UNCHANGED << packets, wire, received, reader, foreign >>
  BY DEF Submit
<1>3. Len(submitted) \in Nat /\ Len(OwnMessages) \in Nat /\ Len(submitted) < Len(OwnMessages)
  <2>1. submitted \in Seq(OwnMsgs) /\ OwnMessages \in Seq(ToSet(OwnMessages))
    BY <1>1, OwnTyped DEF CodecTypes, IsSeq
  <2> QED  BY <2>1, PlacesFinite DEF Submit
<1> DEFINE next == Len(submitted) + 1
<1>4. PICK own \in OwnMessages[next] :
         /\ submitted' = Append(submitted, Message(own[1], next, own[2]))
         /\ queue' = Append(queue, Message(own[1], next, own[2]))
  BY DEF Submit
<1> DEFINE m == Message(own[1], next, own[2])
<1>5. m \in OwnMsgs
  <2>1. next \in 1 .. Len(OwnMessages)
    BY <1>3
  <2>2. OwnMessages[next] \in ToSet(OwnMessages)
    <3>1. DOMAIN OwnMessages = 1 .. Len(OwnMessages)
      BY OwnTyped, PlacesFinite DEF IsSeq
    <3> QED  BY <2>1, <3>1 DEF ToSet
  <2>3. IsId(own[1]) /\ IsValue(own[2])
    BY <1>4, <2>2, OwnTyped
  <2>4. next \in 0 .. 2 * Half64 - 1 /\ next > 0
    BY <1>3, OwnTyped, WidthsOrdered
  <2> HIDE DEF next
  <2>5. m.id = own[1] /\ m.timestamp = next /\ m.value = own[2]
    BY DEF Message
  <2>6. WellTyped(m)
    BY <2>3, <2>4, <2>5 DEF WellTyped, Message
  <2> HIDE DEF m
  <2> QED  BY <2>4, <2>5, <2>6, MessagesTyped DEF OwnMsgs
<1>6. submitted' = Append(submitted, m) /\ queue' = Append(queue, m)
  BY <1>4
<1> HIDE DEF m, next
<1>7. CodecTypes'
  <2>1. submitted \in Seq(OwnMsgs) /\ queue \in Seq(OwnMsgs)
    BY <1>1 DEF CodecTypes
  <2>2. submitted' \in Seq(OwnMsgs) /\ queue' \in Seq(OwnMsgs) /\ Len(submitted') = Len(submitted) + 1
    BY <1>5, <1>6, <2>1, AppendProperties
  <2>3. Len(submitted') <= Len(OwnMessages)
    BY <1>3, <2>2
  <2> QED  BY <1>1, <1>2, <2>2, <2>3 DEF CodecTypes
<1>8. Own' = Own /\ Arriving' = Arriving
  BY <1>2 DEF Own, Arriving
<1>9. << m >> \in Seq(AllMessages) /\ submitted' = submitted \o << m >> /\ queue' = queue \o << m >>
  <2>1. m \in AllMessages
    BY <1>5, OwnAreMessages
  <2>2. \A s \in Seq(OwnMsgs) : Append(s, m) = s \o << m >>
    BY <1>5, AppendIsConcat
  <2> QED  BY <1>1, <1>6, <2>1, <2>2 DEF CodecTypes
<1>10. InOrder'
  <2> SUFFICES ASSUME reader = "reading"
               PROVE  submitted' = Chained(Own, Arriving, FlattenSeq(packets), queue')
    BY <1>2, <1>8 DEF InOrder
  <2>1. submitted = Chained(Own, Arriving, FlattenSeq(packets), queue)
    BY <1>1 DEF InOrder
  <2> DEFINE p == FlattenSeq(packets)
             l == << m >>
  <2>2. /\ Own \in Seq(AllMessages) /\ Arriving \in Seq(AllMessages)
        /\ p \in Seq(AllMessages) /\ queue \in Seq(AllMessages) /\ l \in Seq(AllMessages)
    BY <1>1, <1>9, WayTyped
  <2>3. submitted' = submitted \o l /\ queue' = queue \o l
    BY <1>9
  <2> HIDE DEF p, l
  <2>4. Movable(Own, Arriving, p, queue, l)
    BY <2>2, ChainedMoves
  <2>5. Chained(Own, Arriving, p, queue) \o l = Chained(Own, Arriving, p, queue \o l)
    BY <2>4 DEF Movable
  <2> QED  BY <2>1, <2>3, <2>5 DEF p
<1>11. Begun'
  <2> SUFFICES ASSUME reader = "panicked"
               PROVE  \E rest \in Seq(AllMessages) : submitted' = Own \o rest
    BY <1>2, <1>8 DEF Begun
  <2>1. PICK rest \in Seq(AllMessages) : submitted = Own \o rest
    BY <1>1 DEF Begun
  <2>2. Own \in Seq(AllMessages)
    BY <1>1, WayTyped
  <2>3. \A a, b, c \in Seq(AllMessages) : b \o c \in Seq(AllMessages) /\ (a \o b) \o c = a \o (b \o c)
    BY ConcatAssociative, ConcatProperties
  <2>4. rest \o << m >> \in Seq(AllMessages) /\ submitted' = Own \o (rest \o << m >>)
    BY <1>9, <2>1, <2>2, <2>3
  <2> QED  BY <2>4
<1>12. PartialsLast'
  BY <1>1, <1>2 DEF PartialsLast
<1> QED  BY <1>7, <1>10, <1>11, <1>12 DEF CodecInv

\* The current Vec is divided into batches.
LEMMA BatchKeeps == CodecInv /\ Batch => CodecInv'
<1> SUFFICES ASSUME CodecInv, Batch PROVE CodecInv'
  OBVIOUS
<1>1. CodecTypes /\ PartialsLast /\ InOrder /\ Begun
  BY DEF CodecInv
<1> DEFINE more == batch_messages(queue, BatchSize)
<1>2. /\ packets' = packets \o more /\ queue' = << >>
      /\ UNCHANGED << submitted, wire, received, reader, foreign >>
  BY DEF Batch
<1>3. /\ more \in Seq(Seq(OwnMsgs)) /\ FlattenSeq(more) = queue
      /\ \A i \in DOMAIN more : Len(more[i]) \in 1 .. BatchSize
  BY <1>1, BatchPositive, BatchesOf DEF CodecTypes
<1> HIDE DEF more
<1> DEFINE B == Seq(OwnMsgs)
<1>4. packets \in Seq(B) /\ more \in Seq(B)
  BY <1>1, <1>3 DEF CodecTypes
<1>5. /\ packets' \in Seq(B) /\ Len(packets) \in Nat /\ Len(more) \in Nat
      /\ Len(packets') = Len(packets) + Len(more)
      /\ \A i \in 1 .. Len(packets) : packets'[i] = packets[i]
      /\ \A i \in 1 .. Len(more) : packets'[Len(packets) + i] = more[i]
  <2> HIDE DEF B
  <2> QED  BY <1>2, <1>4, ConcatOf
<1>6. ASSUME NEW i \in DOMAIN packets' PROVE Len(packets'[i]) \in 1 .. BatchSize
  <2>1. /\ i \in 1 .. Len(packets) + Len(more)
        /\ DOMAIN packets = 1 .. Len(packets) /\ DOMAIN more = 1 .. Len(more)
    <3> HIDE DEF B
    <3> QED  BY <1>4, <1>5, PlacesFinite
  <2>2. CASE i <= Len(packets)
    <3>1. i \in DOMAIN packets
      BY <1>5, <2>1, <2>2
    <3> QED  BY <1>1, <1>5, <2>1, <3>1 DEF CodecTypes
  <2>3. CASE ~(i <= Len(packets))
    <3> DEFINE j == i - Len(packets)
    <3>1. j \in 1 .. Len(more) /\ Len(packets) + j = i
      BY <1>5, <2>1, <2>3
    <3> HIDE DEF j
    <3> QED  BY <1>3, <1>5, <2>1, <3>1
  <2> QED  BY <2>2, <2>3
<1>7. CodecTypes'
  BY <1>1, <1>2, <1>5, <1>6 DEF CodecTypes
<1>8. Own' = Own /\ Arriving' = Arriving
  BY <1>2 DEF Own, Arriving
<1>9. FlattenSeq(packets') = FlattenSeq(packets) \o queue
  <2>1. FlattenSeq(packets \o more) = FlattenSeq(packets) \o FlattenSeq(more)
    BY <1>4, FlattenConcat
  <2> QED  BY <1>2, <1>3, <2>1
<1>10. InOrder'
  <2> SUFFICES ASSUME reader = "reading"
               PROVE  submitted = Chained(Own, Arriving, FlattenSeq(packets'), << >>)
    BY <1>2, <1>8 DEF InOrder
  <2> DEFINE p == FlattenSeq(packets)
             none == << >>
  <2>1. submitted = Chained(Own, Arriving, p, queue)
    BY <1>1 DEF InOrder
  <2>2. /\ Own \in Seq(AllMessages) /\ Arriving \in Seq(AllMessages)
        /\ p \in Seq(AllMessages) /\ queue \in Seq(AllMessages)
    BY <1>1, WayTyped
  <2>3. none \in Seq(AllMessages) /\ queue \o none = queue
    BY <2>2, ConcatEmptySeq
  <2> HIDE DEF p, none
  <2>4. Movable(Own, Arriving, p, none, queue)
    BY <2>2, <2>3, ChainedMoves
  <2>5. Chained(Own, Arriving, p \o queue, none) = Chained(Own, Arriving, p, queue \o none)
    BY <2>4 DEF Movable
  <2> QED  BY <1>9, <2>1, <2>3, <2>5 DEF p, none
<1>11. PartialsLast' /\ Begun'
  BY <1>1, <1>2, <1>8 DEF PartialsLast, Begun
<1> QED  BY <1>7, <1>10, <1>11 DEF CodecInv

\* The first batch becomes a frame.
LEMMA SendKeeps == CodecInv /\ start_send => CodecInv'
<1> SUFFICES ASSUME CodecInv, start_send PROVE CodecInv'
  OBVIOUS
<1>1. CodecTypes /\ PartialsLast /\ InOrder /\ Begun
  BY DEF CodecInv
<1> DEFINE batch == Head(packets)
           frame == Parts(batch, Written)
<1>2. /\ packets # << >> /\ packets' = Tail(packets)
      /\ wire' = Append(wire, [i \in DOMAIN batch |-> Serialized(batch[i])])
      /\ UNCHANGED << submitted, queue, received, reader, foreign >>
  BY DEF start_send
<1>3. /\ batch \in Seq(OwnMsgs) /\ packets' \in Seq(Seq(OwnMsgs))
      /\ FlattenSeq(packets) = batch \o FlattenSeq(packets')
  <2>1. packets \in Seq(Seq(OwnMsgs)) /\ packets # << >>
    BY <1>1, <1>2 DEF CodecTypes
  <2> QED  BY <1>2, <2>1, FlattenFirst
<1> HIDE DEF batch
<1>4. wire' = Append(wire, frame)
  <2>1. \A i \in DOMAIN batch : batch[i] \in OwnMsgs
    BY <1>3, PlacesFinite
  <2>2. frame = [i \in DOMAIN batch |-> Serialized(batch[i])]
    BY <2>1 DEF Parts, Written
  <2> QED  BY <1>2, <2>2
<1>5. frame \in Seq(Items) /\ Gather(frame, OwnIn) = batch
  <2>1. \A m \in OwnMsgs : OwnIn[Written[m]] = << m >>
    BY WrittenArrives DEF Written
  <2>2. Undoes(OwnIn, Written, OwnMsgs, Items)
    BY <2>1, WaysTyped DEF Undoes
  <2> QED  BY <1>3, <2>2, GatherBack
<1>6. ASSUME NEW i \in DOMAIN frame PROVE frame[i] # Partial
  <2>1. DOMAIN frame = DOMAIN batch /\ batch[i] \in OwnMsgs
    BY <1>3, PlacesFinite DEF Parts
  <2>2. frame[i] = Serialized(batch[i])
    BY <2>1 DEF Parts, Written
  <2> QED  BY <2>2 DEF Serialized, Partial
<1>7. FrameOwn[frame] = batch
  BY <1>5 DEF FrameOwn
<1> HIDE DEF frame
<1> DEFINE W == Seq(Items)
<1>8. wire \in Seq(W) /\ frame \in W /\ Len(wire) \in Nat /\ DOMAIN wire = 1 .. Len(wire)
  <2>1. wire \in Seq(W)
    BY <1>1 DEF CodecTypes
  <2> HIDE DEF W
  <2>2. Len(wire) \in Nat /\ DOMAIN wire = 1 .. Len(wire)
    BY <2>1, PlacesFinite
  <2> QED  BY <1>5, <2>1, <2>2 DEF W
<1>9. /\ wire' \in Seq(W) /\ Len(wire') = Len(wire) + 1 /\ wire'[Len(wire) + 1] = frame
      /\ \A f \in 1 .. Len(wire) : wire'[f] = wire[f]
  <2> HIDE DEF W
  <2> QED  BY <1>4, <1>8, AppendProperties
<1>10. CodecTypes'
  <2>1. ASSUME NEW i \in DOMAIN packets' PROVE Len(packets'[i]) \in 1 .. BatchSize
    <3> DEFINE B == Seq(OwnMsgs)
               k == i + 1
    <3>1. packets \in Seq(B) /\ packets' \in Seq(B) /\ packets # << >>
      BY <1>1, <1>2, <1>3 DEF CodecTypes
    <3> HIDE DEF B
    <3>2. /\ Len(packets) \in Nat /\ Len(packets') = Len(packets) - 1
          /\ \A j \in 1 .. Len(packets') : packets'[j] = packets[j + 1]
      BY <1>2, <3>1, HeadTailProperties, LenProperties
    <3>3. DOMAIN packets' = 1 .. Len(packets') /\ DOMAIN packets = 1 .. Len(packets)
      BY <3>1, PlacesFinite
    <3>4. k \in DOMAIN packets /\ packets'[i] = packets[k]
      BY <3>2, <3>3
    <3> HIDE DEF k
    <3> QED  BY <1>1, <3>4 DEF CodecTypes
  <2> QED  BY <1>1, <1>2, <1>3, <1>9, <2>1 DEF CodecTypes
<1>11. Own' = Own
  BY <1>2 DEF Own
<1>12. Arriving' = Arriving \o batch
  <2>1. Gather(Append(wire, frame), FrameOwn) = Gather(wire, FrameOwn) \o FrameOwn[frame]
    <3> HIDE DEF W
    <3>1. FrameOwn \in [W -> Seq(AllMessages)]
      BY WaysTyped DEF W
    <3> QED  BY <1>8, <3>1, GatherAppend
  <2> QED  BY <1>4, <1>7, <2>1 DEF Arriving
<1>13. InOrder'
  <2> SUFFICES ASSUME reader = "reading"
               PROVE  submitted = Chained(Own, Arriving \o batch, FlattenSeq(packets'), queue)
    BY <1>2, <1>11, <1>12 DEF InOrder
  <2> DEFINE p == FlattenSeq(packets')
  <2>1. submitted = Chained(Own, Arriving, batch \o p, queue)
    BY <1>1, <1>3 DEF InOrder
  <2>2. /\ Own \in Seq(AllMessages) /\ Arriving \in Seq(AllMessages) /\ batch \in Seq(AllMessages)
        /\ queue \in Seq(AllMessages)
    BY <1>1, <1>3, WayTyped, OwnAreMessages
  <2>3. p \in Seq(AllMessages)
    <3>1. p \in Seq(OwnMsgs)
      BY <1>3, FlattenOf
    <3> QED  BY <3>1, OwnAreMessages
  <2> HIDE DEF p
  <2>4. Movable(Own, Arriving, p, queue, batch)
    BY <2>2, <2>3, ChainedMoves
  <2>5. Chained(Own, Arriving \o batch, p, queue) = Chained(Own, Arriving, batch \o p, queue)
    BY <2>4 DEF Movable
  <2> QED  BY <2>1, <2>5 DEF p
<1>14. PartialsLast'
  <2> SUFFICES ASSUME NEW f \in DOMAIN wire', NEW i \in DOMAIN wire'[f], wire'[f][i] = Partial
               PROVE  i = Len(wire'[f])
    BY DEF PartialsLast
  <2>1. DOMAIN wire' = 1 .. Len(wire) + 1
    <3> HIDE DEF W
    <3> QED  BY <1>9, PlacesFinite
  <2>2. CASE f = Len(wire) + 1
    BY <1>6, <1>9, <2>2
  <2>3. CASE f # Len(wire) + 1
    <3>1. f \in 1 .. Len(wire)
      BY <1>8, <2>1, <2>3
    <3>2. wire'[f] = wire[f] /\ f \in DOMAIN wire
      BY <1>8, <1>9, <3>1
    <3> QED  BY <1>1, <3>2 DEF PartialsLast
  <2> QED  BY <2>2, <2>3
<1>15. Begun'
  BY <1>1, <1>2, <1>11 DEF Begun
<1> QED  BY <1>10, <1>13, <1>14, <1>15 DEF CodecInv

\* A foreign value gets between the items of a frame.
LEMMA ForeignKeeps ==
  ASSUME NEW f \in DOMAIN wire, NEW at \in 1 .. Len(wire[f]) + 1
  PROVE  CodecInv /\ SendForeign(f, at) => CodecInv'
<1> SUFFICES ASSUME CodecInv, SendForeign(f, at) PROVE CodecInv'
  OBVIOUS
<1>1. CodecTypes /\ PartialsLast /\ InOrder /\ Begun
  BY DEF CodecInv
<1>2. /\ foreign < Len(ForeignItems) /\ foreign' = foreign + 1
      /\ UNCHANGED << submitted, queue, packets, received, reader >>
      /\ ~Contains(wire[f], Partial)
  BY DEF SendForeign
<1>3. PICK item \in ForeignItems[foreign + 1] :
         /\ item = Partial => at = Len(wire[f]) + 1
         /\ wire' = [wire EXCEPT ![f] = InsertAt(wire[f], at, item)]
  BY DEF SendForeign
<1>4. foreign + 1 \in 0 .. Len(ForeignItems) /\ item \in Foreign
  <2>1. Len(ForeignItems) \in Nat /\ DOMAIN ForeignItems = 1 .. Len(ForeignItems)
    BY ForeignTyped, PlacesFinite DEF IsSeq
  <2>2. foreign + 1 \in 0 .. Len(ForeignItems) /\ foreign + 1 \in DOMAIN ForeignItems
    BY <1>1, <1>2, <2>1 DEF CodecTypes
  <2> QED  BY <1>3, <2>2 DEF Foreign, ToSet
<1> DEFINE old == wire[f]
           new == InsertAt(old, at, item)
           W   == Seq(Items)
<1>5. wire \in Seq(W) /\ old \in Seq(Items)
  <2>1. wire \in Seq(W)
    BY <1>1 DEF CodecTypes
  <2> HIDE DEF W
  <2>2. old \in W
    BY <2>1, PlacesFinite
  <2> QED  BY <2>1, <2>2 DEF W
<1>6. at \in 1 .. Len(old) + 1 /\ wire' = [wire EXCEPT ![f] = new]
      /\ (item = Partial => at = Len(old) + 1) /\ ~Contains(old, Partial)
  BY <1>2, <1>3
<1> HIDE DEF old
<1>7. item \in Items /\ OwnIn[item] = << >>
  BY <1>4, ForeignIsForeign
<1>8. /\ new \in Seq(Items) /\ Len(old) \in Nat /\ Len(new) = Len(old) + 1 /\ new[at] = item
      /\ \A k \in 1 .. at - 1 : new[k] = old[k]
      /\ \A k \in at .. Len(old) : new[k + 1] = old[k]
  <2>1. Len(old) \in Nat
    BY <1>5, LenProperties
  <2>2. new \in Seq(Items) /\ Inserted(new, old, at, item)
    BY <1>5, <1>6, <1>7, InsertAtOf
  <2> QED  BY <2>1, <2>2 DEF Inserted
<1>9. FrameOwn[new] = FrameOwn[old]
  <2>1. OwnIn \in [Items -> Seq(AllMessages)]
    BY WaysTyped
  <2>2. Gather(new, OwnIn) = Gather(old, OwnIn)
    BY <1>5, <1>6, <1>7, <2>1, GatherInsert
  <2> QED  BY <1>5, <1>8, <2>2 DEF FrameOwn
<1> HIDE DEF new
<1>10. CodecTypes'
  <2>1. wire' \in Seq(W)
    <3>1. new \in W
      BY <1>8
    <3> HIDE DEF W
    <3> QED  BY <1>5, <1>6, <3>1, ExceptSeq
  <2> QED  BY <1>1, <1>2, <1>4, <2>1 DEF CodecTypes
<1>11. Own' = Own
  BY <1>2 DEF Own
<1>12. Arriving' = Arriving
  <2>1. FrameOwn[new] = FrameOwn[wire[f]]
    BY <1>9 DEF old
  <2>2. Gather([wire EXCEPT ![f] = new], FrameOwn) = Gather(wire, FrameOwn)
    <3> HIDE DEF W
    <3> QED  BY <1>5, <2>1, GatherReplaced
  <2> QED  BY <1>6, <2>2 DEF Arriving
<1>13. InOrder' /\ Begun'
  BY <1>1, <1>2, <1>11, <1>12 DEF InOrder, Begun
<1>14. PartialsLast'
  <2> SUFFICES ASSUME NEW g \in DOMAIN wire', NEW i \in DOMAIN wire'[g], wire'[g][i] = Partial
               PROVE  i = Len(wire'[g])
    BY DEF PartialsLast
  <2>1. CASE g # f
    <3>1. g \in DOMAIN wire /\ wire'[g] = wire[g]
      BY <1>6, <2>1
    <3> QED  BY <1>1, <3>1 DEF PartialsLast
  <2>2. CASE g = f
    <3>1. wire'[g] = new
      BY <1>6, <2>2
    <3>2. i \in 1 .. Len(old) + 1 /\ new[i] = Partial
      BY <1>8, <3>1, PlacesFinite
    <3>3. \A k \in 1 .. Len(old) : old[k] # Partial
      BY <1>6 DEF Contains
    <3>4. CASE i < at
      <4>1. i \in 1 .. at - 1 /\ i \in 1 .. Len(old)
        BY <1>6, <1>8, <3>2, <3>4
      <4> QED  BY <1>8, <3>2, <3>3, <4>1
    <3>5. CASE i = at
      BY <1>6, <1>8, <3>1, <3>2, <3>5
    <3>6. CASE i > at
      <4> DEFINE k == i - 1
      <4>1. k \in at .. Len(old) /\ k \in 1 .. Len(old) /\ k + 1 = i
        BY <1>6, <1>8, <3>2, <3>6
      <4> HIDE DEF k
      <4> QED  BY <1>8, <3>2, <3>3, <4>1
    <3> QED  BY <1>6, <3>2, <3>4, <3>5, <3>6
  <2> QED  BY <2>1, <2>2
<1> QED  BY <1>10, <1>13, <1>14 DEF CodecInv

\* The reader takes the first frame: what was submitted moves from there to
\* what was received, or the reader ends and receives nothing more.
LEMMA ReceiveKeeps == CodecInv /\ poll_next => CodecInv'
<1> SUFFICES ASSUME CodecInv, poll_next PROVE CodecInv'
  OBVIOUS
<1>1. CodecTypes /\ PartialsLast /\ InOrder /\ Begun
  BY DEF CodecInv
<1> DEFINE frame == Head(wire)
           slice == from_slice(frame)
           taken == FlattenSeq([i \in DOMAIN slice |-> Accepted(slice[i])])
           W     == Seq(Items)
<1>2. /\ reader = "reading" /\ wire # << >> /\ wire' = Tail(wire)
      /\ UNCHANGED << submitted, queue, packets, foreign >>
      /\ \/ reader' = "panicked" /\ UNCHANGED received
         \/ received' = received \o taken /\ UNCHANGED reader
  BY DEF poll_next
<1> HIDE DEF taken
<1>3. wire \in Seq(W)
  BY <1>1 DEF CodecTypes
<1>4. /\ wire' \in Seq(W) /\ frame \in W /\ Len(wire) \in Nat /\ Len(wire) >= 1
      /\ Len(wire') = Len(wire) - 1 /\ \A f \in 1 .. Len(wire') : wire'[f] = wire[f + 1]
      /\ DOMAIN wire = 1 .. Len(wire) /\ DOMAIN wire' = 1 .. Len(wire') /\ frame = wire[1]
  <2> HIDE DEF W
  <2>1. wire' \in Seq(W) /\ frame \in W /\ Len(wire') = Len(wire) - 1
        /\ \A f \in 1 .. Len(wire') : wire'[f] = wire[f + 1]
    BY <1>2, <1>3, HeadTailProperties
  <2>2. Len(wire) \in Nat /\ DOMAIN wire = 1 .. Len(wire) /\ DOMAIN wire' = 1 .. Len(wire')
    BY <1>3, <2>1, PlacesFinite
  <2>3. Len(wire) # 0
    BY <1>2, <1>3, EmptySeq
  <2> QED  BY <2>1, <2>2, <2>3
<1>5. taken = Gather(frame, Taken)
  <2>1. frame \in Seq(Items)
    BY <1>4
  <2>2. \A i \in DOMAIN frame : frame[i] = Partial => i = Len(frame)
    BY <1>1, <1>4 DEF PartialsLast
  <2> HIDE DEF frame
  <2> QED  BY <2>1, <2>2, SliceAccepts DEF taken, slice
<1>6. taken \in Seq(AllMessages) /\ Gather(taken, OwnOf) = FrameOwn[frame]
  BY <1>4, <1>5, FrameKeepsOwn
<1> HIDE DEF frame, slice
<1>7. received' \in Seq(AllMessages) /\ received \in Seq(AllMessages)
  <2>1. received \in Seq(AllMessages)
    BY <1>1 DEF CodecTypes
  <2>2. received \o taken \in Seq(AllMessages)
    BY <1>6, <2>1, ConcatProperties
  <2> QED  BY <1>2, <2>1, <2>2
<1>8. CodecTypes'
  BY <1>1, <1>2, <1>4, <1>7 DEF CodecTypes
<1>9. PartialsLast'
  <2> SUFFICES ASSUME NEW f \in DOMAIN wire' PROVE
        \A i \in DOMAIN wire'[f] : wire'[f][i] = Partial => i = Len(wire'[f])
    BY DEF PartialsLast
  <2> DEFINE g == f + 1
  <2>1. g \in DOMAIN wire /\ wire'[f] = wire[g]
    BY <1>4
  <2> HIDE DEF g
  <2> QED  BY <1>1, <2>1 DEF PartialsLast
<1>10. Arriving = FrameOwn[frame] \o Arriving'
  <2>1. Gather(wire, FrameOwn) = FrameOwn[Head(wire)] \o Gather(Tail(wire), FrameOwn)
    <3>1. FrameOwn \in [W -> Seq(AllMessages)]
      BY WaysTyped
    <3> HIDE DEF W
    <3> QED  BY <1>2, <1>3, <3>1, GatherFirst
  <2> QED  BY <1>2, <2>1 DEF Arriving, frame
<1>11. CASE reader' = "panicked" /\ UNCHANGED received
  <2>1. Own' = Own
    BY <1>11 DEF Own
  <2> DEFINE rest == Arriving \o (FlattenSeq(packets) \o queue)
  <2>2. submitted = Own \o rest
    BY <1>1, <1>2 DEF InOrder, Chained
  <2>3. rest \in Seq(AllMessages)
    <3> DEFINE p == FlattenSeq(packets)
    <3>1. Arriving \in Seq(AllMessages) /\ p \in Seq(AllMessages) /\ queue \in Seq(AllMessages)
      BY <1>1, WayTyped
    <3> HIDE DEF p
    <3>2. \A s, t \in Seq(AllMessages) : s \o t \in Seq(AllMessages)
      BY ConcatProperties
    <3>3. p \o queue \in Seq(AllMessages)
      BY <3>1, <3>2
    <3> QED  BY <3>1, <3>2, <3>3 DEF p
  <2> HIDE DEF rest
  <2>4. Begun'
    BY <1>2, <2>1, <2>2, <2>3 DEF Begun
  <2>5. InOrder'
    BY <1>11 DEF InOrder
  <2> QED  BY <1>8, <1>9, <2>4, <2>5 DEF CodecInv
<1>12. CASE received' = received \o taken /\ UNCHANGED reader
  <2> DEFINE own == FrameOwn[frame]
             p   == FlattenSeq(packets)
  <2>1. Own' = Own \o own
    <3>1. Own' = Gather(received', OwnOf) /\ Own = Gather(received, OwnOf)
      BY <1>7, OwnGathered DEF Own
    <3>2. \A s, t \in Seq(AllMessages) : Gather(s \o t, OwnOf) = Gather(s, OwnOf) \o Gather(t, OwnOf)
      BY WaysTyped, GatherConcat
    <3> QED  BY <1>6, <1>7, <1>12, <3>1, <3>2
  <2>2. submitted = Chained(Own, own \o Arriving', p, queue)
    BY <1>1, <1>2, <1>10 DEF InOrder
  <2>3. /\ Own \in Seq(AllMessages) /\ own \in Seq(AllMessages)
        /\ p \in Seq(AllMessages) /\ queue \in Seq(AllMessages)
    <3>1. FrameOwn \in [W -> Seq(AllMessages)]
      BY WaysTyped
    <3> HIDE DEF W
    <3> QED  BY <1>1, <1>4, <3>1, WayTyped
  <2>4. Arriving' \in Seq(AllMessages)
    <3>1. FrameOwn \in [W -> Seq(AllMessages)]
      BY WaysTyped
    <3> HIDE DEF W
    <3>2. Gather(wire', FrameOwn) \in Seq(AllMessages)
      BY <1>4, <3>1, GatherOf
    <3> QED  BY <3>2 DEF Arriving
  <2> HIDE DEF own, p
  <2>5. Movable(Own, Arriving', p, queue, own)
    BY <2>3, <2>4, ChainedMoves
  <2>6. submitted = Chained(Own \o own, Arriving', p, queue)
    BY <2>2, <2>5 DEF Movable
  <2>7. InOrder'
    BY <1>2, <2>1, <2>6 DEF InOrder, p
  <2>8. Begun'
    BY <1>2, <1>12 DEF Begun
  <2> QED  BY <1>8, <1>9, <2>7, <2>8 DEF CodecInv
<1> QED  BY <1>2, <1>11, <1>12

\* The invariant is inductive.
LEMMA CodecStep == CodecInv /\ [Next]_vars => CodecInv'
<1> SUFFICES ASSUME CodecInv, [Next]_vars PROVE CodecInv'
  OBVIOUS
<1>1. CASE Submit
  BY <1>1, SubmitKeeps
<1>2. CASE Batch
  BY <1>2, BatchKeeps
<1>3. CASE start_send
  BY <1>3, SendKeeps
<1>4. CASE poll_next
  BY <1>4, ReceiveKeeps
<1>5. CASE \E f \in DOMAIN wire : \E at \in 1 .. Len(wire[f]) + 1 : SendForeign(f, at)
  BY <1>5, ForeignKeeps
<1>6. CASE UNCHANGED vars
  <2>1. Own' = Own /\ Arriving' = Arriving
    BY <1>6 DEF vars, Own, Arriving
  <2> QED  BY <1>6, <2>1
           DEF vars, CodecInv, CodecTypes, PartialsLast, InOrder, Begun
<1> QED  BY <1>1, <1>2, <1>3, <1>4, <1>5, <1>6 DEF Next

\* Each part of the invariant holds in every state that the codec reaches.
LEMMA CodecInvariant == Spec => []CodecInv
<1> QED  BY CodecStarts, CodecStep, PTL DEF Spec

----------------------------------------------------------------------------
(* What follows from it                                                    *)

\* Every message that was submitted or decoded has the width of its Rust
\* fields, and no batch is empty or longer than MAX_BATCHING_SIZE.
THEOREM CodecTypesHold == Spec => []CodecTypeOK
<1>1. CodecInv => CodecTypeOK
  <2> SUFFICES ASSUME CodecTypes PROVE CodecTypeOK
    BY DEF CodecInv
  <2>1. ASSUME NEW S, S \subseteq AllMessages, NEW s \in Seq(S), NEW m \in ToSet(s) PROVE WellTyped(m)
    <3>1. m \in S
      BY PlacesFinite DEF ToSet
    <3> QED  BY <2>1, <3>1, MessagesTyped
  <2>2. \A m \in ToSet(submitted) \cup ToSet(queue) \cup ToSet(received) : WellTyped(m)
    BY <2>1, OwnAreMessages DEF CodecTypes
  <2>3. \A i \in DOMAIN packets : \A m \in ToSet(packets[i]) : WellTyped(m)
    <3> DEFINE B == Seq(OwnMsgs)
    <3>1. packets \in Seq(B)
      BY DEF CodecTypes
    <3> HIDE DEF B
    <3>2. \A i \in DOMAIN packets : packets[i] \in B
      BY <3>1, PlacesFinite
    <3> QED  BY <2>1, <3>2, OwnAreMessages DEF B
  <2> QED  BY <2>2, <2>3 DEF CodecTypes, CodecTypeOK
<1> QED  BY <1>1, CodecInvariant, PTL

\* Every message that was accepted from a peer can be sent on to subscribers
\* and is read by them as what it was (from_slice, Serialize).
THEOREM MessagesAreRelayed == Spec => []RelayedUnchanged
<1>1. CodecInv => RelayedUnchanged
  <2> SUFFICES ASSUME received \in Seq(AllMessages), NEW m \in ToSet(received)
               PROVE  Result(Serialized(m)) = << "ok", m >>
    BY DEF CodecInv, CodecTypes, RelayedUnchanged
  <2>1. m \in AllMessages
    BY PlacesFinite DEF ToSet
  <2> QED  BY <2>1, MessageKept
<1> QED  BY <1>1, CodecInvariant, PTL

\* What handlers submit arrives once, in order and unchanged: what was received
\* of it is its beginning, and all of it once nothing is on the way
\* (batch_messages, start_send, poll_next).
THEOREM SubmittedArrive == Spec => []OwnMessagesArrive
<1>1. CodecInv => OwnMessagesArrive
  <2> SUFFICES ASSUME CodecTypes, InOrder, Begun PROVE OwnMessagesArrive
    BY DEF CodecInv
  <2>1. PICK rest \in Seq(AllMessages) : submitted = Own \o rest
    <3>1. CASE reader = "reading"
      <4> DEFINE p == FlattenSeq(packets)
                 rest == Arriving \o (p \o queue)
      <4>1. Arriving \in Seq(AllMessages) /\ p \in Seq(AllMessages) /\ queue \in Seq(AllMessages)
        BY WayTyped
      <4>2. \A s, t \in Seq(AllMessages) : s \o t \in Seq(AllMessages)
        BY ConcatProperties
      <4>3. submitted = Own \o rest
        BY <3>1 DEF InOrder, Chained
      <4> HIDE DEF p
      <4>4. rest \in Seq(AllMessages)
        <5>1. p \o queue \in Seq(AllMessages)
          BY <4>1, <4>2
        <5> QED  BY <4>1, <4>2, <5>1
      <4> HIDE DEF rest
      <4> QED  BY <4>3, <4>4
    <3>2. CASE reader = "panicked"
      BY <3>2 DEF Begun
    <3> QED  BY <3>1, <3>2 DEF CodecTypes
  <2>2. Len(Own) <= Len(submitted) /\ IsPrefix(Own, submitted)
    BY <2>1, WayTyped, ConcatPrefix
  <2>3. ASSUME reader = "reading", queue = << >>, packets = << >>, wire = << >>
        PROVE  Own = submitted
    <3>1. Arriving = << >> /\ FlattenSeq(packets) = << >>
      BY <2>3, GatherNone, FlattenNone DEF Arriving
    <3>2. submitted = Own \o (<< >> \o (<< >> \o << >>))
      BY <2>3, <3>1 DEF InOrder, Chained
    <3>3. << >> \o (<< >> \o << >>) = << >>
      OBVIOUS
    <3>4. Own \o << >> = Own
      BY WayTyped, ConcatEmptySeq
    <3> QED  BY <3>2, <3>3, <3>4
  <2> QED  BY <2>2, <2>3 DEF OwnMessagesArrive
<1> QED  BY <1>1, CodecInvariant, PTL

==============================================================================
