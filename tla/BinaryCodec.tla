---------------------------- MODULE BinaryCodec ----------------------------
(***************************************************************************)
(* Value messages between two peers: batch_messages (util.rs), the binary  *)
(* half of NTSocket (net.rs), Serialize for NTBinaryMessage and from_slice *)
(* (bin.rs) over the helpers of ext.rs.                                    *)
(*                                                                         *)
(* A frame is a sequence of MessagePack values, not of bytes.  Numbers     *)
(* keep the relation of their widths, scaled down.  Floats are counted in  *)
(* quarters; a single has the even ones.                                   *)
(***************************************************************************)
EXTENDS Integers, Sequences, SequencesExt, NTValue

CONSTANTS
    OwnMessages,  \* for each message that a handler sends, its choices <<id, NTValue>>
    ForeignItems, \* for each other MessagePack value that a peer sends, its choices
    Half32,       \* 2^31: i32 is -Half32 .. Half32 - 1
    Half64,       \* 2^63, as i64 and u64
    BatchSize     \* MAX_BATCHING_SIZE

ASSUME WidthsOrdered == /\ Half32 \in Nat \ {0} /\ Half64 \in Nat \ {0}
                        /\ Half32 < Half64
ASSUME BatchPositive == BatchSize \in Nat \ {0}

VARIABLES
    submitted,  \* all messages that were given to batch_messages
    queue,      \* those of the current Vec
    packets,    \* batches that wait for start_send
    wire,       \* frames
    received,   \* the messages of all frames that poll_next has returned
    reader,     \* "reading" or "panicked"
    foreign     \* how many foreign values were sent

vars == <<submitted, queue, packets, wire, received, reader, foreign>>

----------------------------------------------------------------------------
(* Values.  A MessagePack value is a pair of its kind and contents; so is  *)
(* an NTValue, with its DataType.                                          *)

Message(id, timestamp, value) == [id |-> id, timestamp |-> timestamp, value |-> value]

\* A value of which the frame holds only a part; nothing can follow it.
Partial == <<"partial">>

None    == << >>
Some(x) == << x >>

\* A cast to a signed integer with 2 * half values.
Wrap(n, half) == ((n + half) % (2 * half)) - half

\* A cast to f32: to the nearest, and of two that are as near to the even one.
Single(quarters) ==
    IF quarters % 4 = 3 THEN quarters + 1 ELSE quarters - (quarters % 2)

ElementType(type) ==
    CASE type = "boolean[]" -> "boolean" [] type = "int[]" -> "int" [] type = "float[]" -> "float"
      [] type = "double[]" -> "double"   [] type = "string[]" -> "string"

\* The contents of an NTValue of each type: those of its variant of the enum.
ScalarData(type) ==
    CASE type = "int"     -> -Half64 .. Half64 - 1
      [] type = "boolean" -> BOOLEAN
      [] type = "float"   -> { q \in Int : q % 2 = 0 }
      [] type = "double"  -> Int
      [] type \in Blobs \cup {"string"} -> STRING

Data(type) == IF type \in Arrays THEN Seq(ScalarData(ElementType(type))) ELSE ScalarData(type)

IsId(id)       == id \in -Half32 .. Half32 - 1
IsValue(value) == \E type \in DataType : value \in {type} \X Data(type)

\* The MessagePack values: integers of i64 and u64, floats, texts and arrays.
\* from_slice looks at the elements of a field and no deeper.
IsSeq(s) == s \in Seq(ToSet(s))

IsLiteral(item) ==
    /\ item[1] = "int"  => item[2] \in -Half64 .. 2 * Half64 - 1
    /\ item[1] = "bool" => item[2] \in BOOLEAN
    /\ item[1] \in {"f32", "f64"} => item[2] \in Int
    /\ item[1] \in {"str", "bin"} => item[2] \in STRING

IsField(item) ==
    /\ IsLiteral(item)
    /\ item[1] = "array" => IsSeq(item[2]) /\ \A element \in ToSet(item[2]) : IsLiteral(element)

IsItem(item) ==
    /\ IsLiteral(item)
    /\ item[1] = "array" => IsSeq(item[2]) /\ \A field \in ToSet(item[2]) : IsField(field)

ASSUME OwnTyped ==
    /\ IsSeq(OwnMessages) /\ Len(OwnMessages) < 2 * Half64
    /\ \A choices \in ToSet(OwnMessages) : \A m \in choices : IsId(m[1]) /\ IsValue(m[2])
ASSUME ForeignTyped ==
    /\ IsSeq(ForeignItems)
    /\ \A choices \in ToSet(ForeignItems) : \A item \in choices : IsItem(item)

\* Faulty: the numbers of the two floating types are swapped.
TypeNumber_Swapped(type) ==
    CASE type = "boolean" -> 0    [] type = "double" -> 3    [] type = "int" -> 2
      [] type = "float" -> 1      [] type = "string" -> 4    [] type = "raw" -> 5
      [] type = "rpc" -> 6        [] type = "boolean[]" -> 16 [] type = "double[]" -> 17
      [] type = "int[]" -> 18     [] type = "float[]" -> 19  [] type = "string[]" -> 20

\* Into<u8> for DataType.
TypeNumber(type) ==
    CASE type = "boolean" -> 0    [] type = "double" -> 1    [] type = "int" -> 2
      [] type = "float" -> 3      [] type = "string" -> 4    [] type = "raw" -> 5
      [] type = "rpc" -> 6        [] type = "boolean[]" -> 16 [] type = "double[]" -> 17
      [] type = "int[]" -> 18     [] type = "float[]" -> 19  [] type = "string[]" -> 20

----------------------------------------------------------------------------
(* Encoding                                                                *)

\* The MessagePack kind that a scalar or blob is written as.
KindOf(type) ==
    CASE type = "int" -> "int"     [] type = "boolean" -> "bool"  [] type = "float" -> "f32"
      [] type = "double" -> "f64"  [] type = "string" -> "str"    [] type \in Blobs -> "bin"

\* NTValue is untagged; integer_serializer keeps the number, raw_serializer
\* writes a bin.
SerializedValue(value) ==
    IF value[1] \in Arrays
    THEN <<"array", [i \in DOMAIN value[2] |-> <<KindOf(ElementType(value[1])), value[2][i]>>]>>
    ELSE <<KindOf(value[1]), value[2]>>

\* Faulty: without raw_serializer a Vec<u8> is written as an array.
Serialized_BlobAsArray(m) ==
    <<"array", << <<"int", m.id>>, <<"int", m.timestamp>>, <<"int", TypeNumber(m.value[1])>>,
                  IF m.value[1] \in Blobs THEN <<"array", << <<"int", 1>> >> >>
                  ELSE SerializedValue(m.value) >> >>

\* Serialize for NTBinaryMessage.
Serialized(m) ==
    <<"array", << <<"int", m.id>>, <<"int", m.timestamp>>, <<"int", TypeNumber(m.value[1])>>,
                  SerializedValue(m.value) >> >>

\* The last chunk may be shorter.
batch_messages(messages, size) ==
    [i \in 1 .. (Len(messages) + size - 1) \div size |->
        SubSeq(messages, (i - 1) * size + 1, IF i * size < Len(messages) THEN i * size ELSE Len(messages))]

----------------------------------------------------------------------------
(* Decoding                                                                *)

\* The values of a MessagePack value as each type, if it has one: as_bool,
\* as_f64 of rmpv; as_integer, as_f32, as_bytes, as_text of ext.rs.
AsScalar(type, item) ==
    CASE type = "int"     -> IF item[1] = "int" THEN Some(Wrap(item[2], Half64)) ELSE None
      [] type = "boolean" -> IF item[1] = "bool" THEN Some(item[2]) ELSE None
      [] type \in Blobs   -> IF item[1] = "bin" THEN Some(item[2]) ELSE None
      [] type = "string"  -> IF item[1] = "str" THEN Some(item[2]) ELSE None
      [] type = "float"   -> CASE item[1] \in {"f32", "f64"} -> Some(Single(item[2]))
                               [] item[1] = "int"            -> Some(Single(4 * item[2]))
                               [] OTHER                      -> None
      [] type = "double"  -> CASE item[1] \in {"f32", "f64"} -> Some(item[2])
                               [] item[1] = "int"            -> Some(4 * item[2])
                               [] OTHER                      -> None

\* unpack_value and unpack_array.
Unpacked(type, item) ==
    IF type \notin Arrays THEN AsScalar(type, item)
    ELSE IF item[1] # "array" THEN None
    ELSE LET elements == [i \in DOMAIN item[2] |-> AsScalar(ElementType(type), item[2][i])]
         IN  IF \E i \in DOMAIN elements : elements[i] = None THEN None
             ELSE Some([i \in DOMAIN elements |-> elements[i][1]])

\* The type that from_slice finds by a number: not the table that wrote it.
KnownNumbers == 0 .. 6 \cup 16 .. 20
TypeOf(number) ==
    CASE number = 0 -> "boolean"    [] number = 1 -> "double"     [] number = 2 -> "int"
      [] number = 3 -> "float"      [] number = 4 -> "string"     [] number = 5 -> "raw"
      [] number = 6 -> "rpc"        [] number = 16 -> "boolean[]" [] number = 17 -> "double[]"
      [] number = 18 -> "int[]"     [] number = 19 -> "float[]"   [] number = 20 -> "string[]"

\* Whether a field of the top-level array is what from_slice expects there.
Expected(values, field) ==
    LET item == values[field]
    IN  CASE field = 1 -> item[1] = "int" /\ item[2] < Half64
          [] field = 2 -> item[1] = "int" /\ item[2] >= 0
          [] field = 3 -> item[1] = "int" /\ item[2] \in KnownNumbers
          [] field = 4 -> Unpacked(TypeOf(values[3][2]), item) # None

\* Faulty: the id keeps the width it was read with.
DecodedId_Wide(values) == values[1][2]

\* `id as i32`.
DecodedId(values) == Wrap(values[1][2], Half32)

Decoded(values) ==
    LET type == TypeOf(values[3][2]) IN
    Message(DecodedId(values), values[2][2], <<type, Unpacked(type, values[4])[1]>>)

Error    == <<"error">>
Panicked == <<"panicked">>

\* Whether from_slice finds what it expects in the first n fields.
Fits(values, n) == \A f \in 1 .. n : f <= Len(values) /\ Expected(values, f)

\* The fields are taken in their order and never counted: the first that is not
\* what it should be is an error, or a panic if it is not there.
Result(item) ==
    IF item[1] # "array" THEN Error
    ELSE LET values == item[2]
             first  == CHOOSE f \in 1 .. 4 : Fits(values, f - 1) /\ ~Fits(values, f)
         IN  CASE Fits(values, 4)        -> <<"ok", Decoded(values)>>
               [] ~Fits(values, 4) /\ first > Len(values)  -> Panicked
               [] ~Fits(values, 4) /\ first <= Len(values) -> Error

\* MsgpackStreamIterator ends at a partial value; an item that is an error does
\* not end it.
from_slice(frame) ==
    LET whole == { i \in DOMAIN frame : \A j \in 1 .. i : frame[j] # Partial }
    IN  [i \in whole |-> Result(frame[i])]

\* Errors are filtered out.
Accepted(result) == IF result[1] = "ok" THEN << result[2] >> ELSE << >>

----------------------------------------------------------------------------
(* The way of the messages                                                 *)

Init ==
    /\ submitted = << >> /\ queue = << >> /\ packets = << >> /\ wire = << >>
    /\ received = << >> /\ reader = "reading" /\ foreign = 0

\* A handler makes one more message; its timestamp tells it from all others.
Submit ==
    /\ Len(submitted) < Len(OwnMessages)
    /\ \E own \in OwnMessages[Len(submitted) + 1] :
          LET m == Message(own[1], Len(submitted) + 1, own[2])
          IN  submitted' = Append(submitted, m) /\ queue' = Append(queue, m)
    /\ UNCHANGED <<packets, wire, received, reader, foreign>>

Batch ==
    /\ queue # << >>
    /\ packets' = packets \o batch_messages(queue, BatchSize)
    /\ queue' = << >>
    /\ UNCHANGED <<submitted, wire, received, reader, foreign>>

start_send ==
    /\ packets # << >>
    /\ wire' = Append(wire, [i \in DOMAIN Head(packets) |-> Serialized(Head(packets)[i])])
    /\ packets' = Tail(packets)
    /\ UNCHANGED <<submitted, queue, received, reader, foreign>>

\* External: a peer that sends something else in the same frame.  The timestamp
\* of a foreign message is 0.
ASSUME ForeignAtZero ==
    \A choices \in ToSet(ForeignItems) : \A item \in choices :
        Result(item)[1] = "ok" => Result(item)[2].timestamp = 0

SendForeign(f, at) ==
    /\ foreign < Len(ForeignItems)
    /\ ~Contains(wire[f], Partial)
    /\ \E item \in ForeignItems[foreign + 1] :
          /\ item = Partial => at = Len(wire[f]) + 1
          /\ wire' = [wire EXCEPT ![f] = InsertAt(@, at, item)]
    /\ foreign' = foreign + 1
    /\ UNCHANGED <<submitted, queue, packets, received, reader>>

\* A panic takes the task with it.
poll_next ==
    /\ reader = "reading" /\ wire # << >>
    /\ LET results == from_slice(Head(wire))
       IN  IF Contains(results, Panicked)
           THEN reader' = "panicked" /\ UNCHANGED received
           ELSE /\ received' = received \o FlattenSeq([i \in DOMAIN results |-> Accepted(results[i])])
                /\ UNCHANGED reader
    /\ wire' = Tail(wire)
    /\ UNCHANGED <<submitted, queue, packets, foreign>>

Next ==
    \/ Submit \/ Batch \/ start_send \/ poll_next
    \/ \E f \in DOMAIN wire : \E at \in 1 .. Len(wire[f]) + 1 : SendForeign(f, at)

Spec == Init /\ [][Next]_vars
=============================================================================
