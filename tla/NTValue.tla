------------------------------ MODULE NTValue ------------------------------
EXTENDS Integers

(***************************************************************************)
(* NetworkTables values (proto/src/bin.rs), their types (proto/src/text.rs)*)
(* and what becomes of a value that is written to the persistence file and *)
(* read back (server/src/persist.rs, the serde attributes of NTValue).     *)
(*                                                                         *)
(* A value is a record of its type and of the class its contents fall in.  *)
(* The classes are the ones that the untagged deserialisation of NTValue   *)
(* tells apart, plus the default value of the type, which a new topic has. *)
(***************************************************************************)

Scalars == {"boolean", "int", "float", "double", "string"}
Blobs   == {"raw", "rpc"}
Arrays  == {"boolean[]", "int[]", "float[]", "double[]", "string[]"}

\* enum DataType.
DataType == Scalars \cup Blobs \cup Arrays

\* "ascii" bytes are valid UTF-8, "binary" bytes are not; the elements of a
\* "wide" int[] do not all fit in a byte.
Contents(type) ==
    CASE type \in Scalars -> {"default", "other"}
      [] type \in Blobs   -> {"default", "ascii", "binary"}
      [] type = "int[]"   -> {"default", "ascii", "binary", "wide"}
      [] OTHER            -> {"default", "other"}

ValueOf(type, content) == [type |-> type, content |-> content]

\* enum NTValue.
NTValues == UNION { { ValueOf(t, x) : x \in Contents(t) } : t \in DataType }

\* DataType::default_value: zero, false, or the empty string, blob or array.
default_value(type) == ValueOf(type, "default")

----------------------------------------------------------------------------
(* The MessagePack shape a value is written in. serde(untagged) writes no  *)
(* variant name: blobs become a bin, arrays an array of their elements.    *)

Shape(value) ==
    CASE value.type \in Blobs  -> <<"bin", value.content>>
      [] value.type \in Arrays ->
            IF value.content = "default" THEN <<"array", "empty">>
            ELSE <<"array", value.type, value.content>>
      [] OTHER                 -> <<value.type, value.content>>

\* A faulty order: an array of integers is read as one of floats.
Variants_FloatsFirst == << "float[]", "double[]", "int", "float", "double", "boolean", "raw",
                           "rpc", "string", "boolean[]", "int[]", "string[]" >>

\* The variants in the order of the enum, which is the order serde tries.
Variants == << "int", "float", "double", "boolean", "raw", "rpc", "string",
               "boolean[]", "int[]", "float[]", "double[]", "string[]" >>

\* Which shapes a variant accepts: a float is read from any number, a Vec<u8>
\* from an array whose elements are all bytes (never from a bin), and a String
\* from a bin that holds UTF-8.
Accepts(variant, shape) ==
    CASE variant \in {"float", "double"} -> shape[1] \in {"int", "float", "double"}
      [] variant \in Blobs   -> \/ shape = <<"array", "empty">>
                                \/ /\ shape[1] = "array" /\ shape[2] = "int[]"
                                   /\ shape[3] \in {"ascii", "binary"}
      [] variant = "string"  -> \/ shape[1] = "string"
                                \/ shape[1] = "bin" /\ shape[2] # "binary"
      [] variant \in {"float[]", "double[]"} ->
                                /\ shape[1] = "array"
                                /\ shape[2] \in {"empty", "int[]", "float[]", "double[]"}
      [] variant \in {"boolean[]", "int[]", "string[]"} ->
                                /\ shape[1] = "array"
                                /\ shape[2] \in {"empty", variant}
      [] OTHER               -> shape[1] = variant

Undecodable == ValueOf("none", "undecodable")

\* The class of contents a shape has once a variant has accepted it.
ReadAs(variant, shape) ==
    CASE shape = <<"array", "empty">> -> default_value(variant)
      [] shape[1] = "array" /\ shape[2] # "empty" ->
            ValueOf(variant, IF shape[3] \in Contents(variant) THEN shape[3] ELSE "other")
      [] variant = "string" /\ shape[1] = "bin" ->
            ValueOf("string", IF shape[2] = "ascii" THEN "other" ELSE shape[2])
      [] OTHER -> ValueOf(variant, shape[2])

\* A value after rmp_serde::to_vec and rmp_serde::from_read: the first variant
\* that accepts the shape wins.
Restored(value) ==
    LET shape    == Shape(value)
        accepted == { i \in DOMAIN Variants : Accepts(Variants[i], shape) }
        first    == CHOOSE i \in accepted : \A j \in accepted : i <= j
    IN  IF accepted = {} THEN Undecodable ELSE ReadAs(Variants[first], shape)
=============================================================================
