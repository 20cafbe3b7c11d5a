---------------------------- MODULE Collections ----------------------------
(***************************************************************************)
(* The maps and vectors of the server, as functions and sequences.         *)
(***************************************************************************)
EXTENDS Integers, FiniteSets, Sequences, SequencesExt

----------------------------------------------------------------------------
(* Maps                                                                    *)

Empty == [x \in {} |-> x]
Put(map, key, value) ==
    [x \in DOMAIN map \cup {key} |-> IF x = key THEN value ELSE map[x]]
Without(map, keys) == [x \in DOMAIN map \ keys |-> map[x]]

\* A map with values in S whose keys are some of the keys K.
IsMap(map, K, S) == DOMAIN map \subseteq K /\ map \in [DOMAIN map -> S]

----------------------------------------------------------------------------
(* Sequences.  Filters and sorts are written with the places they keep:    *)
(* SelectSeq and SortSeq have no definition that the prover can expand.    *)

\* The elements of a finite set of integers in ascending order.
Ascending(S) ==
    [k \in 1 .. Cardinality(S) |-> CHOOSE i \in S : Cardinality({ j \in S : j <= i }) = k]

\* What a sequence has at some of its places, in its order.
AtPlaces(seq, places) ==
    [k \in DOMAIN Ascending(places) |-> seq[Ascending(places)[k]]]
=============================================================================
