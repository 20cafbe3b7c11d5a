-------------------------- MODULE DirectoryProofs --------------------------
(***************************************************************************)
(* Every behaviour of the abstract directory keeps the members consistent: *)
(* what the server promises by implementing it (DirectoryKept).            *)
(***************************************************************************)
EXTENDS Directory, TLAPS

\* Who is not a member knows nothing, so that a new member starts with nothing.
Outsiders == \A c \in Clients \ members : DOMAIN known[c] = {}

DirectoryIInv == DirectoryTypeOK /\ Consistent /\ Outsiders

\* Adding a topic keeps a type map.
LEMMA PlusType ==
  ASSUME NEW map \in TypeMaps, NEW n \in Names, NEW type \in Types
  PROVE  Plus(map, n, type) \in TypeMaps
<1>1. PICK S \in SUBSET Names : map \in [S -> Types]
  BY DEF TypeMaps
<1>2. Plus(map, n, type) \in [S \cup {n} -> Types] /\ S \cup {n} \in SUBSET Names
  BY <1>1 DEF Plus
<1> QED  BY <1>2 DEF TypeMaps

\* Removing topics keeps a type map.
LEMMA MinusType ==
  ASSUME NEW map \in TypeMaps, NEW S
  PROVE  Minus(map, S) \in TypeMaps
<1>1. PICK R \in SUBSET Names : map \in [R -> Types]
  BY DEF TypeMaps
<1>2. Minus(map, S) \in [R \ S -> Types] /\ R \ S \in SUBSET Names
  BY <1>1 DEF Minus
<1> QED  BY <1>2 DEF TypeMaps

\* The map without topics is a type map.
LEMMA NoTopicType == NoTopic \in TypeMaps /\ DOMAIN NoTopic = {}
<1>1. NoTopic \in [{} -> Types] /\ {} \in SUBSET Names
  BY DEF NoTopic
<1> QED  BY <1>1 DEF TypeMaps

\* The invariant holds at first.
LEMMA DirectoryInitHolds == DirectoryInit => DirectoryIInv
  BY NoTopicType
  DEF DirectoryInit, DirectoryIInv, DirectoryTypeOK, Consistent, Outsiders

\* Every step keeps the types.
LEMMA DirectoryStepTypes ==
  ASSUME DirectoryTypeOK, DirectoryNext PROVE DirectoryTypeOK'
<1> USE DEF DirectoryTypeOK
<1>1. ASSUME NEW c \in Clients, Join(c) \/ Greet(c) \/ Quit(c) PROVE DirectoryTypeOK'
  BY <1>1, NoTopicType DEF Join, Greet, Quit
<1>2. ASSUME NEW n \in Names, NEW type \in Types, Publish(n, type) PROVE DirectoryTypeOK'
  BY <1>2, PlusType DEF Publish
<1>3. ASSUME NEW S \in SUBSET Names, Delete(S) PROVE DirectoryTypeOK'
  BY <1>3, MinusType DEF Delete
<1>4. CASE Reload
  BY <1>4, NoTopicType DEF Reload
<1> QED  BY <1>1, <1>2, <1>3, <1>4 DEF DirectoryNext

\* Every step keeps members and topics in agreement.
LEMMA DirectoryStepConsistent ==
  ASSUME DirectoryIInv, DirectoryNext PROVE Consistent'
<1> USE DEF DirectoryIInv, DirectoryTypeOK, Consistent
<1>1. ASSUME NEW c \in Clients, Join(c) PROVE Consistent'
  BY <1>1 DEF Join, Outsiders
<1>2. ASSUME NEW c \in Clients, Greet(c) PROVE Consistent'
  BY <1>2 DEF Greet
<1>3. ASSUME NEW c \in Clients, Quit(c) PROVE Consistent'
  BY <1>3 DEF Quit
<1>4. ASSUME NEW n \in Names, NEW type \in Types, Publish(n, type) PROVE Consistent'
  BY <1>4 DEF Publish, Plus
<1>5. ASSUME NEW S \in SUBSET Names, Delete(S) PROVE Consistent'
  BY <1>5 DEF Delete, Minus
<1>6. CASE Reload
  BY <1>6 DEF Reload
<1> QED  BY <1>1, <1>2, <1>3, <1>4, <1>5, <1>6 DEF DirectoryNext

\* Every step leaves non-members without knowledge.
LEMMA DirectoryStepOutsiders ==
  ASSUME DirectoryIInv, DirectoryNext PROVE Outsiders'
<1> USE DEF DirectoryIInv, DirectoryTypeOK, Outsiders
<1>1. ASSUME NEW c \in Clients, Join(c) \/ Greet(c) \/ Quit(c) PROVE Outsiders'
  BY <1>1, NoTopicType DEF Join, Greet, Quit
<1>2. ASSUME NEW n \in Names, NEW type \in Types, Publish(n, type) PROVE Outsiders'
  BY <1>2 DEF Publish
<1>3. ASSUME NEW S \in SUBSET Names, Delete(S) PROVE Outsiders'
  BY <1>3 DEF Delete
<1>4. CASE Reload
  BY <1>4, NoTopicType DEF Reload
<1> QED  BY <1>1, <1>2, <1>3, <1>4 DEF DirectoryNext

\* No member of the directory ever knows a topic that is gone or of another
\* type, and the greeted ones know them all.
THEOREM DirectoryConsistent == DirectorySpec => []Consistent
<1>1. DirectoryIInv /\ [DirectoryNext]_dvars => DirectoryIInv'
  <2> SUFFICES ASSUME DirectoryIInv, [DirectoryNext]_dvars PROVE DirectoryIInv'
    OBVIOUS
  <2>1. CASE DirectoryNext
    BY <2>1, DirectoryStepTypes, DirectoryStepConsistent, DirectoryStepOutsiders
       DEF DirectoryIInv
  <2>2. CASE UNCHANGED dvars
    BY <2>2 DEF dvars, DirectoryIInv, DirectoryTypeOK, Consistent, Outsiders
  <2> QED  BY <2>1, <2>2
<1>2. DirectoryIInv => Consistent
  BY DEF DirectoryIInv
<1> QED  BY <1>1, <1>2, DirectoryInitHolds, PTL DEF DirectorySpec

============================================================================
