----------------------------- MODULE Directory -----------------------------
(***************************************************************************)
(* What the server promises about topics, without ids, counts or messages: *)
(* a member that has been greeted knows every topic and its type, and no   *)
(* member knows a topic that does not exist.                               *)
(***************************************************************************)
EXTENDS FiniteSets

CONSTANTS Clients, Names, Types

VARIABLES
    topics,     \* topic name -> type
    members,    \* the clients being served
    greeted,    \* the members that were told of the topics there were
    known       \* member -> topic name -> type

dvars == <<topics, members, greeted, known>>

\* Maps from topic names to types.
TypeMaps == UNION { [S -> Types] : S \in SUBSET Names }
NoTopic  == [n \in {} |-> {}]

DirectoryTypeOK ==
    /\ topics \in TypeMaps
    /\ members \subseteq Clients
    /\ greeted \subseteq members
    /\ known \in [Clients -> TypeMaps]

DirectoryInit ==
    /\ topics = NoTopic
    /\ members = {}
    /\ greeted = {}
    /\ known = [c \in Clients |-> NoTopic]

Plus(map, n, type) == [m \in DOMAIN map \cup {n} |-> IF m = n THEN type ELSE map[m]]
Minus(map, S)      == [m \in DOMAIN map \ S |-> map[m]]

Join(c) ==
    /\ c \notin members
    /\ members' = members \cup {c}
    /\ UNCHANGED <<topics, greeted, known>>

Greet(c) ==
    /\ c \in members
    /\ greeted' = greeted \cup {c}
    /\ known' = [known EXCEPT ![c] = topics]
    /\ UNCHANGED <<topics, members>>

\* A topic is created, or replaced by one of another type; every member knows.
Publish(n, type) ==
    /\ topics' = Plus(topics, n, type)
    /\ known' = [c \in Clients |-> IF c \in members THEN Plus(known[c], n, type) ELSE known[c]]
    /\ UNCHANGED <<members, greeted>>

\* Topics are deleted; every member knows.
Delete(S) ==
    /\ topics' = Minus(topics, S)
    /\ known' = [c \in Clients |-> IF c \in members THEN Minus(known[c], S) ELSE known[c]]
    /\ UNCHANGED <<members, greeted>>

Quit(c) ==
    /\ members' = members \ {c}
    /\ greeted' = greeted \ {c}
    /\ known' = [known EXCEPT ![c] = NoTopic]
    /\ UNCHANGED topics

\* A new process starts with the topics it finds on disk.
Reload ==
    /\ topics' \in TypeMaps
    /\ members' = {}
    /\ greeted' = {}
    /\ known' = [c \in Clients |-> NoTopic]

DirectoryNext ==
    \/ \E c \in Clients : Join(c) \/ Greet(c) \/ Quit(c)
    \/ \E n \in Names, type \in Types : Publish(n, type)
    \/ \E S \in SUBSET Names : Delete(S)
    \/ Reload

DirectorySpec == DirectoryInit /\ [][DirectoryNext]_dvars

\* Nobody knows a topic that is gone or of another type, and the greeted
\* members know them all: an announcement is never missed.
Consistent ==
    \A c \in members :
        /\ \A n \in DOMAIN known[c] : n \in DOMAIN topics /\ known[c][n] = topics[n]
        /\ c \in greeted => DOMAIN known[c] = DOMAIN topics
=============================================================================
