---------------------------- MODULE Directories ----------------------------
(***************************************************************************)
(* What the object store is to its callers (inc/ob/dir.h, inc/ob/knode.h): *)
(* kernel nodes with names, some of them directories; a directory lists    *)
(* nodes in the order in which they were appended.                         *)
(***************************************************************************)
EXTENDS Sequences

CONSTANTS Nodes, Names

VARIABLES
  name,      \* the nodes there are: node -> name
  children   \* those that are directories: node -> what they list

Init == DOMAIN name = {} /\ DOMAIN children = {}

\* A new node, which nobody lists.
Create(n, nm, isDir) ==
  /\ n \notin DOMAIN name
  /\ name' = [m \in DOMAIN name \cup {n} |-> IF m = n THEN nm ELSE name[m]]
  /\ children' = IF isDir
                 THEN [d \in DOMAIN children \cup {n} |->
                         IF d = n THEN <<>> ELSE children[d]]
                 ELSE children

Listed == UNION {{children[d][i] : i \in DOMAIN children[d]} : d \in DOMAIN children}

Add(n, d) == /\ n \in DOMAIN name \ Listed
             /\ children' = [children EXCEPT ![d] = Append(@, n)]
             /\ UNCHANGED name

Next == \/ \E n \in Nodes, nm \in Names, isDir \in BOOLEAN : Create(n, nm, isDir)
        \/ \E n \in DOMAIN name, d \in DOMAIN children : Add(n, d)

Spec == Init /\ [][Next]_<<name, children>>
=============================================================================
