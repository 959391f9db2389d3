------------------------------ MODULE Objects ------------------------------
(***************************************************************************)
(* The object store (ob/store.c, ob/dir.c, ob/knode.c): kernel nodes in    *)
(* tail queues (sdk/inc/sys/queue.h), in memory from the root pool.        *)
(*                                                                         *)
(* Memory is a set of cells; a cell holds a struct knode or a struct       *)
(* knode_dir, and a fresh cell what was in it before.  A tail queue holds  *)
(* ADDRESSES of pointers: that of the next field of a node, or that of the *)
(* first field of a directory.  A name is one value, and a path a sequence *)
(* of names and slashes.  The store has no lock: the boot processor alone  *)
(* uses it, and each call is one step.                                     *)
(***************************************************************************)
EXTENDS Integers, FiniteSets, Sequences

CONSTANTS
  Cell,      \* the areas the pool can return
  NULL,
  Names,     \* names callers use
  LongNames, \* those of KNODE_NAME_LEN - 1 characters or more
  MaxPath    \* the length of the paths looked up, in names and slashes

ASSUME ObjectsAssumption ==
  /\ NULL \notin Cell /\ IsFiniteSet(Cell)
  /\ LongNames \subseteq Names
  /\ MaxPath \in Nat

VARIABLES
  root_dir,  \* the root directory, NULL before ob_store_init
  node,      \* each cell as a struct knode
  dir,       \* each cell as a struct knode_dir
  used,      \* the cells allocated
  held       \* nodes that callers have created and not appended anywhere

vars == <<root_dir, node, dir, used, held>>

Types == {"K_DIR", "K_CLKDEV"}

\* &node.dir_link.tqe_next and &dir.list.tqh_first.
NextOf(c) == [cell |-> c, field |-> "next"]
FirstOf(c) == [cell |-> c, field |-> "first"]

Addresses == {NextOf(c) : c \in Cell} \cup {FirstOf(c) : c \in Cell}

\* The pointer at an address.
Load(addr) == IF addr.field = "next" THEN node[addr.cell].next ELSE dir[addr.cell].first

Init == /\ root_dir = NULL
        /\ node = [c \in Cell |-> [name |-> "", type |-> "K_DIR", data |-> c,
                                   next |-> c, prev |-> NextOf(c)]]   \* junk
        /\ dir = [c \in Cell |-> [first |-> c, last |-> FirstOf(c),
                                  nelem |-> 1, entry_count |-> 1]]    \* junk
        /\ used = {}
        /\ held = {}

\* What os_pool_allocate may return.
os_pool_allocate(taken) == (Cell \ taken) \cup {NULL}
-----------------------------------------------------------------------------
\* ob_knode_new: the data and the link keep what the cell held.
Named(knp, name, type) == [node EXCEPT ![knp].name = name, ![knp].type = type]

\* Mutant: names of any length are taken.
AnyLength(name) == FALSE

TooLong(name) == name \in LongNames

\* A caller that wants a node of its own, as the timers do: it sets the data.
ObKnodeNew(name) ==
  /\ ~TooLong(name)
  /\ \E knp \in os_pool_allocate(used) \ {NULL} :
       /\ used' = used \cup {knp}
       /\ node' = [Named(knp, name, "K_CLKDEV") EXCEPT ![knp].data = NULL]
       /\ held' = held \cup {knp}
  /\ UNCHANGED <<root_dir, dir>>

\* TAILQ_INIT, and the count of the directory.
EmptyDir(data) == [first |-> NULL, last |-> FirstOf(data), nelem |-> 0, entry_count |-> 0]

FreedOnFailure(knp) == UNCHANGED <<used, held>>

\* ob_dir_new, with memory for the node.
DirNew(name, knp, data) ==
  IF data = NULL
  THEN /\ node' = [Named(knp, name, "K_DIR") EXCEPT ![knp].data = NULL]
       /\ FreedOnFailure(knp)
       /\ UNCHANGED dir
  ELSE /\ used' = used \cup {knp, data}
       /\ node' = [Named(knp, name, "K_DIR") EXCEPT ![knp].data = data]
       /\ dir' = [dir EXCEPT ![data] = EmptyDir(data)]
       /\ held' = held \cup {knp}

ObDirNew(name) ==
  /\ root_dir # NULL
  /\ ~TooLong(name)
  /\ \E knp \in os_pool_allocate(used) \ {NULL} :
       \E data \in os_pool_allocate(used \cup {knp}) : DirNew(name, knp, data)
  /\ UNCHANGED root_dir

\* ob_store_init; when there is no memory the kernel panics.
ObStoreInit ==
  /\ root_dir = NULL
  /\ \E knp \in os_pool_allocate(used) \ {NULL} :
       \E data \in os_pool_allocate(used \cup {knp}) \ {NULL} :
         /\ DirNew("/", knp, data)
         /\ root_dir' = knp
-----------------------------------------------------------------------------
\* Mutants of TAILQ_INSERT_TAIL: the end of the queue is not moved; the node
\* goes to the head.
InsertWithoutLast(d, knp) ==
  LET last == dir[d].last
      linked == [node EXCEPT ![knp].next = NULL, ![knp].prev = last]
  IN  /\ node' = IF last.field = "next"
                 THEN [linked EXCEPT ![last.cell].next = knp] ELSE linked
      /\ dir' = [dir EXCEPT ![d].first = IF last.field = "first" THEN knp ELSE @,
                            ![d].nelem = @ + 1, ![d].entry_count = @ + 1]

InsertHead(d, knp) ==
  LET first == dir[d].first
      linked == [node EXCEPT ![knp].next = first, ![knp].prev = FirstOf(d)]
  IN  /\ node' = IF first # NULL
                 THEN [linked EXCEPT ![first].prev = NextOf(knp)] ELSE linked
      /\ dir' = [dir EXCEPT ![d].first = knp,
                            ![d].last = IF first = NULL THEN NextOf(knp) ELSE @,
                            ![d].nelem = @ + 1, ![d].entry_count = @ + 1]

\* TAILQ_INSERT_TAIL and the count: the store through tqh_last goes to a node
\* or to the directory.
InsertTail(d, knp) ==
  LET last == dir[d].last
      linked == [node EXCEPT ![knp].next = NULL, ![knp].prev = last]
      stored == [dir EXCEPT ![last.cell].first = IF last.field = "first" THEN knp ELSE @]
  IN  /\ node' = IF last.field = "next"
                 THEN [linked EXCEPT ![last.cell].next = knp] ELSE linked
      /\ dir' = [stored EXCEPT ![d].last = NextOf(knp),
                               ![d].nelem = @ + 1, ![d].entry_count = @ + 1]

\* The variable of TAILQ_FOREACH after one more turn; it ends at NULL.
After == [knp \in Cell \cup {NULL} |-> IF knp = NULL THEN NULL ELSE node[knp].next]

\* What the queue of a directory reads as, up to a number of nodes that a queue
\* that ends does not have.
Bound == Cardinality(Cell)

Elements(d) ==
  LET turn[n \in 0 .. Bound] == IF n = 0 THEN dir[d].first ELSE After[turn[n - 1]]
  IN  [i \in {n \in 1 .. Bound : turn[n - 1] # NULL} |-> turn[i - 1]]

Directory(knp) == node[knp].type = "K_DIR"

\* The nodes that a node lists.
Children(knp) == IF Directory(knp)
                 THEN LET elements == Elements(node[knp].data)
                      IN  {elements[i] : i \in DOMAIN elements}
                 ELSE {}

\* Some nodes and all that hangs below them.
With == [nodes \in SUBSET Cell |-> nodes \cup UNION {Children(knp) : knp \in nodes}]
AllBelow(tops) ==
  LET level[n \in 0 .. Bound] == IF n = 0 THEN tops ELSE With[level[n - 1]]
  IN  level[Bound]

Below(top) == AllBelow({top})

Nodes == AllBelow(held \cup ({root_dir} \ {NULL}))

\* ob_dir_append of a node its caller created, to a directory or, by default,
\* to the root; otherwise it returns an error.  Callers do not append a
\* directory below itself.
ObDirAppend(knp, dir_kn) ==
  LET target == IF dir_kn = NULL THEN root_dir ELSE dir_kn
  IN  /\ root_dir # NULL
      /\ target \notin Below(knp)
      /\ node[target].type = "K_DIR"
      /\ InsertTail(node[target].data, knp)
      /\ held' = held \ {knp}
      /\ UNCHANGED <<root_dir, used>>

Next == \/ ObStoreInit
        \/ \E name \in Names : ObKnodeNew(name) \/ ObDirNew(name)
        \/ \E knp \in held, dir_kn \in Nodes \cup {NULL} : ObDirAppend(knp, dir_kn)

Spec == Init /\ [][Next]_vars
-----------------------------------------------------------------------------
\* Look-ups return a set: the node found, or nothing for an error.  Both walks
\* of a queue stop at the first node of the name.
FirstNamed(d, name) ==
  LET elements == Elements(d)
      hits == {i \in DOMAIN elements : node[elements[i]].name = name}
  IN  {elements[i] : i \in {j \in hits : \A k \in hits : j <= k}}

ob_root_get(name) == IF name = "/" THEN {root_dir} ELSE FirstNamed(node[root_dir].data, name)

knode_subdir_find(parent, name) ==
  IF node[parent].type = "K_DIR" THEN FirstNamed(node[parent].data, name) ELSE {}

\* Mutant: every component is looked up in the root.
RootComponent(knp, name) == ob_root_get(name)

\* One turn of the loop of ob_knode_resolve: the first component is looked up
\* in the root.
Component(knp, name) == IF knp = NULL THEN ob_root_get(name) ELSE knode_subdir_find(knp, name)

\* The component that starts at p or after the slashes there; a path that ends
\* in a slash has an empty last component.
ComponentAt(path, p) ==
  CHOOSE q \in p .. Len(path) + 1 : /\ \A i \in p .. q - 1 : path[i] = "/"
                                    /\ q <= Len(path) => path[q] # "/"

\* The loop: after each turn, where p is and which node has been reached, none
\* if there was an error.  An empty path resolves to NULL.
NextComponent(path, at) ==
  IF at.p > Len(path) THEN at
  ELSE LET q == ComponentAt(path, at.p)
           name == IF q <= Len(path) THEN path[q] ELSE ""
       IN  [p |-> q + 1, knp |-> UNION {Component(k, name) : k \in at.knp}]

ob_knode_resolve(path) ==
  LET turn[n \in 0 .. Len(path)] == IF n = 0 THEN [p |-> 1, knp |-> {NULL}]
                                    ELSE NextComponent(path, turn[n - 1])
  IN  turn[Len(path)].knp
-----------------------------------------------------------------------------
TypeOK ==
  /\ root_dir \in Cell \cup {NULL}
  /\ \A c \in Cell : /\ node[c].type \in Types
                     /\ node[c].data \in Cell \cup {NULL}
                     /\ node[c].next \in Cell \cup {NULL}
                     /\ node[c].prev \in Addresses
                     /\ dir[c].first \in Cell \cup {NULL}
                     /\ dir[c].last \in Addresses
                     /\ dir[c].nelem \in Nat /\ dir[c].entry_count \in Nat
  /\ used \subseteq Cell /\ held \subseteq Cell
  /\ \A knp \in Nodes : node[knp].name \in (Names \ LongNames) \cup {"/"}

\* The tail queue of every directory is one: it ends, the directory knows its
\* length and the address of its last pointer, and each node the address of
\* the pointer to it.
QueuesWellFormed ==
  \A knp \in {k \in Nodes : Directory(k)} :
    LET d == node[knp].data
        elements == Elements(d)
    IN  /\ Len(elements) < Bound
        /\ dir[d].entry_count = Len(elements) /\ dir[d].nelem = Len(elements)
        /\ dir[d].last = IF elements = <<>> THEN FirstOf(d)
                         ELSE NextOf(elements[Len(elements)])
        /\ \A i \in DOMAIN elements : Load(node[elements[i]].prev) = elements[i]

\* Memory: the nodes and the data of the directories are cells of their own,
\* and they are all that is allocated.  A directory that could not be made
\* leaves nothing behind.
MemoryAccounted ==
  LET data == {node[knp].data : knp \in {k \in Nodes : Directory(k)}}
  IN  /\ used = Nodes \cup data
      /\ Cardinality(used) = Cardinality(Nodes) + Cardinality({k \in Nodes : Directory(k)})

\* Every node is the root, held by its creator, or listed exactly once.
ListedOnce ==
  LET places == {p \in Nodes \X (1 .. Bound) :
                   Directory(p[1]) /\ p[2] \in DOMAIN Elements(node[p[1]].data)}
      At(p) == Elements(node[p[1]].data)[p[2]]
  IN  /\ \A p, q \in places : At(p) = At(q) => p = q
      /\ {At(p) : p \in places} = Nodes \ held

\* Between calls of ob/dir.c and ob/knode.c the store is whole: its queues can
\* be walked and appended to, no cell is lost, and a node is in one place.
StoreConsistent == QueuesWellFormed /\ MemoryAccounted /\ ListedOnce

\* The listing of each directory.
Listing == [knp \in {k \in Nodes : Directory(k)} |-> Elements(node[knp].data)]

Store == INSTANCE Directories WITH
           Nodes <- Cell,
           Names <- Names \cup {"/"},
           name <- [knp \in Nodes |-> node[knp].name],
           children <- Listing

\* A node is appended at the end of one directory, and no call changes what
\* another directory lists, nor the name of a node.
ImplementsDirectories == Store!Spec

\* The paths that name something: components between slashes, none of them
\* empty at the end.
Paths == {path \in UNION {[1 .. n -> Names \cup {"/"}] : n \in 1 .. MaxPath} :
            /\ path[Len(path)] # "/"
            /\ \A i \in 1 .. Len(path) - 1 : "/" \in {path[i], path[i + 1]}}

\* The first node of a name in a sequence of them, and what a component of a
\* path, or a slash, leads to.
First(elements, name) ==
  {elements[i] : i \in {j \in DOMAIN elements :
     node[elements[j]].name = name /\ \A k \in 1 .. j - 1 : node[elements[k]].name # name}}

Leads(listing, from, name) ==
  IF name = "/" THEN from
  ELSE UNION {First(listing[knp], name) : knp \in from \cap DOMAIN listing}

\* ob_knode_resolve follows a path from the root: each component is the first
\* child of that name of the directory before it, however many slashes there
\* are between them.
ResolveFollowsPath ==
  root_dir # NULL =>
    LET listing == Listing
    IN  \A path \in Paths :
          LET at[n \in 0 .. Len(path)] ==
                IF n = 0 THEN {root_dir} ELSE Leads(listing, at[n - 1], path[n])
          IN  ob_knode_resolve(path) = at[Len(path)]
=============================================================================
