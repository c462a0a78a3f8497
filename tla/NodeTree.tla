------------------------------ MODULE NodeTree -------------------------------
(***************************************************************************)
(* The nodes of the file system library (libfuse/lib/fuse.c): a tree of    *)
(* the names that the kernel has looked up, shared by all worker threads   *)
(* and protected by f->lock.                                               *)
(*                                                                         *)
(* The hash chains and the slab allocator are left out: a lookup by id is  *)
(* an application of the table, a lookup by name a search for the one node *)
(* of that parent and that name.  The configuration is the default one (no *)
(* "remember", so no LRU list).                                            *)
(***************************************************************************)
EXTENDS Integers, FiniteSets, Sequences, SequencesExt

CONSTANTS
    MaxId,      \* bound on the node ids that next_id gives out
    Nil         \* NULL

ASSUME NodeTreeAssumption == MaxId \in Nat /\ Nil \notin Nat

FUSE_ROOT_ID == 1
NodeIds == FUSE_ROOT_ID..MaxId

(***************************************************************************)
(* struct node.  `obj` is not in the code: it is the object of the file    *)
(* system under test that the name led to when the node was made, which is *)
(* what the kernel means by the node's id.  A node that is not in the      *)
(* table has no reference.                                                 *)
(***************************************************************************)
NoNode == [parent |-> Nil, name |-> Nil, nlookup |-> 0, refctr |-> 0,
           treelock |-> 0, open_count |-> 0, is_hidden |-> FALSE, obj |-> Nil]

InTable(N, n) == N[n].refctr > 0

lookup_node(N, parent, name) ==
    LET named == {n \in NodeIds : N[n].parent = parent /\ N[n].name = name}
    IN  IF named = {} THEN Nil ELSE CHOOSE n \in named : TRUE

(***************************************************************************)
(* The way from a node up to the root, the root excluded, and the names on *)
(* it from the root down.  A node without a name ends it.                  *)
(***************************************************************************)
PathEnds == {FUSE_ROOT_ID, Nil}
NodesOrNil == NodeIds \cup {Nil}

Way(N, n) ==
    LET way[k \in NodesOrNil] ==
            IF k \in PathEnds THEN <<>> ELSE <<k>> \o way[N[k].parent]
    IN  way[n]

NamesOf(N, n) ==
    LET names[k \in NodesOrNil] ==
            IF k \in PathEnds THEN <<>>
            ELSE Append(names[N[k].parent], N[k].name)
    IN  names[n]

\* No node is on its own way: the parents lead to the root.
IsTree(N) ==
    \A n \in NodeIds : N[n].parent # Nil => n \notin ToSet(Way(N, N[n].parent))
==============================================================================
