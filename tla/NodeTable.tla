------------------------------ MODULE NodeTable ------------------------------
(***************************************************************************)
(* The changes to the node table of the file system library                *)
(* (libfuse/lib/fuse.c).  Every operator below runs inside one section of  *)
(* f->lock; it takes the table and returns the table the code leaves.      *)
(***************************************************************************)
EXTENDS NodeTree

RECURSIVE unref_node(_, _)

\* Takes the name from a node; the parent loses the reference of its child.
unhash_name(N, n) ==
    IF N[n].name = Nil THEN N
    ELSE [unref_node(N, N[n].parent) EXCEPT ![n].name = Nil, ![n].parent = Nil]

delete_node(N, n) == [unhash_name(N, n) EXCEPT ![n] = NoNode]

unref_node(N, n) ==
    IF N[n].refctr > 1 THEN [N EXCEPT ![n].refctr = @ - 1] ELSE delete_node(N, n)

hash_name(N, n, parent, name) ==
    [N EXCEPT ![parent].refctr = @ + 1, ![n].parent = parent, ![n].name = name]

\* Mutant: every lookup adds a reference.
inc_nlookup_Always(N, n) == [N EXCEPT ![n].refctr = @ + 1, ![n].nlookup = @ + 1]

inc_nlookup(N, n) ==
    [N EXCEPT ![n].refctr = IF N[n].nlookup = 0 THEN @ + 1 ELSE @,
              ![n].nlookup = @ + 1]

(***************************************************************************)
(* find_node: the node of a name that the file system has just confirmed,  *)
(* a new one with the id `fresh` (next_id) if the name has none, with one  *)
(* more lookup on account of the reply that is about to be sent.           *)
(***************************************************************************)
FoundId(N, fresh, parent, name) ==
    LET n == lookup_node(N, parent, name) IN IF n = Nil THEN fresh ELSE n

find_node(N, fresh, parent, name, obj) ==
    LET n == FoundId(N, fresh, parent, name)
    IN  inc_nlookup(IF n # fresh THEN N
                    ELSE hash_name([N EXCEPT ![n].obj = obj], n, parent, name), n)

\* The part of forget_node that follows its wait.
forget_lookups(N, n, nlookup) ==
    LET M == [N EXCEPT ![n].nlookup = @ - nlookup]
    IN  IF M[n].nlookup = 0 THEN unref_node(M, n) ELSE M

remove_node(N, dir, name) ==
    LET n == lookup_node(N, dir, name) IN IF n = Nil THEN N ELSE unhash_name(N, n)

rename_node(N, olddir, oldname, newdir, newname, hide) ==
    LET n == lookup_node(N, olddir, oldname)
        newnode == lookup_node(N, newdir, newname)
        M == IF newnode = Nil THEN N ELSE unhash_name(N, newnode)
        K == hash_name(unhash_name(M, n), n, newdir, newname)
    IN  IF n = Nil \/ (newnode # Nil /\ hide) THEN N
        ELSE [K EXCEPT ![n].is_hidden = @ \/ hide]
==============================================================================
