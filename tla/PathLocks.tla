------------------------------ MODULE PathLocks ------------------------------
(***************************************************************************)
(* The path locks of the file system library (libfuse/lib/fuse.c).  An     *)
(* operation of the file system under test is called with a path, that is  *)
(* with names copied out of the node table, and outside f->lock.  So the   *)
(* names must not change under it: the nodes of the path are read-locked,  *)
(* and the node that an operation removes or renames is write-locked.      *)
(* Whoever cannot have its locks at once waits in the queue f->lockq.      *)
(*                                                                         *)
(* A worker thread's record is also its queue element (in the code the     *)
(* element is a local variable of the thread that waits).                  *)
(***************************************************************************)
EXTENDS NodeTree

TREELOCK_WRITE == -1
TREELOCK_WAIT_OFFSET == -1000       \* INT_MIN: below any number of readers

TwoPaths(op) == op \in {"rename", "link"}

\* Mutant: rename locks its names as a reader.
WriteLocks_NotRename(op) == op \in {"unlink", "rmdir"}

WriteLocks(op) == op \in {"unlink", "rmdir", "rename"}

\* Mutant: the mark of a waiting writer stays.
Unlocked_KeepMark(lock) == lock - 1

Unlocked(lock) == IF lock - 1 = TREELOCK_WAIT_OFFSET THEN 0 ELSE lock - 1

\* Releases the write lock on wnode and the read locks from n up.
unlock_path(N, n, wnode) ==
    [k \in NodeIds |->
        CASE k = wnode -> [N[k] EXCEPT !.treelock = 0]
          [] k # wnode /\ k \in ToSet(Way(N, n)) ->
                [N[k] EXCEPT !.treelock = Unlocked(@)]
          [] OTHER -> N[k]]

(***************************************************************************)
(* try_get_path with need_lock: either locks the whole path, or says why   *)
(* not and locks nothing.  The first obstacle on the way up decides.  A    *)
(* writer that meets readers leaves its mark, which keeps new readers out. *)
(***************************************************************************)
try_get_path(N, n, name, write) ==
    LET wnode == IF write THEN lookup_node(N, n, name) ELSE Nil
        way == Way(N, n)
        closed == {i \in DOMAIN way : N[way[i]].name = Nil \/ N[way[i]].treelock < 0}
        Failed(err, M) == [err |-> err, node |-> M, wnode |-> Nil, path |-> <<>>]
    IN  IF wnode # Nil /\ N[wnode].treelock # 0
        THEN Failed("EAGAIN", IF N[wnode].treelock < 0 THEN N
                    ELSE [N EXCEPT ![wnode].treelock = @ + TREELOCK_WAIT_OFFSET])
        ELSE IF closed # {}
        THEN Failed(IF N[way[Min(closed)]].name = Nil THEN "ENOENT" ELSE "EAGAIN", N)
        ELSE [err |-> "none", wnode |-> wnode,
              path |-> NamesOf(N, n) \o (IF name = Nil THEN <<>> ELSE <<name>>),
              node |-> [k \in NodeIds |->
                          CASE k = wnode -> [N[k] EXCEPT !.treelock = TREELOCK_WRITE]
                            [] k # wnode /\ k \in ToSet(way) ->
                                  [N[k] EXCEPT !.treelock = @ + 1]
                            [] OTHER -> N[k]]]

(***************************************************************************)
(* The locks of thread t's request, in a state S that holds the table and  *)
(* the threads: the outcome of try_get_path on the first and on the second *)
(* path, unless that path is locked already.                               *)
(***************************************************************************)
try_first(S, t) ==
    LET e == S.th[t]
        r == try_get_path(S.node, e.dir, e.name, WriteLocks(e.op))
    IN  IF e.locked THEN [S EXCEPT !.err = "none"]
        ELSE [node |-> r.node, err |-> r.err,
              th |-> [S.th EXCEPT ![t].locked = (r.err = "none"),
                                  ![t].wnode = r.wnode, ![t].path = r.path]]

try_second(S, t) ==
    LET e == S.th[t]
        r == try_get_path(S.node, e.dir2, e.name2, WriteLocks(e.op))
    IN  IF e.locked2 \/ ~TwoPaths(e.op) THEN [S EXCEPT !.err = "none"]
        ELSE [node |-> r.node, err |-> r.err,
              th |-> [S.th EXCEPT ![t].locked2 = (r.err = "none"),
                                  ![t].wnode2 = r.wnode, ![t].path2 = r.path]]

\* Gives back whatever t holds.
queue_element_unlock(S, t) ==
    LET e == S.th[t]
        N == IF e.locked THEN unlock_path(S.node, e.dir, e.wnode) ELSE S.node
        M == IF e.locked2 THEN unlock_path(N, e.dir2, e.wnode2) ELSE N
    IN  [S EXCEPT !.node = M, !.th[t].locked = FALSE, !.th[t].locked2 = FALSE]

(***************************************************************************)
(* The first attempt of a request: try_get_path, or try_get_path2, which   *)
(* keeps the first path only if it gets the second.                        *)
(***************************************************************************)
try_get_path2(S, t) ==
    LET S1 == try_first(S, t)
        S2 == try_second(S1, t)
    IN  IF S1.err # "none" THEN S1
        ELSE IF S2.err # "none" THEN queue_element_unlock(S2, t) ELSE S2

(***************************************************************************)
(* One element of the queue is tried again.  A forget only waits for its   *)
(* node to be unlocked.  The others take what they can get; only the first *)
(* of the queue keeps a part, and whoever has everything, or learns that   *)
(* its path is gone, is done.                                              *)
(***************************************************************************)
queue_element_wakeup(S, t, first) ==
    LET S1 == try_first(S, t)
        S2 == IF S1.err = "ENOENT" THEN S1 ELSE try_second(S1, t)
        e == S2.th[t]
        Done(X, err) == [X EXCEPT !.th[t].done = TRUE, !.th[t].err = err]
    IN  CASE S.th[t].pc = "forgetting" ->
                IF S.node[S.th[t].ino].treelock = 0
                THEN [S EXCEPT !.th[t].done = TRUE] ELSE S
          [] S.th[t].pc # "forgetting" /\ S2.err = "ENOENT" ->
                Done(queue_element_unlock(S2, t), "ENOENT")
          [] S.th[t].pc # "forgetting" /\ S2.err # "ENOENT" ->
                IF e.locked /\ (e.locked2 \/ ~TwoPaths(e.op)) THEN Done(S2, "none")
                ELSE IF first THEN S2 ELSE queue_element_unlock(S2, t)

\* Every element, from the first to the last.
wake_up_queued(S, queue) ==
    LET woken[i \in 0..Len(queue)] ==
            IF i = 0 THEN S
            ELSE queue_element_wakeup(woken[i - 1], queue[i], i = 1)
    IN  woken[Len(queue)]

------------------------------------------------------------------------------
(* Who holds what.                                                          *)

(***************************************************************************)
(* The locked paths of a thread: its first, its second.                    *)
(***************************************************************************)
Held(th) ==
    {l \in (DOMAIN th) \X {1, 2} : IF l[2] = 1 THEN th[l[1]].locked ELSE th[l[1]].locked2}
HeldDir(th, l) == IF l[2] = 1 THEN th[l[1]].dir ELSE th[l[1]].dir2
HeldNode(th, l) == IF l[2] = 1 THEN th[l[1]].wnode ELSE th[l[1]].wnode2

\* The locked paths that go through n, and those that end in its write lock.
Readers(N, th, n) == {l \in Held(th) : n \in ToSet(Way(N, HeldDir(th, l)))}
Writers(th, n) == {l \in Held(th) : HeldNode(th, l) = n}

\* The lock of node n is what the paths that the threads hold make it.
IsAccountedFor(N, th, n) ==
    LET readers == Cardinality(Readers(N, th, n))
        writers == Cardinality(Writers(th, n))
        lock == N[n].treelock
    IN  \/ writers = 1 /\ readers = 0 /\ lock = TREELOCK_WRITE
        \/ writers = 0 /\ lock = readers
        \/ writers = 0 /\ readers > 0 /\ lock = readers + TREELOCK_WAIT_OFFSET

\* Every lock is, but for the root's, which is never locked.
Accounts(N, th) == \A n \in NodeIds \ {FUSE_ROOT_ID} : IsAccountedFor(N, th, n)
==============================================================================
