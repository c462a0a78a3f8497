-------------------------- MODULE PathLocksProofs ---------------------------
(***************************************************************************)
(* Proofs about the path locks: the operations of the library that lock    *)
(* and unlock paths keep every lock accounted for, for every tree of       *)
(* nodes, number of threads and queue.                                     *)
(***************************************************************************)
EXTENDS PathLocks, FiniteSetTheorems, WellFoundedInduction, TLAPS

\* A leaf that names no prover is given to SMT and then to Zenon.
USE SMTT(40), ZenonT(40)

\* The way depends on the parents only.
LEMMA SameWay ==
    ASSUME NEW N, NEW M, NEW n,
           \A k \in NodeIds : M[k].parent = N[k].parent
    PROVE  Way(M, n) = Way(N, n)
<1> DEFINE F(way, P) == way = [k \in NodesOrNil |->
              IF k \in PathEnds THEN <<>> ELSE <<k>> \o way[P[k].parent]]
<1>1. ASSUME NEW way, NEW k \in NodesOrNil
      PROVE (IF k \in PathEnds THEN <<>> ELSE <<k>> \o way[M[k].parent])
             = (IF k \in PathEnds THEN <<>> ELSE <<k>> \o way[N[k].parent])
  BY Zenon DEF NodesOrNil, PathEnds
<1>2. ASSUME NEW way PROVE F(way, M) <=> F(way, N)
  BY <1>1, Zenon
<1>3. (CHOOSE way : F(way, M)) = (CHOOSE way : F(way, N))
  <2> HIDE DEF F
  <2> QED BY <1>2, Zenon
<1> QED BY <1>3, Zenon DEF Way

\* The fields of a node that the locks are about.
NodeFields == {"parent", "name", "treelock"}
\* A node table.
Table(N) ==
    /\ N = [k \in NodeIds |-> N[k]]
    /\ \A k \in NodeIds : N[k].treelock \in Int /\ NodeFields \subseteq DOMAIN N[k]

-----------------------------------------------------------------------------
\* What the counts of readers and writers make of a lock.
Lock(readers, writers, lock) ==
    \/ writers = 1 /\ readers = 0 /\ lock = -1
    \/ writers = 0 /\ lock = readers
    \/ writers = 0 /\ readers > 0 /\ lock = readers - 1000

\* A reader may come where no writer is or waits.
LEMMA ReaderIn ==
    ASSUME NEW r \in Nat, NEW w \in Nat, NEW x \in Int, r < 999,
           Lock(r, w, x), ~(x < 0)
    PROVE  Lock(r + 1, w, x + 1)
BY DEF Lock

\* A writer may come where nobody is.
LEMMA WriterIn ==
    ASSUME NEW r \in Nat, NEW w \in Nat, r < 999, Lock(r, w, 0)
    PROVE  r = 0 /\ w = 0 /\ Lock(r, w + 1, -1)
BY DEF Lock

\* A writer that waits leaves its mark on a lock that readers have.
LEMMA WriterWaits ==
    ASSUME NEW r \in Nat, NEW w \in Nat, NEW x \in Int, r < 999,
           Lock(r, w, x), x # 0, ~(x < 0)
    PROVE  Lock(r, w, x + TREELOCK_WAIT_OFFSET)
BY DEF Lock, TREELOCK_WAIT_OFFSET

\* A reader that goes takes the mark along if it is the last one.
LEMMA ReaderOut ==
    ASSUME NEW r \in Nat, NEW w \in Nat, NEW x \in Int, r < 998,
           Lock(r + 1, w, x)
    PROVE  Lock(r, w, Unlocked(x)) /\ Unlocked(x) \in Int
BY DEF Lock, Unlocked, TREELOCK_WAIT_OFFSET

\* A writer was alone.
LEMMA WriterOut ==
    ASSUME NEW r \in Nat, NEW w \in Nat, NEW x \in Int, Lock(r, w + 1, x)
    PROVE  r = 0 /\ w = 0 /\ Lock(r, w, 0)
BY DEF Lock

-----------------------------------------------------------------------------
\* All the paths that the threads can hold.
Slots(th) == (DOMAIN th) \X {1, 2}

\* There are fewer of them than the mark of a waiting writer is deep
\* (INT_MIN in the code, -1000 in the model).
FewThreads(th) == IsFiniteSet(Slots(th)) /\ Cardinality(Slots(th)) < 998

\* So a set of held paths is finite and small.
LEMMA FewLocks ==
    ASSUME NEW th, FewThreads(th), NEW L, L \subseteq Held(th)
    PROVE  IsFiniteSet(L) /\ Cardinality(L) \in Nat /\ Cardinality(L) < 998
<1>1. L \subseteq Slots(th)
  BY Zenon DEF Held, Slots
<1>2. IsFiniteSet(L) /\ Cardinality(L) <= Cardinality(Slots(th))
  BY <1>1, FS_Subset, ZenonT(40) DEF FewThreads
<1>3. Cardinality(L) \in Nat /\ Cardinality(Slots(th)) \in Nat
  BY <1>2, FS_CardinalityType, ZenonT(40) DEF FewThreads
<1> QED BY <1>2, <1>3 DEF FewThreads

\* The counts are small numbers.
LEMMA Counts ==
    ASSUME NEW N, NEW th, FewThreads(th), NEW k
    PROVE  /\ Cardinality(Readers(N, th, k)) \in Nat
           /\ Cardinality(Readers(N, th, k)) < 998
           /\ Cardinality(Writers(th, k)) \in Nat
<1>1. Readers(N, th, k) \subseteq Held(th) /\ Writers(th, k) \subseteq Held(th)
  BY Zenon DEF Readers, Writers
<1>2. ASSUME NEW L, L \subseteq Held(th)
      PROVE  Cardinality(L) \in Nat /\ Cardinality(L) < 998
  BY <1>2, FewLocks
<1> QED BY <1>1, <1>2

\* IsAccountedFor in terms of the counts.
LEMMA AccountedLock ==
    ASSUME NEW N, NEW th, FewThreads(th), NEW k
    PROVE  IsAccountedFor(N, th, k) <=>
             Lock(Cardinality(Readers(N, th, k)), Cardinality(Writers(th, k)),
                  N[k].treelock)
<1>1. Cardinality(Readers(N, th, k)) \in Nat
  BY Counts
<1> QED BY <1>1 DEF IsAccountedFor, Lock, TREELOCK_WRITE, TREELOCK_WAIT_OFFSET

\* What th holds, it holds in th2 in the same way.
Agree(th, th2) ==
    \A m \in Held(th) : /\ HeldDir(th2, m) = HeldDir(th, m)
                        /\ HeldNode(th2, m) = HeldNode(th, m)

\* In th2 the path l is held too.
Adds(th, th2, l) ==
    /\ l \notin Held(th) /\ Held(th2) = Held(th) \cup {l}
    /\ Agree(th, th2)

\* The tree is the same.
SameParents(N, M) == \A k \in NodeIds : M[k].parent = N[k].parent

\* A set with one more element.
LEMMA OneMore ==
    ASSUME NEW A, NEW B, NEW l, l \notin A, IsFiniteSet(B), B = A \cup {l}
    PROVE  Cardinality(B) = Cardinality(A) + 1
<1>1. IsFiniteSet(A)
  BY FS_Subset, ZenonT(40)
<1> QED BY <1>1, FS_AddElement, FS_CardinalityType

\* The readers of a node when one more path is held.
LEMMA OneMoreReader ==
    ASSUME NEW N, NEW th, NEW th2, NEW l, Adds(th, th2, l), FewThreads(th2), NEW k
    PROVE  /\ k \in ToSet(Way(N, HeldDir(th2, l))) =>
                Cardinality(Readers(N, th2, k)) = Cardinality(Readers(N, th, k)) + 1
           /\ k \notin ToSet(Way(N, HeldDir(th2, l))) =>
                Cardinality(Readers(N, th2, k)) = Cardinality(Readers(N, th, k))
<1>1. Readers(N, th2, k) \subseteq Held(th2) /\ l \notin Readers(N, th, k)
  BY Zenon DEF Readers, Adds
<1>2. IsFiniteSet(Readers(N, th2, k))
  BY <1>1, FewLocks
<1>3. /\ k \in ToSet(Way(N, HeldDir(th2, l))) =>
                Readers(N, th2, k) = Readers(N, th, k) \cup {l}
      /\ k \notin ToSet(Way(N, HeldDir(th2, l))) =>
                Readers(N, th2, k) = Readers(N, th, k)
  BY DEF Readers, Adds, Agree
<1> QED BY <1>1, <1>2, <1>3, OneMore, Zenon

\* The writers of a node when one more path is held.
LEMMA OneMoreWriter ==
    ASSUME NEW th, NEW th2, NEW l, Adds(th, th2, l), FewThreads(th2), NEW k
    PROVE  /\ k = HeldNode(th2, l) =>
                Cardinality(Writers(th2, k)) = Cardinality(Writers(th, k)) + 1
           /\ k # HeldNode(th2, l) =>
                Cardinality(Writers(th2, k)) = Cardinality(Writers(th, k))
<1>1. Writers(th2, k) \subseteq Held(th2) /\ l \notin Writers(th, k)
  BY Zenon DEF Writers, Adds
<1>2. IsFiniteSet(Writers(th2, k))
  BY <1>1, FewLocks
<1>3. /\ k = HeldNode(th2, l) => Writers(th2, k) = Writers(th, k) \cup {l}
      /\ k # HeldNode(th2, l) => Writers(th2, k) = Writers(th, k)
  BY DEF Writers, Adds, Agree
<1> QED BY <1>1, <1>2, <1>3, OneMore, Zenon

-----------------------------------------------------------------------------
\* lookup_node finds a child.
LEMMA NodeOfName ==
    ASSUME NEW N, NEW dir, NEW name
    PROVE  \/ lookup_node(N, dir, name) = Nil
           \/ /\ lookup_node(N, dir, name) \in NodeIds
              /\ N[lookup_node(N, dir, name)].parent = dir
BY Zenon DEF lookup_node

\* The table after a path has been locked.
Locked(N, n, wnode) ==
    [k \in NodeIds |->
        CASE k = wnode -> [N[k] EXCEPT !.treelock = TREELOCK_WRITE]
          [] k # wnode /\ k \in ToSet(Way(N, n)) -> [N[k] EXCEPT !.treelock = @ + 1]
          [] OTHER -> N[k]]

\* try_get_path locks the path, or leaves the table alone, or marks the node
\* that it would have write-locked.
LEMMA TryOutcome ==
    ASSUME NEW N, NEW n, NEW name, NEW write
    PROVE  LET r == try_get_path(N, n, name, write)
               w == IF write THEN lookup_node(N, n, name) ELSE Nil
           IN  \/ /\ r.err = "none" /\ r.wnode = w
                  /\ r.node = Locked(N, n, w)
                  /\ w # Nil => N[w].treelock = 0
                  /\ \A k \in ToSet(Way(N, n)) : ~(N[k].treelock < 0)
               \/ r.err # "none" /\ r.node = N
               \/ /\ r.err # "none" /\ w # Nil
                  /\ N[w].treelock # 0 /\ ~(N[w].treelock < 0)
                  /\ r.node = [N EXCEPT ![w].treelock = @ + TREELOCK_WAIT_OFFSET]
<1> DEFINE w == IF write THEN lookup_node(N, n, name) ELSE Nil
           way == Way(N, n)
           closed == {i \in DOMAIN way : N[way[i]].name = Nil \/ N[way[i]].treelock < 0}
           r == try_get_path(N, n, name, write)
<1> SUFFICES \/ /\ r.err = "none" /\ r.wnode = w
                /\ r.node = Locked(N, n, w)
                /\ w # Nil => N[w].treelock = 0
                /\ \A k \in ToSet(Way(N, n)) : ~(N[k].treelock < 0)
             \/ r.err # "none" /\ r.node = N
             \/ /\ r.err # "none" /\ w # Nil
                /\ N[w].treelock # 0 /\ ~(N[w].treelock < 0)
                /\ r.node = [N EXCEPT ![w].treelock = @ + TREELOCK_WAIT_OFFSET]
  OBVIOUS
<1>1. CASE w # Nil /\ N[w].treelock # 0
  <2>1. r = [err |-> "EAGAIN", wnode |-> Nil, path |-> <<>>,
             node |-> IF N[w].treelock < 0 THEN N
                      ELSE [N EXCEPT ![w].treelock = @ + TREELOCK_WAIT_OFFSET]]
    BY <1>1 DEF try_get_path
  <2> HIDE DEF r, w, closed, way
  <2> QED BY <1>1, <2>1
<1>2. CASE ~(w # Nil /\ N[w].treelock # 0) /\ closed # {}
  <2>1. r = [err |-> IF N[way[Min(closed)]].name = Nil THEN "ENOENT" ELSE "EAGAIN",
             wnode |-> Nil, path |-> <<>>, node |-> N]
    BY <1>2, Zenon DEF try_get_path
  <2> HIDE DEF r, w, closed, way
  <2> QED BY <2>1
<1>3. CASE ~(w # Nil /\ N[w].treelock # 0) /\ closed = {}
  <2>1. r = [err |-> "none", wnode |-> w,
             path |-> NamesOf(N, n) \o (IF name = Nil THEN <<>> ELSE <<name>>),
             node |-> Locked(N, n, w)]
    BY <1>3, Zenon DEF try_get_path, Locked
  <2>2. \A k \in ToSet(Way(N, n)) : ~(N[k].treelock < 0)
    BY <1>3 DEF ToSet
  <2> HIDE DEF r, w, closed, way
  <2> QED BY <1>3, <2>1, <2>2
<1> QED BY <1>1, <1>2, <1>3
\* What locking changes.
LEMMA LockedTable ==
    ASSUME NEW N, Table(N), NEW n, NEW w
    PROVE  LET M == Locked(N, n, w)
           IN  /\ Table(M) /\ SameParents(N, M)
               /\ \A k \in NodeIds :
                    /\ k = w => M[k].treelock = -1
                    /\ k # w /\ k \in ToSet(Way(N, n)) =>
                         M[k].treelock = N[k].treelock + 1
                    /\ k # w /\ k \notin ToSet(Way(N, n)) =>
                         M[k].treelock = N[k].treelock
<1> DEFINE M == Locked(N, n, w)
<1>1. M = [k \in NodeIds |-> M[k]]
  BY DEF Locked
<1>2. ASSUME NEW k \in NodeIds
      PROVE  /\ M[k].treelock \in Int /\ NodeFields \subseteq DOMAIN M[k]
             /\ M[k].parent = N[k].parent
             /\ k = w => M[k].treelock = -1
             /\ k # w /\ k \in ToSet(Way(N, n)) => M[k].treelock = N[k].treelock + 1
             /\ k # w /\ k \notin ToSet(Way(N, n)) => M[k].treelock = N[k].treelock
  BY DEF Locked, Table, NodeFields, TREELOCK_WRITE
<1> HIDE DEF M
<1> SUFFICES /\ Table(M) /\ SameParents(N, M)
             /\ \A k \in NodeIds :
                    /\ k = w => M[k].treelock = -1
                    /\ k # w /\ k \in ToSet(Way(N, n)) =>
                         M[k].treelock = N[k].treelock + 1
                    /\ k # w /\ k \notin ToSet(Way(N, n)) =>
                         M[k].treelock = N[k].treelock
  BY Zenon DEF M
<1> QED BY <1>1, <1>2, Zenon DEF Table, SameParents

\* What unlocking changes.
LEMMA UnlockedTable ==
    ASSUME NEW N, Table(N), NEW n, NEW w
    PROVE  LET M == unlock_path(N, n, w)
           IN  /\ Table(M) /\ SameParents(N, M)
               /\ \A k \in NodeIds :
                    /\ k = w => M[k].treelock = 0
                    /\ k # w /\ k \in ToSet(Way(N, n)) =>
                         M[k].treelock = Unlocked(N[k].treelock)
                    /\ k # w /\ k \notin ToSet(Way(N, n)) =>
                         M[k].treelock = N[k].treelock
<1> DEFINE M == unlock_path(N, n, w)
<1>1. M = [k \in NodeIds |-> M[k]]
  BY DEF unlock_path
<1>2. ASSUME NEW k \in NodeIds
      PROVE  /\ M[k].treelock \in Int /\ NodeFields \subseteq DOMAIN M[k]
             /\ M[k].parent = N[k].parent
             /\ k = w => M[k].treelock = 0
             /\ k # w /\ k \in ToSet(Way(N, n)) => M[k].treelock = Unlocked(N[k].treelock)
             /\ k # w /\ k \notin ToSet(Way(N, n)) => M[k].treelock = N[k].treelock
  <2>1. Unlocked(N[k].treelock) \in Int
    BY DEF Table, Unlocked
  <2> QED BY <2>1 DEF unlock_path, Table, NodeFields
<1> HIDE DEF M
<1> SUFFICES /\ Table(M) /\ SameParents(N, M)
             /\ \A k \in NodeIds :
                    /\ k = w => M[k].treelock = 0
                    /\ k # w /\ k \in ToSet(Way(N, n)) =>
                         M[k].treelock = Unlocked(N[k].treelock)
                    /\ k # w /\ k \notin ToSet(Way(N, n)) =>
                         M[k].treelock = N[k].treelock
  BY Zenon DEF M
<1> QED BY <1>1, <1>2, Zenon DEF Table, SameParents

\* The table after a writer has left its mark.
Marked(N, M, w) == M = [N EXCEPT ![w].treelock = @ + TREELOCK_WAIT_OFFSET]

\* What the mark changes.
LEMMA MarkedTable ==
    ASSUME NEW N, Table(N), NEW w \in NodeIds, NEW M, Marked(N, M, w)
    PROVE  /\ Table(M) /\ SameParents(N, M)
           /\ \A k \in NodeIds :
                /\ k = w => M[k].treelock = N[k].treelock + TREELOCK_WAIT_OFFSET
                /\ k # w => M[k].treelock = N[k].treelock
<1>1. M = [k \in NodeIds |-> M[k]]
  BY DEF Table, Marked
<1>2. ASSUME NEW k \in NodeIds
      PROVE  /\ M[k].treelock \in Int /\ NodeFields \subseteq DOMAIN M[k]
             /\ M[k].parent = N[k].parent
             /\ k = w => M[k].treelock = N[k].treelock + TREELOCK_WAIT_OFFSET
             /\ k # w => M[k].treelock = N[k].treelock
  BY DEF Table, Marked, NodeFields, TREELOCK_WAIT_OFFSET
<1> QED BY <1>1, <1>2, Zenon DEF Table, SameParents

\* In the same tree the same paths go through a node.
LEMMA SameReaders ==
    ASSUME NEW N, NEW M, SameParents(N, M), NEW th, NEW k
    PROVE  Readers(M, th, k) = Readers(N, th, k)
BY SameWay, Zenon DEF SameParents, Readers

\* A tree stays one.
LEMMA StillTree ==
    ASSUME NEW N, NEW M, SameParents(N, M), IsTree(N)
    PROVE  IsTree(M)
<1>1. ASSUME NEW n PROVE Way(M, n) = Way(N, n)
  BY SameWay, Zenon DEF SameParents
<1> QED BY <1>1 DEF SameParents, IsTree

\* The same paths are held.
Same(th, th2) == Held(th2) = Held(th) /\ Agree(th, th2)

\* The same paths make the same readers and writers.
LEMMA SameCounts ==
    ASSUME NEW N, NEW th, NEW th2, Same(th, th2), NEW k
    PROVE  /\ Readers(N, th2, k) = Readers(N, th, k)
           /\ Writers(th2, k) = Writers(th, k)
BY DEF Same, Agree, Readers, Writers

\* A lock that is not touched is still accounted for.
LEMMA AccountsStay ==
    ASSUME NEW N, NEW M, SameParents(N, M), NEW th, NEW th2, Same(th, th2),
           NEW k, M[k].treelock = N[k].treelock, IsAccountedFor(N, th, k)
    PROVE  IsAccountedFor(M, th2, k)
<1>1. Readers(M, th2, k) = Readers(N, th, k) /\ Writers(th2, k) = Writers(th, k)
  BY SameCounts, SameReaders
<1> QED BY <1>1, Zenon DEF IsAccountedFor

\* After a path has been locked and is held, every lock is accounted for.
\* The node that is write-locked had no reader, and is not on its own way.
LEMMA LockPath ==
    ASSUME NEW N, Table(N), IsTree(N), NEW n \in NodeIds, NEW w,
           \/ w = Nil
           \/ w \in NodeIds /\ N[w].parent = n /\ N[w].treelock = 0,
           \A k \in ToSet(Way(N, n)) : ~(N[k].treelock < 0),
           NEW th, NEW th2, FewThreads(th), FewThreads(th2), Accounts(N, th),
           NEW l, Adds(th, th2, l), HeldDir(th2, l) = n, HeldNode(th2, l) = w
    PROVE  Accounts(Locked(N, n, w), th2)
<1> DEFINE M == Locked(N, n, w)
<1>1. /\ Table(M) /\ SameParents(N, M)
      /\ \A k \in NodeIds :
           /\ k = w => M[k].treelock = -1
           /\ k # w /\ k \in ToSet(Way(N, n)) => M[k].treelock = N[k].treelock + 1
           /\ k # w /\ k \notin ToSet(Way(N, n)) => M[k].treelock = N[k].treelock
  BY LockedTable
<1> HIDE DEF M
<1> SUFFICES ASSUME NEW k \in NodeIds \ {FUSE_ROOT_ID} PROVE IsAccountedFor(M, th2, k)
  BY Zenon DEF Accounts, M
<1> DEFINE r == Cardinality(Readers(N, th, k))
           v == Cardinality(Writers(th, k))
           x == N[k].treelock
<1>2. r \in Nat /\ r < 999 /\ v \in Nat /\ x \in Int /\ Lock(r, v, x)
  <2>1. IsAccountedFor(N, th, k) /\ x \in Int
    BY Zenon DEF Accounts, Table
  <2> QED BY <2>1, Counts, AccountedLock
<1>3. Readers(M, th2, k) = Readers(N, th2, k)
  BY <1>1, SameReaders
<1>4. /\ k \in ToSet(Way(N, n)) => Cardinality(Readers(M, th2, k)) = r + 1
      /\ k \notin ToSet(Way(N, n)) => Cardinality(Readers(M, th2, k)) = r
      /\ k = w => Cardinality(Writers(th2, k)) = v + 1
      /\ k # w => Cardinality(Writers(th2, k)) = v
  BY <1>3, OneMoreReader, OneMoreWriter
<1>5. SUFFICES Lock(Cardinality(Readers(M, th2, k)), Cardinality(Writers(th2, k)),
                    M[k].treelock)
  BY Counts, AccountedLock
<1> HIDE DEF r, v, x
<1>6. CASE k = w
  <2>1. w # Nil
    BY <1>6, NodeTreeAssumption DEF NodeIds, FUSE_ROOT_ID
  <2>2. x = 0 /\ k \notin ToSet(Way(N, n))
    <3>1. N[k].parent = n /\ x = 0 /\ n # Nil
      BY <1>6, <2>1, NodeTreeAssumption DEF x, NodeIds, FUSE_ROOT_ID
    <3> QED BY <3>1, Zenon DEF IsTree
  <2>3. Lock(r, v + 1, -1)
    BY <1>2, <2>2, WriterIn
  <2> QED BY <1>1, <1>4, <1>6, <2>2, <2>3
<1>7. CASE k # w /\ k \in ToSet(Way(N, n))
  <2>1. ~(x < 0)
    BY <1>7, Zenon DEF x
  <2>2. Lock(r + 1, v, x + 1)
    BY <1>2, <2>1, ReaderIn
  <2> QED BY <1>1, <1>4, <1>7, <2>2 DEF x
<1>8. CASE k # w /\ k \notin ToSet(Way(N, n))
  BY <1>1, <1>2, <1>4, <1>8 DEF x
<1> QED BY <1>6, <1>7, <1>8

\* After a path has been unlocked and is not held any more, too: the locks
\* that are taken away are there.
LEMMA UnlockPath ==
    ASSUME NEW N, Table(N), NEW n, NEW w,
           NEW th, NEW th2, FewThreads(th), FewThreads(th2), Accounts(N, th),
           NEW l, Adds(th2, th, l), HeldDir(th, l) = n, HeldNode(th, l) = w
    PROVE  Accounts(unlock_path(N, n, w), th2)
<1> DEFINE M == unlock_path(N, n, w)
<1>1. /\ Table(M) /\ SameParents(N, M)
      /\ \A k \in NodeIds :
           /\ k = w => M[k].treelock = 0
           /\ k # w /\ k \in ToSet(Way(N, n)) => M[k].treelock = Unlocked(N[k].treelock)
           /\ k # w /\ k \notin ToSet(Way(N, n)) => M[k].treelock = N[k].treelock
  BY UnlockedTable
<1> HIDE DEF M
<1> SUFFICES ASSUME NEW k \in NodeIds \ {FUSE_ROOT_ID} PROVE IsAccountedFor(M, th2, k)
  BY Zenon DEF Accounts, M
<1> DEFINE r == Cardinality(Readers(N, th2, k))
           v == Cardinality(Writers(th2, k))
           x == N[k].treelock
<1>2. r \in Nat /\ r < 998 /\ v \in Nat /\ x \in Int
  BY Counts, AccountedLock DEF Table
<1>3. Lock(Cardinality(Readers(N, th, k)), Cardinality(Writers(th, k)), x)
  BY Counts, AccountedLock DEF Accounts
<1>4. /\ k \in ToSet(Way(N, n)) => Cardinality(Readers(N, th, k)) = r + 1
      /\ k \notin ToSet(Way(N, n)) => Cardinality(Readers(N, th, k)) = r
      /\ k = w => Cardinality(Writers(th, k)) = v + 1
      /\ k # w => Cardinality(Writers(th, k)) = v
  BY OneMoreReader, OneMoreWriter
<1>5. Readers(M, th2, k) = Readers(N, th2, k)
  BY <1>1, SameReaders
<1>6. SUFFICES Lock(r, v, M[k].treelock)
  BY <1>5, Counts, AccountedLock
<1> HIDE DEF r, v, x
<1>7. CASE k = w
  <2>1. CASE k \in ToSet(Way(N, n))
    <3>1. Lock(r + 1, v + 1, x)
      BY <1>3, <1>4, <1>7, <2>1
    <3> QED BY <1>2, <3>1 DEF Lock
  <2>2. CASE k \notin ToSet(Way(N, n))
    <3>1. Lock(r, v + 1, x)
      BY <1>3, <1>4, <1>7, <2>2
    <3>2. Lock(r, v, 0)
      BY <1>2, <3>1, WriterOut
    <3> QED BY <1>1, <1>7, <3>2
  <2> QED BY <2>1, <2>2
<1>8. CASE k # w /\ k \in ToSet(Way(N, n))
  <2>1. Lock(r + 1, v, x)
    BY <1>3, <1>4, <1>8
  <2>2. Lock(r, v, Unlocked(x))
    BY <1>2, <2>1, ReaderOut
  <2> QED BY <1>1, <1>8, <2>2 DEF x
<1>9. CASE k # w /\ k \notin ToSet(Way(N, n))
  BY <1>1, <1>3, <1>4, <1>9 DEF x
<1> QED BY <1>7, <1>8, <1>9

\* And after a writer has left its mark.
LEMMA MarkNode ==
    ASSUME NEW N, Table(N), NEW w \in NodeIds, NEW M, SameParents(N, M),
           \A k \in NodeIds :
             /\ k = w => M[k].treelock = N[k].treelock + TREELOCK_WAIT_OFFSET
             /\ k # w => M[k].treelock = N[k].treelock,
           N[w].treelock # 0, ~(N[w].treelock < 0),
           NEW th, NEW th2, FewThreads(th), FewThreads(th2), Same(th, th2),
           Accounts(N, th)
    PROVE  Accounts(M, th2)
<1> SUFFICES ASSUME NEW k \in NodeIds \ {FUSE_ROOT_ID} PROVE IsAccountedFor(M, th2, k)
  BY Zenon DEF Accounts
<1>2. IsAccountedFor(N, th, k)
  BY Zenon DEF Accounts
<1>3. CASE k # w
  BY <1>2, <1>3, AccountsStay, ZenonT(40)
<1>4. CASE k = w
  <2> DEFINE r == Cardinality(Readers(N, th, k))
             v == Cardinality(Writers(th, k))
             x == N[k].treelock
  <2>1. r \in Nat /\ r < 999 /\ v \in Nat /\ x \in Int /\ Lock(r, v, x)
    BY <1>2, Counts, AccountedLock DEF Table
  <2>2. Readers(M, th2, k) = Readers(N, th, k) /\ Writers(th2, k) = Writers(th, k)
    BY SameCounts, SameReaders
  <2>3. SUFFICES Lock(r, v, M[k].treelock)
    <3>1. Lock(Cardinality(Readers(M, th2, k)), Cardinality(Writers(th2, k)),
               M[k].treelock) => IsAccountedFor(M, th2, k)
      BY AccountedLock, Zenon
    <3> QED BY <2>2, <3>1, Zenon
  <2> HIDE DEF r, v
  <2>4. x # 0 /\ ~(x < 0)
    BY <1>4, Zenon
  <2>5. Lock(r, v, x + TREELOCK_WAIT_OFFSET)
    BY <2>1, <2>4, WriterWaits
  <2> QED BY <1>4, <2>5
<1> QED BY <1>3, <1>4

-----------------------------------------------------------------------------
\* The fields of a thread that the locks are about.
ThreadFields == {"pc", "op", "dir", "name", "dir2", "name2", "wnode", "wnode2",
                 "path", "path2", "locked", "locked2", "err", "done", "ino"}

\* The threads.
Workers(th) ==
    /\ th = [t \in DOMAIN th |-> th[t]]
    /\ \A t \in DOMAIN th : /\ ThreadFields \subseteq DOMAIN th[t]
                            /\ th[t].locked \in BOOLEAN /\ th[t].locked2 \in BOOLEAN

\* Only thread t has changed.
Others(th, T, t) == DOMAIN T = DOMAIN th /\ \A u \in DOMAIN th : u # t => T[u] = th[u]

\* Of its paths only the first has.
FirstOnly(th, T, t) ==
    /\ t \in DOMAIN th /\ Others(th, T, t)
    /\ T[t].locked2 = th[t].locked2 /\ T[t].dir2 = th[t].dir2
    /\ T[t].wnode2 = th[t].wnode2

\* Of its paths only the second has.
SecondOnly(th, T, t) ==
    /\ t \in DOMAIN th /\ Others(th, T, t)
    /\ T[t].locked = th[t].locked /\ T[t].dir = th[t].dir
    /\ T[t].wnode = th[t].wnode

\* A thread takes its first path, or does not.
LEMMA FirstSlot ==
    ASSUME NEW th, NEW T, NEW t, FirstOnly(th, T, t), ~th[t].locked
    PROVE  /\ T[t].locked => /\ Adds(th, T, <<t, 1>>)
                             /\ HeldDir(T, <<t, 1>>) = T[t].dir
                             /\ HeldNode(T, <<t, 1>>) = T[t].wnode
           /\ ~T[t].locked => Same(th, T)
<1> /\ t \in DOMAIN th /\ Others(th, T, t)
    /\ T[t].locked2 = th[t].locked2 /\ T[t].dir2 = th[t].dir2 /\ T[t].wnode2 = th[t].wnode2
  BY Zenon DEF FirstOnly
<1>1. ASSUME NEW l \in Slots(th), l # <<t, 1>>
      PROVE  /\ l \in Held(T) <=> l \in Held(th)
             /\ HeldDir(T, l) = HeldDir(th, l) /\ HeldNode(T, l) = HeldNode(th, l)
  <2>1. PICK u \in DOMAIN th, i \in {1, 2} : l = <<u, i>>
    BY DEF Slots
  <2>2. l[1] = u /\ l[2] = i /\ l \in (DOMAIN T) \X {1, 2} /\ l \in (DOMAIN th) \X {1, 2}
    BY <2>1 DEF Others
  <2>3. CASE u # t
    <3>1. T[u] = th[u]
      BY <2>3, Zenon DEF Others
    <3> QED BY <2>2, <3>1, Zenon DEF Held, HeldDir, HeldNode
  <2>4. CASE u = t
    <3>1. i = 2 /\ l[2] # 1
      BY <1>1, <2>1, <2>4
    <3> QED BY <2>2, <2>4, <3>1, ZenonT(40) DEF Held, HeldDir, HeldNode
  <2> QED BY <2>3, <2>4
<1>2. /\ <<t, 1>> \in (DOMAIN th) \X {1, 2} /\ <<t, 1>> \in (DOMAIN T) \X {1, 2}
      /\ <<t, 1>>[1] = t /\ <<t, 1>>[2] = 1
  BY DEF Others
<1>3. /\ <<t, 1>> \notin Held(th) /\ (<<t, 1>> \in Held(T) <=> T[t].locked)
      /\ HeldDir(T, <<t, 1>>) = T[t].dir /\ HeldNode(T, <<t, 1>>) = T[t].wnode
  BY <1>2, Zenon DEF Held, HeldDir, HeldNode
<1>4. Held(th) \subseteq Slots(th) /\ Held(T) \subseteq Slots(th)
  BY Zenon DEF Held, Slots, Others
<1>5. Agree(th, T)
  BY <1>1, <1>3, <1>4, ZenonT(40) DEF Agree
<1>6. ASSUME T[t].locked PROVE Held(T) = Held(th) \cup {<<t, 1>>}
  BY <1>1, <1>3, <1>4, <1>6, ZenonT(40)
<1>7. ASSUME ~T[t].locked PROVE Held(T) = Held(th)
  <2>1. ASSUME NEW l PROVE l \in Held(T) <=> l \in Held(th)
    BY <1>1, <1>3, <1>4, <1>7, ZenonT(40)
  <2> QED BY <2>1, Zenon
<1> QED BY <1>3, <1>5, <1>6, <1>7, ZenonT(40) DEF Adds, Same

\* A thread takes its second path, or does not.
LEMMA SecondSlot ==
    ASSUME NEW th, NEW T, NEW t, SecondOnly(th, T, t), ~th[t].locked2
    PROVE  /\ T[t].locked2 => /\ Adds(th, T, <<t, 2>>)
                              /\ HeldDir(T, <<t, 2>>) = T[t].dir2
                              /\ HeldNode(T, <<t, 2>>) = T[t].wnode2
           /\ ~T[t].locked2 => Same(th, T)
<1> /\ t \in DOMAIN th /\ Others(th, T, t)
    /\ T[t].locked = th[t].locked /\ T[t].dir = th[t].dir /\ T[t].wnode = th[t].wnode
  BY Zenon DEF SecondOnly
<1>1. ASSUME NEW l \in Slots(th), l # <<t, 2>>
      PROVE  /\ l \in Held(T) <=> l \in Held(th)
             /\ HeldDir(T, l) = HeldDir(th, l) /\ HeldNode(T, l) = HeldNode(th, l)
  <2>1. PICK u \in DOMAIN th, i \in {1, 2} : l = <<u, i>>
    BY DEF Slots
  <2>2. l[1] = u /\ l[2] = i /\ l \in (DOMAIN T) \X {1, 2} /\ l \in (DOMAIN th) \X {1, 2}
    BY <2>1 DEF Others
  <2>3. CASE u # t
    <3>1. T[u] = th[u]
      BY <2>3, Zenon DEF Others
    <3> QED BY <2>2, <3>1, Zenon DEF Held, HeldDir, HeldNode
  <2>4. CASE u = t
    <3>1. l[2] = 1
      BY <1>1, <2>1, <2>4
    <3> QED BY <2>2, <2>4, <3>1, ZenonT(40) DEF Held, HeldDir, HeldNode
  <2> QED BY <2>3, <2>4
<1>2. /\ <<t, 2>> \in (DOMAIN th) \X {1, 2} /\ <<t, 2>> \in (DOMAIN T) \X {1, 2}
      /\ <<t, 2>>[1] = t /\ <<t, 2>>[2] # 1
  BY DEF Others
<1>3. /\ <<t, 2>> \notin Held(th) /\ (<<t, 2>> \in Held(T) <=> T[t].locked2)
      /\ HeldDir(T, <<t, 2>>) = T[t].dir2 /\ HeldNode(T, <<t, 2>>) = T[t].wnode2
  BY <1>2, Zenon DEF Held, HeldDir, HeldNode
<1>4. Held(th) \subseteq Slots(th) /\ Held(T) \subseteq Slots(th)
  BY Zenon DEF Held, Slots, Others
<1>5. Agree(th, T)
  BY <1>1, <1>3, <1>4, ZenonT(40) DEF Agree
<1>6. ASSUME T[t].locked2 PROVE Held(T) = Held(th) \cup {<<t, 2>>}
  BY <1>1, <1>3, <1>4, <1>6, ZenonT(40)
<1>7. ASSUME ~T[t].locked2 PROVE Held(T) = Held(th)
  <2>1. ASSUME NEW l PROVE l \in Held(T) <=> l \in Held(th)
    BY <1>1, <1>3, <1>4, <1>7, ZenonT(40)
  <2> QED BY <2>1, Zenon
<1> QED BY <1>3, <1>5, <1>6, <1>7, ZenonT(40) DEF Adds, Same

-----------------------------------------------------------------------------
\* A request that needs paths names the nodes where they end.
Asking(e) == e.dir \in NodeIds /\ (TwoPaths(e.op) => e.dir2 \in NodeIds)

\* A state of the table and the threads in which every lock is accounted for.
Consistent(S) ==
    /\ S = [node |-> S.node, th |-> S.th, err |-> S.err]
    /\ Table(S.node) /\ IsTree(S.node)
    /\ Workers(S.th) /\ FewThreads(S.th)
    /\ Accounts(S.node, S.th)

\* The threads have the same requests.
SameRequests(th, T) ==
    /\ DOMAIN T = DOMAIN th
    /\ \A u \in DOMAIN th : /\ T[u].pc = th[u].pc /\ T[u].op = th[u].op
                            /\ T[u].dir = th[u].dir /\ T[u].dir2 = th[u].dir2

\* The assertions of unlock_path hold for every path that a thread holds: the
\* node at its end, if it is write-locked, has the writer's lock, and no node
\* on the way up is unlocked, left with a bare mark, or has a writer.
THEOREM UnlockAssertionsHold ==
    ASSUME NEW S, Consistent(S), NEW l \in Held(S.th),
           NEW k \in NodeIds \ {FUSE_ROOT_ID}
    PROVE  /\ k = HeldNode(S.th, l) => S.node[k].treelock = TREELOCK_WRITE
           /\ k \in ToSet(Way(S.node, HeldDir(S.th, l))) =>
                S.node[k].treelock \notin {0, TREELOCK_WAIT_OFFSET, TREELOCK_WRITE}
<1> DEFINE R == Readers(S.node, S.th, k)
           W == Writers(S.th, k)
           x == S.node[k].treelock
<1>1. FewThreads(S.th) /\ Accounts(S.node, S.th) /\ x \in Int
  BY Zenon DEF Consistent, Table
<1>2. Lock(Cardinality(R), Cardinality(W), x)
  BY <1>1, AccountedLock DEF Accounts
<1>3. R \subseteq Held(S.th) /\ W \subseteq Held(S.th)
  BY Zenon DEF Readers, Writers
<1>4. /\ IsFiniteSet(R) /\ Cardinality(R) \in Nat /\ Cardinality(R) < 998
      /\ IsFiniteSet(W) /\ Cardinality(W) \in Nat
  BY <1>1, <1>3, FewLocks
<1>5. /\ k = HeldNode(S.th, l) => W # {}
      /\ k \in ToSet(Way(S.node, HeldDir(S.th, l))) => R # {}
  BY Zenon DEF Readers, Writers
<1>6. (W # {} => Cardinality(W) # 0) /\ (R # {} => Cardinality(R) # 0)
  BY <1>4, FS_EmptySet
<1> HIDE DEF R, W, x
<1>7. /\ W # {} => x = TREELOCK_WRITE
      /\ R # {} => x \notin {0, TREELOCK_WAIT_OFFSET, TREELOCK_WRITE}
  BY <1>1, <1>2, <1>4, <1>6 DEF Lock, TREELOCK_WRITE, TREELOCK_WAIT_OFFSET
<1> QED BY <1>5, <1>7, Zenon DEF x

\* FewThreads is about the threads only.
LEMMA FewStill ==
    ASSUME NEW th, NEW T, FewThreads(th), DOMAIN T = DOMAIN th
    PROVE  FewThreads(T)
BY ZenonT(40) DEF FewThreads, Slots

\* try_get_path keeps the accounts, if the thread holds what it gets.
LEMMA TryLocks ==
    ASSUME NEW N, Table(N), IsTree(N), NEW n \in NodeIds, NEW name, NEW write,
           NEW r, r = try_get_path(N, n, name, write),
           NEW th, NEW T, FewThreads(th), FewThreads(T), Accounts(N, th), NEW l,
           r.err = "none" => /\ Adds(th, T, l)
                             /\ HeldDir(T, l) = n /\ HeldNode(T, l) = r.wnode,
           r.err # "none" => Same(th, T)
    PROVE  Table(r.node) /\ IsTree(r.node) /\ Accounts(r.node, T)
<1> DEFINE w == IF write THEN lookup_node(N, n, name) ELSE Nil
<1>1. \/ /\ r.err = "none" /\ r.wnode = w
         /\ r.node = Locked(N, n, w)
         /\ w # Nil => N[w].treelock = 0
         /\ \A k \in ToSet(Way(N, n)) : ~(N[k].treelock < 0)
      \/ r.err # "none" /\ r.node = N
      \/ /\ r.err # "none" /\ w # Nil
         /\ N[w].treelock # 0 /\ ~(N[w].treelock < 0)
         /\ r.node = [N EXCEPT ![w].treelock = @ + TREELOCK_WAIT_OFFSET]
  BY TryOutcome
<1>2. w = Nil \/ (w \in NodeIds /\ N[w].parent = n)
  BY NodeOfName
<1> HIDE DEF w
<1>3. CASE /\ r.err = "none" /\ r.wnode = w
           /\ r.node = Locked(N, n, w)
           /\ w # Nil => N[w].treelock = 0
           /\ \A k \in ToSet(Way(N, n)) : ~(N[k].treelock < 0)
  <2>1. Table(r.node) /\ SameParents(N, r.node)
    BY <1>3, LockedTable
  <2>2. IsTree(r.node)
    BY <2>1, StillTree, Zenon
  <2>3. Adds(th, T, l) /\ HeldDir(T, l) = n /\ HeldNode(T, l) = w
    BY <1>3, Zenon
  <2>4. \/ w = Nil
        \/ w \in NodeIds /\ N[w].parent = n /\ N[w].treelock = 0
    BY <1>2, <1>3, ZenonT(40)
  <2>5. Accounts(Locked(N, n, w), T)
    BY <1>3, <2>3, <2>4, LockPath
  <2> QED BY <1>3, <2>1, <2>2, <2>5, ZenonT(40)
<1>4. CASE r.err # "none" /\ r.node = N
  <2>1. Same(th, T) /\ SameParents(N, N)
    BY <1>4, Zenon DEF SameParents
  <2>2. Accounts(N, T)
    <3> SUFFICES ASSUME NEW k \in NodeIds \ {FUSE_ROOT_ID} PROVE IsAccountedFor(N, T, k)
      BY Zenon DEF Accounts
    <3>1. IsAccountedFor(N, th, k)
      BY Zenon DEF Accounts
    <3> QED BY <2>1, <3>1, AccountsStay, ZenonT(40)
  <2> QED BY <1>4, <2>2, Zenon
<1>5. CASE /\ r.err # "none" /\ w # Nil
           /\ N[w].treelock # 0 /\ ~(N[w].treelock < 0)
           /\ r.node = [N EXCEPT ![w].treelock = @ + TREELOCK_WAIT_OFFSET]
  <2>1. w \in NodeIds /\ Same(th, T)
    BY <1>2, <1>5, ZenonT(40)
  <2>2. /\ Table(r.node) /\ SameParents(N, r.node)
        /\ \A k \in NodeIds :
             /\ k = w => r.node[k].treelock = N[k].treelock + TREELOCK_WAIT_OFFSET
             /\ k # w => r.node[k].treelock = N[k].treelock
    <3>1. Marked(N, r.node, w)
      BY <1>5, Zenon DEF Marked
    <3> QED BY <2>1, <3>1, MarkedTable
  <2>3. IsTree(r.node)
    BY <2>2, StillTree, Zenon
  <2>4. Accounts(r.node, T)
    BY <1>5, <2>1, <2>2, MarkNode, ZenonT(40)
  <2> QED BY <2>2, <2>3, <2>4, ZenonT(40)
<1> QED BY <1>1, <1>3, <1>4, <1>5, Zenon

\* The attempt on the first path.
LEMMA TryFirst ==
    ASSUME NEW S, Consistent(S), NEW t \in DOMAIN S.th, Asking(S.th[t])
    PROVE  /\ Consistent(try_first(S, t)) /\ SameRequests(S.th, try_first(S, t).th)
           /\ try_first(S, t).th[t].locked <=> try_first(S, t).err = "none"
           /\ try_first(S, t).th[t].locked2 = S.th[t].locked2
<1> DEFINE e == S.th[t]
           r == try_get_path(S.node, e.dir, e.name, WriteLocks(e.op))
           R == try_first(S, t)
<1>1. CASE e.locked
  <2>1. R = [S EXCEPT !.err = "none"]
    BY <1>1, Zenon DEF try_first
  <2>2. R = [node |-> S.node, th |-> S.th, err |-> "none"]
    BY <2>1 DEF Consistent
  <2> HIDE DEF R
  <2>3. R = [node |-> R.node, th |-> R.th, err |-> R.err]
        /\ R.node = S.node /\ R.th = S.th /\ R.err = "none"
    BY <2>2
  <2>4. Consistent(R) /\ SameRequests(S.th, R.th)
    BY <2>3, Zenon DEF Consistent, SameRequests
  <2> QED BY <1>1, <2>3, <2>4, ZenonT(40) DEF R
<1>2. CASE ~e.locked
  <2> DEFINE T == [S.th EXCEPT ![t].locked = (r.err = "none"),
                               ![t].wnode = r.wnode, ![t].path = r.path]
  <2>1. R = [node |-> r.node, err |-> r.err, th |-> T]
    BY <1>2, Zenon DEF try_first
  <2> HIDE DEF r
  <2>2. /\ T = [u \in DOMAIN T |-> T[u]]
        /\ Others(S.th, T, t)
    BY DEF Others, Consistent, Workers
  <2>3. ThreadFields \subseteq DOMAIN e
    BY Zenon DEF Consistent, Workers
  <2>4. T[t] = [e EXCEPT !.locked = (r.err = "none"), !.wnode = r.wnode, !.path = r.path]
    BY DEF Consistent, Workers
  <2> HIDE DEF T, e
  <2>5. /\ ThreadFields \subseteq DOMAIN T[t]
        /\ T[t].locked \in BOOLEAN /\ (T[t].locked <=> r.err = "none")
        /\ T[t].wnode = r.wnode
    BY <2>3, <2>4, ZenonT(40) DEF ThreadFields
  <2>6. /\ T[t].locked2 = e.locked2 /\ T[t].wnode2 = e.wnode2
        /\ T[t].pc = e.pc /\ T[t].op = e.op
        /\ T[t].dir = e.dir /\ T[t].dir2 = e.dir2
    BY <2>3, <2>4 DEF ThreadFields
  <2> HIDE DEF R
  <2>7. /\ R = [node |-> R.node, th |-> R.th, err |-> R.err]
        /\ R.node = r.node /\ R.th = T /\ R.err = r.err
    BY <2>1
  <2>8. Workers(T)
    BY <2>2, <2>5, <2>6 DEF Workers, Others, Consistent, e
  <2>9. FewThreads(T)
    BY <2>2, FewStill, ZenonT(40) DEF Others, Consistent
  <2>10. SameRequests(S.th, T)
    BY <2>2, <2>6 DEF SameRequests, Others, e
  <2>11. /\ r.err = "none" => /\ Adds(S.th, T, <<t, 1>>)
                              /\ HeldDir(T, <<t, 1>>) = e.dir
                              /\ HeldNode(T, <<t, 1>>) = r.wnode
         /\ r.err # "none" => Same(S.th, T)
    <3>1. FirstOnly(S.th, T, t) /\ ~S.th[t].locked
      BY <1>2, <2>2, <2>6, ZenonT(40) DEF FirstOnly, e
    <3> QED BY <2>5, <2>6, <3>1, FirstSlot
  <2>12. Table(r.node) /\ IsTree(r.node) /\ Accounts(r.node, T)
    BY <2>9, <2>11, TryLocks DEF Consistent, Asking, r, e
  <2>13. Consistent(R) /\ SameRequests(S.th, R.th)
    BY <2>7, <2>8, <2>9, <2>10, <2>12, ZenonT(40) DEF Consistent
  <2> QED BY <2>5, <2>6, <2>7, <2>13, ZenonT(40) DEF R, e
<1> QED BY <1>1, <1>2

\* The attempt on the second path.
LEMMA TrySecond ==
    ASSUME NEW S, Consistent(S), NEW t \in DOMAIN S.th, Asking(S.th[t])
    PROVE  /\ Consistent(try_second(S, t)) /\ SameRequests(S.th, try_second(S, t).th)
           /\ TwoPaths(S.th[t].op) =>
                (try_second(S, t).th[t].locked2 <=> try_second(S, t).err = "none")
           /\ ~TwoPaths(S.th[t].op) => try_second(S, t).err = "none"
           /\ try_second(S, t).th[t].locked = S.th[t].locked
<1> DEFINE e == S.th[t]
           r == try_get_path(S.node, e.dir2, e.name2, WriteLocks(e.op))
           R == try_second(S, t)
<1>1. CASE e.locked2 \/ ~TwoPaths(e.op)
  <2>1. R = [S EXCEPT !.err = "none"]
    BY <1>1, ZenonT(40) DEF try_second
  <2>2. R = [node |-> S.node, th |-> S.th, err |-> "none"]
    BY <2>1 DEF Consistent
  <2> HIDE DEF R
  <2>3. R = [node |-> R.node, th |-> R.th, err |-> R.err]
        /\ R.node = S.node /\ R.th = S.th /\ R.err = "none"
    BY <2>2
  <2>4. Consistent(R) /\ SameRequests(S.th, R.th)
    BY <2>3, Zenon DEF Consistent, SameRequests
  <2> QED BY <1>1, <2>3, <2>4, Zenon DEF R
<1>2. CASE ~(e.locked2 \/ ~TwoPaths(e.op))
  <2> DEFINE T == [S.th EXCEPT ![t].locked2 = (r.err = "none"),
                               ![t].wnode2 = r.wnode, ![t].path2 = r.path]
  <2>1. R = [node |-> r.node, err |-> r.err, th |-> T]
    BY <1>2, Zenon DEF try_second
  <2> HIDE DEF r
  <2>2. /\ T = [u \in DOMAIN T |-> T[u]]
        /\ Others(S.th, T, t)
    BY DEF Others, Consistent, Workers
  <2>3. ThreadFields \subseteq DOMAIN e
    BY Zenon DEF Consistent, Workers
  <2>4. T[t] = [e EXCEPT !.locked2 = (r.err = "none"), !.wnode2 = r.wnode,
                         !.path2 = r.path]
    BY DEF Consistent, Workers
  <2> HIDE DEF T, e
  <2>5. /\ ThreadFields \subseteq DOMAIN T[t]
        /\ T[t].locked2 \in BOOLEAN /\ (T[t].locked2 <=> r.err = "none")
        /\ T[t].wnode2 = r.wnode
    BY <2>3, <2>4, ZenonT(40) DEF ThreadFields
  <2>6. /\ T[t].locked = e.locked /\ T[t].wnode = e.wnode
        /\ T[t].pc = e.pc /\ T[t].op = e.op
        /\ T[t].dir = e.dir /\ T[t].dir2 = e.dir2
    BY <2>3, <2>4 DEF ThreadFields
  <2> HIDE DEF R
  <2>7. /\ R = [node |-> R.node, th |-> R.th, err |-> R.err]
        /\ R.node = r.node /\ R.th = T /\ R.err = r.err
    BY <2>1
  <2>8. Workers(T)
    BY <2>2, <2>5, <2>6 DEF Workers, Others, Consistent, e
  <2>9. FewThreads(T)
    BY <2>2, FewStill, Zenon DEF Others, Consistent
  <2>10. SameRequests(S.th, T)
    BY <2>2, <2>6 DEF SameRequests, Others, e
  <2>11. /\ r.err = "none" => /\ Adds(S.th, T, <<t, 2>>)
                              /\ HeldDir(T, <<t, 2>>) = e.dir2
                              /\ HeldNode(T, <<t, 2>>) = r.wnode
         /\ r.err # "none" => Same(S.th, T)
    <3>1. SecondOnly(S.th, T, t) /\ ~S.th[t].locked2
      BY <1>2, <2>2, <2>6, ZenonT(40) DEF SecondOnly, e
    <3> QED BY <2>5, <2>6, <3>1, SecondSlot
  <2>12. Table(r.node) /\ IsTree(r.node) /\ Accounts(r.node, T)
    <3>1. e.dir2 \in NodeIds
      BY <1>2, ZenonT(40) DEF Asking, e
    <3> QED BY <2>9, <2>11, <3>1, TryLocks DEF Consistent, r, e
  <2>13. Consistent(R) /\ SameRequests(S.th, R.th)
    BY <2>7, <2>8, <2>9, <2>10, <2>12, Zenon DEF Consistent
  <2> QED BY <1>2, <2>5, <2>6, <2>7, <2>13, ZenonT(40) DEF R, e
<1> QED BY <1>1, <1>2

\* The new record of a thread that may have let go of its paths.
Frees(th, T, t) ==
    /\ T = [u \in DOMAIN T |-> T[u]] /\ Others(th, T, t)
    /\ ThreadFields \subseteq DOMAIN T[t]
    /\ T[t].locked \in BOOLEAN /\ T[t].locked2 \in BOOLEAN
    /\ T[t].wnode = th[t].wnode /\ T[t].wnode2 = th[t].wnode2
    /\ T[t].pc = th[t].pc /\ T[t].op = th[t].op
    /\ T[t].dir = th[t].dir /\ T[t].dir2 = th[t].dir2

\* The two steps of queue_element_unlock.
FreedFirst(N, e) == IF e.locked THEN unlock_path(N, e.dir, e.wnode) ELSE N
FreedSecond(N, e) == IF e.locked2 THEN unlock_path(N, e.dir2, e.wnode2) ELSE N

\* Letting go of the first path.
LEMMA UnlockFirst ==
    ASSUME NEW N, Table(N), IsTree(N), NEW th, Workers(th), FewThreads(th),
           Accounts(N, th), NEW t \in DOMAIN th, NEW T, Frees(th, T, t),
           ~T[t].locked, T[t].locked2 = th[t].locked2,
           NEW M, M = FreedFirst(N, th[t])
    PROVE  /\ Table(M) /\ IsTree(M) /\ Workers(T) /\ FewThreads(T)
           /\ Accounts(M, T) /\ SameRequests(th, T)
<1> DEFINE e == th[t]
<1>1. T = [u \in DOMAIN T |-> T[u]] /\ Others(T, th, t) /\ Others(th, T, t)
  BY Zenon DEF Others, Frees
<1> HIDE DEF e
<1>3. /\ ThreadFields \subseteq DOMAIN T[t] /\ ~T[t].locked /\ T[t].locked \in BOOLEAN
      /\ T[t].locked2 = e.locked2 /\ T[t].wnode2 = e.wnode2 /\ T[t].wnode = e.wnode
      /\ T[t].pc = e.pc /\ T[t].op = e.op /\ T[t].dir = e.dir /\ T[t].dir2 = e.dir2
  BY Zenon DEF Frees, e
<1>4. Workers(T)
  BY <1>1, <1>3 DEF Workers, Others, e
<1>5. FewThreads(T)
  BY <1>1, FewStill, Zenon DEF Others
<1>6. SameRequests(th, T)
  BY <1>1, <1>3 DEF SameRequests, Others, e
<1>7. /\ e.locked => /\ Adds(T, th, <<t, 1>>)
                     /\ HeldDir(th, <<t, 1>>) = e.dir
                     /\ HeldNode(th, <<t, 1>>) = e.wnode
      /\ ~e.locked => Same(T, th)
  <2>1. FirstOnly(T, th, t)
    BY <1>1, <1>3, Zenon DEF e, Others, FirstOnly
  <2>2. /\ th[t].locked => /\ Adds(T, th, <<t, 1>>)
                           /\ HeldDir(th, <<t, 1>>) = th[t].dir
                           /\ HeldNode(th, <<t, 1>>) = th[t].wnode
        /\ ~th[t].locked => Same(T, th)
    BY <1>3, <2>1, FirstSlot, ZenonT(40)
  <2> QED BY <2>2, Zenon DEF e
<1>8. Table(M) /\ IsTree(M) /\ Accounts(M, T)
  <2>1. CASE e.locked
    <3>1. M = unlock_path(N, e.dir, e.wnode)
      BY <2>1, ZenonT(40) DEF e, FreedFirst
    <3>2. Table(M) /\ SameParents(N, M)
      BY <3>1, UnlockedTable
    <3>3. IsTree(M)
      BY <3>2, StillTree, ZenonT(40)
    <3>4. Accounts(M, T)
      BY <1>5, <1>7, <2>1, <3>1, UnlockPath
    <3> QED BY <3>2, <3>3, <3>4
  <2>2. CASE ~e.locked
    <3>1. M = N /\ SameParents(N, N)
      BY <2>2, Zenon DEF e, SameParents, FreedFirst
    <3>2. Same(th, T)
      BY <1>7, <2>2, Zenon DEF Same, Agree
    <3>3. ASSUME NEW k \in NodeIds \ {FUSE_ROOT_ID} PROVE IsAccountedFor(N, T, k)
      <4>1. IsAccountedFor(N, th, k)
        BY Zenon DEF Accounts
      <4> QED BY <3>1, <3>2, <4>1, AccountsStay
    <3> QED BY <3>1, <3>3, Zenon DEF Accounts
  <2> QED BY <2>1, <2>2
<1> QED BY <1>4, <1>5, <1>6, <1>8, ZenonT(40)

\* Letting go of the second path.
LEMMA UnlockSecond ==
    ASSUME NEW N, Table(N), IsTree(N), NEW th, Workers(th), FewThreads(th),
           Accounts(N, th), NEW t \in DOMAIN th, NEW T, Frees(th, T, t),
           ~T[t].locked2, T[t].locked = th[t].locked,
           NEW M, M = FreedSecond(N, th[t])
    PROVE  /\ Table(M) /\ IsTree(M) /\ Workers(T) /\ FewThreads(T)
           /\ Accounts(M, T) /\ SameRequests(th, T)
<1> DEFINE e == th[t]
<1>1. T = [u \in DOMAIN T |-> T[u]] /\ Others(T, th, t) /\ Others(th, T, t)
  BY Zenon DEF Others, Frees
<1> HIDE DEF e
<1>3. /\ ThreadFields \subseteq DOMAIN T[t] /\ ~T[t].locked2 /\ T[t].locked2 \in BOOLEAN
      /\ T[t].locked = e.locked /\ T[t].wnode2 = e.wnode2 /\ T[t].wnode = e.wnode
      /\ T[t].pc = e.pc /\ T[t].op = e.op /\ T[t].dir = e.dir /\ T[t].dir2 = e.dir2
  BY Zenon DEF Frees, e
<1>4. Workers(T)
  BY <1>1, <1>3 DEF Workers, Others, e
<1>5. FewThreads(T)
  BY <1>1, FewStill, Zenon DEF Others
<1>6. SameRequests(th, T)
  BY <1>1, <1>3 DEF SameRequests, Others, e
<1>7. /\ e.locked2 => /\ Adds(T, th, <<t, 2>>)
                      /\ HeldDir(th, <<t, 2>>) = e.dir2
                      /\ HeldNode(th, <<t, 2>>) = e.wnode2
      /\ ~e.locked2 => Same(T, th)
  <2>1. SecondOnly(T, th, t)
    BY <1>1, <1>3, Zenon DEF e, Others, SecondOnly
  <2>2. /\ th[t].locked2 => /\ Adds(T, th, <<t, 2>>)
                            /\ HeldDir(th, <<t, 2>>) = th[t].dir2
                            /\ HeldNode(th, <<t, 2>>) = th[t].wnode2
        /\ ~th[t].locked2 => Same(T, th)
    BY <1>3, <2>1, SecondSlot, ZenonT(40)
  <2> QED BY <2>2, Zenon DEF e
<1>8. Table(M) /\ IsTree(M) /\ Accounts(M, T)
  <2>1. CASE e.locked2
    <3>1. M = unlock_path(N, e.dir2, e.wnode2)
      BY <2>1, Zenon DEF e, FreedSecond
    <3>2. Table(M) /\ SameParents(N, M)
      BY <3>1, UnlockedTable
    <3>3. IsTree(M)
      BY <3>2, StillTree, ZenonT(40)
    <3>4. Accounts(M, T)
      BY <1>5, <1>7, <2>1, <3>1, UnlockPath
    <3> QED BY <3>2, <3>3, <3>4
  <2>2. CASE ~e.locked2
    <3>1. M = N /\ SameParents(N, N)
      BY <2>2, Zenon DEF e, SameParents, FreedSecond
    <3>2. Same(th, T)
      BY <1>7, <2>2, ZenonT(40) DEF Same, Agree
    <3>3. ASSUME NEW k \in NodeIds \ {FUSE_ROOT_ID} PROVE IsAccountedFor(N, T, k)
      <4>1. IsAccountedFor(N, th, k)
        BY Zenon DEF Accounts
      <4> QED BY <3>1, <3>2, <4>1, AccountsStay
    <3> QED BY <3>1, <3>3, Zenon DEF Accounts
  <2> QED BY <2>1, <2>2
<1> QED BY <1>4, <1>5, <1>6, <1>8, ZenonT(40)

\* queue_element_unlock gives everything back, and keeps the accounts.
LEMMA UnlockBoth ==
    ASSUME NEW S, Consistent(S), NEW t \in DOMAIN S.th
    PROVE  LET R == queue_element_unlock(S, t)
           IN  /\ Consistent(R) /\ SameRequests(S.th, R.th) /\ R.err = S.err
               /\ ~R.th[t].locked /\ ~R.th[t].locked2
<1> DEFINE e == S.th[t]
           N == FreedFirst(S.node, e)
           M == FreedSecond(N, e)
           T1 == [S.th EXCEPT ![t].locked = FALSE]
           T == [T1 EXCEPT ![t].locked2 = FALSE]
           R == queue_element_unlock(S, t)
<1>1. R = [S EXCEPT !.node = M, !.th[t].locked = FALSE, !.th[t].locked2 = FALSE]
  BY Zenon DEF queue_element_unlock, FreedFirst, FreedSecond
<1> HIDE DEF M, N
<1>2. R = [node |-> M, th |-> T, err |-> S.err]
  <2>1. S = [node |-> S.node, th |-> S.th, err |-> S.err]
    BY DEF Consistent
  <2> QED BY <1>1, <2>1, Zenon
<1>3. ThreadFields \subseteq DOMAIN e /\ e.locked \in BOOLEAN /\ e.locked2 \in BOOLEAN
  BY Zenon DEF Consistent, Workers
<1>4. /\ T1 = [u \in DOMAIN T1 |-> T1[u]] /\ Others(S.th, T1, t) /\ t \in DOMAIN T1
      /\ T1[t] = [e EXCEPT !.locked = FALSE]
  BY Zenon DEF Others, Consistent, Workers
<1> HIDE DEF T1
<1>5. /\ T = [u \in DOMAIN T |-> T[u]] /\ Others(T1, T, t)
      /\ T[t] = [T1[t] EXCEPT !.locked2 = FALSE]
  BY <1>4, ZenonT(40) DEF Others
<1> HIDE DEF T, R, e
<1>6. Frees(S.th, T1, t) /\ ~T1[t].locked /\ T1[t].locked2 = e.locked2
  <2>1. /\ ThreadFields \subseteq DOMAIN T1[t] /\ ~T1[t].locked /\ T1[t].locked \in BOOLEAN
        /\ T1[t].locked2 = e.locked2 /\ T1[t].wnode2 = e.wnode2 /\ T1[t].wnode = e.wnode
        /\ T1[t].pc = e.pc /\ T1[t].op = e.op /\ T1[t].dir = e.dir /\ T1[t].dir2 = e.dir2
    BY <1>3, <1>4 DEF ThreadFields
  <2> QED BY <1>3, <1>4, <2>1, ZenonT(40) DEF Frees, e
<1>7. Frees(T1, T, t) /\ ~T[t].locked2 /\ T[t].locked = T1[t].locked
  <2> DEFINE d == T1[t]
  <2>1. ThreadFields \subseteq DOMAIN d /\ d.locked \in BOOLEAN
    BY <1>6, Zenon DEF Frees
  <2> HIDE DEF d
  <2>2. T[t] = [d EXCEPT !.locked2 = FALSE]
    BY <1>5 DEF d
  <2>3. /\ ThreadFields \subseteq DOMAIN T[t] /\ ~T[t].locked2 /\ T[t].locked2 \in BOOLEAN
        /\ T[t].locked = d.locked /\ T[t].wnode2 = d.wnode2 /\ T[t].wnode = d.wnode
        /\ T[t].pc = d.pc /\ T[t].op = d.op /\ T[t].dir = d.dir /\ T[t].dir2 = d.dir2
    BY <2>1, <2>2 DEF ThreadFields
  <2> QED BY <1>5, <2>1, <2>3, ZenonT(40) DEF Frees, d
<1>8. /\ Table(N) /\ IsTree(N) /\ Workers(T1) /\ FewThreads(T1)
      /\ Accounts(N, T1) /\ SameRequests(S.th, T1)
  <2>1. N = FreedFirst(S.node, S.th[t])
    BY Zenon DEF N, e
  <2>2. T1[t].locked2 = S.th[t].locked2
    BY <1>6, Zenon DEF e
  <2> QED BY <1>6, <2>1, <2>2, UnlockFirst, ZenonT(40) DEF Consistent
<1>9. /\ Table(M) /\ IsTree(M) /\ Workers(T) /\ FewThreads(T)
      /\ Accounts(M, T) /\ SameRequests(T1, T)
  <2>1. M = FreedSecond(N, T1[t])
    BY <1>6, Zenon DEF M, Frees, FreedSecond, e
  <2> QED BY <1>4, <1>7, <1>8, <2>1, UnlockSecond, ZenonT(40)
<1>10. /\ R = [node |-> R.node, th |-> R.th, err |-> R.err]
       /\ R.node = M /\ R.th = T /\ R.err = S.err
  BY <1>2
<1>11. SameRequests(S.th, T)
  BY <1>8, <1>9, Zenon DEF SameRequests
<1>12. Consistent(R) /\ SameRequests(S.th, R.th) /\ R.err = S.err
       /\ ~R.th[t].locked /\ ~R.th[t].locked2
  BY <1>6, <1>7, <1>9, <1>10, <1>11, ZenonT(40) DEF Consistent
<1> QED BY <1>12, Zenon DEF R

-----------------------------------------------------------------------------
\* A request that asks for its paths (get_path_common, get_path2, with
\* try_get_path and try_get_path2) gets all of them or none, and keeps the
\* accounts either way, for any tree and any number of threads: what
\* try_get_path2 takes back when it does not get the second path is what it
\* took for the first, even where it has left a mark on it.
THEOREM RequestsAreAccountedFor ==
    ASSUME NEW S, Consistent(S), NEW t \in DOMAIN S.th, Asking(S.th[t]),
           ~S.th[t].locked, ~S.th[t].locked2
    PROVE  LET R == try_get_path2(S, t)
           IN  /\ Consistent(R) /\ SameRequests(S.th, R.th)
               /\ R.err = "none" =>
                    R.th[t].locked /\ (TwoPaths(S.th[t].op) => R.th[t].locked2)
               /\ R.err # "none" => ~R.th[t].locked /\ ~R.th[t].locked2
<1> DEFINE S1 == try_first(S, t)
           S2 == try_second(S1, t)
           R == try_get_path2(S, t)
<1>1. /\ Consistent(S1) /\ SameRequests(S.th, S1.th)
      /\ S1.th[t].locked <=> S1.err = "none"
      /\ S1.th[t].locked2 = S.th[t].locked2
  BY TryFirst
<1>2. t \in DOMAIN S1.th /\ S1.th[t].op = S.th[t].op /\ Asking(S1.th[t])
  BY <1>1, Zenon DEF SameRequests, Asking
<1>3. R = IF S1.err # "none" THEN S1
          ELSE IF S2.err # "none" THEN queue_element_unlock(S2, t) ELSE S2
  BY Zenon DEF try_get_path2
<1> HIDE DEF S1
<1>4. /\ Consistent(S2) /\ SameRequests(S1.th, S2.th)
      /\ TwoPaths(S1.th[t].op) => (S2.th[t].locked2 <=> S2.err = "none")
      /\ ~TwoPaths(S1.th[t].op) => S2.err = "none"
      /\ S2.th[t].locked = S1.th[t].locked
  BY <1>1, <1>2, TrySecond
<1> HIDE DEF S2, R
<1>5. SameRequests(S.th, S2.th) /\ t \in DOMAIN S2.th
  BY <1>1, <1>4, ZenonT(40) DEF SameRequests
<1>6. CASE S1.err # "none"
  <2>1. R = S1
    BY <1>3, <1>6, Zenon
  <2> QED BY <1>1, <1>6, <2>1, Zenon DEF R
<1>7. CASE S1.err = "none" /\ S2.err # "none"
  <2>1. R = queue_element_unlock(S2, t)
    BY <1>3, <1>7, ZenonT(40)
  <2>2. /\ Consistent(R) /\ SameRequests(S2.th, R.th) /\ R.err = S2.err
        /\ ~R.th[t].locked /\ ~R.th[t].locked2
    BY <1>4, <1>5, <2>1, UnlockBoth
  <2>3. SameRequests(S.th, R.th)
    BY <1>5, <2>2, Zenon DEF SameRequests
  <2> QED BY <1>7, <2>2, <2>3, ZenonT(40) DEF R
<1>8. CASE S1.err = "none" /\ S2.err = "none"
  <2>1. R = S2
    BY <1>3, <1>8, ZenonT(40)
  <2> QED BY <1>1, <1>2, <1>4, <1>5, <1>8, <2>1, ZenonT(40) DEF R
<1> QED BY <1>6, <1>7, <1>8

-----------------------------------------------------------------------------
\* A change to the rest of a thread keeps the accounts.
LEMMA Touched ==
    ASSUME NEW N, Table(N), IsTree(N), NEW th, Workers(th), FewThreads(th),
           Accounts(N, th), NEW t \in DOMAIN th, NEW T, Frees(th, T, t),
           T[t].locked = th[t].locked, T[t].locked2 = th[t].locked2
    PROVE  /\ Workers(T) /\ FewThreads(T) /\ Accounts(N, T) /\ SameRequests(th, T)
<1>1. /\ T = [u \in DOMAIN T |-> T[u]] /\ Others(th, T, t)
      /\ ThreadFields \subseteq DOMAIN T[t]
      /\ T[t].locked \in BOOLEAN /\ T[t].locked2 \in BOOLEAN
      /\ T[t].wnode = th[t].wnode /\ T[t].wnode2 = th[t].wnode2
      /\ T[t].pc = th[t].pc /\ T[t].op = th[t].op
      /\ T[t].dir = th[t].dir /\ T[t].dir2 = th[t].dir2
  BY Zenon DEF Frees
<1>2. Workers(T)
  BY <1>1 DEF Workers, Others
<1>3. FewThreads(T)
  BY <1>1, FewStill, ZenonT(40) DEF Others
<1>4. SameRequests(th, T)
  BY <1>1 DEF SameRequests, Others
<1>5. ASSUME NEW l \in Slots(th)
      PROVE  /\ l \in Held(T) <=> l \in Held(th)
             /\ HeldDir(T, l) = HeldDir(th, l) /\ HeldNode(T, l) = HeldNode(th, l)
  <2>1. PICK u \in DOMAIN th, i \in {1, 2} : l = <<u, i>>
    BY DEF Slots
  <2>2. l[1] = u /\ l \in (DOMAIN T) \X {1, 2} /\ l \in (DOMAIN th) \X {1, 2}
    BY <1>1, <2>1 DEF Others
  <2>3. /\ T[u].locked = th[u].locked /\ T[u].locked2 = th[u].locked2
        /\ T[u].wnode = th[u].wnode /\ T[u].wnode2 = th[u].wnode2
        /\ T[u].dir = th[u].dir /\ T[u].dir2 = th[u].dir2
    BY <1>1, Zenon DEF Others
  <2> QED BY <2>2, <2>3, ZenonT(40) DEF Held, HeldDir, HeldNode
<1>6. Held(th) \subseteq Slots(th) /\ Held(T) \subseteq Slots(th)
  BY <1>1, Zenon DEF Held, Slots, Others
<1>7. Held(T) = Held(th)
  BY <1>5, <1>6, Zenon
<1>8. Same(th, T) /\ SameParents(N, N)
  BY <1>5, <1>6, <1>7, ZenonT(40) DEF Same, Agree, SameParents
<1>9. ASSUME NEW k \in NodeIds \ {FUSE_ROOT_ID} PROVE IsAccountedFor(N, T, k)
  <2>1. IsAccountedFor(N, th, k)
    BY Zenon DEF Accounts
  <2> QED BY <1>8, <2>1, AccountsStay
<1> QED BY <1>2, <1>3, <1>4, <1>9, ZenonT(40) DEF Accounts

\* So does telling a waiting thread that it is done.
LEMMA MarkDone ==
    ASSUME NEW S, Consistent(S), NEW t \in DOMAIN S.th, NEW err, NEW R,
           \/ R = [S EXCEPT !.th[t].done = TRUE, !.th[t].err = err]
           \/ R = [S EXCEPT !.th[t].done = TRUE]
    PROVE  Consistent(R) /\ SameRequests(S.th, R.th)
<1> DEFINE e == S.th[t]
<1>1. S = [node |-> S.node, th |-> S.th, err |-> S.err]
  BY DEF Consistent
<1>2. ThreadFields \subseteq DOMAIN e /\ e.locked \in BOOLEAN /\ e.locked2 \in BOOLEAN
  BY Zenon DEF Consistent, Workers
<1>3. PICK T : /\ R = [node |-> S.node, th |-> T, err |-> S.err]
               /\ \/ T = [S.th EXCEPT ![t].done = TRUE, ![t].err = err]
                  \/ T = [S.th EXCEPT ![t].done = TRUE]
  BY <1>1, Zenon
<1>4. /\ T = [u \in DOMAIN T |-> T[u]] /\ Others(S.th, T, t)
      /\ \/ T[t] = [e EXCEPT !.done = TRUE, !.err = err]
         \/ T[t] = [e EXCEPT !.done = TRUE]
  BY <1>3, ZenonT(40) DEF Others, Consistent, Workers
<1> HIDE DEF e
<1>5. /\ ThreadFields \subseteq DOMAIN T[t]
      /\ T[t].locked = e.locked /\ T[t].locked2 = e.locked2
      /\ T[t].wnode2 = e.wnode2 /\ T[t].wnode = e.wnode
      /\ T[t].pc = e.pc /\ T[t].op = e.op /\ T[t].dir = e.dir /\ T[t].dir2 = e.dir2
  BY <1>2, <1>4, ZenonT(40) DEF ThreadFields
<1>6. Frees(S.th, T, t) /\ T[t].locked = S.th[t].locked /\ T[t].locked2 = S.th[t].locked2
  BY <1>2, <1>4, <1>5, ZenonT(40) DEF Frees, e
<1>7. Workers(T) /\ FewThreads(T) /\ Accounts(S.node, T) /\ SameRequests(S.th, T)
  BY <1>6, Touched, ZenonT(40) DEF Consistent
<1>8. /\ R = [node |-> R.node, th |-> R.th, err |-> R.err]
      /\ R.node = S.node /\ R.th = T
  BY <1>3
<1> QED BY <1>7, <1>8, ZenonT(40) DEF Consistent

\* queue_element_wakeup keeps the accounts, whatever it takes, keeps or
\* gives back.
LEMMA WakeOne ==
    ASSUME NEW S, Consistent(S), NEW t \in DOMAIN S.th, NEW first,
           S.th[t].pc # "forgetting" => Asking(S.th[t])
    PROVE  /\ Consistent(queue_element_wakeup(S, t, first))
           /\ SameRequests(S.th, queue_element_wakeup(S, t, first).th)
<1> DEFINE S1 == try_first(S, t)
           S2 == IF S1.err = "ENOENT" THEN S1 ELSE try_second(S1, t)
           e == S2.th[t]
           Done(X, err) == [X EXCEPT !.th[t].done = TRUE, !.th[t].err = err]
           R == queue_element_wakeup(S, t, first)
<1>1. CASE S.th[t].pc = "forgetting"
  <2>1. R = IF S.node[S.th[t].ino].treelock = 0
            THEN [S EXCEPT !.th[t].done = TRUE] ELSE S
    BY <1>1 DEF queue_element_wakeup
  <2> HIDE DEF R
  <2>2. SameRequests(S.th, S.th)
    BY Zenon DEF SameRequests
  <2>3. Consistent(R) /\ SameRequests(S.th, R.th)
    <3>1. CASE R = S
      BY <2>2, <3>1, ZenonT(40)
    <3>2. CASE R = [S EXCEPT !.th[t].done = TRUE]
      BY <3>2, MarkDone, ZenonT(40)
    <3> QED BY <2>1, <3>1, <3>2, ZenonT(40)
  <2> QED BY <2>3, Zenon DEF R
<1>2. CASE S.th[t].pc # "forgetting"
  <2>1. \/ R = Done(queue_element_unlock(S2, t), "ENOENT")
        \/ R = Done(S2, "none") \/ R = S2 \/ R = queue_element_unlock(S2, t)
    BY <1>2 DEF queue_element_wakeup
  <2>2. Consistent(S1) /\ SameRequests(S.th, S1.th)
    BY <1>2, TryFirst
  <2>3. t \in DOMAIN S1.th /\ Asking(S1.th[t])
    BY <1>2, <2>2, ZenonT(40) DEF SameRequests, Asking
  <2> HIDE DEF S1
  <2>4. Consistent(try_second(S1, t)) /\ SameRequests(S1.th, try_second(S1, t).th)
    BY <2>2, <2>3, TrySecond
  <2>5. Consistent(S2) /\ SameRequests(S.th, S2.th) /\ t \in DOMAIN S2.th
    BY <2>2, <2>3, <2>4, ZenonT(40) DEF SameRequests
  <2> HIDE DEF S2, R
  <2> DEFINE U == queue_element_unlock(S2, t)
  <2>6. Consistent(U) /\ SameRequests(S2.th, U.th)
    BY <2>5, UnlockBoth
  <2> HIDE DEF U
  <2>7. SameRequests(S.th, U.th) /\ t \in DOMAIN U.th
    BY <2>5, <2>6, ZenonT(40) DEF SameRequests
  <2>8. Consistent(R) /\ SameRequests(S.th, R.th)
    <3>1. CASE R = Done(U, "ENOENT")
      <4>1. Consistent(R) /\ SameRequests(U.th, R.th)
        BY <2>6, <2>7, <3>1, MarkDone, ZenonT(40)
      <4> QED BY <2>7, <4>1, ZenonT(40) DEF SameRequests
    <3>2. CASE R = Done(S2, "none")
      <4>1. Consistent(R) /\ SameRequests(S2.th, R.th)
        BY <2>5, <3>2, MarkDone, ZenonT(40)
      <4> QED BY <2>5, <4>1, ZenonT(40) DEF SameRequests
    <3>3. CASE R = S2
      BY <2>5, <3>3, ZenonT(40)
    <3>4. CASE R = U
      BY <2>6, <2>7, <3>4, ZenonT(40)
    <3> QED BY <2>1, <3>1, <3>2, <3>3, <3>4, ZenonT(40) DEF U
  <2> QED BY <2>8, Zenon DEF R
<1> QED BY <1>1, <1>2

-----------------------------------------------------------------------------
\* Induction over the natural numbers, for a set.
LEMMA Induction ==
    ASSUME NEW P \in SUBSET Nat, 0 \in P, \A n \in P : n + 1 \in P
    PROVE  \A n \in Nat : n \in P
<1> SUFFICES ASSUME Nat \ P # {} PROVE FALSE
  BY Zenon
<1> DEFINE R == OpToRel(<, Nat)
           Q == Nat \ P
<1>1. IsWellFoundedOn(R, Nat)
  BY NatLessThanWellFounded, Zenon
<1>2. \A x, y \in Nat : x < y => <<x, y>> \in R
  BY DEF OpToRel
<1>3. Q \subseteq Nat /\ Q # {}
  BY Zenon
<1> HIDE DEF R, Q
<1>4. PICK x \in Q : \A y \in Q : ~(<<y, x>> \in R)
  BY <1>1, <1>3, WFMin, ZenonT(40)
<1>5. x \in Nat /\ x \notin P /\ x # 0
  BY <1>3, <1>4, ZenonT(40) DEF Q
<1>6. x - 1 \in Nat /\ x - 1 < x /\ (x - 1) + 1 = x
  BY <1>5
<1>7. x - 1 \notin Q
  BY <1>2, <1>4, <1>5, <1>6, ZenonT(40)
<1>8. x - 1 \in P
  BY <1>6, <1>7, ZenonT(40) DEF Q
<1>9. (x - 1) + 1 \in P
  BY <1>8, Zenon
<1> QED BY <1>5, <1>6, <1>9, ZenonT(40)

\* f is the run of wake_up_queued over the first n elements of the queue.
Runs(S, queue, f, n) ==
    f = [i \in 0..n |-> IF i = 0 THEN S
                        ELSE queue_element_wakeup(f[i - 1], queue[i], i = 1)]

\* There is one, for every n.
LEMMA RunExists ==
    ASSUME NEW S, NEW queue, NEW n \in Nat
    PROVE  \E f : Runs(S, queue, f, n)
<1> DEFINE P == {m \in Nat : \E f : Runs(S, queue, f, m)}
<1>1. 0 \in P
  <2> DEFINE f == [i \in 0..0 |-> S]
  <2>1. f = [i \in 0..0 |-> IF i = 0 THEN S
                            ELSE queue_element_wakeup(f[i - 1], queue[i], i = 1)]
    <3>1. \A i \in 0..0 : i = 0
      OBVIOUS
    <3> QED BY <3>1, Zenon
  <2>2. Runs(S, queue, f, 0)
    BY <2>1, Zenon DEF Runs
  <2> HIDE DEF f
  <2> QED BY <2>2
<1>2. ASSUME NEW m \in P PROVE m + 1 \in P
  <2>1. PICK f : Runs(S, queue, f, m)
    BY Zenon
  <2>2. m \in Nat /\ m + 1 \in Nat
    OBVIOUS
  <2> DEFINE G(x, i) == queue_element_wakeup(x, queue[i], i = 1)
             g == [i \in 0..(m + 1) |-> IF i = m + 1 THEN G(f[m], m + 1) ELSE f[i]]
  <2>3. \A i \in 0..m : f[i] = IF i = 0 THEN S ELSE G(f[i - 1], i)
    BY <2>1 DEF Runs
  <2> HIDE DEF G
  <2>4. ASSUME NEW i \in 0..(m + 1)
        PROVE  g[i] = IF i = 0 THEN S ELSE G(g[i - 1], i)
    <3>1. CASE i = m + 1
      <4>1. i # 0 /\ i - 1 = m /\ m \in 0..(m + 1) /\ m # m + 1 /\ m + 1 \in 0..(m + 1)
        BY <2>2, <3>1
      <4>2. g[i] = G(f[m], m + 1) /\ g[m] = f[m]
        BY <3>1, <4>1, ZenonT(40)
      <4> QED BY <3>1, <4>1, <4>2, ZenonT(40)
    <3>2. CASE i # m + 1 /\ i = 0
      <4>1. i \in 0..m
        BY <2>2, <3>2
      <4> QED BY <2>3, <3>2, <4>1, ZenonT(40)
    <3>3. CASE i # m + 1 /\ i # 0
      <4>1. i \in 0..m /\ i - 1 \in 0..(m + 1) /\ i - 1 # m + 1
        BY <2>2, <3>3
      <4>2. g[i] = f[i] /\ g[i - 1] = f[i - 1]
        BY <3>3, <4>1, ZenonT(40)
      <4> QED BY <2>3, <3>3, <4>1, <4>2, ZenonT(40)
    <3> QED BY <3>1, <3>2, <3>3
  <2>5. g = [i \in 0..(m + 1) |-> g[i]]
    OBVIOUS
  <2> HIDE DEF g
  <2>6. g = [i \in 0..(m + 1) |-> IF i = 0 THEN S ELSE G(g[i - 1], i)]
    BY <2>4, <2>5, ZenonT(40)
  <2>7. Runs(S, queue, g, m + 1)
    BY <2>6, Zenon DEF Runs, G
  <2> QED BY <2>2, <2>7, ZenonT(40)
<1>3. P \in SUBSET Nat
  BY Zenon
<1> HIDE DEF P
<1>4. n \in P
  BY <1>1, <1>2, <1>3, Induction
<1> QED BY <1>4, Zenon DEF P

\* What the queue holds: forgets, and requests that need paths.
Queued(th, queue) ==
    \A i \in 1..Len(queue) :
        /\ queue[i] \in DOMAIN th
        /\ th[queue[i]].pc # "forgetting" => Asking(th[queue[i]])

\* Waking changes no request.
LEMMA StillQueued ==
    ASSUME NEW th, NEW T, NEW queue, Queued(th, queue), SameRequests(th, T)
    PROVE  Queued(T, queue)
BY Zenon DEF Queued, SameRequests, Asking

\* wake_up_queued keeps the accounts, however long the queue is.
LEMMA WakeAll ==
    ASSUME NEW S, Consistent(S), NEW queue, Len(queue) \in Nat, Queued(S.th, queue)
    PROVE  /\ Consistent(wake_up_queued(S, queue))
           /\ SameRequests(S.th, wake_up_queued(S, queue).th)
<1> DEFINE n == Len(queue)
           W == CHOOSE f : Runs(S, queue, f, n)
           Fine(X) == Consistent(X) /\ SameRequests(S.th, X.th)
           P == {m \in Nat : m <= n => Fine(W[m])}
<1>1. wake_up_queued(S, queue) = W[n]
  BY DEF wake_up_queued, Runs
<1>2. Runs(S, queue, W, n)
  BY RunExists, Zenon
<1> HIDE DEF W
<1>3. \A i \in 0..n : W[i] = IF i = 0 THEN S
                             ELSE queue_element_wakeup(W[i - 1], queue[i], i = 1)
  BY <1>2 DEF Runs
<1>4. 0 \in P
  <2>1. W[0] = S
    BY <1>3
  <2> QED BY <2>1, ZenonT(40) DEF SameRequests
<1>5. ASSUME NEW m \in P PROVE m + 1 \in P
  <2> SUFFICES ASSUME m + 1 <= n PROVE Fine(W[m + 1])
    OBVIOUS
  <2>1. /\ m \in Nat /\ m <= n /\ m + 1 \in 0..n /\ m + 1 \in 1..n
        /\ m + 1 # 0 /\ (m + 1) - 1 = m
    OBVIOUS
  <2>2. Consistent(W[m]) /\ SameRequests(S.th, W[m].th)
    BY <2>1, Zenon
  <2>3. W[m + 1] = queue_element_wakeup(W[m], queue[m + 1], m + 1 = 1)
    BY <1>3, <2>1, ZenonT(40)
  <2>4. Queued(W[m].th, queue)
    BY <2>2, StillQueued, ZenonT(40)
  <2>5. /\ queue[m + 1] \in DOMAIN W[m].th
        /\ W[m].th[queue[m + 1]].pc # "forgetting" => Asking(W[m].th[queue[m + 1]])
    BY <2>1, <2>4, ZenonT(40) DEF Queued
  <2>6. Consistent(W[m + 1]) /\ SameRequests(W[m].th, W[m + 1].th)
    BY <2>2, <2>3, <2>5, WakeOne
  <2> QED BY <2>2, <2>6, ZenonT(40) DEF SameRequests
<1>6. P \in SUBSET Nat /\ n \in Nat /\ n <= n
  OBVIOUS
<1>7. n \in P
  <2> HIDE DEF P, n
  <2> QED BY <1>4, <1>5, <1>6, Induction
<1>8. Fine(W[n])
  BY <1>6, <1>7, ZenonT(40)
<1> QED BY <1>1, <1>8, ZenonT(40)

\* A thread that frees its paths (free_path, free_path_wrlock, free_path2)
\* and lets the queue try again keeps the accounts: every unlock finds the
\* locks it put there, and whatever the waiting threads take, keep in part
\* or give back in the same section is on somebody's account, for any tree,
\* any number of threads and any queue.
THEOREM FreedPathsAreAccountedFor ==
    ASSUME NEW S, Consistent(S), NEW t \in DOMAIN S.th,
           NEW queue, Len(queue) \in Nat, Queued(S.th, queue)
    PROVE  Consistent(wake_up_queued(queue_element_unlock(S, t), queue))
<1> DEFINE U == queue_element_unlock(S, t)
<1>1. Consistent(U) /\ SameRequests(S.th, U.th)
  BY UnlockBoth
<1> HIDE DEF U
<1>2. Queued(U.th, queue)
  BY <1>1, StillQueued, ZenonT(40)
<1>3. Consistent(wake_up_queued(U, queue))
  BY <1>1, <1>2, WakeAll
<1> QED BY <1>3, Zenon DEF U
=============================================================================
