-------------------------- MODULE TestsuiteProofs ---------------------------
(***************************************************************************)
(* Proofs about the runner of the test suite: the two tables of handles    *)
(* stay together, an open file is reached by the handle of its own open,   *)
(* and a file system that conforms does not fail.                          *)
(***************************************************************************)
EXTENDS Testsuite, FiniteSetTheorems, TLAPS

\* A leaf that names no prover is given to SMT and then to Zenon.
USE SMTT(40), ZenonT(40)

-----------------------------------------------------------------------------
(* The table of handles and the handles of a file system. *)

\* Types: a file system, a table of handles, a recorded call.
FileSystem == [paths : SUBSET Paths, open : [Handles -> Nat]]
Table == [Paths -> [fh : Nat, open : Int, there : BOOLEAN]]
Call == [kind : {"plain", "make", "open", "create", "nocreate", "use",
                 "release", "releasedir", "remove", "rename", "lacking"},
         path : Paths, new : Paths \cup {""}, id : Nat]
\* A handle is left to give out.
HasFree(F) == \E h \in Handles : F.open[h] = 0

\* store_fh, increment_open, destroy_fh and path_to_fh keep the table a table.
LEMMA TableOperations ==
    ASSUME NEW T \in Table, NEW p \in Paths, NEW fh \in Nat
    PROVE  /\ store_fh(T, p, fh) \in Table
           /\ increment_open(T, p) \in Table
           /\ destroy_fh(T, p) \in Table
           /\ path_to_fh(T, p) \in Nat
<1>1. /\ T[p] \in [fh : Nat, open : Int, there : BOOLEAN]
      /\ T[p].fh \in Nat /\ T[p].open \in Int /\ T[p].there \in BOOLEAN
  BY DEF Table
<1>2. [fh |-> fh, open |-> 0, there |-> TRUE]
        \in [fh : Nat, open : Int, there : BOOLEAN]
  OBVIOUS
<1>3. NoEntry \in [fh : Nat, open : Int, there : BOOLEAN]
  BY DEF NoEntry
<1>4. /\ [T[p] EXCEPT !.open = @ + 1]
           \in [fh : Nat, open : Int, there : BOOLEAN]
      /\ [T[p] EXCEPT !.open = @ - 1]
           \in [fh : Nat, open : Int, there : BOOLEAN]
  BY <1>1
<1>5. store_fh(T, p, fh) \in Table
  BY <1>2 DEF store_fh, Table
<1>6. increment_open(T, p) \in Table
  BY <1>4 DEF increment_open, Table
<1>7. destroy_fh(T, p) \in Table
  BY <1>3, <1>4 DEF destroy_fh, Table
<1> QED BY <1>1, <1>5, <1>6, <1>7 DEF path_to_fh

\* A set of natural numbers that is not empty has a least element.
LEMMA Least ==
  ASSUME NEW T \in SUBSET Nat, T # {}
  PROVE  \E x \in T : \A y \in T : x <= y
<1> DEFINE R == OpToRel(<, Nat)
<1>1. IsWellFoundedOn(R, Nat)
  BY NatLessThanWellFounded, Zenon
<1>2. \A x, y \in Nat : x < y => <<x, y>> \in R
  BY DEF OpToRel
<1> HIDE DEF R
<1>3. PICK x \in T : \A y \in T : ~(<<y, x>> \in R)
  BY <1>1, WFMin, Zenon
<1>4. ASSUME NEW y \in T PROVE x <= y
  <2>1. x \in Nat /\ y \in Nat
    OBVIOUS
  <2>2. ~(y < x)
    BY <1>2, <1>3, <2>1, Zenon
  <2> QED BY <2>1, <2>2
<1> QED BY <1>4

\* Induction over the natural numbers, from the least counterexample.
LEMMA Ind ==
  ASSUME NEW T \in SUBSET Nat, 0 \in T, \A n \in T : n + 1 \in T
  PROVE  T = Nat
<1> SUFFICES ASSUME Nat \ T # {} PROVE FALSE
  BY Zenon
<1>1. PICK x \in Nat \ T : \A y \in Nat \ T : x <= y
  BY Least, Zenon
<1>2. x # 0 /\ x - 1 \in T
  BY <1>1
<1> QED BY <1>1, <1>2

\* An open gives out a handle that no open file has, if one is left.
LEMMA FreeHandleIsFree ==
    ASSUME NEW F \in FileSystem, HasFree(F), MaxOpens \in Nat
    PROVE  FreeHandle(F) \in Handles /\ F.open[FreeHandle(F)] = 0
<1> DEFINE T == {h \in Handles : F.open[h] = 0}
<1>1. T \in SUBSET Nat /\ T # {}
  BY DEF HasFree, Handles
<1> HIDE DEF T
<1>2. PICK h \in T : \A k \in T : h <= k
  BY <1>1, Least
<1>3. h \in Handles /\ F.open[h] = 0 /\ \A k \in 1..(h - 1) : F.open[k] # 0
  BY <1>2 DEF T, Handles
<1> QED BY <1>3 DEF FreeHandle

-----------------------------------------------------------------------------
(* make_call, one kind of function at a time. *)

\* make_call for a function that only asks for a path: the answer is whether
\* the path exists.
LEMMA CallPlain ==
    ASSUME NEW F, NEW T, NEW c, NEW dead, c.kind = "plain"
    PROVE  make_call(F, T, c, dead) =
             [fs |-> F, fhs |-> T, ok |-> c.path \in F.paths]
BY DEF make_call

\* make_call for mknod, mkdir, symlink and link.
LEMMA CallMake ==
    ASSUME NEW F, NEW T, NEW c, NEW dead, c.kind = "make"
    PROVE  make_call(F, T, c, dead) =
             IF c.path \in F.paths
               THEN [fs |-> F, fhs |-> T, ok |-> FALSE]
               ELSE [fs |-> [F EXCEPT !.paths = F.paths \cup {c.path}],
                     fhs |-> T, ok |-> TRUE]
<1>1. ASSUME c.path \in F.paths
      PROVE  make_call(F, T, c, dead) = [fs |-> F, fhs |-> T, ok |-> FALSE]
  BY <1>1, Zenon DEF make_call
<1>2. ASSUME c.path \notin F.paths
      PROVE  make_call(F, T, c, dead) =
               [fs |-> [F EXCEPT !.paths = F.paths \cup {c.path}],
                fhs |-> T, ok |-> TRUE]
  BY <1>2, Zenon DEF make_call
<1> QED BY <1>1, <1>2, Zenon

\* make_call for open and opendir.
LEMMA CallOpens ==
    ASSUME NEW F, NEW T, NEW c, NEW dead, c.kind = "open"
    PROVE  make_call(F, T, c, dead) = CallOpen(F, T, c)
BY DEF make_call

\* make_call for create, which enters the handle without counting it.
LEMMA CallCreate ==
    ASSUME NEW F, NEW T, NEW c, NEW dead, c.kind = "create"
    PROVE  make_call(F, T, c, dead) =
             [fs |-> Opened(F, c.path, c.id),
              fhs |-> store_fh(T, c.path, FreeHandle(F)), ok |-> TRUE]
BY Zenon DEF make_call

\* make_call for a create that fails, which enters a handle all the same.
LEMMA CallNoCreate ==
    ASSUME NEW F, NEW T, NEW c, NEW dead, c.kind = "nocreate"
    PROVE  make_call(F, T, c, dead) =
             [fs |-> F, fhs |-> store_fh(T, c.path, 0), ok |-> FALSE]
BY Zenon DEF make_call

\* make_call for releasedir, which calls nothing and changes nothing.
LEMMA CallReleasedir ==
    ASSUME NEW F, NEW T, NEW c, NEW dead, c.kind = "releasedir"
    PROVE  make_call(F, T, c, dead) = [fs |-> F, fhs |-> T, ok |-> FALSE]
BY Zenon DEF make_call

\* make_call for a function that takes a handle from the table.
LEMMA CallUse ==
    ASSUME NEW F, NEW T, NEW c, NEW dead, c.kind = "use"
    PROVE  make_call(F, T, c, dead) =
             [fs |-> F, fhs |-> T,
              ok |-> IsLive(F, path_to_fh(T, c.path)) \/ dead]
BY DEF make_call

\* make_call for release: the handle is closed if it is open, and stays in the
\* table.
LEMMA CallRelease ==
    ASSUME NEW F, NEW T, NEW c, NEW dead, c.kind = "release"
    PROVE  make_call(F, T, c, dead) =
             LET fh == path_to_fh(T, c.path)
             IN  IF IsLive(F, fh)
                   THEN [fs |-> [F EXCEPT !.open = [F.open EXCEPT ![fh] = 0]],
                         fhs |-> T, ok |-> TRUE]
                   ELSE [fs |-> F, fhs |-> T, ok |-> dead]
<1> DEFINE fh == path_to_fh(T, c.path)
<1>1. ASSUME IsLive(F, fh)
      PROVE  make_call(F, T, c, dead) =
               [fs |-> [F EXCEPT !.open = [F.open EXCEPT ![fh] = 0]],
                fhs |-> T, ok |-> TRUE]
  BY <1>1, Zenon DEF make_call
<1>2. ASSUME ~IsLive(F, fh)
      PROVE  make_call(F, T, c, dead) = [fs |-> F, fhs |-> T, ok |-> dead]
  BY <1>2 DEF make_call
<1> QED BY <1>1, <1>2, Zenon

\* make_call for unlink and rmdir.
LEMMA CallRemove ==
    ASSUME NEW F, NEW T, NEW c, NEW dead, c.kind = "remove"
    PROVE  make_call(F, T, c, dead) =
             [fs |-> [F EXCEPT !.paths = F.paths \ {c.path}],
              fhs |-> destroy_fh(T, c.path), ok |-> c.path \in F.paths]
BY DEF make_call

\* make_call for rename: the table does not follow.
LEMMA CallRename ==
    ASSUME NEW F, NEW T, NEW c, NEW dead, c.kind = "rename"
    PROVE  make_call(F, T, c, dead) =
             IF c.path \notin F.paths
               THEN [fs |-> F, fhs |-> T, ok |-> FALSE]
               ELSE [fs |-> [F EXCEPT !.paths =
                                 (F.paths \ {c.path}) \cup {c.new}],
                     fhs |-> T, ok |-> TRUE]
<1>1. ASSUME c.path \notin F.paths
      PROVE  make_call(F, T, c, dead) = [fs |-> F, fhs |-> T, ok |-> FALSE]
  BY <1>1, Zenon DEF make_call
<1>2. ASSUME c.path \in F.paths
      PROVE  make_call(F, T, c, dead) =
               [fs |-> [F EXCEPT !.paths = (F.paths \ {c.path}) \cup {c.new}],
                fhs |-> T, ok |-> TRUE]
  BY <1>2, Zenon DEF make_call
<1> QED BY <1>1, <1>2, Zenon

\* What a call does to the paths, and whether it succeeds when no handle is
\* concerned.
PathsAfter(P, c) ==
    IF c.kind \in {"make", "create"} THEN P \cup {c.path}
    ELSE IF c.kind = "remove" THEN P \ {c.path}
    ELSE IF c.kind = "rename" /\ c.path \in P THEN (P \ {c.path}) \cup {c.new}
    ELSE P

Succeeds(P, c) ==
    \/ c.kind = "create"
    \/ c.kind = "make" /\ c.path \notin P
    \/ c.kind \notin {"make", "nocreate", "releasedir"} /\ c.path \in P

\* make_call does to the paths what PathsAfter says, and the answer of a call
\* without a handle depends on the paths alone: two file systems with the same
\* paths give the same answer.
LEMMA CallPaths ==
    ASSUME NEW F \in FileSystem, NEW T, NEW c \in Call, NEW dead,
           c.kind # "lacking"
    PROVE  /\ make_call(F, T, c, dead).fs.paths = PathsAfter(F.paths, c)
           /\ c.kind \notin {"use", "release"} =>
                make_call(F, T, c, dead).ok <=> Succeeds(F.paths, c)
<1> DEFINE m == make_call(F, T, c, dead)
<1> USE DEF PathsAfter, Succeeds
<1>1. CASE c.kind = "plain"
  <2>1. m.fs.paths = F.paths /\ m.ok = (c.path \in F.paths)
    BY <1>1, CallPlain
  <2> QED BY <1>1, <2>1, Zenon
<1>2. CASE c.kind = "make"
  <2>1. CASE c.path \in F.paths
    <3>1. m = [fs |-> F, fhs |-> T, ok |-> FALSE]
      BY <1>2, <2>1, CallMake
    <3>2. PathsAfter(F.paths, c) = F.paths /\ ~Succeeds(F.paths, c)
      BY <1>2, <2>1
    <3> QED BY <3>1, <3>2
  <2>2. CASE c.path \notin F.paths
    <3>1. m = [fs |-> [F EXCEPT !.paths = F.paths \cup {c.path}],
               fhs |-> T, ok |-> TRUE]
      BY <1>2, <2>2, CallMake
    <3>2. m.fs.paths = F.paths \cup {c.path} /\ m.ok = TRUE
      BY <3>1 DEF FileSystem
    <3> QED BY <1>2, <2>2, <3>2
  <2> QED BY <2>1, <2>2
<1>3. CASE c.kind = "open"
  <2>1. m = CallOpen(F, T, c)
    BY <1>3, CallOpens
  <2>2. CallOpen(F, T, c).ok = (c.path \in F.paths)
    BY DEF CallOpen
  <2>3. CallOpen(F, T, c).fs.paths = F.paths
    <3>1. CASE c.path \in F.paths
      <4>1. CallOpen(F, T, c).fs = Opened(F, c.path, c.id)
        BY <3>1 DEF CallOpen
      <4>2. Opened(F, c.path, c.id).paths = F.paths \cup {c.path}
        BY DEF Opened
      <4> QED BY <3>1, <4>1, <4>2
    <3>2. CASE c.path \notin F.paths
      BY <3>2 DEF CallOpen
    <3> QED BY <3>1, <3>2
  <2> QED BY <1>3, <2>1, <2>2, <2>3, Zenon
<1>4. CASE c.kind = "create"
  <2>1. m.fs.paths = F.paths \cup {c.path} /\ m.ok = TRUE
    BY <1>4, CallCreate DEF Opened
  <2> QED BY <1>4, <2>1
<1>5. CASE c.kind = "use"
  BY <1>5, CallUse
<1>6. CASE c.kind = "release"
  <2>1. m.fs.paths = F.paths
    BY <1>6, CallRelease DEF FileSystem
  <2> QED BY <1>6, <2>1
<1>7. CASE c.kind = "remove"
  <2>1. m.fs.paths = F.paths \ {c.path} /\ m.ok = (c.path \in F.paths)
    BY <1>7, CallRemove DEF FileSystem
  <2> QED BY <1>7, <2>1, Zenon
<1>8. CASE c.kind = "rename"
  <2>1. CASE c.path \notin F.paths
    <3>1. m = [fs |-> F, fhs |-> T, ok |-> FALSE]
      BY <1>8, <2>1, CallRename
    <3>2. PathsAfter(F.paths, c) = F.paths /\ ~Succeeds(F.paths, c)
      BY <1>8, <2>1
    <3> QED BY <3>1, <3>2
  <2>2. CASE c.path \in F.paths
    <3>1. m = [fs |-> [F EXCEPT !.paths = (F.paths \ {c.path}) \cup {c.new}],
               fhs |-> T, ok |-> TRUE]
      BY <1>8, <2>2, CallRename
    <3>2. m.fs.paths = (F.paths \ {c.path}) \cup {c.new} /\ m.ok = TRUE
      BY <3>1 DEF FileSystem
    <3> QED BY <1>8, <2>2, <3>2
  <2> QED BY <2>1, <2>2
<1>9. CASE c.kind = "nocreate"
  <2>1. m.fs.paths = F.paths /\ m.ok = FALSE
    BY <1>9, CallNoCreate
  <2> QED BY <1>9, <2>1
<1>10. CASE c.kind = "releasedir"
  <2>1. m.fs.paths = F.paths /\ m.ok = FALSE
    BY <1>10, CallReleasedir
  <2> QED BY <1>10, <2>1
<1> QED
  BY <1>1, <1>2, <1>3, <1>4, <1>5, <1>6, <1>7, <1>8, <1>9, <1>10, Zenon
  DEF Call

\* What a call does to the handles of the file system.
HandlesAfter(F, T, c) ==
    IF c.kind = "create" \/ (c.kind = "open" /\ c.path \in F.paths)
      THEN [F.open EXCEPT ![FreeHandle(F)] = c.id]
    ELSE IF c.kind = "release" /\ IsLive(F, path_to_fh(T, c.path))
      THEN [F.open EXCEPT ![path_to_fh(T, c.path)] = 0]
    ELSE F.open

\* make_call does to the handles of the file system what HandlesAfter says.
LEMMA CallHandles ==
    ASSUME NEW F \in FileSystem, NEW T, NEW c \in Call, NEW dead,
           c.kind # "lacking"
    PROVE  make_call(F, T, c, dead).fs.open = HandlesAfter(F, T, c)
<1> DEFINE m == make_call(F, T, c, dead)
<1>1. CASE c.kind = "plain"
  <2>1. m.fs = F
    BY <1>1, CallPlain
  <2> QED BY <1>1, <2>1 DEF HandlesAfter
<1>2. CASE c.kind = "make"
  <2>1. m.fs.open = F.open
    BY <1>2, CallMake DEF FileSystem
  <2> QED BY <1>2, <2>1 DEF HandlesAfter
<1>3. CASE c.kind = "open"
  <2>1. m.fs = CallOpen(F, T, c).fs
    BY <1>3, CallOpens
  <2>2. CASE c.path \in F.paths
    <3>1. CallOpen(F, T, c).fs = Opened(F, c.path, c.id)
      BY <2>2 DEF CallOpen
    <3>2. Opened(F, c.path, c.id).open =
            [F.open EXCEPT ![FreeHandle(F)] = c.id]
      BY DEF Opened
    <3> QED BY <1>3, <2>1, <2>2, <3>1, <3>2 DEF HandlesAfter
  <2>3. CASE c.path \notin F.paths
    <3>1. CallOpen(F, T, c).fs = F
      BY <2>3 DEF CallOpen
    <3> QED BY <1>3, <2>1, <2>3, <3>1 DEF HandlesAfter
  <2> QED BY <2>2, <2>3
<1>4. CASE c.kind = "create"
  <2>1. m.fs.open = [F.open EXCEPT ![FreeHandle(F)] = c.id]
    BY <1>4, CallCreate DEF Opened
  <2> QED BY <1>4, <2>1 DEF HandlesAfter
<1>5. CASE c.kind = "use"
  <2>1. m.fs = F
    BY <1>5, CallUse
  <2> QED BY <1>5, <2>1 DEF HandlesAfter
<1>6. CASE c.kind = "release"
  <2> DEFINE fh == path_to_fh(T, c.path)
  <2>1. CASE IsLive(F, fh)
    <3>1. m.fs = [F EXCEPT !.open = [F.open EXCEPT ![fh] = 0]]
      BY <1>6, <2>1, CallRelease
    <3>2. m.fs.open = [F.open EXCEPT ![fh] = 0]
      BY <3>1 DEF FileSystem
    <3> QED BY <1>6, <2>1, <3>2 DEF HandlesAfter
  <2>2. CASE ~IsLive(F, fh)
    <3>1. m.fs = F
      BY <1>6, <2>2, CallRelease
    <3> QED BY <1>6, <2>2, <3>1 DEF HandlesAfter
  <2> QED BY <2>1, <2>2
<1>7. CASE c.kind = "remove"
  <2>1. m.fs.open = F.open
    BY <1>7, CallRemove DEF FileSystem
  <2> QED BY <1>7, <2>1 DEF HandlesAfter
<1>8. CASE c.kind = "rename"
  <2>1. m.fs.open = F.open
    BY <1>8, CallRename DEF FileSystem
  <2> QED BY <1>8, <2>1 DEF HandlesAfter
<1>9. CASE c.kind = "nocreate"
  <2>1. m.fs = F
    BY <1>9, CallNoCreate
  <2> QED BY <1>9, <2>1 DEF HandlesAfter
<1>10. CASE c.kind = "releasedir"
  <2>1. m.fs = F
    BY <1>10, CallReleasedir
  <2> QED BY <1>10, <2>1 DEF HandlesAfter
<1> QED
  BY <1>1, <1>2, <1>3, <1>4, <1>5, <1>6, <1>7, <1>8, <1>9, <1>10, Zenon
  DEF Call

\* What a call does to the table.
TableAfter(F, T, c) ==
    IF c.kind = "open"
      THEN increment_open(store_fh(T, c.path, IF c.path \in F.paths
                                                THEN FreeHandle(F) ELSE 0),
                          c.path)
    ELSE IF c.kind = "create" THEN store_fh(T, c.path, FreeHandle(F))
    ELSE IF c.kind = "nocreate" THEN store_fh(T, c.path, 0)
    ELSE IF c.kind = "remove" THEN destroy_fh(T, c.path)
    ELSE T

\* make_call does to the table what TableAfter says: it does not depend on
\* whether the call succeeds.
LEMMA CallTable ==
    ASSUME NEW F, NEW T, NEW c \in Call, NEW dead, c.kind # "lacking"
    PROVE  make_call(F, T, c, dead).fhs = TableAfter(F, T, c)
<1> DEFINE m == make_call(F, T, c, dead)
<1>1. CASE c.kind \in {"plain", "make", "use", "release", "releasedir",
                      "rename"}
  <2>1. m.fhs = T
    BY <1>1, CallPlain, CallMake, CallUse, CallRelease, CallReleasedir,
       CallRename
  <2> QED BY <1>1, <2>1 DEF TableAfter
<1>2. CASE c.kind = "open"
  <2>1. m.fhs = CallOpen(F, T, c).fhs
    BY <1>2, CallOpens
  <2> QED BY <1>2, <2>1 DEF TableAfter, CallOpen
<1>3. CASE c.kind = "create"
  BY <1>3, CallCreate DEF TableAfter
<1>4. CASE c.kind = "remove"
  BY <1>4, CallRemove DEF TableAfter
<1>5. CASE c.kind = "nocreate"
  BY <1>5, CallNoCreate DEF TableAfter
<1> QED BY <1>1, <1>2, <1>3, <1>4, <1>5, Zenon DEF Call

\* What make_call returns.
Answer == [fs : FileSystem, fhs : Table, ok : BOOLEAN]

\* A file system, a table and a verdict make an answer.
LEMMA AnswerOf ==
    ASSUME NEW F \in FileSystem, NEW T \in Table, NEW b \in BOOLEAN
    PROVE  [fs |-> F, fhs |-> T, ok |-> b] \in Answer
BY DEF Answer

\* A call with a handle succeeds if the handle is open; if not, the file
\* system under test decides.
LEMMA CallWithHandle ==
    ASSUME NEW F, NEW T, NEW c, NEW dead \in BOOLEAN,
           c.kind \in {"use", "release"}
    PROVE  make_call(F, T, c, dead).ok <=>
             IsLive(F, path_to_fh(T, c.path)) \/ dead
<1> DEFINE m == make_call(F, T, c, dead)
<1>1. CASE c.kind = "use"
  <2>1. m = [fs |-> F, fhs |-> T,
             ok |-> IsLive(F, path_to_fh(T, c.path)) \/ dead]
    BY <1>1, CallUse
  <2>2. m.ok = (IsLive(F, path_to_fh(T, c.path)) \/ dead)
    BY <2>1
  <2> QED BY <2>2, Zenon
<1>2. CASE c.kind = "release"
  <2>1. CASE IsLive(F, path_to_fh(T, c.path))
    <3>1. m.ok = TRUE
      BY <1>2, <2>1, CallRelease
    <3> QED BY <2>1, <3>1
  <2>2. CASE ~IsLive(F, path_to_fh(T, c.path))
    <3>1. m.ok = dead
      BY <1>2, <2>2, CallRelease
    <3> QED BY <2>2, <3>1
  <2> QED BY <2>1, <2>2
<1> QED BY <1>1, <1>2

\* make_call is given a file system and a table and returns such.
LEMMA CallIsAnswer ==
    ASSUME MaxOpens \in Nat,
           NEW F \in FileSystem, NEW T \in Table, NEW c \in Call,
           NEW dead \in BOOLEAN, c.kind = "rename" => c.new \in Paths,
           c.kind \in {"open", "create"} => HasFree(F), c.kind # "lacking"
    PROVE  make_call(F, T, c, dead) \in Answer
<1> DEFINE m == make_call(F, T, c, dead)
<1>1. /\ c.path \in Paths /\ c.id \in Nat
      /\ F.paths \subseteq Paths /\ F.open \in [Handles -> Nat]
  BY Zenon DEF Call, FileSystem
<1>2. /\ TRUE \in BOOLEAN /\ FALSE \in BOOLEAN
      /\ (c.path \in F.paths) \in BOOLEAN
  OBVIOUS
<1>3. CASE c.kind \in {"open", "create"}
  <2>1. FreeHandle(F) \in Handles /\ FreeHandle(F) \in Nat /\ 0 \in Nat
    BY <1>3, FreeHandleIsFree DEF Handles
  <2>2. Opened(F, c.path, c.id) \in FileSystem
    BY <1>1, <2>1 DEF Opened, FileSystem
  <2>3. /\ store_fh(T, c.path, FreeHandle(F)) \in Table
        /\ store_fh(T, c.path, 0) \in Table
    BY <1>1, <2>1, TableOperations
  <2>4. CASE c.kind = "create"
    BY <1>2, <2>2, <2>3, <2>4, CallCreate, AnswerOf, Zenon
  <2>5. CASE c.kind = "open"
    <3>1. /\ increment_open(store_fh(T, c.path, FreeHandle(F)), c.path)
               \in Table
          /\ increment_open(store_fh(T, c.path, 0), c.path) \in Table
      BY <1>1, <2>1, <2>3, TableOperations, Zenon
    <3>2. m = CallOpen(F, T, c)
      BY <2>5, CallOpens
    <3>3. CASE c.path \in F.paths
      <4>1. CallOpen(F, T, c) =
              [fs |-> Opened(F, c.path, c.id), ok |-> TRUE,
               fhs |-> increment_open(store_fh(T, c.path, FreeHandle(F)),
                                       c.path)]
        BY <3>3, Zenon DEF CallOpen
      <4> QED BY <1>2, <2>2, <3>1, <3>2, <4>1, AnswerOf, Zenon
    <3>4. CASE c.path \notin F.paths
      <4>1. CallOpen(F, T, c) =
              [fs |-> F, ok |-> FALSE,
               fhs |-> increment_open(store_fh(T, c.path, 0), c.path)]
        <5>1. /\ (IF c.path \in F.paths THEN FreeHandle(F) ELSE 0) = 0
              /\ (IF c.path \in F.paths THEN Opened(F, c.path, c.id) ELSE F)
                   = F
              /\ (c.path \in F.paths) = FALSE
          BY <3>4
        <5> QED BY <5>1, Zenon DEF CallOpen
      <4> QED BY <1>2, <3>1, <3>2, <4>1, AnswerOf, Zenon
    <3> QED BY <3>3, <3>4
  <2> QED BY <1>3, <2>4, <2>5
<1>4. CASE c.kind = "plain"
  BY <1>2, <1>4, CallPlain, AnswerOf, ZenonT(40)
<1>5. CASE c.kind = "make"
  <2>1. [F EXCEPT !.paths = F.paths \cup {c.path}] \in FileSystem
    BY <1>1 DEF FileSystem
  <2>2. \/ m = [fs |-> F, fhs |-> T, ok |-> FALSE]
        \/ m = [fs |-> [F EXCEPT !.paths = F.paths \cup {c.path}],
                fhs |-> T, ok |-> TRUE]
    BY <1>5, CallMake
  <2> QED BY <1>2, <2>1, <2>2, AnswerOf, Zenon
<1>6. CASE c.kind = "use"
  <2>1. (IsLive(F, path_to_fh(T, c.path)) \/ dead) \in BOOLEAN
    BY Zenon
  <2> QED BY <1>6, <2>1, CallUse, AnswerOf, ZenonT(40)
<1>7. CASE c.kind = "release"
  <2> DEFINE fh == path_to_fh(T, c.path)
  <2>1. IsLive(F, fh) =>
          [F EXCEPT !.open = [F.open EXCEPT ![fh] = 0]] \in FileSystem
    BY <1>1 DEF FileSystem, IsLive
  <2>2. \/ m = [fs |-> F, fhs |-> T, ok |-> dead]
        \/ /\ IsLive(F, fh)
           /\ m = [fs |-> [F EXCEPT !.open = [F.open EXCEPT ![fh] = 0]],
                   fhs |-> T, ok |-> TRUE]
    BY <1>7, CallRelease
  <2> QED BY <1>2, <2>1, <2>2, AnswerOf, Zenon
<1>8. CASE c.kind = "remove"
  <2>1. [F EXCEPT !.paths = F.paths \ {c.path}] \in FileSystem
    BY <1>1 DEF FileSystem
  <2>2. destroy_fh(T, c.path) \in Table
    <3>1. 0 \in Nat
      OBVIOUS
    <3> QED BY <1>1, <3>1, TableOperations
  <2> QED BY <1>2, <1>8, <2>1, <2>2, CallRemove, AnswerOf, Zenon
<1>9. CASE c.kind = "rename"
  <2>1. [F EXCEPT !.paths = (F.paths \ {c.path}) \cup {c.new}] \in FileSystem
    BY <1>1, <1>9 DEF FileSystem
  <2>2. \/ m = [fs |-> F, fhs |-> T, ok |-> FALSE]
        \/ m = [fs |-> [F EXCEPT !.paths = (F.paths \ {c.path}) \cup {c.new}],
                fhs |-> T, ok |-> TRUE]
    BY <1>9, CallRename
  <2> QED BY <1>2, <2>1, <2>2, AnswerOf, Zenon
<1>10. CASE c.kind = "nocreate"
  <2>1. store_fh(T, c.path, 0) \in Table
    <3>1. 0 \in Nat
      OBVIOUS
    <3> QED BY <1>1, <3>1, TableOperations
  <2> QED BY <1>2, <1>10, <2>1, CallNoCreate, AnswerOf, Zenon
<1>11. CASE c.kind = "releasedir"
  BY <1>2, <1>11, CallReleasedir, AnswerOf, Zenon
<1> QED
  BY <1>3, <1>4, <1>5, <1>6, <1>7, <1>8, <1>9, <1>10, <1>11, Zenon DEF Call

\* The runner's own variables.
Run == [number : Nat, group : Nat, sequence : Nat, groups : Int,
        sequences : Int, calls : Int, all_passed : BOOLEAN,
        group_passed : BOOLEAN, lacking : BOOLEAN]

-----------------------------------------------------------------------------
(* Types, and what each step does to the runner. *)

\* Types of the runner's variables.
TypeInv ==
    /\ pc \in {"idle", "groups", "sequences", "calls", "failed", "reset",
               "end"}
    /\ fs \in [FileSystems -> FileSystem]
    /\ fhs \in [FileSystems -> Table]
    /\ recorded \subseteq [id : Nat \ {0}, path : Paths]
    /\ IsFiniteSet(recorded)
    /\ run \in Run
    /\ conforming \in BOOLEAN /\ tame \in BOOLEAN /\ clean \in BOOLEAN

\* The bounds of the model are natural numbers.
LEMMA Bounds ==
    /\ MaxCalls \in Nat /\ LaterCalls \in Nat /\ MaxOpens \in Nat
    /\ MaxGroups \in Nat /\ MaxSequences \in Nat
BY TestsuiteAssumption

\* The values of a function on a finite set are finitely many.
LEMMA FinitelyManyValues ==
    ASSUME NEW S, IsFiniteSet(S), NEW g
    PROVE  IsFiniteSet({g[x] : x \in S})
<1> DEFINE R == {g[x] : x \in S}
           k == [x \in S |-> g[x]]
<1>1. k \in Surjection(S, R)
  BY DEF Surjection
<1> HIDE DEF k, R
<1>2. IsFiniteSet(R)
  BY <1>1, FS_Surjection
<1> QED BY <1>2 DEF R

\* The id of a new open is that of no open file.
LEMMA FreshIdIsFresh ==
    ASSUME IsFiniteSet(recorded)
    PROVE  FreshId \in Nat \ {0} /\ \A r \in recorded : r.id # FreshId
<1> DEFINE N == Cardinality(UsedIds) + 1
           Ids == {r.id : r \in recorded}
           Given(f) == {fs[f].open[h] : h \in Handles}
<1>1. IsFiniteSet(Ids)
  <2> DEFINE g == [r \in recorded |-> r.id]
  <2>1. g \in Surjection(recorded, Ids)
    BY DEF Surjection
  <2> HIDE DEF g, Ids
  <2> QED BY <2>1, FS_Surjection
<1>2. IsFiniteSet(Given("passthru")) /\ IsFiniteSet(Given("real"))
  <2>1. IsFiniteSet(Handles)
    BY Bounds, FS_Interval DEF Handles
  <2> QED BY <2>1, FinitelyManyValues, Zenon
<1>3. UsedIds = (Ids \cup Given("passthru")) \cup Given("real")
  <2>1. ASSUME NEW x
        PROVE  x \in UsedIds <=> \/ x \in Ids \/ x \in Given("passthru")
                                 \/ x \in Given("real")
    BY Zenon DEF UsedIds, FileSystems
  <2> HIDE DEF Ids, Given
  <2> QED BY <2>1
<1> HIDE DEF Ids, Given
<1>4. IsFiniteSet(UsedIds) /\ Cardinality(UsedIds) \in Nat
  <2>1. IsFiniteSet(Ids \cup Given("passthru"))
    BY <1>1, <1>2, FS_Union, Zenon
  <2>2. IsFiniteSet(UsedIds)
    BY <1>2, <1>3, <2>1, FS_Union, Zenon
  <2> QED BY <2>2, FS_CardinalityType
<1>5. Cardinality(1..N) = N
  BY <1>4, FS_Interval
<1>6. ~(1..N \subseteq UsedIds)
  BY <1>4, <1>5, FS_Subset
<1>7. \E i \in 1..N : i \notin UsedIds
  BY <1>6
<1>8. FreshId \in 1..N /\ FreshId \notin UsedIds
  BY <1>7, Zenon DEF FreshId
<1>9. \A r \in recorded : r.id \in UsedIds
  BY Zenon DEF UsedIds
<1> QED BY <1>4, <1>8, <1>9

\* A call of a recording is a call, and an open finds a handle to give out in
\* both file systems.
LEMMA CallFits ==
    ASSUME TypeInv, NEW c \in RecordableCalls
    PROVE  /\ c \in Call /\ Recordable(c)
           /\ c.kind = "rename" => c.new \in Paths
           /\ c.kind \in {"open", "create"} =>
                /\ \A f \in FileSystems : HasFree(fs[f])
                /\ c.id \in Nat \ {0}
                /\ \A r \in recorded : r.id # c.id
<1>1. Recordable(c)
  BY Zenon DEF RecordableCalls
<1> DEFINE Plain == {"plain", "make", "nocreate", "use", "release",
                     "releasedir", "remove", "lacking"}
<1>2. CASE c \in [kind : Plain, path : Paths, new : {""}, id : {0}]
  <2>1. /\ c \in Call
        /\ c.kind \notin {"open", "create", "rename"}
    <3>1. /\ c.kind \in Plain
          /\ c.path \in Paths /\ c.new = "" /\ c.id = 0
          /\ c = [kind |-> c.kind, path |-> c.path, new |-> c.new,
                  id |-> c.id]
      BY <1>2, Zenon
    <3>2. c.id \in Nat
      <4>1. c.id = 0
        BY <3>1, Zenon
      <4> QED BY <4>1
    <3> QED BY <3>1, <3>2, Zenon DEF Call
  <2> QED BY <1>1, <2>1
<1>3. CASE c \in [kind : {"open", "create"}, path : Paths, new : {""},
                  id : {FreshId}]
  <2>1. c.kind \in {"open", "create"} /\ c.id = FreshId
    BY <1>3, Zenon
  <2>2. \A f \in FileSystems : HasFree(fs[f])
    BY <1>1, <2>1 DEF Recordable, HasFree
  <2>3. FreshId \in Nat \ {0} /\ \A r \in recorded : r.id # FreshId
    BY FreshIdIsFresh DEF TypeInv
  <2>4. c \in Call
    BY <1>3, <2>3, Zenon DEF Call
  <2> QED BY <1>1, <2>1, <2>2, <2>3, <2>4
<1>4. CASE c \in [kind : {"rename"}, path : Paths, new : Paths, id : {0}]
  <2>1. c \in Call /\ c.kind = "rename" /\ c.new \in Paths
    <3>1. /\ c.kind = "rename" /\ c.path \in Paths /\ c.new \in Paths
          /\ c.id = 0
          /\ c = [kind |-> c.kind, path |-> c.path, new |-> c.new,
                  id |-> c.id]
      BY <1>4, Zenon
    <3>2. c.id \in Nat
      BY <3>1
    <3> QED BY <3>1, <3>2, Zenon DEF Call
  <2> QED BY <1>1, <2>1
<1> QED BY <1>2, <1>3, <1>4, Zenon DEF RecordableCalls

\* Whatever the file system under test answers, its table and its handles are
\* those that make_call leaves; if it conforms, so is the rest.
LEMMA RealIsCalled ==
    ASSUME TypeInv, NEW c \in RecordableCalls, c.kind # "lacking",
           NEW r \in RealAnswers(c)
    PROVE  /\ r \in Answer
           /\ \E dead \in BOOLEAN :
                LET m == make_call(fs["real"], fhs["real"], c, dead)
                IN  /\ r.fhs = m.fhs /\ r.fs.open = m.fs.open
                    /\ conforming => r = m
<1>1. /\ fs["real"] \in FileSystem /\ fhs["real"] \in Table
      /\ fs["real"].paths \in SUBSET Paths
  BY DEF TypeInv, FileSystems, FileSystem
<1>2. ASSUME NEW dead \in BOOLEAN
      PROVE  make_call(fs["real"], fhs["real"], c, dead) \in Answer
  BY <1>1, CallFits, CallIsAnswer, Bounds DEF FileSystems
<1> DEFINE right == {make_call(fs["real"], fhs["real"], c, dead) :
                        dead \in BOOLEAN}
<1>3. CASE r \in right
  <2>1. PICK dead \in BOOLEAN :
               r = make_call(fs["real"], fhs["real"], c, dead)
    BY <1>3
  <2> QED BY <1>2, <2>1
<1>4. ASSUME ~conforming, r \in {[q EXCEPT !.ok = ~ @] : q \in right}
      PROVE  /\ r \in Answer
             /\ \E dead \in BOOLEAN :
                  LET m == make_call(fs["real"], fhs["real"], c, dead)
                  IN  r.fhs = m.fhs /\ r.fs.open = m.fs.open
  <2>1. PICK dead \in BOOLEAN :
          r = [make_call(fs["real"], fhs["real"], c, dead) EXCEPT !.ok = ~ @]
    BY <1>4
  <2> DEFINE m == make_call(fs["real"], fhs["real"], c, dead)
  <2>2. m \in Answer
    BY <1>2
  <2> HIDE DEF m
  <2>3. r = [m EXCEPT !.ok = ~ @]
    BY <2>1 DEF m
  <2>4. r \in Answer /\ r.fhs = m.fhs /\ r.fs = m.fs
    BY <2>2, <2>3, Zenon DEF Answer
  <2> QED BY <2>4 DEF m
<1>5. ASSUME ~conforming,
             r \in {[q EXCEPT !.fs.paths = fs["real"].paths] : q \in right}
      PROVE  /\ r \in Answer
             /\ \E dead \in BOOLEAN :
                  LET m == make_call(fs["real"], fhs["real"], c, dead)
                  IN  r.fhs = m.fhs /\ r.fs.open = m.fs.open
  <2> DEFINE P == fs["real"].paths
  <2>1. PICK dead \in BOOLEAN :
          r = [make_call(fs["real"], fhs["real"], c, dead)
                 EXCEPT !.fs.paths = fs["real"].paths]
    BY <1>5
  <2> DEFINE m == make_call(fs["real"], fhs["real"], c, dead)
  <2>2. m \in Answer /\ P \in SUBSET Paths
    BY <1>1, <1>2
  <2> HIDE DEF m, P
  <2>3. r = [m EXCEPT !.fs.paths = P]
    BY <2>1 DEF m, P
  <2>4. r \in Answer /\ r.fhs = m.fhs /\ r.fs.open = m.fs.open
    BY <2>2, <2>3 DEF Answer, FileSystem
  <2> QED BY <2>4 DEF m
<1> QED BY <1>3, <1>4, <1>5 DEF RealAnswers

\* The smaller of two numbers, as Gone uses it for the calls left.
LEMMA LeastOfTwo ==
    ASSUME NEW a \in Int, NEW b \in Int
    PROVE  Min({a, b}) \in {a, b}
<1>1. \E x \in {a, b} : \A y \in {a, b} : x =< y
  BY SMTT(40)
<1> QED BY <1>1 DEF Min

\* The fields of run, and what counting up or down makes of them.
LEMMA RunFields ==
    ASSUME NEW r \in Run
    PROVE  /\ r.number \in Nat /\ r.group \in Nat /\ r.sequence \in Nat
           /\ r.groups \in Int /\ r.sequences \in Int /\ r.calls \in Int
           /\ r.all_passed \in BOOLEAN /\ r.group_passed \in BOOLEAN
           /\ r.lacking \in BOOLEAN
           /\ r.calls - 1 \in Int /\ r.groups - 1 \in Int
           /\ r.sequences - 1 \in Int /\ r.group + 1 \in Nat
           /\ r.sequence + 1 \in Nat /\ r.number + 1 \in Nat
<1>1. /\ r.number \in Nat /\ r.group \in Nat /\ r.sequence \in Nat
      /\ r.groups \in Int /\ r.sequences \in Int /\ r.calls \in Int
      /\ r.all_passed \in BOOLEAN /\ r.group_passed \in BOOLEAN
      /\ r.lacking \in BOOLEAN
  BY Zenon DEF Run
<1>2. /\ r.calls - 1 \in Int /\ r.groups - 1 \in Int
      /\ r.sequences - 1 \in Int /\ r.group + 1 \in Nat
      /\ r.sequence + 1 \in Nat /\ r.number + 1 \in Nat
  <2>1. /\ r.number \in Nat /\ r.group \in Nat /\ r.sequence \in Nat
        /\ r.groups \in Int /\ r.sequences \in Int /\ r.calls \in Int
    BY <1>1, Zenon
  <2> QED BY <2>1
<1> QED BY <1>1, <1>2, Zenon

\* run_test_sequence takes one call off the recording and sets all_passed.
LEMMA CallCounted ==
    ASSUME NEW r \in Run, NEW b \in BOOLEAN
    PROVE  LET q == [r EXCEPT !.calls = @ - 1, !.all_passed = b]
           IN  /\ q \in Run /\ q.group_passed = r.group_passed
               /\ q.all_passed = b /\ q.lacking = r.lacking
<1> DEFINE q == [r EXCEPT !.calls = @ - 1, !.all_passed = b]
<1>1. /\ q.group_passed = r.group_passed /\ q.all_passed = b
      /\ q.lacking = r.lacking
  BY DEF Run
<1>2. r.calls - 1 \in Int
  BY RunFields, Zenon
<1>3. q \in Run
  BY <1>2, Zenon DEF Run
<1> QED BY <1>1, <1>3

\* A function that the passthrough lacks is counted and fails the sequence.
LEMMA LackingCounted ==
    ASSUME NEW r \in Run
    PROVE  LET q == [r EXCEPT !.calls = @ - 1, !.all_passed = FALSE,
                              !.lacking = TRUE]
           IN  /\ q \in Run /\ q.group_passed = r.group_passed
               /\ q.all_passed = FALSE /\ q.lacking = TRUE
<1> DEFINE q == [r EXCEPT !.calls = @ - 1, !.all_passed = FALSE,
                          !.lacking = TRUE]
<1>1. /\ q.group_passed = r.group_passed /\ q.all_passed = FALSE
      /\ q.lacking = TRUE
  BY DEF Run
<1>2. r.calls - 1 \in Int
  BY RunFields, Zenon
<1>3. q \in Run
  BY <1>2, Zenon DEF Run
<1> QED BY <1>1, <1>3

\* A run that has just begun, or that is over, has nothing failed.
LEMMA NoRunIsRun ==
    ASSUME NEW n \in Nat, NEW k \in Int
    PROVE  /\ NoRun(n, k) \in Run
           /\ [NoRun(n, k) EXCEPT !.groups = MaxGroups] \in Run
           /\ NoRun(n, k).all_passed /\ NoRun(n, k).group_passed
           /\ NoRun(n, k).number = n
           /\ [NoRun(n, k) EXCEPT !.groups = MaxGroups].all_passed
           /\ [NoRun(n, k) EXCEPT !.groups = MaxGroups].group_passed
           /\ [NoRun(n, k) EXCEPT !.groups = MaxGroups].number = n
<1>1. 0 \in Nat /\ 0 \in Int /\ MaxGroups \in Int
  BY Bounds
<1>2. TRUE \in BOOLEAN /\ FALSE \in BOOLEAN
  OBVIOUS
<1>3. NoRun(n, k) \in Run
  BY <1>1, <1>2, Zenon DEF NoRun, Run
<1>4. [NoRun(n, k) EXCEPT !.groups = MaxGroups] \in Run
  BY <1>1, <1>3, Zenon DEF Run
<1>5. /\ NoRun(n, k).all_passed = TRUE /\ NoRun(n, k).group_passed = TRUE
      /\ NoRun(n, k).number = n
  BY Zenon DEF NoRun
<1>6. /\ [NoRun(n, k) EXCEPT !.groups = MaxGroups].all_passed = TRUE
      /\ [NoRun(n, k) EXCEPT !.groups = MaxGroups].group_passed = TRUE
      /\ [NoRun(n, k) EXCEPT !.groups = MaxGroups].number = n
  BY <1>3, <1>5 DEF Run
<1> QED BY <1>3, <1>4, <1>5, <1>6

\* What the start of a group, the start of a sequence and the end of a
\* sequence do to run: testsuite_grp_start forgets the verdict of the last
\* group, testsuite_seq_start that of the last sequence, and testsuite_seq_end
\* hands the verdict of the sequence on to its group.
LEMMA RunMoves ==
    ASSUME NEW r \in Run
    PROVE  /\ LET q == [r EXCEPT !.groups = @ - 1, !.sequences = MaxSequences,
                                 !.group = @ + 1, !.sequence = 0,
                                 !.group_passed = TRUE, !.all_passed = TRUE,
                                 !.lacking = FALSE]
              IN  /\ q \in Run /\ q.group_passed /\ q.all_passed
                  /\ q.number = r.number /\ q.group = r.group + 1
                  /\ q.sequence = 0
           /\ LET q == [r EXCEPT !.sequences = @ - 1, !.sequence = @ + 1,
                                 !.all_passed = TRUE]
              IN  /\ q \in Run /\ q.all_passed
                  /\ q.group_passed = r.group_passed
                  /\ q.lacking = r.lacking
                  /\ q.number = r.number /\ q.group = r.group
                  /\ q.sequence = r.sequence + 1
           /\ LET q == [r EXCEPT !.group_passed = @ /\ r.all_passed]
              IN  /\ q \in Run /\ q.all_passed = r.all_passed
                  /\ q.group_passed = (r.group_passed /\ r.all_passed)
                  /\ q.lacking = r.lacking
                  /\ q.number = r.number /\ q.group = r.group
                  /\ q.sequence = r.sequence
<1>1. 0 \in Nat /\ MaxSequences \in Int
  BY Bounds
<1>2. /\ TRUE \in BOOLEAN /\ FALSE \in BOOLEAN
      /\ (r.group_passed /\ r.all_passed) \in BOOLEAN
  BY Zenon
<1>3. LET q == [r EXCEPT !.groups = @ - 1, !.sequences = MaxSequences,
                         !.group = @ + 1, !.sequence = 0,
                         !.group_passed = TRUE, !.all_passed = TRUE,
                         !.lacking = FALSE]
      IN  /\ q \in Run /\ q.group_passed /\ q.all_passed
          /\ q.number = r.number /\ q.group = r.group + 1
          /\ q.sequence = 0
  <2> DEFINE q == [r EXCEPT !.groups = @ - 1, !.sequences = MaxSequences,
                            !.group = @ + 1, !.sequence = 0,
                            !.group_passed = TRUE, !.all_passed = TRUE,
                            !.lacking = FALSE]
  <2>1. q \in Run
    BY <1>1, <1>2, RunFields, Zenon DEF Run
  <2>2. /\ q.group_passed = TRUE /\ q.all_passed = TRUE
        /\ q.number = r.number /\ q.group = r.group + 1
        /\ q.sequence = 0
    BY DEF Run
  <2> QED BY <2>1, <2>2
<1>4. LET q == [r EXCEPT !.sequences = @ - 1, !.sequence = @ + 1,
                         !.all_passed = TRUE]
      IN  /\ q \in Run /\ q.all_passed
          /\ q.group_passed = r.group_passed
          /\ q.lacking = r.lacking
          /\ q.number = r.number /\ q.group = r.group
          /\ q.sequence = r.sequence + 1
  <2> DEFINE q == [r EXCEPT !.sequences = @ - 1, !.sequence = @ + 1,
                            !.all_passed = TRUE]
  <2>1. q \in Run
    BY <1>1, <1>2, RunFields, Zenon DEF Run
  <2>2. /\ q.all_passed = TRUE /\ q.group_passed = r.group_passed
        /\ q.lacking = r.lacking
        /\ q.number = r.number /\ q.group = r.group
        /\ q.sequence = r.sequence + 1
    BY DEF Run
  <2> QED BY <2>1, <2>2
<1>5. LET q == [r EXCEPT !.group_passed = @ /\ r.all_passed]
      IN  /\ q \in Run /\ q.all_passed = r.all_passed
          /\ q.group_passed = (r.group_passed /\ r.all_passed)
          /\ q.lacking = r.lacking
          /\ q.number = r.number /\ q.group = r.group
          /\ q.sequence = r.sequence
  <2> DEFINE b == r.group_passed /\ r.all_passed
             q == [r EXCEPT !.group_passed = b]
  <2>1. b \in BOOLEAN
    BY <1>2
  <2> HIDE DEF b
  <2>2. q \in Run
    BY <2>1, RunFields, Zenon DEF Run
  <2>3. /\ q.group_passed = b /\ q.all_passed = r.all_passed
        /\ q.lacking = r.lacking
        /\ q.number = r.number /\ q.group = r.group
        /\ q.sequence = r.sequence
    BY DEF Run
  <2> QED BY <2>2, <2>3, Zenon DEF b
<1> QED BY <1>3, <1>4, <1>5, Zenon

\* What one call does to the handles and to the table of a file system.
AfterCall(f, c) ==
    /\ fs[f]'.open = HandlesAfter(fs[f], fhs[f], c)
    /\ fhs[f]' = TableAfter(fs[f], fhs[f], c)

\* run_test_sequence, as the other lemmas use it. A function that the
\* passthrough lacks fails the sequence and does nothing else. Any other call
\* the passthrough does; either the file system under test does not have the
\* function and the sequence fails, or it does the call too. A conforming one
\* passes if the paths were the same and a handle that is used is open in
\* both; and if an open passes, the path existed in both or in neither.
LEMMA CallFrame ==
    ASSUME TypeInv, NEW c \in RecordableCalls, run_test_sequence(c)
    PROVE  /\ fs' \in [FileSystems -> FileSystem]
           /\ fhs' \in [FileSystems -> Table]
           /\ run' \in Run /\ run'.group_passed = run.group_passed
           /\ AfterCall("passthru", c)
           /\ fs["passthru"]'.paths = PathsAfter(fs["passthru"].paths, c)
           /\ \/ /\ c.kind = "lacking" /\ run'.lacking
                 /\ pc' = "failed" /\ ~run'.all_passed /\ UNCHANGED fs
              \/ /\ ~conforming
                 /\ pc' = "failed" /\ ~run'.all_passed
              \/ /\ AfterCall("real", c) /\ run'.lacking = run.lacking
                 /\ pc' = IF run'.all_passed THEN "calls" ELSE "failed"
                 /\ conforming =>
                      /\ fs["real"]'.paths = PathsAfter(fs["real"].paths, c)
                      /\ /\ fs["passthru"].paths = fs["real"].paths
                         /\ c.kind \in {"use", "release"} =>
                              \A f \in FileSystems :
                                IsLive(fs[f], fhs[f][c.path].fh)
                         => run'.all_passed
                      /\ c.kind = "open" /\ run'.all_passed =>
                           (c.path \in fs["passthru"].paths <=>
                              c.path \in fs["real"].paths)
<1> DEFINE P == fs["passthru"]  T == fhs["passthru"]
           R == fs["real"]      S == fhs["real"]
           p == make_call(P, T, c, FALSE)
<1>1. /\ P \in FileSystem /\ T \in Table /\ R \in FileSystem /\ S \in Table
      /\ fs \in [FileSystems -> FileSystem] /\ fhs \in [FileSystems -> Table]
      /\ run \in Run
  BY DEF TypeInv, FileSystems
<1>0. CASE c.kind = "lacking"
  <2>1. /\ run' = [run EXCEPT !.calls = @ - 1, !.all_passed = FALSE,
                              !.lacking = TRUE]
        /\ pc' = "failed" /\ fs' = fs /\ fhs' = fhs
    BY <1>0, Zenon DEF run_test_sequence, Goto
  <2>3. /\ run' \in Run /\ run'.group_passed = run.group_passed
        /\ run'.all_passed = FALSE /\ run'.lacking = TRUE
    BY <1>1, <2>1, LackingCounted, Zenon
  <2>4. AfterCall("passthru", c)
    BY <1>0, <2>1, Zenon DEF AfterCall, HandlesAfter, TableAfter
  <2>5. PathsAfter(P.paths, c) = P.paths
    BY <1>0, Zenon DEF PathsAfter
  <2> QED BY <1>0, <1>1, <2>1, <2>3, <2>4, <2>5, Zenon
<1> SUFFICES ASSUME c.kind # "lacking"
             PROVE  /\ fs' \in [FileSystems -> FileSystem]
                    /\ fhs' \in [FileSystems -> Table]
                    /\ run' \in Run /\ run'.group_passed = run.group_passed
                    /\ AfterCall("passthru", c)
                    /\ fs["passthru"]'.paths = PathsAfter(P.paths, c)
                    /\ \/ /\ ~conforming
                          /\ pc' = "failed" /\ ~run'.all_passed
                       \/ /\ AfterCall("real", c)
                          /\ run'.lacking = run.lacking
                          /\ pc' = IF run'.all_passed THEN "calls"
                                   ELSE "failed"
                          /\ conforming =>
                               /\ fs["real"]'.paths = PathsAfter(R.paths, c)
                               /\ /\ P.paths = R.paths
                                  /\ c.kind \in {"use", "release"} =>
                                       \A f \in FileSystems :
                                         IsLive(fs[f], fhs[f][c.path].fh)
                                  => run'.all_passed
                               /\ c.kind = "open" /\ run'.all_passed =>
                                    (c.path \in P.paths <=>
                                       c.path \in R.paths)
  BY <1>0, Zenon
<1>2. p \in Answer
  BY <1>1, CallFits, CallIsAnswer, Bounds, Zenon DEF FileSystems
<1>3. /\ p.fs \in FileSystem /\ p.fhs \in Table /\ p.ok \in BOOLEAN
      /\ p.fs.paths = PathsAfter(P.paths, c)
      /\ p.fs.open = HandlesAfter(P, T, c) /\ p.fhs = TableAfter(P, T, c)
      /\ c.kind \notin {"use", "release"} => (p.ok <=> Succeeds(P.paths, c))
      /\ c.kind \in {"use", "release"} => (p.ok <=> IsLive(P, T[c.path].fh))
  <2>1. c \in Call
    BY CallFits
  <2>2. p.fs \in FileSystem /\ p.fhs \in Table /\ p.ok \in BOOLEAN
    BY <1>2, Zenon DEF Answer
  <2>3. /\ p.fs.paths = PathsAfter(P.paths, c)
        /\ c.kind \notin {"use", "release"} => (p.ok <=> Succeeds(P.paths, c))
    BY <1>1, <2>1, CallPaths, Zenon
  <2>4. p.fs.open = HandlesAfter(P, T, c) /\ p.fhs = TableAfter(P, T, c)
    BY <1>1, <2>1, CallHandles, CallTable, ZenonT(40)
  <2>5. c.kind \in {"use", "release"} => (p.ok <=> IsLive(P, T[c.path].fh))
    BY CallWithHandle, Zenon DEF path_to_fh
  <2> QED BY <2>2, <2>3, <2>4, <2>5, Zenon
<1> HIDE DEF p
<1>4. CASE /\ ~conforming
           /\ fs' = [fs EXCEPT !["passthru"] = p.fs]
           /\ fhs' = [fhs EXCEPT !["passthru"] = p.fhs]
           /\ run' = [run EXCEPT !.calls = @ - 1, !.all_passed = FALSE]
           /\ pc' = "failed"
  <2>1. fs["passthru"]' = p.fs /\ fhs["passthru"]' = p.fhs
    BY <1>1, <1>4 DEF FileSystems
  <2>2. run' \in Run /\ run'.group_passed = run.group_passed
        /\ ~run'.all_passed
    <3>1. FALSE \in BOOLEAN
      OBVIOUS
    <3>2. /\ run' \in Run /\ run'.group_passed = run.group_passed
          /\ run'.all_passed = FALSE
      BY <1>1, <1>4, <3>1, CallCounted, Zenon
    <3> QED BY <3>2
  <2>3. fs' \in [FileSystems -> FileSystem] /\ fhs' \in [FileSystems -> Table]
    BY <1>1, <1>3, <1>4, Zenon
  <2>4. AfterCall("passthru", c)
    BY <1>3, <2>1 DEF AfterCall
  <2> QED BY <1>3, <1>4, <2>1, <2>2, <2>3, <2>4
<1>5. ASSUME NEW r \in RealAnswers(c), NEW passed,
             passed = (p.ok = r.ok /\ p.fs.paths \subseteq r.fs.paths),
             Played(c, p, r),
             run' = [run EXCEPT !.calls = @ - 1, !.all_passed = passed],
             pc' = IF passed THEN "calls" ELSE "failed"
      PROVE  /\ fs' \in [FileSystems -> FileSystem]
             /\ fhs' \in [FileSystems -> Table]
             /\ run' \in Run /\ run'.group_passed = run.group_passed
             /\ run'.lacking = run.lacking
             /\ AfterCall("passthru", c)
             /\ fs["passthru"]'.paths = PathsAfter(P.paths, c)
             /\ AfterCall("real", c)
             /\ pc' = IF run'.all_passed THEN "calls" ELSE "failed"
             /\ conforming =>
                  /\ fs["real"]'.paths = PathsAfter(R.paths, c)
                  /\ /\ P.paths = R.paths
                     /\ c.kind \in {"use", "release"} =>
                          \A f \in FileSystems :
                            IsLive(fs[f], fhs[f][c.path].fh)
                     => run'.all_passed
                  /\ c.kind = "open" /\ run'.all_passed =>
                       (c.path \in P.paths <=> c.path \in R.paths)
  <2>1. passed \in BOOLEAN
    BY <1>5, Zenon
  <2>2. /\ run' \in Run /\ run'.group_passed = run.group_passed
        /\ run'.all_passed = passed /\ run'.lacking = run.lacking
    BY <1>1, <1>5, <2>1, CallCounted, ZenonT(40)
  <2>3. r \in Answer
    BY RealIsCalled
  <2>4. PICK dead \in BOOLEAN :
          /\ r.fhs = make_call(R, S, c, dead).fhs
          /\ r.fs.open = make_call(R, S, c, dead).fs.open
          /\ conforming => r = make_call(R, S, c, dead)
    BY RealIsCalled
  <2>5. /\ r.fs.open = HandlesAfter(R, S, c) /\ r.fhs = TableAfter(R, S, c)
    BY <1>1, <2>4, CallFits, CallHandles, CallTable
  <2>6. /\ fs' \in [FileSystems -> FileSystem]
        /\ fhs' \in [FileSystems -> Table]
        /\ fs["passthru"]' = p.fs /\ fhs["passthru"]' = p.fhs
        /\ fs["real"]' = r.fs /\ fhs["real"]' = r.fhs
    <3>1. r.fs \in FileSystem /\ r.fhs \in Table
      BY <2>3 DEF Answer
    <3> QED BY <1>1, <1>3, <1>5, <3>1 DEF Played, FileSystems
  <2>7. AfterCall("passthru", c) /\ AfterCall("real", c)
    BY <1>3, <2>5, <2>6 DEF AfterCall
  <2>8. ASSUME conforming
        PROVE  /\ r.fs.paths = PathsAfter(R.paths, c)
               /\ c.kind \notin {"use", "release"} =>
                    (r.ok <=> Succeeds(R.paths, c))
               /\ c.kind \in {"use", "release"} =>
                    (r.ok <=> IsLive(R, S[c.path].fh) \/ dead)
    <3>1. r = make_call(R, S, c, dead)
      BY <2>4, <2>8
    <3>2. c \in Call
      BY CallFits
    <3>3. /\ r.fs.paths = PathsAfter(R.paths, c)
          /\ c.kind \notin {"use", "release"} =>
               (r.ok <=> Succeeds(R.paths, c))
      BY <1>1, <3>1, <3>2, CallPaths
    <3>4. c.kind \in {"use", "release"} =>
               (r.ok <=> IsLive(R, S[c.path].fh) \/ dead)
      BY <3>1, CallWithHandle DEF path_to_fh
    <3> QED BY <3>3, <3>4
  <2>9. ASSUME conforming, P.paths = R.paths,
               c.kind \in {"use", "release"} =>
                 \A f \in FileSystems : IsLive(fs[f], fhs[f][c.path].fh)
        PROVE  passed
    <3>1. p.fs.paths = r.fs.paths
      BY <1>3, <2>8, <2>9
    <3>2. p.ok <=> r.ok
      <4>1. CASE c.kind \in {"use", "release"}
        <5>1. IsLive(P, T[c.path].fh) /\ IsLive(R, S[c.path].fh)
          BY <2>9, <4>1 DEF FileSystems
        <5> QED BY <1>3, <2>8, <2>9, <4>1, <5>1
      <4>2. CASE c.kind \notin {"use", "release"}
        BY <1>3, <2>8, <2>9, <4>2
      <4> QED BY <4>1, <4>2
    <3>3. r.ok \in BOOLEAN /\ p.ok \in BOOLEAN
      BY <1>3, <2>3 DEF Answer
    <3> QED BY <1>5, <3>1, <3>2, <3>3, ZenonT(40)
  <2>10. ASSUME conforming, c.kind = "open", passed
         PROVE  c.path \in P.paths <=> c.path \in R.paths
    <3>1. p.ok = r.ok
      BY <1>5, <2>10, Zenon
    <3>2. (p.ok <=> Succeeds(P.paths, c)) /\ (r.ok <=> Succeeds(R.paths, c))
      BY <1>3, <2>8, <2>10
    <3> QED BY <2>10, <3>1, <3>2 DEF Succeeds
  <2> QED BY <1>3, <1>5, <2>2, <2>6, <2>7, <2>8, <2>9, <2>10
<1>6. \/ /\ ~conforming
         /\ fs' = [fs EXCEPT !["passthru"] = p.fs]
         /\ fhs' = [fhs EXCEPT !["passthru"] = p.fhs]
         /\ run' = [run EXCEPT !.calls = @ - 1, !.all_passed = FALSE]
         /\ pc' = "failed"
      \/ \E r \in RealAnswers(c) :
           LET passed == p.ok = r.ok /\ p.fs.paths \subseteq r.fs.paths IN
           /\ Played(c, p, r)
           /\ run' = [run EXCEPT !.calls = @ - 1, !.all_passed = passed]
           /\ pc' = IF passed THEN "calls" ELSE "failed"
  BY Zenon DEF run_test_sequence, Goto, p
<1>7. CASE \E r \in RealAnswers(c) :
             LET passed == p.ok = r.ok /\ p.fs.paths \subseteq r.fs.paths IN
             /\ Played(c, p, r)
             /\ run' = [run EXCEPT !.calls = @ - 1, !.all_passed = passed]
             /\ pc' = IF passed THEN "calls" ELSE "failed"
  <2>1. PICK r \in RealAnswers(c) :
             LET passed == p.ok = r.ok /\ p.fs.paths \subseteq r.fs.paths IN
             /\ Played(c, p, r)
             /\ run' = [run EXCEPT !.calls = @ - 1, !.all_passed = passed]
             /\ pc' = IF passed THEN "calls" ELSE "failed"
    BY <1>7, Zenon
  <2> QED BY <1>5, <2>1, Zenon
<1> QED BY <1>4, <1>6, <1>7, Zenon

\* Calls that open a file, and what a rename does to an open file.
Opens(c) == c.kind = "create" \/ (c.kind = "open" /\ Exists(c.path))
Moved(r, c) == [r EXCEPT !.path = IF @ = c.path THEN c.new ELSE @]

\* The four ways in which a call changes the files open in the recording.
LEMMA RecordCases ==
    ASSUME NEW c \in Call, NEW R \in Record(c)
    PROVE  \/ Opens(c) /\ R = recorded \cup {[id |-> c.id, path |-> c.path]}
           \/ /\ c.kind \in {"release", "releasedir"}
              /\ \E q \in recorded : q.path = c.path /\ R = recorded \ {q}
           \/ c.kind = "rename" /\ R = {Moved(r, c) : r \in recorded}
           \/ /\ ~Opens(c)
              /\ c.kind \notin {"release", "releasedir", "rename"}
              /\ R = recorded
<1>1. CASE Opens(c)
  <2>1. Record(c) = {recorded \cup {[id |-> c.id, path |-> c.path]}}
    BY <1>1 DEF Record, Opens
  <2> QED BY <1>1, <2>1
<1>2. CASE c.kind \in {"release", "releasedir"}
  <2>1. Record(c) = {recorded \ {r} : r \in {r \in recorded : r.path = c.path}}
    BY <1>2 DEF Record
  <2> QED BY <1>2, <2>1
<1>3. CASE c.kind = "rename"
  <2>1. Record(c) = {{Moved(r, c) : r \in recorded}}
    BY <1>3 DEF Record, Moved
  <2> QED BY <1>3, <2>1
<1>4. CASE ~Opens(c) /\ c.kind \notin {"release", "releasedir", "rename"}
  <2>1. Record(c) = {recorded}
    BY <1>4 DEF Record, Opens
  <2> QED BY <1>4, <2>1
<1> QED BY <1>1, <1>2, <1>3, <1>4

\* A renamed open file keeps its id.
LEMMA MovedFields ==
    ASSUME TypeInv, NEW r \in recorded, NEW c \in Call, c.new \in Paths
    PROVE  /\ Moved(r, c) \in [id : Nat \ {0}, path : Paths]
           /\ Moved(r, c).id = r.id
           /\ Moved(r, c).path = IF r.path = c.path THEN c.new ELSE r.path
<1>1. r \in [id : Nat \ {0}, path : Paths]
  BY DEF TypeInv
<1> QED BY <1>1 DEF Moved

\* The files open in the recording stay a finite set of ids and paths.
LEMMA RecordTypes ==
    ASSUME TypeInv, NEW c \in RecordableCalls, NEW R \in Record(c)
    PROVE  R \subseteq [id : Nat \ {0}, path : Paths] /\ IsFiniteSet(R)
<1>1. /\ c \in Call /\ c.path \in Paths
      /\ c.kind = "rename" => c.new \in Paths
      /\ c.kind \in {"open", "create"} => c.id \in Nat \ {0}
  <2>1. c \in Call
    BY CallFits
  <2>2. c.path \in Paths
    BY <2>1, Zenon DEF Call
  <2> QED BY <2>1, <2>2, CallFits
<1>2. /\ recorded \subseteq [id : Nat \ {0}, path : Paths]
      /\ IsFiniteSet(recorded)
  BY DEF TypeInv
<1>3. CASE Opens(c) /\ R = recorded \cup {[id |-> c.id, path |-> c.path]}
  <2>1. IsFiniteSet(R)
    BY <1>2, <1>3, FS_AddElement, Zenon
  <2>2. c.id \in Nat \ {0}
    BY <1>1, <1>3 DEF Opens
  <2> QED BY <1>1, <1>2, <1>3, <2>1, <2>2
<1>4. CASE \E q \in recorded : q.path = c.path /\ R = recorded \ {q}
  <2>1. PICK q \in recorded : R = recorded \ {q}
    BY <1>4
  <2>2. IsFiniteSet(R)
    BY <1>2, <2>1, FS_RemoveElement
  <2> QED BY <1>2, <2>1, <2>2
<1>5. CASE c.kind = "rename" /\ R = {Moved(r, c) : r \in recorded}
  <2> DEFINE g == [r \in recorded |-> Moved(r, c)]
  <2>1. g \in Surjection(recorded, R)
    BY <1>5 DEF Surjection
  <2> HIDE DEF g
  <2>2. IsFiniteSet(R)
    BY <1>2, <2>1, FS_Surjection
  <2>3. R \subseteq [id : Nat \ {0}, path : Paths]
    BY <1>1, <1>5, MovedFields
  <2> QED BY <2>2, <2>3
<1> QED BY <1>1, <1>2, <1>3, <1>4, <1>5, RecordCases

\* An empty file system, one whose handles are closed and one whose paths
\* reset_filesystem has removed are file systems.
LEMMA EmptyIsFileSystem ==
    /\ Empty \in FileSystem /\ NoTable \in Table
    /\ \A F \in FileSystem : /\ HandlesClosed(F) \in FileSystem
                             /\ HandlesClosed(F).paths = F.paths
    /\ \A F \in FileSystem, P \in SUBSET Paths :
          /\ [F EXCEPT !.paths = P] \in FileSystem
          /\ [F EXCEPT !.paths = P].paths = P
          /\ [F EXCEPT !.paths = P].open = F.open
<1>1. Empty.open \in [Handles -> Nat]
  BY DEF Empty
<1> QED BY <1>1 DEF Empty, NoTable, NoEntry, Table, FileSystem, HandlesClosed

\* When the process is gone the tables, the recording and the verdicts are
\* reset, and the paths stay on the disk.
LEMMA GoneFrame ==
    ASSUME TypeInv, NEW left \in [FileSystems -> FileSystem], Gone(left)
    PROVE  /\ pc' = "idle" /\ recorded' = {} /\ conforming' = conforming
           /\ fs' \in [FileSystems -> FileSystem]
           /\ \A f \in FileSystems : fs[f]'.paths = left[f].paths
           /\ fhs' = [f \in FileSystems |-> NoTable]
           /\ fhs' \in [FileSystems -> Table]
           /\ run' \in Run /\ run'.all_passed /\ run'.group_passed
           /\ run'.number = run.number
<1>1. /\ fs' = [f \in FileSystems |-> HandlesClosed(left[f])]
      /\ fhs' = [f \in FileSystems |-> NoTable]
      /\ pc' = "idle" /\ recorded' = {} /\ conforming' = conforming
      /\ run' = NoRun(run.number, Min({run.calls, LaterCalls}))
  BY DEF Gone, Goto
<1>2. run.number \in Nat /\ Min({run.calls, LaterCalls}) \in Int
  <2>1. run.number \in Nat /\ run.calls \in Int
    BY RunFields DEF TypeInv
  <2>2. LaterCalls \in Int
    BY Bounds
  <2> QED BY <2>1, <2>2, LeastOfTwo
<1>3. /\ run' \in Run /\ run'.all_passed /\ run'.group_passed
      /\ run'.number = run.number
  BY <1>1, <1>2, NoRunIsRun, Zenon
<1>4. /\ fs' \in [FileSystems -> FileSystem]
      /\ \A f \in FileSystems : fs[f]'.paths = left[f].paths
  BY <1>1, EmptyIsFileSystem
<1>5. fhs' \in [FileSystems -> Table]
  BY <1>1, EmptyIsFileSystem
<1> QED BY <1>1, <1>3, <1>4, <1>5

\* testsuite_init starts the next run with nothing failed and leaves the
\* passthrough's directory as it is.
LEMMA InitFrame ==
    ASSUME TypeInv, testsuite_init
    PROVE  /\ pc = "idle" /\ pc' \in {"groups", "end"}
           /\ fs' \in [FileSystems -> FileSystem]
           /\ fs["passthru"]' = fs["passthru"]
           /\ fs["real"]'.paths \in {fs["real"].paths, {}}
           /\ run' \in Run /\ run'.all_passed /\ run'.group_passed
           /\ run'.number = run.number + 1
           /\ UNCHANGED <<fhs, recorded, conforming, tame, clean>>
<1>1. /\ pc = "idle" /\ pc' \in {"groups", "end"}
      /\ run' = [NoRun(run.number + 1, run.calls) EXCEPT !.groups = MaxGroups]
      /\ fs' = fs \/ fs' = [fs EXCEPT !["real"] = Empty]
      /\ UNCHANGED <<fhs, recorded, conforming, tame, clean>>
  BY DEF testsuite_init, Goto
<1>2. run.number + 1 \in Nat /\ run.calls \in Int
  BY RunFields DEF TypeInv
<1>3. /\ run' \in Run /\ run'.all_passed /\ run'.group_passed
      /\ run'.number = run.number + 1
  BY <1>1, <1>2, NoRunIsRun
<1>4. fs \in [FileSystems -> FileSystem]
  BY DEF TypeInv
<1>5. Empty.paths = {}
  BY DEF Empty
<1>6. /\ fs' \in [FileSystems -> FileSystem]
      /\ fs["passthru"]' = fs["passthru"]
      /\ fs["real"]'.paths \in {fs["real"].paths, {}}
  BY <1>1, <1>4, <1>5, EmptyIsFileSystem DEF FileSystems
<1> QED BY <1>1, <1>3, <1>6

\* The start of a group or of a sequence touches only the verdicts.
LEMMA StartFrame ==
    ASSUME TypeInv, testsuite_grp_start \/ testsuite_seq_start
    PROVE  /\ run' \in Run
           /\ \/ /\ pc = "groups" /\ pc' = "sequences"
                 /\ run'.group_passed /\ run'.all_passed
              \/ /\ pc = "sequences" /\ pc' = "calls"
                 /\ run'.all_passed /\ run'.group_passed = run.group_passed
                 /\ run'.lacking = run.lacking
           /\ UNCHANGED <<fs, fhs, recorded, conforming, tame, clean>>
<1>1. run \in Run
  BY DEF TypeInv
<1>2. CASE testsuite_grp_start
  <2>1. /\ run' = [run EXCEPT !.groups = @ - 1, !.sequences = MaxSequences,
                              !.group = @ + 1, !.sequence = 0,
                              !.group_passed = TRUE, !.all_passed = TRUE,
                              !.lacking = FALSE]
        /\ pc = "groups" /\ pc' = "sequences"
        /\ UNCHANGED <<fs, fhs, recorded, conforming, tame, clean>>
    BY <1>2 DEF testsuite_grp_start, Goto
  <2>2. run' \in Run /\ run'.group_passed /\ run'.all_passed
    BY <1>1, <2>1, RunMoves, Zenon
  <2> QED BY <2>1, <2>2
<1>3. CASE testsuite_seq_start
  <2>1. /\ run' = [run EXCEPT !.sequences = @ - 1, !.sequence = @ + 1,
                              !.all_passed = TRUE]
        /\ pc = "sequences" /\ pc' = "calls"
        /\ UNCHANGED <<fs, fhs, recorded, conforming, tame, clean>>
    BY <1>3 DEF testsuite_seq_start, Goto
  <2>2. /\ run' \in Run /\ run'.all_passed
        /\ run'.group_passed = run.group_passed /\ run'.lacking = run.lacking
    BY <1>1, <2>1, RunMoves, Zenon
  <2> QED BY <2>1, <2>2
<1> QED BY <1>2, <1>3

\* testsuite_seq_end: a failed sequence ends its group.
LEMMA SequenceEndFrame ==
    ASSUME TypeInv, testsuite_seq_end
    PROVE  /\ run' \in Run /\ run'.all_passed = run.all_passed
           /\ run'.group_passed <=> run.group_passed /\ run.all_passed
           /\ run'.lacking = run.lacking
           /\ pc \in {"calls", "failed"}
           /\ pc' = IF run.all_passed THEN "sequences" ELSE "reset"
           /\ UNCHANGED <<fs, fhs, recorded, conforming, tame, clean>>
<1>1. /\ run' = [run EXCEPT !.group_passed = @ /\ run.all_passed]
      /\ pc \in {"calls", "failed"}
      /\ pc' = IF run.all_passed THEN "sequences" ELSE "reset"
      /\ UNCHANGED <<fs, fhs, recorded, conforming, tame, clean>>
  BY DEF testsuite_seq_end, Goto
<1>2. /\ run' \in Run /\ run'.all_passed = run.all_passed
      /\ run'.group_passed = (run.group_passed /\ run.all_passed)
      /\ run'.lacking = run.lacking
  BY <1>1, RunMoves, Zenon DEF TypeInv
<1> QED BY <1>1, <1>2, Zenon

\* testsuite_grp_end empties the tables and the passthrough's directory, and
\* the directory of a file system under test that conforms.
LEMMA GroupEndFrame ==
    ASSUME TypeInv, testsuite_grp_end
    PROVE  /\ pc \in {"sequences", "reset"} /\ pc' = "groups"
           /\ fs' \in [FileSystems -> FileSystem]
           /\ fs["passthru"]'.paths = {}
           /\ conforming => fs["real"]'.paths = {}
           /\ fhs' = [f \in FileSystems |-> NoTable]
           /\ fhs' \in [FileSystems -> Table]
           /\ recorded' = {}
           /\ UNCHANGED <<run, conforming, tame, clean>>
<1>1. /\ pc \in {"sequences", "reset"} /\ pc' = "groups"
      /\ \E real \in {{}, fs["real"].paths} :
           /\ fs' = [fs EXCEPT !["passthru"].paths = {},
                                !["real"].paths = real]
           /\ conforming => real = {}
      /\ fhs' = [f \in FileSystems |-> NoTable] /\ recorded' = {}
      /\ UNCHANGED <<run, conforming, tame, clean>>
  BY DEF testsuite_grp_end, Goto
<1>2. PICK real \in {{}, fs["real"].paths} :
           /\ fs' = [fs EXCEPT !["passthru"].paths = {},
                                !["real"].paths = real]
           /\ conforming => real = {}
  BY <1>1, Zenon
<1>3. /\ fs \in [FileSystems -> FileSystem] /\ "passthru" \in FileSystems
      /\ "real" \in FileSystems /\ fs["real"].paths \in SUBSET Paths
  BY DEF TypeInv, FileSystems, FileSystem
<1>4. /\ [fs["passthru"] EXCEPT !.paths = {}] \in FileSystem
      /\ [fs["real"] EXCEPT !.paths = real] \in FileSystem
      /\ [fs["passthru"] EXCEPT !.paths = {}].paths = {}
      /\ [fs["real"] EXCEPT !.paths = real].paths = real
  BY <1>2, <1>3, EmptyIsFileSystem, ZenonT(40)
<1>5. /\ fs' = [fs EXCEPT !["passthru"] = [fs["passthru"] EXCEPT !.paths = {}],
                          !["real"] = [fs["real"] EXCEPT !.paths = real]]
  BY <1>2, <1>3
<1>6. /\ fs' \in [FileSystems -> FileSystem]
      /\ fs["passthru"]'.paths = {} /\ fs["real"]'.paths = real
  BY <1>3, <1>4, <1>5, Zenon DEF FileSystems
<1>7. fhs' \in [FileSystems -> Table]
  BY <1>1, EmptyIsFileSystem
<1> QED BY <1>1, <1>2, <1>6, <1>7, Zenon

\* The process is gone: at the end of a run, or before it.
Leaves == (\E c \in RecordableCalls : Dies(c)) \/ testsuite_end \/ Killed

\* Whichever way the process goes, the next run starts from empty tables; only
\* the regular end of a run counts as clean.
LEMMA LeaveFrame ==
    ASSUME TypeInv, Leaves
    PROVE  /\ pc' = "idle" /\ recorded' = {} /\ conforming' = conforming
           /\ fs' \in [FileSystems -> FileSystem]
           /\ fhs' = [f \in FileSystems |-> NoTable]
           /\ fhs' \in [FileSystems -> Table]
           /\ run' \in Run /\ run'.all_passed /\ run'.group_passed
           /\ run'.number = run.number
           /\ tame' \in BOOLEAN /\ clean' \in BOOLEAN
           /\ clean' => /\ clean /\ tame' = tame /\ pc \in {"groups", "end"}
                        /\ \A f \in FileSystems : fs[f]'.paths = fs[f].paths
<1>1. /\ fs \in [FileSystems -> FileSystem] /\ tame \in BOOLEAN
      /\ clean \in BOOLEAN /\ "passthru" \in FileSystems
  BY DEF TypeInv, FileSystems
<1>2. CASE \E c \in RecordableCalls : Dies(c)
  <2>1. PICK c \in RecordableCalls : Dies(c)
    BY <1>2
  <2> DEFINE left == IF c.kind = "remove"
                       THEN [fs EXCEPT !["passthru"].paths = @ \ {c.path}]
                       ELSE fs
  <2>2. Gone(left) /\ clean' = FALSE /\ tame' = (tame /\ IsTame(c))
    BY <2>1 DEF Dies
  <2>3. left \in [FileSystems -> FileSystem]
    <3> DEFINE P == fs["passthru"].paths \ {c.path}
    <3>1. P \in SUBSET Paths
      BY <1>1 DEF FileSystem
    <3>2. [fs["passthru"] EXCEPT !.paths = P] \in FileSystem
      BY <1>1, <3>1, EmptyIsFileSystem
    <3>3. [fs EXCEPT !["passthru"] = [fs["passthru"] EXCEPT !.paths = P]]
            \in [FileSystems -> FileSystem]
      BY <1>1, <3>2
    <3>4. [fs EXCEPT !["passthru"].paths = @ \ {c.path}] =
            [fs EXCEPT !["passthru"] = [fs["passthru"] EXCEPT !.paths = P]]
      BY <1>1
    <3> QED BY <1>1, <3>3, <3>4
  <2>4. tame' \in BOOLEAN
    BY <2>2, Zenon
  <2> HIDE DEF left
  <2> QED BY <2>2, <2>3, <2>4, GoneFrame, Zenon
<1>3. CASE testsuite_end
  <2>1. /\ Gone(fs) /\ clean' = clean /\ tame' = tame
        /\ pc \in {"groups", "end"}
    BY <1>3 DEF testsuite_end
  <2> QED BY <1>1, <2>1, GoneFrame
<1>4. CASE Killed
  <2>1. Gone(fs) /\ clean' = FALSE /\ tame' = tame
    BY <1>4 DEF Killed
  <2> QED BY <1>1, <2>1, GoneFrame, Zenon
<1> QED BY <1>2, <1>3, <1>4 DEF Leaves

\* The steps, as far as the runner is concerned: gui_idle_testsuite does not
\* touch it.
LEMMA NextIs ==
    ASSUME Next
    PROVE  \/ testsuite_init
           \/ testsuite_grp_start \/ testsuite_seq_start
           \/ \E c \in RecordableCalls : run_test_sequence(c)
           \/ testsuite_seq_end \/ testsuite_grp_end
           \/ Leaves
           \/ UNCHANGED runner
BY DEF Next, Leaves, gui_idle_testsuite

\* Every step keeps the types.
LEMMA TypeNext ==
    ASSUME TypeInv, [Next]_vars
    PROVE  TypeInv'
<1>1. CASE testsuite_init
  BY <1>1, InitFrame DEF TypeInv
<1>2. CASE testsuite_grp_start \/ testsuite_seq_start
  BY <1>2, StartFrame DEF TypeInv
<1>3. ASSUME NEW c \in RecordableCalls, run_test_sequence(c)
      PROVE  TypeInv'
  <2>1. /\ recorded' \in Record(c) /\ tame' = (tame /\ IsTame(c))
        /\ UNCHANGED <<conforming, clean>>
    BY <1>3, Zenon DEF run_test_sequence
  <2>2. /\ recorded' \subseteq [id : Nat \ {0}, path : Paths]
        /\ IsFiniteSet(recorded')
    BY <2>1, RecordTypes
  <2>3. tame' \in BOOLEAN
    BY <2>1, Zenon
  <2>4. /\ fs' \in [FileSystems -> FileSystem]
        /\ fhs' \in [FileSystems -> Table]
        /\ run' \in Run /\ pc' \in {"calls", "failed"}
    BY <1>3, CallFrame
  <2> QED BY <2>1, <2>2, <2>3, <2>4 DEF TypeInv
<1>4. CASE testsuite_seq_end
  BY <1>4, SequenceEndFrame DEF TypeInv
<1>5. CASE testsuite_grp_end
  BY <1>5, GroupEndFrame, FS_EmptySet DEF TypeInv
<1>6. CASE Leaves
  BY <1>6, LeaveFrame, FS_EmptySet DEF TypeInv
<1>7. CASE UNCHANGED runner
  BY <1>7 DEF TypeInv, runner
<1>8. CASE UNCHANGED vars
  BY <1>8 DEF TypeInv, vars
<1> QED BY <1>1, <1>2, <1>3, <1>4, <1>5, <1>6, <1>7, <1>8, NextIs

-----------------------------------------------------------------------------
(* The invariant of the runner. *)

\* Where a run is between two groups or over, and where the two file systems
\* may differ.
RunEnded == {"idle", "groups", "end"}
Diverged == {"failed", "reset"}

\* Two files that are open in the recording have two ids and, if the recording
\* is tame, two paths.
RecInv ==
    /\ pc \in RunEnded => recorded = {}
    /\ \A q, r \in recorded : q.id = r.id => q = r
    /\ tame => \A q, r \in recorded : q.path = r.path => q = r

\* The entries of two tables but for the handles.
Agree(T, S) ==
    \A p \in Paths : T[p].there = S[p].there /\ T[p].open = S[p].open

\* The tables agree unless the sequence has just failed.
TablesInv ==
    /\ pc \notin Diverged => Agree(fhs["passthru"], fhs["real"])
    /\ pc = "failed" => ~run.all_passed

\* What a call on r is handed is the open handle that r was opened with.
Handed(f, r) ==
    LET e == fhs[f][r.path]
    IN  e.there /\ IsLive(fs[f], e.fh) /\ fs[f].open[e.fh] = r.id

\* The handles of the open files, in a tame recording, on the passthrough and
\* on a file system under test that conforms.
HandleInv ==
    tame => \A r \in recorded :
              /\ Handed("passthru", r)
              /\ conforming /\ pc \notin Diverged => Handed("real", r)

\* Why a conforming file system passes: nothing has failed unless the group
\* asked for a function that the passthrough lacks, both directories have the
\* same paths, and both are empty between two groups.
PassInv ==
    conforming /\ tame /\ clean =>
        /\ \/ run.lacking
           \/ pc \notin Diverged /\ run.all_passed /\ run.group_passed
        /\ fs["passthru"].paths = fs["real"].paths
        /\ pc \in RunEnded => fs["passthru"].paths = {}

\* The inductive invariant of the runner.
RunnerInv == TypeInv /\ RecInv /\ TablesInv /\ HandleInv /\ PassInv

-----------------------------------------------------------------------------
(* What a call does to the entries and to the handles. *)

\* Storing, counting and destroying the entry of one path leaves those of the
\* others.
LEMMA OtherEntries ==
    ASSUME NEW T \in Table, NEW p \in Paths, NEW q \in Paths, p # q,
           NEW fh \in Nat
    PROVE  /\ store_fh(T, p, fh)[q] = T[q]
           /\ increment_open(T, p)[q] = T[q]
           /\ destroy_fh(T, p)[q] = T[q]
BY DEF Table, store_fh, increment_open, destroy_fh

\* Storing, counting and destroying the entry of a path: the entry afterwards.
LEMMA TableEntries ==
    ASSUME NEW T \in Table, NEW p \in Paths, NEW q \in Paths, NEW fh \in Nat
    PROVE  /\ p # q => /\ store_fh(T, p, fh)[q] = T[q]
                       /\ increment_open(T, p)[q] = T[q]
                       /\ destroy_fh(T, p)[q] = T[q]
           /\ store_fh(T, p, fh)[p] = [fh |-> fh, open |-> 0, there |-> TRUE]
           /\ increment_open(T, p)[p].fh = T[p].fh
           /\ increment_open(T, p)[p].there = T[p].there
           /\ increment_open(T, p)[p].open = T[p].open + 1
           /\ T[p].open = 1 => destroy_fh(T, p)[p] = NoEntry
           /\ T[p].open # 1 => /\ destroy_fh(T, p)[p].there = T[p].there
                               /\ destroy_fh(T, p)[p].open = T[p].open - 1
<1>1. T[p] \in [fh : Nat, open : Int, there : BOOLEAN]
  BY DEF Table
<1> QED BY <1>1 DEF Table, store_fh, increment_open, destroy_fh

\* open and opendir always leave the entry of the path with the new handle and
\* a count of one, whatever was there before.
LEMMA OpenedEntry ==
    ASSUME NEW T \in Table, NEW p \in Paths, NEW fh \in Nat
    PROVE  /\ increment_open(store_fh(T, p, fh), p)[p].fh = fh
           /\ increment_open(store_fh(T, p, fh), p)[p].there
           /\ increment_open(store_fh(T, p, fh), p)[p].open = 1
<1> DEFINE S == store_fh(T, p, fh)
           U == increment_open(S, p)
<1>1. S \in Table
  BY TableOperations
<1>2. S[p] = [fh |-> fh, open |-> 0, there |-> TRUE]
  BY TableEntries, Zenon
<1> HIDE DEF S
<1>3. /\ U[p].fh = S[p].fh /\ U[p].there = S[p].there
      /\ U[p].open = S[p].open + 1
  BY <1>1, TableEntries, Zenon
<1> HIDE DEF U
<1>4. S[p].fh = fh /\ S[p].there /\ S[p].open = 0
  BY <1>2
<1>5. U[p].fh = fh /\ U[p].there /\ U[p].open = 1
  BY <1>3, <1>4
<1> QED BY <1>5, Zenon DEF S, U

\* The entries of other paths stay.
LEMMA OpenedOthers ==
    ASSUME NEW T \in Table, NEW p \in Paths, NEW q \in Paths, p # q,
           NEW fh \in Nat
    PROVE  increment_open(store_fh(T, p, fh), p)[q] = T[q]
<1> DEFINE S == store_fh(T, p, fh)
<1>1. S \in Table
  BY TableOperations
<1>2. S[q] = T[q]
  BY OtherEntries
<1> HIDE DEF S
<1>3. increment_open(S, p)[q] = S[q]
  BY <1>1, OtherEntries
<1> QED BY <1>2, <1>3, Zenon DEF S

\* A call leaves two tables that agreed agreeing: neither the entry nor its
\* count depends on the file system's answer.
LEMMA TablesTogether ==
    ASSUME MaxOpens \in Nat, NEW F \in FileSystem, NEW G \in FileSystem,
           NEW T \in Table, NEW S \in Table, NEW c \in Call,
           c.kind \in {"open", "create"} => HasFree(F) /\ HasFree(G),
           Agree(T, S)
    PROVE  Agree(TableAfter(F, T, c), TableAfter(G, S, c))
<1> DEFINE p == c.path
           U == TableAfter(F, T, c)
           V == TableAfter(G, S, c)
<1>1. p \in Paths /\ 0 \in Nat
  BY Zenon DEF Call
<1> SUFFICES ASSUME NEW q \in Paths
             PROVE  U[q].there = V[q].there /\ U[q].open = V[q].open
  BY DEF Agree
<1>2. T[q].there = S[q].there /\ T[q].open = S[q].open
  BY DEF Agree
<1>3. CASE c.kind \in {"open", "create"}
  <2>1. FreeHandle(F) \in Nat /\ FreeHandle(G) \in Nat
    BY <1>3, FreeHandleIsFree DEF Handles
  <2>2. CASE c.kind = "create"
    <3>1. /\ U = store_fh(T, p, FreeHandle(F))
          /\ V = store_fh(S, p, FreeHandle(G))
      BY <2>2 DEF TableAfter
    <3> HIDE DEF U, V
    <3>2. CASE q = p
      <4>1. U[p] = [fh |-> FreeHandle(F), open |-> 0, there |-> TRUE]
        BY <1>1, <2>1, <3>1, TableEntries
      <4>2. V[p] = [fh |-> FreeHandle(G), open |-> 0, there |-> TRUE]
        BY <1>1, <2>1, <3>1, TableEntries
      <4> QED BY <3>2, <4>1, <4>2
    <3>3. CASE q # p
      <4>1. U[q] = T[q] /\ V[q] = S[q]
        BY <1>1, <2>1, <3>1, <3>3, TableEntries, ZenonT(40)
      <4> QED BY <1>2, <4>1
    <3> QED BY <3>2, <3>3
  <2>3. CASE c.kind = "open"
    <3> DEFINE g == IF p \in F.paths THEN FreeHandle(F) ELSE 0
               h == IF p \in G.paths THEN FreeHandle(G) ELSE 0
    <3>0. g \in Nat /\ h \in Nat
      BY <1>1, <2>1
    <3>1. /\ U = increment_open(store_fh(T, p, g), p)
          /\ V = increment_open(store_fh(S, p, h), p)
      BY <2>3 DEF TableAfter
    <3> HIDE DEF U, V, g, h
    <3>2. CASE q = p
      <4>1. U[p].there /\ U[p].open = 1
        BY <1>1, <3>0, <3>1, OpenedEntry
      <4>2. V[p].there /\ V[p].open = 1
        BY <1>1, <3>0, <3>1, OpenedEntry
      <4> QED BY <3>2, <4>1, <4>2
    <3>3. CASE q # p
      <4>1. /\ increment_open(store_fh(T, p, g), p)[q] = T[q]
            /\ increment_open(store_fh(S, p, h), p)[q] = S[q]
        BY <1>1, <3>0, <3>3, OpenedOthers
      <4>2. U[q] = T[q] /\ V[q] = S[q]
        BY <3>1, <4>1, Zenon
      <4> QED BY <1>2, <4>2
    <3> QED BY <3>2, <3>3
  <2> QED BY <1>3, <2>2, <2>3
<1>4. CASE c.kind = "remove"
  <2>1. U = destroy_fh(T, p) /\ V = destroy_fh(S, p)
    BY <1>4 DEF TableAfter
  <2> HIDE DEF U, V
  <2>2. CASE q = p /\ T[q].open = 1
    <3>1. T[p].open = 1 /\ S[p].open = 1
      BY <1>2, <2>2
    <3>2. U[p] = NoEntry /\ V[p] = NoEntry
      BY <1>1, <2>1, <3>1, TableEntries, Zenon
    <3> QED BY <2>2, <3>2
  <2>3. CASE q = p /\ T[q].open # 1
    <3>1. /\ U[q].there = T[q].there /\ U[q].open = T[q].open - 1
          /\ V[q].there = S[q].there /\ V[q].open = S[q].open - 1
      BY <1>1, <1>2, <2>1, <2>3, TableEntries, Zenon
    <3> QED BY <1>2, <3>1
  <2>4. CASE q # p
    <3>1. U[q] = T[q] /\ V[q] = S[q]
      BY <1>1, <2>1, <2>4, TableEntries, Zenon
    <3> QED BY <1>2, <3>1
  <2> QED BY <2>2, <2>3, <2>4
<1>5. CASE c.kind = "nocreate"
  <2>1. U = store_fh(T, p, 0) /\ V = store_fh(S, p, 0)
    BY <1>5 DEF TableAfter
  <2> HIDE DEF U, V
  <2>2. CASE q = p
    <3>1. /\ U[p] = [fh |-> 0, open |-> 0, there |-> TRUE]
          /\ V[p] = [fh |-> 0, open |-> 0, there |-> TRUE]
      BY <1>1, <2>1, TableEntries, ZenonT(40)
    <3> QED BY <2>2, <3>1
  <2>3. CASE q # p
    <3>1. U[q] = T[q] /\ V[q] = S[q]
      BY <1>1, <2>1, <2>3, TableEntries, ZenonT(40)
    <3> QED BY <1>2, <3>1
  <2> QED BY <2>2, <2>3
<1>6. CASE c.kind \notin {"open", "create", "nocreate", "remove"}
  <2>1. U = T /\ V = S
    BY <1>6 DEF TableAfter
  <2> QED BY <1>2, <2>1
<1> QED BY <1>3, <1>4, <1>5, <1>6

\* The handles after a tame call on one file system: an open file keeps its
\* entry and its handle, because only the entry of a path that is not open
\* changes and only a handle that is free is given out.
LEMMA HandedAfter ==
    ASSUME TypeInv, RecInv, tame, NEW c \in RecordableCalls, IsTame(c),
           recorded' \in Record(c), NEW f \in FileSystems, AfterCall(f, c),
           c.kind = "open" => (Exists(c.path) <=> c.path \in fs[f].paths),
           \A r \in recorded : Handed(f, r)
    PROVE  \A r \in recorded' : Handed(f, r)'
<1> DEFINE F == fs[f]
           T == fhs[f]
           p == c.path
<1>1. /\ F \in FileSystem /\ T \in Table /\ p \in Paths /\ c \in Call
      /\ F.open \in [Handles -> Nat] /\ 0 \in Nat
      /\ \A r \in recorded : r.path \in Paths /\ r.id \in Nat \ {0}
  <2>1. c \in Call
    BY CallFits
  <2> QED BY <2>1, Zenon DEF TypeInv, FileSystem, Call
<1>a. T \in Table /\ p \in Paths /\ 0 \in Nat
  BY <1>1
<1>2. ASSUME NEW r \in recorded
      PROVE  /\ T[r.path].there /\ T[r.path].fh \in Handles
             /\ F.open[T[r.path].fh] = r.id /\ F.open[T[r.path].fh] # 0
  BY Zenon DEF Handed, IsLive
<1>3. \A r : /\ T[r.path]'.there
             /\ T[r.path]'.fh \in Handles /\ F'.open[T[r.path]'.fh] # 0
             /\ F'.open[T[r.path]'.fh] = r.id
             => Handed(f, r)'
  BY Zenon DEF Handed, IsLive
<1>4. F'.open = HandlesAfter(F, T, c) /\ T' = TableAfter(F, T, c)
  BY DEF AfterCall
<1>5. CASE /\ Opens(c)
           /\ recorded' = recorded \cup {[id |-> c.id, path |-> p]}
  <2> DEFINE h == FreeHandle(F)
  <2>1. c.id \in Nat \ {0} /\ HasFree(F)
    BY <1>5, CallFits DEF Opens
  <2>b. MaxOpens \in Nat
    BY Bounds
  <2>2. h \in Handles /\ F.open[h] = 0
    BY <1>1, <2>1, <2>b, FreeHandleIsFree, Zenon
  <2>a. h \in Nat
    BY <2>2 DEF Handles
  <2>3. F'.open = [F.open EXCEPT ![h] = c.id]
    BY <1>4, <1>5 DEF HandlesAfter, Opens
  <2>4. /\ T'[p].there /\ T'[p].fh = h
        /\ \A q \in Paths : p # q => T'[q] = T[q]
    <3>1. CASE c.kind = "create"
      <4>1. T' = store_fh(T, p, h)
        BY <1>4, <3>1 DEF TableAfter
      <4> HIDE DEF T, p, h
      <4>2. store_fh(T, p, h)[p] = [fh |-> h, open |-> 0, there |-> TRUE]
        BY <1>a, <2>a, TableEntries
      <4>3. \A q \in Paths : p # q => store_fh(T, p, h)[q] = T[q]
        BY <1>a, <2>a, OtherEntries
      <4>4. T'[p] = [fh |-> h, open |-> 0, there |-> TRUE]
        BY <4>1, <4>2, Zenon
      <4> QED BY <4>1, <4>3, <4>4
    <3>2. CASE c.kind = "open"
      <4>1. T' = increment_open(store_fh(T, p, h), p)
        BY <1>4, <1>5, <3>2, ZenonT(40) DEF TableAfter, Opens
      <4> HIDE DEF T, p, h
      <4>2. /\ increment_open(store_fh(T, p, h), p)[p].fh = h
            /\ increment_open(store_fh(T, p, h), p)[p].there
        BY <1>a, <2>a, OpenedEntry
      <4>3. ASSUME NEW q \in Paths, p # q
            PROVE  increment_open(store_fh(T, p, h), p)[q] = T[q]
        BY <1>a, <2>a, <4>3, OpenedOthers
      <4> QED BY <4>1, <4>2, <4>3, Zenon
    <3> QED BY <1>5, <3>1, <3>2, Zenon DEF Opens
  <2>5. \A r \in recorded : r.path # p
    BY <1>5, Zenon DEF IsTame, Opens, OpenPaths
  <2> HIDE DEF F, T, p, h
  <2>6. ASSUME NEW r \in recorded
        PROVE  Handed(f, r)'
    <3>1. r.path # p /\ r.path \in Paths
      BY <1>1, <2>5
    <3>2. T'[r.path] = T[r.path] /\ T[r.path].fh # h
      BY <1>2, <2>2, <2>4, <3>1
    <3>3. F'.open[T[r.path].fh] = F.open[T[r.path].fh]
      BY <1>1, <1>2, <2>3, <3>2
    <3> QED BY <1>2, <1>3, <3>2, <3>3, Zenon
  <2>7. Handed(f, [id |-> c.id, path |-> p])'
    <3> DEFINE n == [id |-> c.id, path |-> p]
    <3>1. n.id = c.id /\ n.path = p
      OBVIOUS
    <3> HIDE DEF n
    <3>2. F'.open[h] = c.id
      BY <1>1, <2>2, <2>3
    <3> QED BY <1>3, <2>1, <2>2, <2>4, <3>1, <3>2 DEF n
  <2> QED BY <1>5, <2>6, <2>7
<1>6. ASSUME c.kind = "release", NEW q \in recorded, q.path = p,
             recorded' = recorded \ {q}
      PROVE  \A r \in recorded' : Handed(f, r)'
  <2> DEFINE h == T[p].fh
  <2>1. /\ h \in Handles /\ F.open[h] = q.id /\ IsLive(F, h)
    BY <1>2, <1>6, Zenon DEF IsLive
  <2>2. F'.open = [F.open EXCEPT ![h] = 0] /\ T' = T
    BY <1>4, <1>6, <2>1, ZenonT(40) DEF HandlesAfter, TableAfter, path_to_fh
  <2>3. ASSUME NEW r \in recorded, r # q
        PROVE  Handed(f, r)'
    <3>1. r.id # q.id
      BY <1>6, <2>3 DEF RecInv
    <3>2. T[r.path].fh # h
      BY <1>2, <2>1, <3>1, ZenonT(40)
    <3> HIDE DEF F, T, h
    <3>3. F'.open[T[r.path].fh] = F.open[T[r.path].fh]
      BY <1>1, <1>2, <2>2, <3>2
    <3> QED BY <1>2, <1>3, <2>2, <3>3
  <2> QED BY <1>6, <2>3
<1>7. ASSUME c.kind = "releasedir", NEW q \in recorded,
             recorded' = recorded \ {q}
      PROVE  \A r \in recorded' : Handed(f, r)'
  <2>1. F'.open = F.open /\ T' = T
    BY <1>4, <1>7, Zenon DEF HandlesAfter, TableAfter
  <2>2. \A r \in recorded' : r \in recorded
    BY <1>7
  <2> HIDE DEF F, T
  <2> QED BY <1>2, <1>3, <2>1, <2>2, Zenon
<1>8. CASE c.kind = "rename" /\ recorded' = {Moved(r, c) : r \in recorded}
  <2>1. F'.open = F.open /\ T' = T
    BY <1>4, <1>8, Zenon DEF HandlesAfter, TableAfter
  <2>2. ASSUME NEW r \in recorded
        PROVE  Handed(f, Moved(r, c))'
    <3>1. r.path # p /\ c.new \in Paths
      BY <1>8, CallFits, Zenon DEF IsTame, OpenPaths
    <3>2. Moved(r, c).path = r.path /\ Moved(r, c).id = r.id
      BY <1>1, <3>1, MovedFields
    <3> HIDE DEF F, T
    <3> QED BY <1>2, <1>3, <2>1, <3>2, Zenon
  <2> QED BY <1>8, <2>2
<1>9. CASE /\ ~Opens(c) /\ c.kind \notin {"release", "releasedir", "rename"}
           /\ recorded' = recorded
  <2>1. F'.open = F.open
    BY <1>4, <1>9, Zenon DEF HandlesAfter, Opens
  <2>2. ASSUME NEW r \in recorded PROVE T'[r.path] = T[r.path]
    <3>a. r.path \in Paths
      BY <1>1
    <3>1. CASE c.kind = "open"
      <4>1. r.path # p
        BY <3>1 DEF IsTame, OpenPaths
      <4>2. T' = increment_open(store_fh(T, p, 0), p)
        BY <1>4, <1>9, <3>1 DEF TableAfter, Opens
      <4> HIDE DEF T, p
      <4>3. increment_open(store_fh(T, p, 0), p)[r.path] = T[r.path]
        BY <1>a, <3>a, <4>1, OpenedOthers
      <4> QED BY <4>2, <4>3, ZenonT(40)
    <3>2. CASE c.kind = "remove"
      <4>1. r.path # p
        BY <3>2, CallFits DEF Recordable, OpenPaths
      <4>2. T' = destroy_fh(T, p)
        BY <1>4, <3>2 DEF TableAfter
      <4> HIDE DEF T, p
      <4>3. destroy_fh(T, p)[r.path] = T[r.path]
        BY <1>a, <3>a, <4>1, OtherEntries
      <4> QED BY <4>2, <4>3, ZenonT(40)
    <3>3. CASE c.kind = "nocreate"
      <4>1. r.path # p
        BY <3>3 DEF IsTame, OpenPaths
      <4>2. T' = store_fh(T, p, 0)
        BY <1>4, <3>3 DEF TableAfter
      <4> HIDE DEF T, p
      <4>3. store_fh(T, p, 0)[r.path] = T[r.path]
        BY <1>a, <3>a, <4>1, OtherEntries
      <4> QED BY <4>2, <4>3, ZenonT(40)
    <3>4. CASE c.kind \notin {"open", "nocreate", "remove"}
      BY <1>4, <1>9, <3>4 DEF TableAfter, Opens
    <3> QED BY <3>1, <3>2, <3>3, <3>4
  <2> HIDE DEF F, T
  <2> QED BY <1>2, <1>3, <1>9, <2>1, <2>2, ZenonT(40)
<1> QED BY <1>1, <1>5, <1>6, <1>8, <1>9, <1>7, RecordCases

\* The ids stay different, and so do the paths while the recording is tame.
LEMMA RecAfter ==
    ASSUME TypeInv, RecInv, NEW c \in RecordableCalls,
           recorded' \in Record(c)
    PROVE  /\ \A q, r \in recorded' : q.id = r.id => q = r
           /\ tame /\ IsTame(c) =>
                \A q, r \in recorded' : q.path = r.path => q = r
<1>1. /\ c \in Call
      /\ c.kind = "rename" => c.new \in Paths
      /\ c.kind \in {"open", "create"} => \A r \in recorded : r.id # c.id
  BY CallFits
<1>2. CASE /\ Opens(c)
           /\ recorded' = recorded \cup {[id |-> c.id, path |-> c.path]}
  <2> DEFINE n == [id |-> c.id, path |-> c.path]
  <2>1. n.id = c.id /\ n.path = c.path
    OBVIOUS
  <2>2. \A r \in recorded : r.id # c.id
    BY <1>1, <1>2 DEF Opens
  <2>3. IsTame(c) => \A r \in recorded : r.path # c.path
    BY <1>2 DEF IsTame, Opens, OpenPaths
  <2>4. recorded' = recorded \cup {n}
    BY <1>2
  <2> HIDE DEF n
  <2> QED BY <2>1, <2>2, <2>3, <2>4 DEF RecInv
<1>3. CASE \E q \in recorded : recorded' = recorded \ {q}
  BY <1>3 DEF RecInv
<1>4. CASE c.kind = "rename" /\ recorded' = {Moved(r, c) : r \in recorded}
  <2>1. ASSUME NEW r \in recorded
        PROVE  /\ Moved(r, c).id = r.id
               /\ IsTame(c) => Moved(r, c).path = r.path
    <3>1. Moved(r, c).id = r.id
      BY <1>1, <1>4, MovedFields
    <3>2. IsTame(c) => r.path # c.path
      BY <1>4 DEF IsTame, OpenPaths
    <3>3. IsTame(c) => Moved(r, c).path = r.path
      BY <1>1, <1>4, <3>2, MovedFields
    <3> QED BY <3>1, <3>3
  <2> QED BY <1>4, <2>1 DEF RecInv
<1>5. CASE recorded' = recorded
  BY <1>5 DEF RecInv
<1> QED BY <1>1, <1>2, <1>3, <1>4, <1>5, RecordCases

-----------------------------------------------------------------------------
(* Every step keeps the invariant. *)

\* run_test_sequence keeps the invariant.
LEMMA CallStep ==
    ASSUME RunnerInv, NEW c \in RecordableCalls, run_test_sequence(c)
    PROVE  RecInv' /\ TablesInv' /\ HandleInv' /\ PassInv'
<1>1. /\ TypeInv /\ RecInv /\ TablesInv /\ HandleInv /\ PassInv
  BY DEF RunnerInv
<1>2. /\ pc = "calls" /\ recorded' \in Record(c)
      /\ tame' = (tame /\ IsTame(c)) /\ UNCHANGED <<conforming, clean>>
  BY Zenon DEF run_test_sequence
<1>3. /\ pc' \in {"calls", "failed"}
      /\ pc' = "failed" => ~run'.all_passed
  BY <1>1, CallFrame
<1>4. RecInv'
  BY <1>1, <1>2, <1>3, RecAfter, Zenon DEF RecInv, RunEnded
<1>5. TablesInv'
  <2>1. ASSUME pc' = "calls"
        PROVE  Agree(fhs["passthru"], fhs["real"])'
    <3>1. AfterCall("passthru", c) /\ AfterCall("real", c)
      BY <1>1, <2>1, CallFrame
    <3>2. Agree(fhs["passthru"], fhs["real"])
      BY <1>1, <1>2 DEF TablesInv, Diverged
    <3>3. /\ fs["passthru"] \in FileSystem /\ fs["real"] \in FileSystem
          /\ fhs["passthru"] \in Table /\ fhs["real"] \in Table
          /\ c \in Call /\ MaxOpens \in Nat
          /\ c.kind \in {"open", "create"} =>
               HasFree(fs["passthru"]) /\ HasFree(fs["real"])
      BY <1>1, CallFits, Bounds DEF TypeInv, FileSystems
    <3>4. Agree(TableAfter(fs["passthru"], fhs["passthru"], c),
                TableAfter(fs["real"], fhs["real"], c))
      BY <3>2, <3>3, TablesTogether
    <3> QED BY <3>1, <3>4 DEF AfterCall
  <2> QED BY <1>3, <2>1 DEF TablesInv, Diverged
<1>6. HandleInv'
  <2> SUFFICES ASSUME tame'
               PROVE  \A r \in recorded' :
                        /\ Handed("passthru", r)'
                        /\ conforming /\ pc' = "calls" => Handed("real", r)'
    BY <1>2, <1>3 DEF HandleInv, Diverged
  <2>1. tame /\ IsTame(c)
    BY <1>2, Zenon
  <2>2. \A r \in recorded : /\ Handed("passthru", r)
                            /\ conforming => Handed("real", r)
    BY <1>1, <1>2, <2>1 DEF HandleInv, Diverged
  <2>3. \A r \in recorded' : Handed("passthru", r)'
    <3>1. AfterCall("passthru", c)
      BY <1>1, CallFrame
    <3>2. c.kind = "open" =>
            (Exists(c.path) <=> c.path \in fs["passthru"].paths)
      BY DEF Exists
    <3>3. "passthru" \in FileSystems
      BY DEF FileSystems
    <3> QED BY <1>1, <1>2, <2>1, <2>2, <3>1, <3>2, <3>3, HandedAfter
  <2>4. ASSUME conforming, pc' = "calls"
        PROVE  \A r \in recorded' : Handed("real", r)'
    <3>1. /\ AfterCall("real", c)
          /\ c.kind = "open" =>
               (c.path \in fs["passthru"].paths <=>
                   c.path \in fs["real"].paths)
      BY <1>1, <2>4, CallFrame
    <3>2. c.kind = "open" => (Exists(c.path) <=> c.path \in fs["real"].paths)
      BY <3>1 DEF Exists
    <3>3. "real" \in FileSystems
      BY DEF FileSystems
    <3> QED BY <1>1, <1>2, <2>1, <2>2, <2>4, <3>1, <3>2, <3>3, HandedAfter
  <2> QED BY <2>3, <2>4
<1>7. PassInv'
  <2> SUFFICES ASSUME conforming, tame', clean
               PROVE  /\ \/ run'.lacking
                         \/ /\ pc' = "calls" /\ run'.all_passed
                            /\ run'.group_passed
                      /\ fs["passthru"]'.paths = fs["real"]'.paths
    BY <1>2, <1>3 DEF PassInv, Diverged, RunEnded
  <2>1. tame /\ IsTame(c)
    BY <1>2, Zenon
  <2>2. /\ run.lacking \/ run.group_passed
        /\ fs["passthru"].paths = fs["real"].paths
    BY <1>1, <2>1 DEF PassInv
  <2>3. ASSUME c.kind \in {"use", "release"}, NEW f \in FileSystems
        PROVE  IsLive(fs[f], fhs[f][c.path].fh)
    <3>1. PICK r \in recorded : r.path = c.path
      BY <1>1, <2>3, CallFits DEF Recordable, OpenPaths
    <3>2. Handed("passthru", r) /\ Handed("real", r)
      BY <1>1, <1>2, <2>1 DEF HandleInv, Diverged
    <3> QED BY <3>1, <3>2, Zenon DEF Handed, FileSystems
  <2>4. CASE run'.lacking /\ UNCHANGED fs
    BY <2>2, <2>4, Zenon
  <2>5. CASE ~(run'.lacking /\ UNCHANGED fs)
    <3>1. /\ run'.all_passed /\ run'.group_passed = run.group_passed
          /\ run'.lacking = run.lacking
          /\ pc' = IF run'.all_passed THEN "calls" ELSE "failed"
          /\ fs["passthru"]'.paths = PathsAfter(fs["passthru"].paths, c)
          /\ fs["real"]'.paths = PathsAfter(fs["real"].paths, c)
      BY <1>1, <2>2, <2>3, <2>5, CallFrame, Zenon
    <3> QED BY <2>2, <3>1
  <2> QED BY <2>4, <2>5
<1> QED BY <1>4, <1>5, <1>6, <1>7

\* Empty tables agree.
LEMMA NoTablesAgree ==
    ASSUME NEW tables, tables = [f \in FileSystems |-> NoTable]
    PROVE  Agree(tables["passthru"], tables["real"])
BY DEF Agree, FileSystems

\* Every step of the test suite keeps the invariant of the runner.
LEMMA RunnerNext ==
    ASSUME RunnerInv, [Next]_vars
    PROVE  RunnerInv'
<1>1. TypeInv /\ RecInv /\ TablesInv /\ HandleInv /\ PassInv
  BY DEF RunnerInv
<1>2. TypeInv'
  BY <1>1, TypeNext
<1> USE DEF RunEnded, Diverged
<1>3. CASE testsuite_init
  <2>0. /\ pc = "idle" /\ pc' \in {"groups", "end"}
        /\ UNCHANGED <<fhs, recorded>>
    BY <1>1, <1>3, InitFrame
  <2>a. recorded = {} /\ Agree(fhs["passthru"], fhs["real"])
    BY <1>1, <2>0 DEF RecInv, TablesInv
  <2>1. RecInv' /\ TablesInv' /\ HandleInv'
    BY <2>0, <2>a DEF RecInv, TablesInv, HandleInv
  <2>2. PassInv'
    BY <1>1, <1>3, InitFrame, Zenon DEF PassInv
  <2> QED BY <1>2, <2>1, <2>2 DEF RunnerInv
<1>4. CASE testsuite_grp_start \/ testsuite_seq_start
  <2>1. RecInv' /\ TablesInv'
    BY <1>1, <1>4, StartFrame DEF RecInv, TablesInv
  <2>2. HandleInv'
    BY <1>1, <1>4, StartFrame, Zenon DEF HandleInv, Handed
  <2>3. PassInv'
    BY <1>1, <1>4, StartFrame, Zenon DEF PassInv
  <2> QED BY <1>2, <2>1, <2>2, <2>3 DEF RunnerInv
<1>5. ASSUME NEW c \in RecordableCalls, run_test_sequence(c)
      PROVE  RunnerInv'
  BY <1>2, <1>5, CallStep DEF RunnerInv
<1>6. CASE testsuite_seq_end
  <2>1. RecInv' /\ TablesInv'
    BY <1>1, <1>6, SequenceEndFrame DEF RecInv, TablesInv
  <2>2. HandleInv'
    BY <1>1, <1>6, SequenceEndFrame, Zenon DEF HandleInv, TablesInv, Handed
  <2>3. PassInv'
    BY <1>1, <1>6, SequenceEndFrame, Zenon DEF PassInv
  <2> QED BY <1>2, <2>1, <2>2, <2>3 DEF RunnerInv
<1>7. CASE testsuite_grp_end
  <2>1. RecInv' /\ HandleInv'
    BY <1>1, <1>7, GroupEndFrame, ZenonT(40) DEF RecInv, HandleInv
  <2>2. TablesInv'
    BY <1>1, <1>7, GroupEndFrame, NoTablesAgree DEF TablesInv
  <2>3. PassInv'
    BY <1>1, <1>7, GroupEndFrame, ZenonT(40) DEF PassInv
  <2> QED BY <1>2, <2>1, <2>2, <2>3 DEF RunnerInv
<1>8. CASE Leaves
  <2>1. RecInv' /\ HandleInv'
    BY <1>1, <1>8, LeaveFrame DEF RecInv, HandleInv
  <2>2. TablesInv'
    BY <1>1, <1>8, LeaveFrame, NoTablesAgree DEF TablesInv
  <2>3. PassInv'
    BY <1>1, <1>8, LeaveFrame, Zenon DEF PassInv, FileSystems
  <2> QED BY <1>2, <2>1, <2>2, <2>3 DEF RunnerInv
<1>9. CASE UNCHANGED runner
  BY <1>1, <1>2, <1>9, Zenon
  DEF RunnerInv, RecInv, TablesInv, HandleInv, PassInv, Handed, runner
<1>10. CASE UNCHANGED vars
  BY <1>1, <1>2, <1>10, Zenon
  DEF RunnerInv, RecInv, TablesInv, HandleInv, PassInv, Handed, vars
<1> QED BY <1>3, <1>4, <1>5, <1>6, <1>7, <1>8, <1>9, <1>10, NextIs

\* The invariant holds before the first run.
LEMMA RunnerInit ==
    ASSUME Init
    PROVE  RunnerInv
<1>1. /\ pc = "idle" /\ recorded = {} /\ tame = TRUE /\ clean = TRUE
      /\ conforming \in BOOLEAN
      /\ fs = [f \in FileSystems |-> Empty]
      /\ fhs = [f \in FileSystems |-> NoTable]
      /\ run = NoRun(0, MaxCalls)
  BY DEF Init
<1>2. run \in Run /\ run.all_passed /\ run.group_passed
  <2>1. 0 \in Nat /\ MaxCalls \in Int
    BY Bounds
  <2> QED BY <1>1, <2>1, NoRunIsRun, Zenon
<1>3. fs \in [FileSystems -> FileSystem] /\ fhs \in [FileSystems -> Table]
  BY <1>1, EmptyIsFileSystem
<1>4. TypeInv
  BY <1>1, <1>2, <1>3, FS_EmptySet DEF TypeInv
<1>5. RecInv /\ HandleInv
  BY <1>1 DEF RecInv, HandleInv
<1>6. TablesInv
  BY <1>1, NoTablesAgree DEF TablesInv
<1>7. PassInv
  BY <1>1, <1>2 DEF PassInv, FileSystems, Empty, Diverged
<1> QED BY <1>4, <1>5, <1>6, <1>7 DEF RunnerInv

-----------------------------------------------------------------------------
(* Results. *)

\* The invariant of the runner holds throughout, for any paths, any recordings
\* and any number of runs.
THEOREM RunnerInvariant == Spec => []RunnerInv
<1>1. Init => RunnerInv
  BY RunnerInit
<1>2. RunnerInv /\ [Next]_vars => RunnerInv'
  BY RunnerNext
<1> QED BY <1>1, <1>2, PTL DEF Spec

\* run_test_sequence never finds the entry of a path in one of fhs_passthru
\* and fhs_real only, or with two counts, after calls that both file systems
\* answered, whatever they answered.
THEOREM TablesStayTogether == Spec => []TablesAgree
<1>1. RunnerInv => TablesAgree
  BY DEF RunnerInv, TablesInv, TablesAgree, Agree, Diverged
<1> QED BY <1>1, RunnerInvariant, PTL

\* update_fi hands each file system the handle it gave out for the very open
\* that the recording means, for any tame recording, also after handles have
\* been released and given out again, on the passthrough always and on a file
\* system under test that conforms.
THEOREM HandlesReachTheirOpen == Spec => []HandleIsOfItsOpen
<1>1. RunnerInv => HandleIsOfItsOpen
  BY DEF RunnerInv, HandleInv, HandleIsOfItsOpen, Handed, Diverged, FileSystems
<1> QED BY <1>1, RunnerInvariant, PTL

\* A file system that does what the passthrough does passes every tame
\* recording, in every run that follows only clean ones, whatever it answers
\* to a handle that is not open: the comparison raises no false alarm.
THEOREM NoFalseFailure == Spec => []ConformingPasses
<1>1. RunnerInv => ConformingPasses
  BY DEF RunnerInv, PassInv, ConformingPasses
<1> QED BY <1>1, RunnerInvariant, PTL
=============================================================================
