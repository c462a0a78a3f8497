------------------------ MODULE TestsuiteTreeProofs -------------------------
(***************************************************************************)
(* Proofs about the tree of results of the test suite, for any order of    *)
(* the runner's reports and the GUI's displaying: rows are where they      *)
(* belong, and a PASS covers everything under it.  The module repeats a    *)
(* few lemmas of TestsuiteProofs, so that the two can be checked one       *)
(* without the other.                                                      *)
(***************************************************************************)
EXTENDS Testsuite, SequenceTheorems, WellFoundedInduction, TLAPS

\* A leaf that names no prover is given to SMT and then to Zenon.
USE SMTT(40), ZenonT(40)

-----------------------------------------------------------------------------
(* Preliminaries. *)

\* A set of natural numbers that is not empty has a least element.
LEMMA Least ==
  ASSUME NEW T \in SUBSET Nat, T # {}
  PROVE  \E x \in T : \A y \in T : x <= y
<1> DEFINE R == OpToRel(<, Nat)
<1>1. IsWellFoundedOn(R, Nat)
  BY NatLessThanWellFounded, Zenon
<1>2. \A x, y \in Nat : x < y => <<x, y>> \in R
  BY DEF OpToRel
<1> HIDE DEF R
<1>3. PICK x \in T : \A y \in T : ~(<<y, x>> \in R)
  BY <1>1, WFMin, Zenon
<1>4. ASSUME NEW y \in T PROVE x <= y
  <2>1. x \in Nat /\ y \in Nat
    OBVIOUS
  <2>2. ~(y < x)
    BY <1>2, <1>3, <2>1, Zenon
  <2> QED BY <2>1, <2>2
<1> QED BY <1>4

\* Induction over the natural numbers, from the least counterexample.
LEMMA Ind ==
  ASSUME NEW T \in SUBSET Nat, 0 \in T, \A n \in T : n + 1 \in T
  PROVE  T = Nat
<1> SUFFICES ASSUME Nat \ T # {} PROVE FALSE
  BY Zenon
<1>1. PICK x \in Nat \ T : \A y \in Nat \ T : x <= y
  BY Least, Zenon
<1>2. x # 0 /\ x - 1 \in T
  BY <1>1
<1> QED BY <1>1, <1>2

\* The runner's own variables.
Run == [number : Nat, group : Nat, sequence : Nat, groups : Int,
        sequences : Int, calls : Int, all_passed : BOOLEAN,
        group_passed : BOOLEAN, lacking : BOOLEAN]

\* The bounds of the model are natural numbers.
LEMMA Bounds ==
    /\ MaxCalls \in Nat /\ LaterCalls \in Nat /\ MaxOpens \in Nat
    /\ MaxGroups \in Nat /\ MaxSequences \in Nat
BY TestsuiteAssumption

\* The smaller of two numbers, as Gone uses it for the calls left.
LEMMA LeastOfTwo ==
    ASSUME NEW a \in Int, NEW b \in Int
    PROVE  Min({a, b}) \in {a, b}
<1>1. \E x \in {a, b} : \A y \in {a, b} : x =< y
  BY SMTT(40)
<1> QED BY <1>1 DEF Min

\* The fields of run, and what counting up or down makes of them.
LEMMA RunFields ==
    ASSUME NEW r \in Run
    PROVE  /\ r.number \in Nat /\ r.group \in Nat /\ r.sequence \in Nat
           /\ r.groups \in Int /\ r.sequences \in Int /\ r.calls \in Int
           /\ r.all_passed \in BOOLEAN /\ r.group_passed \in BOOLEAN
           /\ r.lacking \in BOOLEAN
           /\ r.calls - 1 \in Int /\ r.groups - 1 \in Int
           /\ r.sequences - 1 \in Int /\ r.group + 1 \in Nat
           /\ r.sequence + 1 \in Nat /\ r.number + 1 \in Nat
<1>1. /\ r.number \in Nat /\ r.group \in Nat /\ r.sequence \in Nat
      /\ r.groups \in Int /\ r.sequences \in Int /\ r.calls \in Int
      /\ r.all_passed \in BOOLEAN /\ r.group_passed \in BOOLEAN
      /\ r.lacking \in BOOLEAN
  BY Zenon DEF Run
<1>2. /\ r.calls - 1 \in Int /\ r.groups - 1 \in Int
      /\ r.sequences - 1 \in Int /\ r.group + 1 \in Nat
      /\ r.sequence + 1 \in Nat /\ r.number + 1 \in Nat
  <2>1. /\ r.number \in Nat /\ r.group \in Nat /\ r.sequence \in Nat
        /\ r.groups \in Int /\ r.sequences \in Int /\ r.calls \in Int
    BY <1>1, Zenon
  <2> QED BY <2>1
<1> QED BY <1>1, <1>2, Zenon

\* run_test_sequence takes one call off the recording and sets all_passed.
LEMMA CallCounted ==
    ASSUME NEW r \in Run, NEW b \in BOOLEAN
    PROVE  LET q == [r EXCEPT !.calls = @ - 1, !.all_passed = b]
           IN  /\ q \in Run /\ q.group_passed = r.group_passed
               /\ q.all_passed = b /\ q.number = r.number
               /\ q.group = r.group /\ q.sequence = r.sequence
<1> DEFINE q == [r EXCEPT !.calls = @ - 1, !.all_passed = b]
<1>1. /\ q.group_passed = r.group_passed /\ q.all_passed = b
      /\ q.number = r.number /\ q.group = r.group /\ q.sequence = r.sequence
  BY DEF Run
<1>2. r.calls - 1 \in Int
  BY RunFields, Zenon
<1>3. q \in Run
  BY <1>2, Zenon DEF Run
<1> QED BY <1>1, <1>3

\* A function that the passthrough lacks is counted and fails the sequence.
LEMMA LackingCounted ==
    ASSUME NEW r \in Run
    PROVE  LET q == [r EXCEPT !.calls = @ - 1, !.all_passed = FALSE,
                              !.lacking = TRUE]
           IN  /\ q \in Run /\ q.group_passed = r.group_passed
               /\ q.all_passed = FALSE /\ q.number = r.number
               /\ q.group = r.group /\ q.sequence = r.sequence
<1> DEFINE q == [r EXCEPT !.calls = @ - 1, !.all_passed = FALSE,
                          !.lacking = TRUE]
<1>1. /\ q.group_passed = r.group_passed /\ q.all_passed = FALSE
      /\ q.number = r.number /\ q.group = r.group /\ q.sequence = r.sequence
  BY DEF Run
<1>2. r.calls - 1 \in Int
  BY RunFields, Zenon
<1>3. q \in Run
  BY <1>2, Zenon DEF Run
<1> QED BY <1>1, <1>3

\* A run that has just begun, or that is over, has nothing failed.
LEMMA NoRunIsRun ==
    ASSUME NEW n \in Nat, NEW k \in Int
    PROVE  /\ NoRun(n, k) \in Run
           /\ [NoRun(n, k) EXCEPT !.groups = MaxGroups] \in Run
           /\ NoRun(n, k).all_passed /\ NoRun(n, k).group_passed
           /\ NoRun(n, k).number = n
           /\ [NoRun(n, k) EXCEPT !.groups = MaxGroups].all_passed
           /\ [NoRun(n, k) EXCEPT !.groups = MaxGroups].group_passed
           /\ [NoRun(n, k) EXCEPT !.groups = MaxGroups].number = n
<1>1. 0 \in Nat /\ 0 \in Int /\ MaxGroups \in Int
  BY Bounds
<1>2. TRUE \in BOOLEAN /\ FALSE \in BOOLEAN
  OBVIOUS
<1>3. NoRun(n, k) \in Run
  BY <1>1, <1>2, Zenon DEF NoRun, Run
<1>4. [NoRun(n, k) EXCEPT !.groups = MaxGroups] \in Run
  BY <1>1, <1>3, Zenon DEF Run
<1>5. /\ NoRun(n, k).all_passed = TRUE /\ NoRun(n, k).group_passed = TRUE
      /\ NoRun(n, k).number = n
  BY Zenon DEF NoRun
<1>6. /\ [NoRun(n, k) EXCEPT !.groups = MaxGroups].all_passed = TRUE
      /\ [NoRun(n, k) EXCEPT !.groups = MaxGroups].group_passed = TRUE
      /\ [NoRun(n, k) EXCEPT !.groups = MaxGroups].number = n
  BY <1>3, <1>5 DEF Run
<1> QED BY <1>3, <1>4, <1>5, <1>6

\* What the start of a group, the start of a sequence and the end of a
\* sequence do to run: testsuite_grp_start forgets the verdict of the last
\* group, testsuite_seq_start that of the last sequence, and testsuite_seq_end
\* hands the verdict of the sequence on to its group.
LEMMA RunMoves ==
    ASSUME NEW r \in Run
    PROVE  /\ LET q == [r EXCEPT !.groups = @ - 1, !.sequences = MaxSequences,
                                 !.group = @ + 1, !.sequence = 0,
                                 !.group_passed = TRUE, !.all_passed = TRUE,
                                 !.lacking = FALSE]
              IN  /\ q \in Run /\ q.group_passed /\ q.all_passed
                  /\ q.number = r.number /\ q.group = r.group + 1
                  /\ q.sequence = 0
           /\ LET q == [r EXCEPT !.sequences = @ - 1, !.sequence = @ + 1,
                                 !.all_passed = TRUE]
              IN  /\ q \in Run /\ q.all_passed
                  /\ q.group_passed = r.group_passed
                  /\ q.number = r.number /\ q.group = r.group
                  /\ q.sequence = r.sequence + 1
           /\ LET q == [r EXCEPT !.group_passed = @ /\ r.all_passed]
              IN  /\ q \in Run /\ q.all_passed = r.all_passed
                  /\ q.group_passed = (r.group_passed /\ r.all_passed)
                  /\ q.number = r.number /\ q.group = r.group
                  /\ q.sequence = r.sequence
<1>1. 0 \in Nat /\ MaxSequences \in Int
  BY Bounds
<1>2. /\ TRUE \in BOOLEAN /\ FALSE \in BOOLEAN
      /\ (r.group_passed /\ r.all_passed) \in BOOLEAN
  BY Zenon
<1>3. LET q == [r EXCEPT !.groups = @ - 1, !.sequences = MaxSequences,
                         !.group = @ + 1, !.sequence = 0,
                         !.group_passed = TRUE, !.all_passed = TRUE,
                         !.lacking = FALSE]
      IN  /\ q \in Run /\ q.group_passed /\ q.all_passed
          /\ q.number = r.number /\ q.group = r.group + 1
          /\ q.sequence = 0
  <2> DEFINE q == [r EXCEPT !.groups = @ - 1, !.sequences = MaxSequences,
                            !.group = @ + 1, !.sequence = 0,
                            !.group_passed = TRUE, !.all_passed = TRUE,
                            !.lacking = FALSE]
  <2>1. q \in Run
    BY <1>1, <1>2, RunFields, Zenon DEF Run
  <2>2. /\ q.group_passed = TRUE /\ q.all_passed = TRUE
        /\ q.number = r.number /\ q.group = r.group + 1
        /\ q.sequence = 0
    BY DEF Run
  <2> QED BY <2>1, <2>2
<1>4. LET q == [r EXCEPT !.sequences = @ - 1, !.sequence = @ + 1,
                         !.all_passed = TRUE]
      IN  /\ q \in Run /\ q.all_passed
          /\ q.group_passed = r.group_passed
          /\ q.number = r.number /\ q.group = r.group
          /\ q.sequence = r.sequence + 1
  <2> DEFINE q == [r EXCEPT !.sequences = @ - 1, !.sequence = @ + 1,
                            !.all_passed = TRUE]
  <2>1. q \in Run
    BY <1>1, <1>2, RunFields, Zenon DEF Run
  <2>2. /\ q.all_passed = TRUE /\ q.group_passed = r.group_passed
        /\ q.number = r.number /\ q.group = r.group
        /\ q.sequence = r.sequence + 1
    BY DEF Run
  <2> QED BY <2>1, <2>2
<1>5. LET q == [r EXCEPT !.group_passed = @ /\ r.all_passed]
      IN  /\ q \in Run /\ q.all_passed = r.all_passed
          /\ q.group_passed = (r.group_passed /\ r.all_passed)
          /\ q.number = r.number /\ q.group = r.group
          /\ q.sequence = r.sequence
  <2> DEFINE b == r.group_passed /\ r.all_passed
             q == [r EXCEPT !.group_passed = b]
  <2>1. b \in BOOLEAN
    BY <1>2
  <2> HIDE DEF b
  <2>2. q \in Run
    BY <2>1, RunFields, Zenon DEF Run
  <2>3. /\ q.group_passed = b /\ q.all_passed = r.all_passed
        /\ q.number = r.number /\ q.group = r.group
        /\ q.sequence = r.sequence
    BY DEF Run
  <2> QED BY <2>2, <2>3, Zenon DEF b
<1> QED BY <1>3, <1>4, <1>5, Zenon

-----------------------------------------------------------------------------
(* Showing a sequence of events. *)

\* The views that Show passes through, one for each event, and the last.
Trace(V, es, g) ==
    g = [i \in 0..Len(es) |-> IF i = 0 THEN V ELSE ShowEvent(g[i - 1], es[i])]
Shown(V, es, W) == \E g : Trace(V, es, g) /\ g[Len(es)] = W

\* No events leave the view as it is.
LEMMA ShownNone ==
    ASSUME NEW V
    PROVE  /\ Shown(V, <<>>, V)
           /\ \A W : Shown(V, <<>>, W) => W = V
<1>1. Len(<<>>) = 0 /\ 0 \in 0..0
  OBVIOUS
<1>2. Shown(V, <<>>, V)
  <2> DEFINE g == [i \in 0..0 |-> V]
  <2>1. \A i \in 0..0 : i = 0
    OBVIOUS
  <2>2. g = [i \in 0..0 |-> IF i = 0 THEN V ELSE ShowEvent(g[i - 1], <<>>[i])]
    BY <2>1
  <2>3. g[0] = V
    BY <1>1
  <2> HIDE DEF g
  <2> QED BY <1>1, <2>2, <2>3 DEF Shown, Trace
<1>3. ASSUME NEW W, Shown(V, <<>>, W)
      PROVE  W = V
  <2>1. PICK g : Trace(V, <<>>, g) /\ g[0] = W
    BY <1>1, <1>3 DEF Shown
  <2>2. g[0] = V
    BY <1>1, <2>1 DEF Trace
  <2> QED BY <2>1, <2>2
<1> QED BY <1>2, <1>3

\* Another event is shown after the others: appending to ts_events is showing
\* one more.
LEMMA ShownOneMore ==
    ASSUME NEW S, NEW es \in Seq(S), NEW e \in S, NEW V, NEW W,
           Shown(V, es, W)
    PROVE  Shown(V, Append(es, e), ShowEvent(W, e))
<1> DEFINE n == Len(es)
           more == Append(es, e)
<1>1. PICK g : Trace(V, es, g) /\ g[n] = W
  BY DEF Shown
<1>2. n \in Nat /\ Len(more) = n + 1 /\ more[n + 1] = e
      /\ \A i \in 1..n : more[i] = es[i]
  BY AppendProperties, LenProperties
<1> HIDE DEF n, more
<1> DEFINE h == [i \in 0..(n + 1) |->
                   IF i = n + 1 THEN ShowEvent(W, e) ELSE g[i]]
<1>3. ASSUME NEW i \in 0..(n + 1)
      PROVE  h[i] = IF i = 0 THEN V ELSE ShowEvent(h[i - 1], more[i])
  <2>1. CASE i = 0
    <3>1. h[i] = g[0] /\ g[0] = V
      BY <1>1, <1>2, <2>1 DEF Trace, n
    <3> QED BY <2>1, <3>1
  <2>2. CASE i \in 1..n
    <3>1. h[i] = g[i] /\ h[i - 1] = g[i - 1]
      BY <1>2, <2>2
    <3>2. g[i] = ShowEvent(g[i - 1], es[i])
      <4>1. i \in 0..Len(es) /\ i # 0
        BY <1>2, <2>2 DEF n
      <4> QED BY <1>1, <4>1 DEF Trace
    <3>3. more[i] = es[i] /\ i # 0
      BY <1>2, <2>2
    <3> HIDE DEF h
    <3> QED BY <3>1, <3>2, <3>3
  <2>3. CASE i = n + 1
    <3>1. h[i] = ShowEvent(W, e) /\ h[i - 1] = g[n] /\ i # 0
      BY <1>2, <2>3
    <3> HIDE DEF h
    <3> QED BY <1>1, <1>2, <2>3, <3>1
  <2> QED BY <1>2, <2>1, <2>2, <2>3
<1>4. h = [i \in 0..Len(more) |->
             IF i = 0 THEN V ELSE ShowEvent(h[i - 1], more[i])]
  <2> DEFINE k == [i \in 0..Len(more) |->
                     IF i = 0 THEN V ELSE ShowEvent(h[i - 1], more[i])]
  <2>1. \A i \in 0..(n + 1) : h[i] = k[i]
    BY <1>2, <1>3
  <2>2. DOMAIN h = 0..(n + 1) /\ DOMAIN k = 0..(n + 1)
    BY <1>2
  <2>3. h = [i \in 0..(n + 1) |-> h[i]] /\ k = [i \in 0..(n + 1) |-> k[i]]
    BY <1>2
  <2> HIDE DEF h, k
  <2>4. h = k
    BY <2>1, <2>3
  <2> QED BY <2>4 DEF k
<1>5. h[Len(more)] = ShowEvent(W, e)
  BY <1>2
<1> HIDE DEF h
<1>6. Trace(V, more, h)
  BY <1>4 DEF Trace
<1> QED BY <1>5, <1>6 DEF Shown, more

\* Show computes the last of these views, so that what is known of every
\* intermediate view applies to what gui_idle_testsuite displays.
LEMMA ShowIsShown ==
    ASSUME NEW S, NEW es \in Seq(S), NEW V, NEW W, Shown(V, es, W)
    PROVE  Show(V, es) = W
<1> DEFINE n == Len(es)
           f == CHOOSE g : Trace(V, es, g)
<1>1. PICK g : Trace(V, es, g) /\ g[n] = W
  BY DEF Shown
<1>2. Trace(V, es, f)
  BY <1>1
<1>3. Show(V, es) = f[n]
  BY DEF Show, Trace
<1> HIDE DEF f
<1>4. n \in Nat
  BY LenProperties
<1> DEFINE T == {i \in Nat : i \in 0..n => f[i] = g[i]}
<1>5. 0 \in T
  BY <1>1, <1>2, <1>4 DEF Trace
<1>6. ASSUME NEW i \in T PROVE i + 1 \in T
  <2>1. i \in Nat /\ i + 1 \in Nat
    OBVIOUS
  <2>2. ASSUME i + 1 \in 0..n PROVE f[i + 1] = g[i + 1]
    <3>1. f[i] = g[i] /\ i + 1 # 0 /\ (i + 1) - 1 = i
      BY <1>4, <2>1, <2>2
    <3>2. f[i + 1] = ShowEvent(f[i], es[i + 1])
      BY <1>2, <2>2, <3>1 DEF Trace
    <3>3. g[i + 1] = ShowEvent(g[i], es[i + 1])
      BY <1>1, <2>2, <3>1 DEF Trace
    <3> QED BY <3>1, <3>2, <3>3
  <2> QED BY <2>1, <2>2
<1>7. T = Nat
  <2> HIDE DEF T
  <2>1. T \in SUBSET Nat
    BY DEF T
  <2> QED BY <1>5, <1>6, <2>1, Ind
<1>8. f[n] = g[n]
  BY <1>4, <1>7
<1> QED BY <1>1, <1>3, <1>8

-----------------------------------------------------------------------------
(* The tree and its operations. *)

\* Types: iterators, labels, rows, the view, the events.
Iter == [gen : Nat, row : Nat]
Labels == Nat \X Nat \X Nat
Row == [label : Labels, parent : Iter, status : {"PASS", "FAIL", "Running"}]
View == [displayed : BOOLEAN, gen : Nat, rows : Seq(Row), group_iter : Iter,
         sequence_iter : Iter]
Events == [kind : {"__GROUP_START", "__SEQUENCE_START", "__SEQUENCE_END",
                   "__GROUP_END", "__ERROR", "call"},
           passed : BOOLEAN, label : Labels]

\* A row that e makes under parent.
RowOf(e, parent) ==
    [label |-> e.label, parent |-> parent,
     status |-> IF e.kind = "call" THEN Verdict(e) ELSE "Running"]

\* The row of an event is a row, and a verdict is PASS or FAIL.
LEMMA RowOfIsRow ==
    ASSUME NEW e \in Events, NEW parent \in Iter
    PROVE  RowOf(e, parent) \in Row /\ Verdict(e) \in {"PASS", "FAIL"}
<1>1. e.label \in Labels
  BY DEF Events
<1>2. Verdict(e) \in {"PASS", "FAIL"}
  BY DEF Verdict
<1>3. (IF e.kind = "call" THEN Verdict(e) ELSE "Running")
         \in {"PASS", "FAIL", "Running"}
  BY <1>2
<1> QED BY <1>1, <1>2, <1>3, Zenon DEF RowOf, Row

\* The fields of a view.
LEMMA ViewFields ==
    ASSUME NEW V \in View
    PROVE  /\ V.gen \in Nat /\ V.rows \in Seq(Row) /\ V.group_iter \in Iter
           /\ V.sequence_iter \in Iter /\ Len(V.rows) \in Nat
           /\ DOMAIN V.rows = 1..Len(V.rows)
           /\ \A i \in 1..Len(V.rows) :
                /\ V.rows[i] \in Row /\ V.rows[i].label \in Labels
                /\ V.rows[i].parent \in Iter
                /\ V.rows[i].status \in {"PASS", "FAIL", "Running"}
<1>1. /\ V.gen \in Nat /\ V.rows \in Seq(Row) /\ V.group_iter \in Iter
      /\ V.sequence_iter \in Iter
  BY DEF View
<1>2. Len(V.rows) \in Nat /\ DOMAIN V.rows = 1..Len(V.rows)
  BY <1>1, LenProperties
<1>3. \A i \in 1..Len(V.rows) : V.rows[i] \in Row
  BY <1>1, ElementOfSeq
<1>4. \A r \in Row : /\ r.label \in Labels /\ r.parent \in Iter
                     /\ r.status \in {"PASS", "FAIL", "Running"}
  BY DEF Row
<1> QED BY <1>1, <1>2, <1>3, <1>4

\* gtk_tree_store_append: one row more, below the others, and the iterators as
\* they were.
LEMMA AppendedView ==
    ASSUME NEW V \in View, NEW e \in Events, NEW parent \in Iter,
           IsRow(V, parent) \/ parent = NoIter
    PROVE  LET W == Appended(V, e, parent)
               n == Len(V.rows)
           IN  /\ W \in View /\ W.gen = V.gen
               /\ W.group_iter = V.group_iter
               /\ W.sequence_iter = V.sequence_iter
               /\ Len(W.rows) = n + 1
               /\ \A i \in 1..n : W.rows[i] = V.rows[i]
               /\ W.rows[n + 1] = RowOf(e, parent)
<1> DEFINE W == Appended(V, e, parent)
           n == Len(V.rows)
           R == Append(V.rows, RowOf(e, parent))
<1>1. W = [V EXCEPT !.rows = R]
  BY DEF Appended, RowOf
<1>2. V.rows \in Seq(Row) /\ RowOf(e, parent) \in Row
  BY ViewFields, RowOfIsRow
<1>3. /\ R \in Seq(Row) /\ Len(R) = n + 1 /\ R[n + 1] = RowOf(e, parent)
      /\ \A i \in 1..n : R[i] = V.rows[i]
  BY <1>2, AppendProperties
<1> HIDE DEF R, W
<1>4. W \in View
  BY <1>1, <1>3, Zenon DEF View
<1>5. /\ W.rows = R /\ W.gen = V.gen /\ W.group_iter = V.group_iter
      /\ W.sequence_iter = V.sequence_iter
  BY <1>1 DEF View
<1> QED BY <1>3, <1>4, <1>5 DEF W

\* gtk_tree_store_set of a status: nothing but the status of that row changes.
LEMMA SetStatusView ==
    ASSUME NEW V \in View, NEW iter \in Iter, IsRow(V, iter),
           NEW status \in {"PASS", "FAIL"}
    PROVE  LET W == SetStatus(V, iter, status)
               n == Len(V.rows)
           IN  /\ W \in View /\ W.gen = V.gen
               /\ W.group_iter = V.group_iter
               /\ W.sequence_iter = V.sequence_iter
               /\ Len(W.rows) = n
               /\ \A i \in 1..n :
                    /\ W.rows[i].label = V.rows[i].label
                    /\ W.rows[i].parent = V.rows[i].parent
                    /\ i # iter.row => W.rows[i].status = V.rows[i].status
               /\ W.rows[iter.row].status = status
<1> DEFINE W == SetStatus(V, iter, status)
           n == Len(V.rows)
           k == iter.row
           row == [V.rows[k] EXCEPT !.status = status]
           R == [V.rows EXCEPT ![k] = row]
<1>1. /\ V.rows \in Seq(Row) /\ k \in 1..n /\ V.rows[k] \in Row
      /\ n \in Nat /\ DOMAIN V.rows = 1..n
  BY ViewFields DEF IsRow
<1>2. W = [V EXCEPT !.rows = R]
  BY DEF SetStatus, View
<1>3. /\ row \in Row /\ row.label = V.rows[k].label
      /\ row.parent = V.rows[k].parent /\ row.status = status
  BY <1>1 DEF Row
<1> HIDE DEF row, W
<1>4. /\ R \in Seq(Row) /\ Len(R) = n
      /\ \A i \in 1..n : R[i] = IF i = k THEN row ELSE V.rows[i]
  BY <1>1, <1>3, ExceptSeq
<1> HIDE DEF R
<1>5. W \in View
  BY <1>2, <1>4, Zenon DEF View
<1>6. /\ W.rows = R /\ W.gen = V.gen /\ W.group_iter = V.group_iter
      /\ W.sequence_iter = V.sequence_iter
  BY <1>2 DEF View
<1>7. ASSUME NEW i \in 1..n
      PROVE  /\ W.rows[i].label = V.rows[i].label
             /\ W.rows[i].parent = V.rows[i].parent
             /\ i # iter.row => W.rows[i].status = V.rows[i].status
             /\ i = iter.row => W.rows[i].status = status
  BY <1>3, <1>4, <1>6
<1> QED BY <1>1, <1>4, <1>5, <1>6, <1>7 DEF W

\* W is V with one more row; W is V with the status of one row set.
Grows(V, W, row) ==
    /\ V \in View /\ W \in View /\ W.gen = V.gen
    /\ Len(W.rows) = Len(V.rows) + 1
    /\ \A i \in 1..Len(V.rows) : W.rows[i] = V.rows[i]
    /\ W.rows[Len(V.rows) + 1] = row
Settles(V, W, k, status) ==
    /\ V \in View /\ W \in View /\ W.gen = V.gen
    /\ Len(W.rows) = Len(V.rows) /\ k \in 1..Len(V.rows)
    /\ \A i \in 1..Len(V.rows) :
         /\ W.rows[i].label = V.rows[i].label
         /\ W.rows[i].parent = V.rows[i].parent
         /\ i # k => W.rows[i].status = V.rows[i].status
    /\ W.rows[k].status = status

\* The iterator that names no row.
LEMMA NoIterIsIter == NoIter \in Iter /\ NoIter.row = 0 /\ NoIter.gen = 0
BY DEF NoIter, Iter

\* The iterator of the row that is added next.
LEMMA NewRowIsIter ==
    ASSUME NEW V \in View
    PROVE  /\ NewRow(V) \in Iter /\ NewRow(V).gen = V.gen
           /\ NewRow(V).row = Len(V.rows) + 1
BY ViewFields DEF NewRow, Iter

\* __GROUP_START adds a row at the top and makes it the current group.
LEMMA ShowGroupStart ==
    ASSUME NEW V \in View, NEW e \in Events, e.kind = "__GROUP_START"
    PROVE  /\ Grows(V, ShowEvent(V, e), RowOf(e, NoIter))
           /\ ShowEvent(V, e).group_iter = NewRow(V)
           /\ ShowEvent(V, e).sequence_iter = V.sequence_iter
<1> DEFINE A == Appended(V, e, NoIter)
           W == [A EXCEPT !.group_iter = NewRow(V)]
<1>1. ShowEvent(V, e) = W
  BY DEF ShowEvent
<1>2. /\ A \in View /\ A.gen = V.gen /\ A.sequence_iter = V.sequence_iter
      /\ Len(A.rows) = Len(V.rows) + 1
      /\ \A i \in 1..Len(V.rows) : A.rows[i] = V.rows[i]
      /\ A.rows[Len(V.rows) + 1] = RowOf(e, NoIter)
  BY AppendedView, NoIterIsIter
<1>3. NewRow(V) \in Iter
  BY NewRowIsIter
<1> HIDE DEF A
<1>4. W \in View
  BY <1>2, <1>3, Zenon DEF View
<1>5. /\ W.gen = A.gen /\ W.rows = A.rows /\ W.group_iter = NewRow(V)
      /\ W.sequence_iter = A.sequence_iter
  BY <1>2 DEF View
<1> HIDE DEF W
<1> QED BY <1>1, <1>2, <1>4, <1>5 DEF Grows

\* __SEQUENCE_START adds a row under the current group.
LEMMA ShowSequenceStart ==
    ASSUME NEW V \in View, NEW e \in Events, e.kind = "__SEQUENCE_START",
           IsRow(V, V.group_iter)
    PROVE  /\ Grows(V, ShowEvent(V, e), RowOf(e, V.group_iter))
           /\ ShowEvent(V, e).group_iter = V.group_iter
           /\ ShowEvent(V, e).sequence_iter = NewRow(V)
<1> DEFINE A == Appended(V, e, V.group_iter)
           W == [A EXCEPT !.sequence_iter = NewRow(V)]
<1>1. ShowEvent(V, e) = W
  BY DEF ShowEvent
<1>2. /\ A \in View /\ A.gen = V.gen /\ A.group_iter = V.group_iter
      /\ Len(A.rows) = Len(V.rows) + 1
      /\ \A i \in 1..Len(V.rows) : A.rows[i] = V.rows[i]
      /\ A.rows[Len(V.rows) + 1] = RowOf(e, V.group_iter)
  BY AppendedView, ViewFields
<1>3. NewRow(V) \in Iter
  BY NewRowIsIter
<1> HIDE DEF A
<1>4. W \in View
  BY <1>2, <1>3, Zenon DEF View
<1>5. /\ W.gen = A.gen /\ W.rows = A.rows /\ W.sequence_iter = NewRow(V)
      /\ W.group_iter = A.group_iter
  BY <1>2 DEF View
<1> HIDE DEF W
<1> QED BY <1>1, <1>2, <1>4, <1>5 DEF Grows

\* The row of a call goes under the current sequence, to the top if there is
\* none; nothing is added if the iterator is left over from an earlier
\* filling.
LEMMA ShowCall ==
    ASSUME NEW V \in View, NEW e \in Events, e.kind = "call"
    PROVE  \/ /\ ~IsRow(V, V.sequence_iter) /\ V.sequence_iter # NoIter
              /\ ShowEvent(V, e) = V
           \/ /\ IsRow(V, V.sequence_iter) \/ V.sequence_iter = NoIter
              /\ Grows(V, ShowEvent(V, e), RowOf(e, V.sequence_iter))
              /\ ShowEvent(V, e).group_iter = V.group_iter
              /\ ShowEvent(V, e).sequence_iter = V.sequence_iter
<1> DEFINE A == Appended(V, e, V.sequence_iter)
<1>1. ShowEvent(V, e) = A
  BY DEF ShowEvent
<1>2. CASE ~IsRow(V, V.sequence_iter) /\ V.sequence_iter # NoIter
  BY <1>1, <1>2 DEF Appended
<1>3. CASE IsRow(V, V.sequence_iter) \/ V.sequence_iter = NoIter
  <2>1. /\ A \in View /\ A.gen = V.gen /\ A.group_iter = V.group_iter
        /\ A.sequence_iter = V.sequence_iter
        /\ Len(A.rows) = Len(V.rows) + 1
        /\ \A i \in 1..Len(V.rows) : A.rows[i] = V.rows[i]
        /\ A.rows[Len(V.rows) + 1] = RowOf(e, V.sequence_iter)
    BY <1>3, AppendedView, ViewFields
  <2> HIDE DEF A
  <2> QED BY <1>1, <1>3, <2>1 DEF Grows
<1> QED BY <1>2, <1>3

\* __SEQUENCE_END sets the verdict of the current sequence and forgets it.
LEMMA ShowSequenceEnd ==
    ASSUME NEW V \in View, NEW e \in Events, e.kind = "__SEQUENCE_END",
           IsRow(V, V.sequence_iter)
    PROVE  /\ Settles(V, ShowEvent(V, e), V.sequence_iter.row, Verdict(e))
           /\ ShowEvent(V, e).group_iter = V.group_iter
           /\ ShowEvent(V, e).sequence_iter = NoIter
<1> DEFINE A == SetStatus(V, V.sequence_iter, Verdict(e))
           W == [A EXCEPT !.sequence_iter = NoIter]
<1>1. ShowEvent(V, e) = W
  BY DEF ShowEvent
<1>2. Verdict(e) \in {"PASS", "FAIL"} /\ V.sequence_iter \in Iter
  BY ViewFields DEF Verdict
<1>3. /\ A \in View /\ A.gen = V.gen /\ A.group_iter = V.group_iter
      /\ Len(A.rows) = Len(V.rows)
      /\ \A i \in 1..Len(V.rows) :
           /\ A.rows[i].label = V.rows[i].label
           /\ A.rows[i].parent = V.rows[i].parent
           /\ i # V.sequence_iter.row => A.rows[i].status = V.rows[i].status
      /\ A.rows[V.sequence_iter.row].status = Verdict(e)
  BY <1>2, SetStatusView
<1> HIDE DEF A
<1>4. W \in View
  BY <1>3, NoIterIsIter, Zenon DEF View
<1>5. /\ W.gen = A.gen /\ W.rows = A.rows /\ W.sequence_iter = NoIter
      /\ W.group_iter = A.group_iter
  BY <1>3 DEF View
<1>6. V.sequence_iter.row \in 1..Len(V.rows)
  BY ViewFields DEF IsRow
<1> HIDE DEF W
<1> QED BY <1>1, <1>3, <1>4, <1>5, <1>6 DEF Settles

\* __GROUP_END sets the verdict of the current group and forgets it.
LEMMA ShowGroupEnd ==
    ASSUME NEW V \in View, NEW e \in Events, e.kind = "__GROUP_END",
           IsRow(V, V.group_iter)
    PROVE  /\ Settles(V, ShowEvent(V, e), V.group_iter.row, Verdict(e))
           /\ ShowEvent(V, e).group_iter = NoIter
           /\ ShowEvent(V, e).sequence_iter = V.sequence_iter
<1> DEFINE A == SetStatus(V, V.group_iter, Verdict(e))
           W == [A EXCEPT !.group_iter = NoIter]
<1>1. ShowEvent(V, e) = W
  BY DEF ShowEvent
<1>2. Verdict(e) \in {"PASS", "FAIL"} /\ V.group_iter \in Iter
  BY ViewFields DEF Verdict
<1>3. /\ A \in View /\ A.gen = V.gen /\ A.sequence_iter = V.sequence_iter
      /\ Len(A.rows) = Len(V.rows)
      /\ \A i \in 1..Len(V.rows) :
           /\ A.rows[i].label = V.rows[i].label
           /\ A.rows[i].parent = V.rows[i].parent
           /\ i # V.group_iter.row => A.rows[i].status = V.rows[i].status
      /\ A.rows[V.group_iter.row].status = Verdict(e)
  BY <1>2, SetStatusView
<1> HIDE DEF A
<1>4. W \in View
  BY <1>3, NoIterIsIter, Zenon DEF View
<1>5. /\ W.gen = A.gen /\ W.rows = A.rows /\ W.group_iter = NoIter
      /\ W.sequence_iter = A.sequence_iter
  BY <1>3 DEF View
<1>6. V.group_iter.row \in 1..Len(V.rows)
  BY ViewFields DEF IsRow
<1> HIDE DEF W
<1> QED BY <1>1, <1>3, <1>4, <1>5, <1>6 DEF Settles

\* __ERROR leaves the tree as it is.
LEMMA ShowError ==
    ASSUME NEW V, NEW e, e.kind = "__ERROR"
    PROVE  ShowEvent(V, e) = V
BY DEF ShowEvent

-----------------------------------------------------------------------------
(* What the tree promises. *)

\* A row is under its own sequence or group, and passes if that passes.
RowSound(V, i) ==
    LET row == V.rows[i]
        above == V.rows[row.parent.row]
    IN  \/ row.parent = NoIter /\ row.label[3] = 0
        \/ /\ IsRow(V, row.parent)
           /\ above.label[1] = row.label[1] /\ above.label[2] = row.label[2]
           /\ above.label[3] \in {0, row.label[3]}
           /\ above.status = "PASS" => row.status = "PASS"
Sound(V) == \A i \in 1..Len(V.rows) : RowSound(V, i)

\* An iterator names a row if it is of this filling and within the rows.
LEMMA IsRowIs ==
    ASSUME NEW V \in View, NEW iter
    PROVE  IsRow(V, iter) <=> iter.gen = V.gen /\ iter.row \in 1..Len(V.rows)
BY ViewFields DEF IsRow

\* A new row under a row that does not say PASS, with labels that fit, keeps
\* the tree sound.
LEMMA GrowthIsSound ==
    ASSUME NEW V, NEW W, NEW row, Grows(V, W, row), Sound(V),
           \/ row.parent = NoIter /\ row.label[3] = 0
           \/ LET above == V.rows[row.parent.row]
              IN  /\ IsRow(V, row.parent)
                  /\ above.label[1] = row.label[1]
                  /\ above.label[2] = row.label[2]
                  /\ above.label[3] \in {0, row.label[3]}
                  /\ above.status # "PASS"
    PROVE  Sound(W)
<1> DEFINE n == Len(V.rows)
<1>1. /\ V \in View /\ W \in View /\ W.gen = V.gen /\ Len(W.rows) = n + 1
      /\ \A i \in 1..n : W.rows[i] = V.rows[i]
      /\ W.rows[n + 1] = row /\ n \in Nat
  BY ViewFields, ZenonT(40) DEF Grows
<1>2. ASSUME NEW iter, IsRow(V, iter)
      PROVE  IsRow(W, iter) /\ W.rows[iter.row] = V.rows[iter.row]
  <2>1. iter.gen = V.gen /\ iter.row \in 1..n
    BY <1>1, <1>2, IsRowIs
  <2>2. iter.row \in 1..Len(W.rows)
    BY <1>1, <2>1
  <2> QED BY <1>1, <2>1, <2>2, IsRowIs
<1>3. ASSUME NEW i \in 1..n PROVE RowSound(W, i)
  <2>1. RowSound(V, i) /\ W.rows[i] = V.rows[i]
    BY <1>1 DEF Sound
  <2> QED BY <1>2, <2>1, ZenonT(40) DEF RowSound
<1>4. RowSound(W, n + 1)
  BY <1>1, <1>2, ZenonT(40) DEF RowSound
<1>5. \A i \in 1..Len(W.rows) : i \in 1..n \/ i = n + 1
  BY <1>1
<1> QED BY <1>3, <1>4, <1>5 DEF Sound

\* A verdict keeps the tree sound if everything under it has passed, or the
\* verdict is FAIL, and the row above does not say PASS yet.
LEMMA VerdictIsSound ==
    ASSUME NEW V, NEW W, NEW k, NEW status, Settles(V, W, k, status),
           Sound(V),
           status = "PASS" =>
             \A j \in 1..Len(V.rows) :
               V.rows[j].parent = [gen |-> V.gen, row |-> k] =>
                 V.rows[j].status = "PASS",
           \/ V.rows[k].parent = NoIter
           \/ V.rows[V.rows[k].parent.row].status # "PASS",
           V.rows[k].parent.row # k
    PROVE  Sound(W)
<1> DEFINE n == Len(V.rows)
<1>1. /\ V \in View /\ W \in View /\ W.gen = V.gen /\ Len(W.rows) = n
      /\ k \in 1..n /\ n \in Nat
      /\ \A i \in 1..n :
           /\ W.rows[i].label = V.rows[i].label
           /\ W.rows[i].parent = V.rows[i].parent
           /\ i # k => W.rows[i].status = V.rows[i].status
      /\ W.rows[k].status = status
  BY ViewFields DEF Settles
<1>2. ASSUME NEW i \in 1..n PROVE RowSound(W, i)
  <2> DEFINE p == V.rows[i].parent
  <2>1. RowSound(V, i)
    BY DEF Sound
  <2>2. CASE p = NoIter /\ V.rows[i].label[3] = 0
    BY <1>1, <2>2, Zenon DEF RowSound
  <2>3. CASE /\ IsRow(V, p)
             /\ V.rows[p.row].label[1] = V.rows[i].label[1]
             /\ V.rows[p.row].label[2] = V.rows[i].label[2]
             /\ V.rows[p.row].label[3] \in {0, V.rows[i].label[3]}
             /\ V.rows[p.row].status = "PASS" => V.rows[i].status = "PASS"
    <3>1. p.gen = V.gen /\ p.row \in 1..n /\ IsRow(W, p) /\ p \in Iter
      <4>1. p.gen = V.gen /\ p.row \in 1..n
        BY <1>1, <2>3, IsRowIs, ZenonT(40)
      <4>2. IsRow(W, p)
        BY <1>1, <4>1, IsRowIs
      <4>3. p \in Iter
        BY <1>1, ViewFields
      <4> QED BY <4>1, <4>2, <4>3
    <3>2. p = [gen |-> p.gen, row |-> p.row]
      BY <3>1 DEF Iter
    <3>3. W.rows[p.row].status = "PASS" => W.rows[i].status = "PASS"
      <4>1. CASE p.row = k
        <5>1. p = [gen |-> V.gen, row |-> k] /\ i # k
          BY <3>1, <3>2, <4>1
        <5> QED BY <1>1, <4>1, <5>1
      <4>2. CASE p.row # k /\ i = k
        <5>1. p # NoIter
          BY <3>1, NoIterIsIter
        <5> QED BY <1>1, <3>1, <4>2, <5>1
      <4>3. CASE p.row # k /\ i # k
        BY <1>1, <2>3, <3>1, <4>3, Zenon
      <4> QED BY <4>1, <4>2, <4>3
    <3> QED BY <1>1, <2>3, <3>1, <3>3, Zenon DEF RowSound
  <2> QED BY <2>1, <2>2, <2>3, Zenon DEF RowSound
<1> QED BY <1>1, <1>2 DEF Sound

-----------------------------------------------------------------------------
(* How the view follows the runner. *)

\* Where the iterators stand: at no row of this filling; at a row that runs;
\* and with nothing but PASS under it, but for one row.
Dead(V, iter) == iter = NoIter \/ iter.gen < V.gen
IsRunning(V, iter, label, parent) ==
    /\ IsRow(V, iter)
    /\ V.rows[iter.row].label = label
    /\ V.rows[iter.row].parent = parent
    /\ V.rows[iter.row].status = "Running"
PassUnder(V, iter, but) ==
    \A j \in 1..Len(V.rows) :
        V.rows[j].parent = iter /\ j # but => V.rows[j].status = "PASS"

\* The view V, with all events shown, is that of a runner which is at `at`
\* with the variables r: the iterators are at the rows of the current group
\* and sequence, and these say what the runner's verdicts say.
Follows(V, at, r) ==
    /\ V \in View /\ V.gen = r.number
    /\ V.group_iter.gen <= V.gen /\ V.sequence_iter.gen <= V.gen
    /\ at \in {"groups", "end"} => Dead(V, V.group_iter)
    /\ at \in {"groups", "end", "sequences", "reset"} =>
         Dead(V, V.sequence_iter)
    /\ at \in {"sequences", "calls", "failed", "reset"} =>
         IsRunning(V, V.group_iter, <<r.number, r.group, 0>>, NoIter)
    /\ at \in {"sequences", "reset"} /\ r.group_passed =>
         PassUnder(V, V.group_iter, 0)
    /\ at \in {"calls", "failed"} =>
         /\ IsRunning(V, V.sequence_iter,
                      <<r.number, r.group, r.sequence>>, V.group_iter)
         /\ r.group_passed => PassUnder(V, V.group_iter, V.sequence_iter.row)
         /\ r.all_passed => PassUnder(V, V.sequence_iter, 0)
    /\ at = "calls" => r.all_passed

\* An iterator of an earlier filling names no row of this one.
LEMMA DeadIsNoRow ==
    ASSUME NEW V \in View, NEW iter, Dead(V, iter)
    PROVE  ~IsRow(V, iter)
BY IsRowIs, ViewFields, NoIterIsIter DEF Dead

\* A row that runs goes on when another is added.
LEMMA GrowthKeepsRunning ==
    ASSUME NEW V, NEW W, NEW row, Grows(V, W, row), NEW iter, NEW label,
           NEW parent, IsRunning(V, iter, label, parent)
    PROVE  IsRunning(W, iter, label, parent)
<1>1. /\ V \in View /\ W \in View /\ W.gen = V.gen
      /\ Len(W.rows) = Len(V.rows) + 1 /\ Len(V.rows) \in Nat
      /\ \A i \in 1..Len(V.rows) : W.rows[i] = V.rows[i]
  BY ViewFields DEF Grows
<1>2. iter.gen = V.gen /\ iter.row \in 1..Len(V.rows)
  BY <1>1, IsRowIs DEF IsRunning
<1>3. iter.row \in 1..Len(W.rows) /\ W.rows[iter.row] = V.rows[iter.row]
  BY <1>1, <1>2
<1>4. IsRow(W, iter)
  BY <1>1, <1>2, <1>3, IsRowIs
<1> QED BY <1>3, <1>4 DEF IsRunning

\* What was under a row has still passed when another row is added.
LEMMA GrowthKeepsPass ==
    ASSUME NEW V, NEW W, NEW row, Grows(V, W, row),
           NEW iter, NEW but, NEW less,
           PassUnder(V, iter, less),
           \A j \in 1..Len(V.rows) : V.rows[j].parent = iter /\ j = less =>
              V.rows[j].status = "PASS" \/ j = but,
           row.parent = iter => row.status = "PASS" \/ but = Len(V.rows) + 1
    PROVE  PassUnder(W, iter, but)
<1>1. /\ V \in View
      /\ Len(W.rows) = Len(V.rows) + 1 /\ Len(V.rows) \in Nat
      /\ \A i \in 1..Len(V.rows) : W.rows[i] = V.rows[i]
      /\ W.rows[Len(V.rows) + 1] = row
  BY ViewFields DEF Grows
<1>2. \A j \in 1..Len(W.rows) : j \in 1..Len(V.rows) \/ j = Len(V.rows) + 1
  BY <1>1
<1> QED BY <1>1, <1>2 DEF PassUnder

\* Nothing is under a row that has just been added.
LEMMA NothingUnderNewRow ==
    ASSUME NEW V \in View, Sound(V), NEW j \in 1..Len(V.rows)
    PROVE  V.rows[j].parent # NewRow(V)
<1>1. /\ Len(V.rows) \in Nat /\ NewRow(V).row = Len(V.rows) + 1
      /\ NoIter.row = 0
  BY ViewFields, NewRowIsIter, NoIterIsIter
<1>2. V.rows[j].parent = NoIter \/ V.rows[j].parent.row \in 1..Len(V.rows)
  BY IsRowIs, Zenon DEF Sound, RowSound
<1> QED BY <1>1, <1>2

\* The row of a group or of a sequence starts as one that runs.
LEMMA NewRowRuns ==
    ASSUME NEW V \in View, NEW e \in Events, e.kind # "call",
           NEW parent \in Iter,
           NEW W, Grows(V, W, RowOf(e, parent))
    PROVE  IsRunning(W, NewRow(V), e.label, parent)
<1>1. /\ NewRow(V).gen = V.gen /\ NewRow(V).row = Len(V.rows) + 1
      /\ Len(V.rows) \in Nat
  BY NewRowIsIter, ViewFields
<1>2. /\ W \in View /\ W.gen = V.gen /\ Len(W.rows) = Len(V.rows) + 1
      /\ W.rows[Len(V.rows) + 1] = RowOf(e, parent)
  BY DEF Grows
<1>3. IsRow(W, NewRow(V))
  BY <1>1, <1>2, IsRowIs
<1>4. /\ RowOf(e, parent).label = e.label /\ RowOf(e, parent).parent = parent
      /\ RowOf(e, parent).status = "Running"
  BY DEF RowOf
<1> QED BY <1>1, <1>2, <1>3, <1>4 DEF IsRunning

\* Showing the start of a group follows testsuite_grp_start.
LEMMA GroupStarts ==
    ASSUME NEW V, NEW r \in Run, NEW q \in Run, Follows(V, "groups", r),
           Sound(V), q.number = r.number, q.group = r.group + 1,
           NEW e \in Events, e.kind = "__GROUP_START",
           e.label = <<r.number, r.group + 1, 0>>
    PROVE  Follows(ShowEvent(V, e), "sequences", q) /\ Sound(ShowEvent(V, e))
<1> DEFINE W == ShowEvent(V, e)
           row == RowOf(e, NoIter)
<1>1. /\ V \in View /\ V.gen = r.number /\ V.sequence_iter.gen <= V.gen
      /\ Dead(V, V.sequence_iter)
  BY DEF Follows
<1>2. Grows(V, W, row) /\ W.group_iter = NewRow(V)
      /\ W.sequence_iter = V.sequence_iter
  BY <1>1, ShowGroupStart
<1>3. W \in View /\ W.gen = V.gen
  BY <1>2 DEF Grows
<1>4. row.parent = NoIter /\ row.label = <<r.number, r.group + 1, 0>>
  BY DEF RowOf
<1> HIDE DEF W, row
<1>5. Sound(W)
  <2>1. row.label[3] = 0
    BY <1>4
  <2> QED BY <1>2, <1>4, <2>1, GrowthIsSound
<1>6. IsRunning(W, W.group_iter, <<q.number, q.group, 0>>, NoIter)
  BY <1>1, <1>2, NewRowRuns, NoIterIsIter DEF row
<1>7. PassUnder(W, W.group_iter, 0)
  <2>1. \A j \in 1..Len(V.rows) : V.rows[j].parent # NewRow(V)
    BY <1>1, NothingUnderNewRow
  <2>2. row.parent # NewRow(V)
    BY <1>1, <1>4, NoIterIsIter, NewRowIsIter, ViewFields
  <2>3. PassUnder(V, NewRow(V), 0)
    BY <2>1 DEF PassUnder
  <2> QED BY <1>2, <2>1, <2>2, <2>3, GrowthKeepsPass
<1>8. W.group_iter.gen <= W.gen /\ W.sequence_iter.gen <= W.gen
      /\ Dead(W, W.sequence_iter)
  BY <1>1, <1>2, <1>3, NewRowIsIter, ViewFields DEF Dead
<1> QED BY <1>1, <1>3, <1>5, <1>6, <1>7, <1>8 DEF Follows, W

\* Showing the start of a sequence follows testsuite_seq_start.
LEMMA SequenceStarts ==
    ASSUME NEW V, NEW r \in Run, NEW q \in Run, Follows(V, "sequences", r),
           Sound(V), q.number = r.number, q.group = r.group,
           q.sequence = r.sequence + 1, q.group_passed = r.group_passed,
           q.all_passed,
           NEW e \in Events, e.kind = "__SEQUENCE_START",
           e.label = <<r.number, r.group, r.sequence + 1>>
    PROVE  Follows(ShowEvent(V, e), "calls", q) /\ Sound(ShowEvent(V, e))
<1> DEFINE W == ShowEvent(V, e)
           g == V.group_iter
           row == RowOf(e, g)
<1>1. /\ V \in View /\ V.gen = r.number /\ g.gen <= V.gen /\ g \in Iter
      /\ IsRunning(V, g, <<r.number, r.group, 0>>, NoIter)
      /\ r.group_passed => PassUnder(V, g, 0)
      /\ Len(V.rows) \in Nat
  <2>1. V \in View
    BY DEF Follows
  <2> QED BY <2>1, ViewFields DEF Follows
<1>2. IsRow(V, g)
  BY <1>1 DEF IsRunning
<1>3. Grows(V, W, row) /\ W.group_iter = g /\ W.sequence_iter = NewRow(V)
  BY <1>1, <1>2, ShowSequenceStart
<1>4. W \in View /\ W.gen = V.gen
  BY <1>3 DEF Grows
<1>5. row.parent = g /\ row.label = <<r.number, r.group, r.sequence + 1>>
  BY DEF RowOf
<1> HIDE DEF W, row, g
<1>6. Sound(W)
  <2>1. /\ V.rows[g.row].label = <<r.number, r.group, 0>>
        /\ V.rows[g.row].status # "PASS"
    BY <1>1 DEF IsRunning
  <2>2. /\ V.rows[g.row].label[1] = row.label[1]
        /\ V.rows[g.row].label[2] = row.label[2]
        /\ V.rows[g.row].label[3] = 0
    BY <1>5, <2>1
  <2> QED BY <1>2, <1>3, <1>5, <2>1, <2>2, GrowthIsSound, ZenonT(40)
<1>7. IsRunning(W, g, <<q.number, q.group, 0>>, NoIter)
  BY <1>1, <1>3, GrowthKeepsRunning
<1>8. IsRunning(W, NewRow(V), <<q.number, q.group, q.sequence>>, g)
  BY <1>1, <1>3, NewRowRuns DEF row
<1>9. g # NewRow(V) /\ NewRow(V).row = Len(V.rows) + 1
      /\ NewRow(V).gen = V.gen
  BY <1>1, <1>2, IsRowIs, NewRowIsIter
<1>10. q.group_passed => PassUnder(W, g, NewRow(V).row)
  <2>1. \A j \in 1..Len(V.rows) : j # 0
    BY <1>1
  <2> QED BY <1>1, <1>3, <1>9, <2>1, GrowthKeepsPass
<1>11. PassUnder(W, NewRow(V), 0)
  <2>1. \A j \in 1..Len(V.rows) : V.rows[j].parent # NewRow(V)
    BY <1>1, NothingUnderNewRow
  <2>2. PassUnder(V, NewRow(V), 0)
    BY <2>1 DEF PassUnder
  <2> QED BY <1>3, <1>5, <1>9, <2>1, <2>2, GrowthKeepsPass
<1>12. V.gen <= V.gen
  BY <1>1, ViewFields
<1> QED BY <1>1, <1>3, <1>4, <1>6, <1>7, <1>8, <1>9, <1>10, <1>11, <1>12
     DEF Follows, W

\* Showing a call follows run_test_sequence.
LEMMA CallShown ==
    ASSUME NEW V, NEW r \in Run, NEW q \in Run, Follows(V, "calls", r),
           Sound(V), q.number = r.number, q.group = r.group,
           q.sequence = r.sequence, q.group_passed = r.group_passed,
           NEW at, at = IF q.all_passed THEN "calls" ELSE "failed",
           NEW e \in Events, e.kind = "call", e.passed = q.all_passed,
           e.label = <<r.number, r.group, r.sequence>>
    PROVE  Follows(ShowEvent(V, e), at, q) /\ Sound(ShowEvent(V, e))
<1> DEFINE W == ShowEvent(V, e)
           g == V.group_iter
           s == V.sequence_iter
           row == RowOf(e, s)
<1>1. /\ V \in View /\ V.gen = r.number /\ g.gen <= V.gen /\ s.gen <= V.gen
      /\ IsRunning(V, g, <<r.number, r.group, 0>>, NoIter)
      /\ IsRunning(V, s, <<r.number, r.group, r.sequence>>, g)
      /\ r.group_passed => PassUnder(V, g, s.row)
      /\ PassUnder(V, s, 0)
  BY DEF Follows
<1>2. IsRow(V, s) /\ IsRow(V, g)
  BY <1>1 DEF IsRunning
<1>3. Grows(V, W, row) /\ W.group_iter = g /\ W.sequence_iter = s
  BY <1>1, <1>2, ShowCall
<1>4. W \in View /\ W.gen = V.gen
  BY <1>3 DEF Grows
<1>5. /\ row.parent = s /\ row.label = <<r.number, r.group, r.sequence>>
      /\ q.all_passed => row.status = "PASS"
  BY DEF RowOf, Verdict
<1>6. g # s
  <2>1. V.rows[s.row].parent = g /\ V.rows[g.row].parent = NoIter
    BY <1>1 DEF IsRunning
  <2>2. g # NoIter
    BY <1>1, <1>2, IsRowIs, NoIterIsIter
  <2> QED BY <2>1, <2>2
<1> HIDE DEF W, row, g, s
<1>7. Sound(W)
  <2>1. /\ V.rows[s.row].label = <<r.number, r.group, r.sequence>>
        /\ V.rows[s.row].status # "PASS"
    BY <1>1 DEF IsRunning
  <2> QED BY <1>2, <1>3, <1>5, <2>1, GrowthIsSound, ZenonT(40)
<1>8. /\ IsRunning(W, g, <<q.number, q.group, 0>>, NoIter)
      /\ IsRunning(W, s, <<q.number, q.group, q.sequence>>, g)
  BY <1>1, <1>3, GrowthKeepsRunning
<1>9. q.group_passed => PassUnder(W, g, s.row)
  BY <1>1, <1>3, <1>5, <1>6, GrowthKeepsPass
<1>10. q.all_passed => PassUnder(W, s, 0)
  <2>1. \A j \in 1..Len(V.rows) : j # 0
    BY <1>1, ViewFields
  <2> QED BY <1>1, <1>3, <1>5, <2>1, GrowthKeepsPass
<1>11. at \in {"calls", "failed"} /\ (at = "calls" => q.all_passed)
  OBVIOUS
<1>12. W.gen = q.number /\ W.group_iter.gen <= W.gen
       /\ W.sequence_iter.gen <= W.gen
  BY <1>1, <1>3, <1>4
<1> HIDE DEF Follows
<1>13. Follows(W, at, q)
  BY <1>3, <1>4, <1>8, <1>9, <1>10, <1>11, <1>12 DEF Follows
<1> QED BY <1>7, <1>13 DEF W

\* The verdict of one row leaves another one running.
LEMMA SettlingKeepsRunning ==
    ASSUME NEW V, NEW W, NEW k, NEW status, Settles(V, W, k, status),
           NEW iter, NEW label, NEW parent,
           IsRunning(V, iter, label, parent), iter.row # k
    PROVE  IsRunning(W, iter, label, parent)
<1>1. /\ V \in View /\ W \in View /\ W.gen = V.gen
      /\ Len(W.rows) = Len(V.rows)
      /\ \A i \in 1..Len(V.rows) :
           /\ W.rows[i].label = V.rows[i].label
           /\ W.rows[i].parent = V.rows[i].parent
           /\ i # k => W.rows[i].status = V.rows[i].status
  BY DEF Settles
<1>2. iter.gen = V.gen /\ iter.row \in 1..Len(V.rows)
  BY <1>1, IsRowIs DEF IsRunning
<1>3. IsRow(W, iter)
  BY <1>1, <1>2, IsRowIs
<1> QED BY <1>1, <1>2, <1>3 DEF IsRunning

\* Showing the end of a sequence follows testsuite_seq_end: a PASS covers the
\* calls under it, because the runner stops at the first failure.
LEMMA SequenceEnds ==
    ASSUME NEW V, NEW r \in Run, NEW q \in Run,
           NEW from \in {"calls", "failed"},
           Follows(V, from, r), Sound(V), q.number = r.number,
           q.group = r.group,
           q.group_passed <=> r.group_passed /\ r.all_passed,
           NEW at, at = IF r.all_passed THEN "sequences" ELSE "reset",
           NEW e \in Events, e.kind = "__SEQUENCE_END",
           e.passed = r.all_passed
    PROVE  Follows(ShowEvent(V, e), at, q) /\ Sound(ShowEvent(V, e))
<1> DEFINE W == ShowEvent(V, e)
           g == V.group_iter
           s == V.sequence_iter
<1>1. /\ V \in View /\ V.gen = r.number /\ g.gen <= V.gen /\ s.gen <= V.gen
      /\ IsRunning(V, g, <<r.number, r.group, 0>>, NoIter)
      /\ IsRunning(V, s, <<r.number, r.group, r.sequence>>, g)
      /\ r.group_passed => PassUnder(V, g, s.row)
      /\ r.all_passed => PassUnder(V, s, 0)
  BY DEF Follows
<1>2. IsRow(V, s) /\ IsRow(V, g)
  BY <1>1 DEF IsRunning
<1>3. /\ Settles(V, W, s.row, Verdict(e)) /\ W.group_iter = g
      /\ W.sequence_iter = NoIter
  BY <1>1, <1>2, ShowSequenceEnd
<1>4. /\ W \in View /\ W.gen = V.gen /\ V.gen \in Nat
      /\ Len(W.rows) = Len(V.rows) /\ Len(V.rows) \in Nat
      /\ \A i \in 1..Len(V.rows) :
           /\ W.rows[i].parent = V.rows[i].parent
           /\ i # s.row => W.rows[i].status = V.rows[i].status
      /\ W.rows[s.row].status = Verdict(e)
  BY <1>1, <1>3, ViewFields DEF Settles
<1>5. g.row # s.row /\ g.row \in 1..Len(V.rows) /\ s.row \in 1..Len(V.rows)
      /\ s.gen = V.gen
  <2>1. V.rows[s.row].parent = g /\ V.rows[g.row].parent = NoIter
    BY <1>1 DEF IsRunning
  <2>2. g.row \in 1..Len(V.rows) /\ s.row \in 1..Len(V.rows)
        /\ s.gen = V.gen
    BY <1>1, <1>2, IsRowIs
  <2>3. g # NoIter
    BY <2>2, NoIterIsIter
  <2> QED BY <2>1, <2>2, <2>3
<1>6. Verdict(e) = "PASS" <=> r.all_passed
  BY DEF Verdict
<1>7. s = [gen |-> V.gen, row |-> s.row]
  <2>1. s \in Iter
    BY <1>1, ViewFields
  <2> QED BY <1>5, <2>1 DEF Iter
<1> HIDE DEF W, g, s
<1>8. Sound(W)
  <2>1. /\ V.rows[s.row].parent = g /\ V.rows[g.row].status # "PASS"
    BY <1>1 DEF IsRunning
  <2>2. Verdict(e) = "PASS" =>
          \A j \in 1..Len(V.rows) :
            V.rows[j].parent = [gen |-> V.gen, row |-> s.row] =>
              V.rows[j].status = "PASS"
    <3>1. \A j \in 1..Len(V.rows) : j # 0
      BY <1>4
    <3> QED BY <1>1, <1>6, <1>7, <3>1 DEF PassUnder
  <2> QED BY <1>3, <1>5, <2>1, <2>2, VerdictIsSound, ZenonT(40)
<1>9. IsRunning(W, g, <<q.number, q.group, 0>>, NoIter)
  BY <1>1, <1>3, <1>5, SettlingKeepsRunning
<1>10. q.group_passed => PassUnder(W, g, 0)
  BY <1>1, <1>4, <1>6 DEF PassUnder
<1>11. at \in {"sequences", "reset"}
  OBVIOUS
<1>12. W.gen = q.number /\ W.group_iter.gen <= W.gen
       /\ W.sequence_iter.gen <= W.gen /\ Dead(W, W.sequence_iter)
  BY <1>1, <1>3, <1>4, NoIterIsIter DEF Dead
<1>13. Follows(W, at, q)
  BY <1>3, <1>4, <1>9, <1>10, <1>11, <1>12, ZenonT(40) DEF Follows
<1> QED BY <1>8, <1>13 DEF W

\* Showing the end of a group follows testsuite_grp_end: a PASS covers the
\* sequences under it, because group_passed is the conjunction of their
\* verdicts.
LEMMA GroupEnds ==
    ASSUME NEW V, NEW r \in Run, NEW from \in {"sequences", "reset"},
           Follows(V, from, r), Sound(V),
           NEW e \in Events, e.kind = "__GROUP_END", e.passed = r.group_passed
    PROVE  Follows(ShowEvent(V, e), "groups", r) /\ Sound(ShowEvent(V, e))
<1> DEFINE W == ShowEvent(V, e)
           g == V.group_iter
<1>1. /\ V \in View /\ V.gen = r.number /\ V.sequence_iter.gen <= V.gen
      /\ IsRunning(V, g, <<r.number, r.group, 0>>, NoIter)
      /\ Dead(V, V.sequence_iter)
      /\ r.group_passed => PassUnder(V, g, 0)
  BY DEF Follows
<1>2. IsRow(V, g)
  BY <1>1 DEF IsRunning
<1>3. /\ Settles(V, W, g.row, Verdict(e)) /\ W.group_iter = NoIter
      /\ W.sequence_iter = V.sequence_iter
  BY <1>1, <1>2, ShowGroupEnd
<1>4. W \in View /\ W.gen = V.gen /\ V.gen \in Nat /\ Len(V.rows) \in Nat
  BY <1>1, <1>3, ViewFields, ZenonT(40) DEF Settles
<1>5. g = [gen |-> V.gen, row |-> g.row] /\ g.row \in 1..Len(V.rows)
  <2>1. g \in Iter
    BY <1>1, ViewFields
  <2>2. g.gen = V.gen /\ g.row \in 1..Len(V.rows)
    BY <1>1, <1>2, IsRowIs
  <2> QED BY <2>1, <2>2 DEF Iter
<1>6. Verdict(e) = "PASS" <=> r.group_passed
  BY DEF Verdict
<1> HIDE DEF W, g
<1>7. Sound(W)
  <2>1. V.rows[g.row].parent = NoIter /\ NoIter.row # g.row
    BY <1>1, <1>5, NoIterIsIter DEF IsRunning
  <2>2. Verdict(e) = "PASS" =>
          \A j \in 1..Len(V.rows) :
            V.rows[j].parent = [gen |-> V.gen, row |-> g.row] =>
              V.rows[j].status = "PASS"
    <3>1. \A j \in 1..Len(V.rows) : j # 0
      BY <1>4
    <3> QED BY <1>1, <1>5, <1>6, <3>1 DEF PassUnder
  <2> QED BY <1>3, <2>1, <2>2, VerdictIsSound, Zenon
<1>8. W.gen = r.number /\ W.group_iter.gen <= W.gen
       /\ W.sequence_iter.gen <= W.gen /\ Dead(W, W.sequence_iter)
       /\ Dead(W, W.group_iter)
  BY <1>1, <1>3, <1>4, NoIterIsIter DEF Dead
<1>9. Follows(W, "groups", r)
  BY <1>3, <1>4, <1>8, ZenonT(40) DEF Follows
<1> QED BY <1>7, <1>9 DEF W

\* A call that testsuite_init or reset_filesystem reports outside any sequence
\* goes to the top of the tree, or nowhere.
LEMMA LooseCall ==
    ASSUME NEW V, NEW r \in Run,
           NEW at \in {"groups", "end", "sequences", "reset"},
           Follows(V, at, r), Sound(V),
           NEW e \in Events, e.kind = "call", e.label[3] = 0
    PROVE  Follows(ShowEvent(V, e), at, r) /\ Sound(ShowEvent(V, e))
<1> DEFINE W == ShowEvent(V, e)
           row == RowOf(e, NoIter)
<1>1. /\ V \in View /\ V.gen = r.number /\ Dead(V, V.sequence_iter)
      /\ V.group_iter.gen <= V.gen /\ V.sequence_iter.gen <= V.gen
  BY DEF Follows
<1>2. ~IsRow(V, V.sequence_iter)
  BY <1>1, DeadIsNoRow
<1>3. CASE V.sequence_iter # NoIter
  <2>1. ShowEvent(V, e) = V
    BY <1>1, <1>2, <1>3, ShowCall
  <2> QED BY <2>1
<1>4. CASE V.sequence_iter = NoIter
  <2>1. /\ Grows(V, W, row) /\ W.group_iter = V.group_iter
        /\ W.sequence_iter = V.sequence_iter
    BY <1>1, <1>2, <1>4, ShowCall
  <2>2. row.parent = NoIter /\ row.label[3] = 0
    BY DEF RowOf
  <2>3. W \in View /\ W.gen = V.gen
    BY <2>1 DEF Grows
  <2> HIDE DEF W, row
  <2>4. Sound(W)
    BY <2>1, <2>2, GrowthIsSound
  <2>5. at \in {"sequences", "reset"} =>
          IsRunning(W, W.group_iter, <<r.number, r.group, 0>>, NoIter)
    BY <2>1, GrowthKeepsRunning DEF Follows
  <2>6. at \in {"sequences", "reset"} /\ r.group_passed =>
          PassUnder(W, W.group_iter, 0)
    <3> SUFFICES ASSUME at \in {"sequences", "reset"}, r.group_passed
                 PROVE  PassUnder(W, W.group_iter, 0)
      OBVIOUS
    <3>1. PassUnder(V, V.group_iter, 0) /\ IsRow(V, V.group_iter)
      BY DEF Follows, IsRunning
    <3>2. V.group_iter # NoIter
      BY <1>1, <3>1, IsRowIs, NoIterIsIter
    <3>3. \A j \in 1..Len(V.rows) : j # 0
      BY <1>1, ViewFields
    <3> QED BY <2>1, <2>2, <3>1, <3>2, <3>3, GrowthKeepsPass
  <2>7. at \in {"groups", "end"} => Dead(W, W.group_iter)
    BY <2>1, <2>3 DEF Follows, Dead
  <2>8. Dead(W, W.sequence_iter)
    BY <1>4, <2>1 DEF Dead
  <2>9. W.group_iter.gen <= W.gen /\ W.sequence_iter.gen <= W.gen
        /\ W.gen = r.number
    BY <1>1, <2>1, <2>3
  <2>10. Follows(W, at, r)
    BY <2>3, <2>5, <2>6, <2>7, <2>8, <2>9 DEF Follows
  <2> QED BY <2>4, <2>10 DEF W
<1> QED BY <1>3, <1>4

-----------------------------------------------------------------------------
(* The invariant, with the events that wait. *)

\* What the GUI shows next: the view if it goes on, or an empty one.
Start ==
    IF view.displayed THEN view
    ELSE [view EXCEPT !.rows = <<>>, !.gen = run.number]

\* The inductive invariant of the tree: once the waiting events are shown, the
\* view follows the runner, in every order of reporting and displaying.
ViewInv ==
    /\ view \in View /\ events \in Seq(Events) /\ Sound(view)
    /\ view.group_iter.gen <= run.number
    /\ view.sequence_iter.gen <= run.number
    /\ \E W : Shown(Start, events, W) /\ Follows(W, pc, run) /\ Sound(W)

\* An event that is reported and not shown yet: if showing it follows the step
\* of the runner, the invariant is kept.
LEMMA EventReported ==
    ASSUME ViewInv, NEW e \in Events, events' = events \o <<e>>,
           UNCHANGED view, run'.number = run.number,
           \A W : Follows(W, pc, run) /\ Sound(W) =>
                    /\ Follows(ShowEvent(W, e), pc', run')
                    /\ Sound(ShowEvent(W, e))
    PROVE  ViewInv'
<1>1. PICK W : Shown(Start, events, W) /\ Follows(W, pc, run) /\ Sound(W)
  BY DEF ViewInv
<1>2. /\ view \in View /\ events \in Seq(Events) /\ Sound(view)
      /\ view.group_iter.gen <= run.number
      /\ view.sequence_iter.gen <= run.number
  BY DEF ViewInv
<1>3. events' = Append(events, e) /\ events' \in Seq(Events)
  BY <1>2, AppendIsConcat, AppendProperties
<1>4. Start' = Start
  BY DEF Start
<1>5. Shown(Start', events', ShowEvent(W, e))
  BY <1>1, <1>2, <1>3, <1>4, ShownOneMore, ZenonT(40)
<1>6. /\ (view \in View)' /\ Sound(view)'
      /\ (view.group_iter.gen <= run.number)'
      /\ (view.sequence_iter.gen <= run.number)'
  BY <1>2
<1>7. \E X : Shown(Start', events', X) /\ Follows(X, pc', run') /\ Sound(X)
  BY <1>1, <1>5
<1> QED BY <1>3, <1>6, <1>7, ZenonT(40) DEF ViewInv

\* Two events are one event after another.
LEMMA Pair ==
    ASSUME NEW S, NEW d \in S, NEW e \in S
    PROVE  <<d>> \in Seq(S) /\ <<e>> \in Seq(S) /\ <<d, e>> = <<d>> \o <<e>>
<1>1. <<d>> \in Seq(S) /\ <<e>> \in Seq(S) /\ <<d, e>> \in Seq(S)
  OBVIOUS
<1> DEFINE t == <<d>> \o <<e>>
<1>2. /\ t \in Seq(S) /\ Len(t) = 2
      /\ t[1] = d /\ t[2] = e
  <2>1. Len(<<d>>) = 1 /\ Len(<<e>>) = 1 /\ <<d>>[1] = d /\ <<e>>[1] = e
    OBVIOUS
  <2> QED BY <1>1, <2>1, ConcatProperties
<1> HIDE DEF t
<1>3. Len(<<d, e>>) = 2 /\ <<d, e>>[1] = d /\ <<d, e>>[2] = e
  OBVIOUS
<1>4. \A i \in 1..2 : i = 1 \/ i = 2
  OBVIOUS
<1>5. t = <<d, e>>
  <2> DEFINE u == <<d, e>>
  <2>1. u \in Seq(S) /\ Len(u) = 2 /\ u[1] = d /\ u[2] = e
    BY <1>1, <1>3
  <2> HIDE DEF u
  <2>2. t = u
    BY <1>2, <1>4, <2>1, SeqEqual
  <2> QED BY <2>2 DEF u
<1> QED BY <1>1, <1>5, Zenon DEF t

\* The same for a step that reports two events.
LEMMA EventsReported ==
    ASSUME ViewInv, NEW d \in Events, NEW e \in Events,
           events' = events \o <<d, e>>,
           UNCHANGED view, run'.number = run.number,
           \A W : Follows(W, pc, run) /\ Sound(W) =>
                    /\ Follows(ShowEvent(ShowEvent(W, d), e), pc', run')
                    /\ Sound(ShowEvent(ShowEvent(W, d), e))
    PROVE  ViewInv'
<1>1. PICK W : Shown(Start, events, W) /\ Follows(W, pc, run) /\ Sound(W)
  BY DEF ViewInv
<1>2. /\ view \in View /\ events \in Seq(Events) /\ Sound(view)
      /\ view.group_iter.gen <= run.number
      /\ view.sequence_iter.gen <= run.number
  BY DEF ViewInv
<1>3. /\ events' = Append(Append(events, d), e) /\ events' \in Seq(Events)
      /\ Append(events, d) \in Seq(Events)
  <2>1. Append(events, d) \in Seq(Events)
    BY <1>2, AppendProperties
  <2>2. Append(Append(events, d), e) \in Seq(Events)
    BY <2>1, AppendProperties
  <2>3. /\ <<d>> \in Seq(Events) /\ <<e>> \in Seq(Events)
        /\ <<d, e>> = <<d>> \o <<e>>
    BY Pair
  <2>4. Append(Append(events, d), e) = (events \o <<d>>) \o <<e>>
    BY <1>2, <2>1, AppendIsConcat, ZenonT(40)
  <2>5. (events \o <<d>>) \o <<e>> = events \o (<<d>> \o <<e>>)
    BY <1>2, <2>3, ConcatAssociative
  <2> QED BY <2>1, <2>2, <2>3, <2>4, <2>5
<1>4. Start' = Start
  BY DEF Start
<1>5. Shown(Start', events', ShowEvent(ShowEvent(W, d), e))
  <2>1. Shown(Start, Append(events, d), ShowEvent(W, d))
    BY <1>1, <1>2, ShownOneMore
  <2>2. Shown(Start, Append(Append(events, d), e),
              ShowEvent(ShowEvent(W, d), e))
    BY <1>3, <2>1, ShownOneMore, ZenonT(40)
  <2> QED BY <1>3, <1>4, <2>2, ZenonT(40)
<1>6. /\ (view \in View)' /\ Sound(view)'
      /\ (view.group_iter.gen <= run.number)'
      /\ (view.sequence_iter.gen <= run.number)'
  BY <1>2
<1>7. \E X : Shown(Start', events', X) /\ Follows(X, pc', run') /\ Sound(X)
  BY <1>1, <1>5
<1> QED BY <1>3, <1>6, <1>7 DEF ViewInv

\* What the runner reports are events.
LEMMA EventIsEvent ==
    ASSUME NEW kind \in {"__GROUP_START", "__SEQUENCE_START", "__SEQUENCE_END",
                         "__GROUP_END", "__ERROR", "call"},
           NEW passed \in BOOLEAN, NEW i \in Nat, NEW j \in Nat, NEW k \in Nat
    PROVE  [kind |-> kind, passed |-> passed, label |-> <<i, j, k>>] \in Events
<1>1. <<i, j, k>> \in Labels
  BY DEF Labels
<1> QED BY <1>1, Zenon DEF Events

\* The event of a call tells the verdict that the runner keeps.
LEMMA CallReports ==
    ASSUME run \in Run, NEW c, run_test_sequence(c)
    PROVE  \E e \in Events :
             /\ events' = events \o <<e>> /\ e.kind = "call"
             /\ e.label = <<run.number, run.group, run.sequence>>
             /\ e.passed = run'.all_passed
             /\ pc = "calls"
             /\ pc' = IF run'.all_passed THEN "calls" ELSE "failed"
             /\ run' \in Run /\ run'.number = run.number
             /\ run'.group = run.group /\ run'.sequence = run.sequence
             /\ run'.group_passed = run.group_passed
             /\ UNCHANGED view
<1> DEFINE p == make_call(fs["passthru"], fhs["passthru"], c, FALSE)
           right(r) == p.ok = r.ok /\ p.fs.paths \subseteq r.fs.paths
           Lacks == [run EXCEPT !.calls = @ - 1, !.all_passed = FALSE,
                                !.lacking = TRUE]
           Counts(b) == [run EXCEPT !.calls = @ - 1, !.all_passed = b]
<1>1. \E b \in BOOLEAN :
        /\ run' = Counts(b) \/ (~b /\ run' = Lacks)
        /\ pc' = IF b THEN "calls" ELSE "failed"
        /\ events' = events \o <<Event("call", b)>>
  <2>1. CASE /\ run' = Counts(FALSE) \/ run' = Lacks
             /\ pc' = "failed"
             /\ events' = events \o <<Event("call", FALSE)>>
    <3>1. FALSE \in BOOLEAN /\ pc' = IF FALSE THEN "calls" ELSE "failed"
      BY <2>1
    <3> HIDE DEF Counts, Lacks
    <3> QED BY <2>1, <3>1, Zenon
  <2>2. ASSUME NEW r,
               /\ run' = Counts(right(r))
               /\ pc' = IF right(r) THEN "calls" ELSE "failed"
               /\ events' = events \o <<Event("call", right(r))>>
        PROVE  \E b \in BOOLEAN :
                 /\ run' = Counts(b)
                 /\ pc' = IF b THEN "calls" ELSE "failed"
                 /\ events' = events \o <<Event("call", b)>>
    <3>1. right(r) \in BOOLEAN
      BY Zenon
    <3> HIDE DEF right, Counts
    <3> QED BY <2>2, <3>1, Zenon
  <2> QED BY <2>1, <2>2, Zenon DEF run_test_sequence, Goto, Report
<1>2. PICK b \in BOOLEAN :
        /\ run' = Counts(b) \/ (~b /\ run' = Lacks)
        /\ pc' = IF b THEN "calls" ELSE "failed"
        /\ events' = events \o <<Event("call", b)>>
  BY <1>1, Zenon
<1>3. /\ run' \in Run /\ run'.all_passed = b /\ run'.number = run.number
      /\ run'.group = run.group /\ run'.sequence = run.sequence
      /\ run'.group_passed = run.group_passed
  <2>1. CASE run' = Counts(b)
    BY <2>1, CallCounted, ZenonT(40)
  <2>2. CASE ~b /\ run' = Lacks
    <3>1. b = FALSE
      BY <2>2
    <3> QED BY <2>2, <3>1, LackingCounted, ZenonT(40)
  <2> QED BY <1>2, <2>1, <2>2, Zenon
<1> HIDE DEF Counts, Lacks
<1> DEFINE e == Event("call", b)
<1>4. e \in Events
  <2>1. run.number \in Nat /\ run.group \in Nat /\ run.sequence \in Nat
    BY RunFields
  <2> QED BY <2>1, EventIsEvent DEF Event, Label
<1>5. e.kind = "call" /\ e.passed = b
      /\ e.label = <<run.number, run.group, run.sequence>>
  BY DEF Event, Label
<1>6. pc = "calls" /\ UNCHANGED view
  BY Zenon DEF run_test_sequence
<1> HIDE DEF e
<1> QED BY <1>2, <1>3, <1>4, <1>5, <1>6, Zenon DEF e

\* The tree that a new run starts with.
LEMMA EmptyView ==
    ASSUME NEW V \in View, NEW n \in Nat
    PROVE  LET W == [V EXCEPT !.rows = <<>>, !.gen = n]
           IN  /\ W \in View /\ Sound(W) /\ W.gen = n /\ W.rows = <<>>
               /\ W.displayed <=> V.displayed
               /\ W.group_iter = V.group_iter
               /\ W.sequence_iter = V.sequence_iter
<1> DEFINE W == [V EXCEPT !.rows = <<>>, !.gen = n]
<1>1. <<>> \in Seq(Row) /\ Len(<<>>) = 0 /\ 1..0 = {}
  OBVIOUS
<1>2. W \in View
  BY <1>1, Zenon DEF View
<1>3. /\ W.gen = n /\ W.rows = <<>> /\ W.displayed = V.displayed
      /\ W.group_iter = V.group_iter /\ W.sequence_iter = V.sequence_iter
  BY DEF View
<1> HIDE DEF W
<1>4. Sound(W)
  BY <1>1, <1>3 DEF Sound
<1>5. W.displayed <=> V.displayed
  BY <1>3
<1> QED BY <1>2, <1>3, <1>4, <1>5 DEF W

\* What is said of the rows does not depend on `displayed`.
LEMMA SameRows ==
    ASSUME NEW V, NEW W, W.rows = V.rows, W.gen = V.gen
    PROVE  /\ Sound(V) => Sound(W)
           /\ \A iter, label, parent :
                IsRunning(V, iter, label, parent) =>
                  IsRunning(W, iter, label, parent)
           /\ \A iter, but : PassUnder(V, iter, but) => PassUnder(W, iter, but)
           /\ \A iter : Dead(V, iter) => Dead(W, iter)
<1>1. \A iter : IsRow(V, iter) <=> IsRow(W, iter)
  BY DEF IsRow
<1>2. Sound(V) => Sound(W)
  BY <1>1, ZenonT(40) DEF Sound, RowSound
<1>3. \A iter, label, parent :
        IsRunning(V, iter, label, parent) => IsRunning(W, iter, label, parent)
  BY <1>1, Zenon DEF IsRunning
<1>4. \A iter, but : PassUnder(V, iter, but) => PassUnder(W, iter, but)
  BY Zenon DEF PassUnder
<1>5. \A iter : Dead(V, iter) => Dead(W, iter)
  BY Zenon DEF Dead
<1> QED BY <1>2, <1>3, <1>4, <1>5

\* testsuite_init drops the events of the last run, and the tree starts again.
LEMMA RunStarts ==
    ASSUME run \in Run, ViewInv, testsuite_init
    PROVE  run' \in Run /\ ViewInv'
<1> DEFINE n == run.number + 1
           E(kind) == [kind |-> kind, passed |-> FALSE, label |-> <<n, 0, 0>>]
<1>1. /\ view \in View /\ Sound(view) /\ run.number \in Nat /\ n \in Nat
      /\ view.group_iter.gen <= run.number
      /\ view.sequence_iter.gen <= run.number
  BY RunFields DEF ViewInv
<1>2. /\ pc' \in {"groups", "end"} /\ run' \in Run /\ run'.number = n
  <2>1. run' = [NoRun(n, run.calls) EXCEPT !.groups = MaxGroups]
        /\ pc' \in {"groups", "end"}
    BY DEF testsuite_init, Goto
  <2>2. run.calls \in Int
    BY RunFields
  <2> QED BY <1>1, <2>1, <2>2, NoRunIsRun
<1>3. /\ view' = [view EXCEPT !.displayed = FALSE]
      /\ \/ events' = <<>>
         \/ events' = <<E("__ERROR")>>
         \/ events' = <<E("call"), E("__ERROR")>>
  BY DEF testsuite_init
<1>4. /\ view' \in View /\ view'.rows = view.rows /\ view'.gen = view.gen
      /\ view'.group_iter = view.group_iter
      /\ view'.sequence_iter = view.sequence_iter /\ ~view'.displayed
  <2>1. FALSE \in BOOLEAN
    OBVIOUS
  <2>2. view' \in View
    BY <1>1, <1>3, <2>1, Zenon DEF View
  <2>3. view'.displayed = FALSE
    BY <1>1, <1>3 DEF View
  <2> QED BY <1>1, <1>3, <2>2, <2>3 DEF View
<1>5. Sound(view')
  BY <1>1, <1>4, SameRows
<1>6. view.group_iter \in Iter /\ view.sequence_iter \in Iter
      /\ view.group_iter.gen \in Nat /\ view.sequence_iter.gen \in Nat
  BY <1>1, ViewFields DEF Iter
<1>7. /\ view'.group_iter.gen <= run'.number
      /\ view'.sequence_iter.gen <= run'.number
  BY <1>1, <1>2, <1>4, <1>6
<1> DEFINE U == [view' EXCEPT !.rows = <<>>, !.gen = run'.number]
<1>8. Start' = U
  BY <1>4 DEF Start
<1>9. /\ U \in View /\ Sound(U) /\ U.gen = n
      /\ U.group_iter = view.group_iter /\ U.sequence_iter = view.sequence_iter
  <2> DEFINE X == view'
             m == run'.number
  <2>1. X \in View /\ m \in Nat /\ m = n
    BY <1>1, <1>2, <1>4
  <2>2. U = [X EXCEPT !.rows = <<>>, !.gen = m]
    OBVIOUS
  <2> HIDE DEF U, X, m
  <2>3. /\ U \in View /\ Sound(U) /\ U.gen = m
        /\ U.group_iter = X.group_iter /\ U.sequence_iter = X.sequence_iter
    BY <2>1, <2>2, EmptyView, ZenonT(40)
  <2> QED BY <1>4, <2>1, <2>3 DEF X
<1> HIDE DEF U
<1>10. Follows(U, pc', run')
  <2>1. Dead(U, U.group_iter) /\ Dead(U, U.sequence_iter)
        /\ U.group_iter.gen <= U.gen /\ U.sequence_iter.gen <= U.gen
    BY <1>1, <1>6, <1>9 DEF Dead
  <2> QED BY <1>2, <1>9, <2>1 DEF Follows
<1>11. E("__ERROR") \in Events /\ E("call") \in Events
  <2>1. FALSE \in BOOLEAN
    OBVIOUS
  <2>2. 0 \in Nat
    OBVIOUS
  <2> QED BY <1>1, <2>1, <2>2, EventIsEvent, Zenon
<1>12. E("__ERROR").kind = "__ERROR" /\ E("call").kind = "call"
       /\ E("call").label[3] = 0
  OBVIOUS
<1> HIDE DEF E
<1>13. /\ <<>> \in Seq(Events) /\ <<E("__ERROR")>> \in Seq(Events)
       /\ <<E("call"), E("__ERROR")>> \in Seq(Events)
       /\ <<E("call")>> \in Seq(Events)
  BY <1>11
<1>14. /\ <<E("__ERROR")>> = Append(<<>>, E("__ERROR"))
       /\ <<E("call")>> = Append(<<>>, E("call"))
       /\ <<E("call"), E("__ERROR")>> = Append(<<E("call")>>, E("__ERROR"))
  <2>1. \A x : <<x>> = Append(<<>>, x)
    OBVIOUS
  <2>2. <<E("call"), E("__ERROR")>> = Append(<<E("call")>>, E("__ERROR"))
    BY <1>11, <1>13, Pair, AppendIsConcat
  <2> QED BY <2>1, <2>2
<1>15. Shown(U, <<>>, U)
  BY ShownNone
<1>16. \E W : Shown(Start', events', W) /\ Follows(W, pc', run') /\ Sound(W)
  <2>1. CASE events' = <<>>
    BY <1>8, <1>9, <1>10, <1>15, <2>1
  <2>2. CASE events' = <<E("__ERROR")>>
    <3>1. Shown(U, events', ShowEvent(U, E("__ERROR")))
      BY <1>11, <1>13, <1>14, <1>15, <2>2, ShownOneMore, ZenonT(40)
    <3>2. ShowEvent(U, E("__ERROR")) = U
      BY <1>12, ShowError
    <3> QED BY <1>8, <1>9, <1>10, <3>1, <3>2
  <2>3. CASE events' = <<E("call"), E("__ERROR")>>
    <3> DEFINE X == ShowEvent(U, E("call"))
    <3>1. Shown(U, <<E("call")>>, X)
      BY <1>11, <1>13, <1>14, <1>15, ShownOneMore, ZenonT(40)
    <3>2. Shown(U, events', ShowEvent(X, E("__ERROR")))
      BY <1>11, <1>13, <1>14, <2>3, <3>1, ShownOneMore, ZenonT(40)
    <3>3. ShowEvent(X, E("__ERROR")) = X
      BY <1>12, ShowError
    <3>4. Follows(X, pc', run') /\ Sound(X)
      BY <1>2, <1>9, <1>10, <1>11, <1>12, LooseCall
    <3> QED BY <1>8, <3>2, <3>3, <3>4
  <2> QED BY <1>3, <2>1, <2>2, <2>3
<1>17. events' \in Seq(Events)
  BY <1>3, <1>13, Zenon
<1> QED BY <1>2, <1>4, <1>5, <1>7, <1>16, <1>17 DEF ViewInv

\* Nor does following the runner.
LEMMA SameFollows ==
    ASSUME NEW V, NEW W \in View, W.rows = V.rows, W.gen = V.gen,
           W.group_iter = V.group_iter, W.sequence_iter = V.sequence_iter,
           NEW at, NEW r, Follows(V, at, r)
    PROVE  Follows(W, at, r)
<1> DEFINE label == <<r.number, r.group, 0>>
           under == <<r.number, r.group, r.sequence>>
<1>1. /\ V.gen = r.number
      /\ V.group_iter.gen <= V.gen /\ V.sequence_iter.gen <= V.gen
      /\ at = "calls" => r.all_passed
      /\ at \in {"groups", "end"} => Dead(V, V.group_iter)
      /\ at \in {"groups", "end", "sequences", "reset"} =>
           Dead(V, V.sequence_iter)
      /\ at \in {"sequences", "calls", "failed", "reset"} =>
           IsRunning(V, V.group_iter, label, NoIter)
      /\ at \in {"sequences", "reset"} /\ r.group_passed =>
           PassUnder(V, V.group_iter, 0)
      /\ at \in {"calls", "failed"} =>
           /\ IsRunning(V, V.sequence_iter, under, V.group_iter)
           /\ r.group_passed => PassUnder(V, V.group_iter, V.sequence_iter.row)
           /\ r.all_passed => PassUnder(V, V.sequence_iter, 0)
  BY Zenon DEF Follows
<1>2. /\ \A iter, l, parent :
           IsRunning(V, iter, l, parent) => IsRunning(W, iter, l, parent)
      /\ \A iter, but : PassUnder(V, iter, but) => PassUnder(W, iter, but)
      /\ \A iter : Dead(V, iter) => Dead(W, iter)
  BY SameRows
<1>3. at \in {"groups", "end"} => Dead(W, W.group_iter)
  BY <1>1, <1>2
<1>4. at \in {"groups", "end", "sequences", "reset"} =>
        Dead(W, W.sequence_iter)
  BY <1>1, <1>2
<1>5. at \in {"sequences", "calls", "failed", "reset"} =>
        IsRunning(W, W.group_iter, label, NoIter)
  BY <1>1, <1>2
<1>6. at \in {"sequences", "reset"} /\ r.group_passed =>
        PassUnder(W, W.group_iter, 0)
  BY <1>1, <1>2
<1>7. at \in {"calls", "failed"} =>
        /\ IsRunning(W, W.sequence_iter, under, W.group_iter)
        /\ r.group_passed => PassUnder(W, W.group_iter, W.sequence_iter.row)
        /\ r.all_passed => PassUnder(W, W.sequence_iter, 0)
  BY <1>1, <1>2
<1> QED BY <1>1, <1>3, <1>4, <1>5, <1>6, <1>7, ZenonT(40) DEF Follows

\* gui_idle_testsuite shows the events that wait, however many.
LEMMA EventsShown ==
    ASSUME run \in Run, ViewInv, gui_idle_testsuite
    PROVE  run' \in Run /\ ViewInv'
<1>1. PICK W : Shown(Start, events, W) /\ Follows(W, pc, run) /\ Sound(W)
  BY DEF ViewInv
<1>2. /\ view \in View /\ events \in Seq(Events) /\ Sound(view)
      /\ run.number \in Nat
  BY RunFields, Zenon DEF ViewInv
<1>3. Show(Start, events) = W
  BY <1>1, <1>2, ShowIsShown
<1> DEFINE d == W.displayed \/ events # <<>>
<1>4. /\ view' = [W EXCEPT !.displayed = d]
      /\ events' = <<>> /\ pc' = pc /\ run' = run
  BY <1>3 DEF gui_idle_testsuite, Start, runner
<1>5. W \in View /\ W.group_iter.gen <= run.number
      /\ W.sequence_iter.gen <= run.number /\ W.gen = run.number
  BY <1>1 DEF Follows
<1> DEFINE X == view'
<1>6. /\ X \in View /\ X.rows = W.rows /\ X.gen = W.gen
      /\ X.group_iter = W.group_iter /\ X.sequence_iter = W.sequence_iter
      /\ X.displayed <=> d
  <2>1. d \in BOOLEAN
    BY Zenon
  <2> HIDE DEF d
  <2>2. X \in View
    BY <1>4, <1>5, <2>1, Zenon DEF View
  <2>3. X.displayed = d
    BY <1>4, <1>5 DEF View
  <2>4. /\ X.rows = W.rows /\ X.gen = W.gen
        /\ X.group_iter = W.group_iter /\ X.sequence_iter = W.sequence_iter
    BY <1>4, <1>5 DEF View
  <2> QED BY <2>2, <2>3, <2>4
<1> HIDE DEF X
<1>7. Sound(X) /\ Follows(X, pc, run)
  BY <1>1, <1>6, SameRows, SameFollows
<1>8. Start' = X
  <2>1. Start' = IF X.displayed THEN X
                 ELSE [X EXCEPT !.rows = <<>>, !.gen = run.number]
    BY <1>4 DEF Start, X
  <2>2. CASE d
    BY <1>6, <2>1, <2>2
  <2>3. CASE ~d
    <3>1. events = <<>> /\ ~W.displayed
      BY <2>3
    <3>2. W = Start
      BY <1>1, <3>1, ShownNone, Zenon
    <3>3. ~view.displayed
      <4>1. CASE view.displayed
        BY <3>1, <3>2, <4>1 DEF Start
      <4> QED BY <4>1
    <3>4. W = [view EXCEPT !.rows = <<>>, !.gen = run.number]
      BY <3>2, <3>3 DEF Start
    <3>5. W.rows = <<>> /\ W.gen = run.number
      BY <1>2, <3>4, EmptyView, Zenon
    <3>6. [X EXCEPT !.rows = <<>>, !.gen = run.number] = X
      BY <1>6, <3>5, Zenon DEF View
    <3> QED BY <1>6, <2>1, <2>3, <3>6
  <2> QED BY <2>2, <2>3
<1>9. Shown(Start', events', X)
  BY <1>4, <1>8, ShownNone
<1>10. events' \in Seq(Events)
  BY <1>4
<1>11. /\ X.group_iter.gen <= run'.number /\ X.sequence_iter.gen <= run'.number
       /\ Follows(X, pc', run')
  BY <1>4, <1>5, <1>6, <1>7
<1> QED BY <1>4, <1>6, <1>7, <1>9, <1>10, <1>11 DEF ViewInv, X

\* The process is gone: at the end of a run, or before it.
Leaves == (\E c \in RecordableCalls : Dies(c)) \/ testsuite_end \/ Killed

\* Every step of the runner and of the GUI keeps the invariant.
LEMMA ViewNext ==
    ASSUME run \in Run, ViewInv, [Next]_vars
    PROVE  run' \in Run /\ ViewInv'
<1>1. /\ run \in Run /\ run.number \in Nat /\ run.group \in Nat
      /\ run.sequence \in Nat /\ run.group + 1 \in Nat
      /\ run.sequence + 1 \in Nat /\ run.all_passed \in BOOLEAN
      /\ run.group_passed \in BOOLEAN
  BY RunFields
<1>2. 0 \in Nat
  OBVIOUS
<1>3. TRUE \in BOOLEAN /\ FALSE \in BOOLEAN
  OBVIOUS
<1>4. CASE testsuite_init
  BY <1>1, <1>4, RunStarts
<1>5. CASE testsuite_grp_start
  <2> DEFINE e == [kind |-> "__GROUP_START", passed |-> TRUE,
                   label |-> <<run.number, run.group + 1, 0>>]
  <2>1. /\ run' = [run EXCEPT !.groups = @ - 1, !.sequences = MaxSequences,
                              !.group = @ + 1, !.sequence = 0,
                              !.group_passed = TRUE, !.all_passed = TRUE,
                              !.lacking = FALSE]
        /\ pc = "groups" /\ pc' = "sequences"
        /\ events' = Append(events, e) /\ UNCHANGED view
    BY <1>5 DEF testsuite_grp_start, Goto
  <2>2. /\ run' \in Run /\ run'.number = run.number
        /\ run'.group = run.group + 1
    BY <1>1, <2>1, RunMoves, Zenon
  <2>3. e \in Events
    BY <1>1, <1>2, <1>3, EventIsEvent, Zenon
  <2>4. /\ e.kind = "__GROUP_START"
        /\ e.label = <<run.number, run.group + 1, 0>>
    OBVIOUS
  <2> HIDE DEF e
  <2>5. events' = events \o <<e>>
    BY <2>1, <2>3, AppendIsConcat DEF ViewInv
  <2>6. ASSUME NEW W, Follows(W, "groups", run), Sound(W)
        PROVE  /\ Follows(ShowEvent(W, e), "sequences", run')
               /\ Sound(ShowEvent(W, e))
    BY <1>1, <2>2, <2>3, <2>4, <2>6, GroupStarts
  <2> QED BY <2>1, <2>2, <2>3, <2>5, <2>6, EventReported
<1>6. CASE testsuite_seq_start
  <2> DEFINE e == [kind |-> "__SEQUENCE_START", passed |-> TRUE,
                   label |-> <<run.number, run.group, run.sequence + 1>>]
  <2>1. /\ run' = [run EXCEPT !.sequences = @ - 1, !.sequence = @ + 1,
                              !.all_passed = TRUE]
        /\ pc = "sequences" /\ pc' = "calls"
        /\ events' = Append(events, e) /\ UNCHANGED view
    BY <1>6 DEF testsuite_seq_start, Goto
  <2>2. /\ run' \in Run /\ run'.number = run.number
        /\ run'.group = run.group /\ run'.sequence = run.sequence + 1
        /\ run'.all_passed /\ run'.group_passed = run.group_passed
    BY <1>1, <2>1, RunMoves, Zenon
  <2>3. e \in Events
    BY <1>1, <1>2, <1>3, EventIsEvent, ZenonT(40)
  <2>4. /\ e.kind = "__SEQUENCE_START"
        /\ e.label = <<run.number, run.group, run.sequence + 1>>
    OBVIOUS
  <2> HIDE DEF e
  <2>5. events' = events \o <<e>>
    BY <2>1, <2>3, AppendIsConcat DEF ViewInv
  <2>6. ASSUME NEW W, Follows(W, "sequences", run), Sound(W)
        PROVE  /\ Follows(ShowEvent(W, e), "calls", run')
               /\ Sound(ShowEvent(W, e))
    BY <1>1, <2>2, <2>3, <2>4, <2>6, SequenceStarts
  <2> QED BY <2>1, <2>2, <2>3, <2>5, <2>6, EventReported
<1>7. ASSUME NEW c \in RecordableCalls, run_test_sequence(c)
      PROVE  run' \in Run /\ ViewInv'
  <2>1. PICK e \in Events :
          /\ events' = events \o <<e>> /\ e.kind = "call"
          /\ e.label = <<run.number, run.group, run.sequence>>
          /\ e.passed = run'.all_passed
          /\ pc = "calls"
          /\ pc' = IF run'.all_passed THEN "calls" ELSE "failed"
          /\ run' \in Run /\ run'.number = run.number
          /\ run'.group = run.group /\ run'.sequence = run.sequence
          /\ run'.group_passed = run.group_passed
          /\ UNCHANGED view
    BY <1>7, CallReports, ZenonT(40)
  <2>2. ASSUME NEW W, Follows(W, "calls", run), Sound(W)
        PROVE  Follows(ShowEvent(W, e), pc', run') /\ Sound(ShowEvent(W, e))
    BY <1>1, <2>1, <2>2, CallShown
  <2> QED BY <2>1, <2>2, EventReported
<1>8. CASE testsuite_seq_end
  <2> DEFINE e == Event("__SEQUENCE_END", run.all_passed)
  <2>1. /\ pc \in {"calls", "failed"}
        /\ pc' = IF run.all_passed THEN "sequences" ELSE "reset"
        /\ run' = [run EXCEPT !.group_passed = @ /\ run.all_passed]
        /\ events' = events \o <<e>> /\ UNCHANGED view
    BY <1>8 DEF testsuite_seq_end, Goto, Report
  <2>2. /\ run' \in Run /\ run'.number = run.number
        /\ run'.group = run.group
        /\ run'.group_passed <=> run.group_passed /\ run.all_passed
    <3>1. /\ run' \in Run /\ run'.number = run.number
          /\ run'.group = run.group
      BY <1>1, <2>1, RunMoves, Zenon
    <3>2. run'.group_passed = (run.group_passed /\ run.all_passed)
      BY <1>1, <2>1, RunMoves, ZenonT(40)
    <3> QED BY <3>1, <3>2, Zenon
  <2>3. e \in Events
    BY <1>1, EventIsEvent DEF Event, Label
  <2>4. e.kind = "__SEQUENCE_END" /\ e.passed = run.all_passed
    BY DEF Event
  <2> HIDE DEF e
  <2>5. ASSUME NEW W, Follows(W, pc, run), Sound(W)
        PROVE  Follows(ShowEvent(W, e), pc', run') /\ Sound(ShowEvent(W, e))
    BY <1>1, <2>1, <2>2, <2>3, <2>4, <2>5, SequenceEnds, ZenonT(40)
  <2> QED BY <2>1, <2>2, <2>3, <2>5, EventReported
<1>9. CASE testsuite_grp_end
  <2> DEFINE l == <<run.number, run.group, 0>>
             e == [kind |-> "__GROUP_END", passed |-> run.group_passed,
                   label |-> l]
             d == [e EXCEPT !.kind = "call", !.passed = FALSE]
  <2>1. /\ pc \in {"sequences", "reset"} /\ pc' = "groups"
        /\ run' = run /\ UNCHANGED view
        /\ events' = events \o <<e>> \/ events' = events \o <<d, e>>
    BY <1>9, Zenon DEF testsuite_grp_end, Goto, Report
  <2>2. e \in Events /\ d \in Events
    <3>1. e \in Events
      BY <1>1, <1>2, EventIsEvent
    <3> HIDE DEF e
    <3>2. d \in Events
      BY <1>3, <3>1, Zenon DEF Events
    <3> QED BY <3>1, <3>2
  <2>3. /\ e.kind = "__GROUP_END" /\ e.passed = run.group_passed
        /\ d.kind = "call" /\ d.label[3] = 0
    OBVIOUS
  <2> HIDE DEF e, d
  <2>4. ASSUME NEW W, Follows(W, pc, run), Sound(W)
        PROVE  /\ Follows(ShowEvent(W, e), "groups", run)
               /\ Sound(ShowEvent(W, e))
    BY <1>1, <2>1, <2>2, <2>3, <2>4, GroupEnds
  <2>5. ASSUME NEW W, Follows(W, pc, run), Sound(W)
        PROVE  /\ Follows(ShowEvent(W, d), pc, run)
               /\ Sound(ShowEvent(W, d))
    BY <1>1, <2>1, <2>2, <2>3, <2>5, LooseCall
  <2>6. CASE events' = events \o <<e>>
    BY <2>1, <2>2, <2>4, <2>6, EventReported
  <2>7. CASE events' = events \o <<d, e>>
    <3>1. ASSUME NEW W, Follows(W, pc, run), Sound(W)
          PROVE  /\ Follows(ShowEvent(ShowEvent(W, d), e), pc', run')
                 /\ Sound(ShowEvent(ShowEvent(W, d), e))
      <4>1. /\ Follows(ShowEvent(W, d), pc, run) /\ Sound(ShowEvent(W, d))
        BY <2>5, <3>1
      <4> QED BY <2>1, <2>4, <4>1
    <3> QED BY <2>1, <2>2, <2>7, <3>1, EventsReported
  <2> QED BY <2>1, <2>6, <2>7
<1>10. CASE Leaves
  <2>1. /\ pc' = "idle" /\ run' \in Run /\ run'.number = run.number
    <3>1. /\ pc' = "idle"
          /\ run' = NoRun(run.number, Min({run.calls, LaterCalls}))
      BY <1>10, Zenon DEF Leaves, Dies, testsuite_end, Killed, Gone, Goto
    <3>2. run.calls \in Int /\ LaterCalls \in Int
      BY RunFields, Bounds
    <3>3. Min({run.calls, LaterCalls}) \in Int
      BY <3>2, LeastOfTwo
    <3> QED BY <1>1, <3>1, <3>3, NoRunIsRun, Zenon
  <2>2. UNCHANGED <<events, view>>
    BY <1>10, Zenon DEF Leaves, Dies, testsuite_end, Killed, Gone
  <2>3. Start' = Start
    BY <2>1, <2>2 DEF Start
  <2>4. ASSUME NEW W, Follows(W, pc, run)
        PROVE  Follows(W, pc', run')
    BY <2>1, <2>4, Zenon DEF Follows
  <2> QED BY <2>1, <2>2, <2>3, <2>4 DEF ViewInv
<1>11. CASE gui_idle_testsuite
  BY <1>1, <1>11, EventsShown
<1>12. CASE UNCHANGED vars
  <2>1. Start' = Start
    BY <1>12 DEF vars, Start
  <2> QED BY <1>12, <2>1, Zenon DEF vars, ViewInv
<1> QED BY <1>4, <1>5, <1>6, <1>7, <1>8, <1>9, <1>10, <1>11, <1>12
     DEF Next, Leaves

\* The invariant holds before the first run.
LEMMA ViewInit ==
    ASSUME Init
    PROVE  run \in Run /\ ViewInv
<1> DEFINE V == [displayed |-> FALSE, gen |-> 0, rows |-> <<>>,
                 group_iter |-> NoIter, sequence_iter |-> NoIter]
<1>1. pc = "idle" /\ events = <<>> /\ view = V /\ run = NoRun(0, MaxCalls)
  BY DEF Init
<1>2. 0 \in Nat /\ MaxCalls \in Int /\ 0 <= 0
  BY Bounds
<1>3. run \in Run /\ run.number = 0
  BY <1>1, <1>2, NoRunIsRun, Zenon
<1>4. FALSE \in BOOLEAN /\ <<>> \in Seq(Row) /\ <<>> \in Seq(Events)
      /\ Len(<<>>) = 0 /\ 1..0 = {}
  OBVIOUS
<1>5. V \in View
  BY <1>2, <1>4, NoIterIsIter, Zenon DEF View
<1>6. /\ V.rows = <<>> /\ V.gen = 0 /\ V.group_iter = NoIter
      /\ V.sequence_iter = NoIter /\ ~V.displayed
  OBVIOUS
<1>7. Start = V
  <2>1. Start = [V EXCEPT !.rows = <<>>, !.gen = 0]
    BY <1>1, <1>3, <1>6, Zenon DEF Start
  <2> QED BY <2>1, Zenon
<1> HIDE DEF V
<1>8. Sound(V)
  BY <1>4, <1>6 DEF Sound
<1>9. Follows(V, "idle", run)
  BY <1>2, <1>3, <1>5, <1>6, NoIterIsIter DEF Follows
<1>10. Shown(V, <<>>, V)
  BY ShownNone
<1>11. V.group_iter.gen <= run.number /\ V.sequence_iter.gen <= run.number
  BY <1>2, <1>3, <1>6, NoIterIsIter
<1> QED BY <1>1, <1>3, <1>4, <1>5, <1>7, <1>8, <1>9, <1>10, <1>11,
          ZenonT(40) DEF ViewInv

\* Labels of one run and group begin alike.
LEMMA SameFirstTwo ==
    ASSUME NEW a \in Labels, NEW b \in Labels, a[1] = b[1], a[2] = b[2]
    PROVE  SubSeq(a, 1, 2) = SubSeq(b, 1, 2)
<1>1. a[1] \in Nat /\ a[2] \in Nat /\ b[1] \in Nat /\ b[2] \in Nat
  BY DEF Labels
<1>2. \A i \in 1..2 : i = 1 \/ i = 2
  OBVIOUS
<1>3. \A i \in 1..2 : a[i] \in Nat /\ b[i] \in Nat /\ a[i] = b[i]
  BY <1>1, <1>2
<1>4. 1 \in Int /\ 2 \in Int /\ 1 <= 2 /\ 2 - 1 + 1 = 2
      /\ \A i \in 1..2 : 1 + i - 1 = i
  OBVIOUS
<1>5. /\ SubSeq(a, 1, 2) \in Seq(Nat) /\ Len(SubSeq(a, 1, 2)) = 2
      /\ \A i \in 1..2 : SubSeq(a, 1, 2)[i] = a[i]
  BY <1>3, <1>4, SubSeqProperties
<1>6. /\ SubSeq(b, 1, 2) \in Seq(Nat) /\ Len(SubSeq(b, 1, 2)) = 2
      /\ \A i \in 1..2 : SubSeq(b, 1, 2)[i] = b[i]
  BY <1>3, <1>4, SubSeqProperties
<1> QED BY <1>3, <1>5, <1>6, SeqEqual

-----------------------------------------------------------------------------
(* Results. *)

\* The invariant of the tree holds throughout.
THEOREM ViewInvariant == Spec => [](run \in Run /\ ViewInv)
<1>1. Init => run \in Run /\ ViewInv
  BY ViewInit
<1>2. (run \in Run /\ ViewInv) /\ [Next]_vars => (run \in Run /\ ViewInv)'
  BY ViewNext
<1> QED BY <1>1, <1>2, PTL DEF Spec

\* gui_idle_testsuite puts every row under the sequence, and that under the
\* group, that it belongs to, for any number of runs, also when runs were cut
\* short and left their iterators behind.
THEOREM TreeIsSorted == Spec => []RowsAreUnderTheirSequence
<1>1. ViewInv => RowsAreUnderTheirSequence
  <2> SUFFICES ASSUME ViewInv, NEW i \in DOMAIN view.rows
               PROVE  LET row == view.rows[i]
                          parent == row.parent
                      IN  \/ parent = NoIter /\ row.label[3] = 0
                          \/ /\ IsRow(view, parent)
                             /\ SubSeq(view.rows[parent.row].label, 1, 2) =
                                  SubSeq(row.label, 1, 2)
                             /\ view.rows[parent.row].label[3]
                                  \in {0, row.label[3]}
    BY Zenon DEF RowsAreUnderTheirSequence
  <2> DEFINE row == view.rows[i]
             parent == row.parent
             above == view.rows[parent.row]
  <2>1. view \in View /\ i \in 1..Len(view.rows) /\ row.label \in Labels
    BY ViewFields, ZenonT(40) DEF ViewInv
  <2>2. RowSound(view, i)
    BY <2>1 DEF ViewInv, Sound
  <2>3. CASE parent = NoIter /\ row.label[3] = 0
    BY <2>3
  <2>4. CASE /\ IsRow(view, parent)
             /\ above.label[1] = row.label[1] /\ above.label[2] = row.label[2]
             /\ above.label[3] \in {0, row.label[3]}
    <3>1. above.label \in Labels
      BY <2>1, <2>4, IsRowIs, ViewFields, Zenon
    <3>2. SubSeq(above.label, 1, 2) = SubSeq(row.label, 1, 2)
      BY <2>1, <2>4, <3>1, SameFirstTwo, Zenon
    <3> QED BY <2>4, <3>2, Zenon
  <2> QED BY <2>2, <2>3, <2>4, Zenon DEF RowSound
<1> QED BY <1>1, ViewInvariant, PTL

\* Below a row of the tree that says PASS there is no FAIL and nothing that
\* still runs, however reporting and displaying interleave.
THEOREM VerdictsCoverTheirRows == Spec => []PassCoversItsRows
<1>1. ViewInv => PassCoversItsRows
  <2> SUFFICES ASSUME ViewInv, NEW i \in DOMAIN view.rows,
                      IsRow(view, view.rows[i].parent),
                      view.rows[view.rows[i].parent.row].status = "PASS"
               PROVE  view.rows[i].status = "PASS"
    BY DEF PassCoversItsRows
  <2>1. view \in View /\ i \in 1..Len(view.rows)
    BY ViewFields DEF ViewInv
  <2>2. RowSound(view, i)
    BY <2>1 DEF ViewInv, Sound
  <2>3. view.rows[i].parent # NoIter
    BY <2>1, IsRowIs, NoIterIsIter
  <2> QED BY <2>2, <2>3, ZenonT(40) DEF RowSound
<1> QED BY <1>1, ViewInvariant, PTL
=============================================================================
