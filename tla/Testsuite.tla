------------------------------ MODULE Testsuite ------------------------------
(***************************************************************************)
(* The test suite.  Recorded sequences of calls are played to the file     *)
(* system under test and to a passthrough file system, and the answers and *)
(* the contents are compared after every call (testsuite_run.c, in the     *)
(* process of the file system under test).  The results travel as events   *)
(* to the tree of results of the GUI (testsuite.c).                        *)
(*                                                                         *)
(* A recording names a file by its path only, so the runner keeps, for     *)
(* each of the two file systems, a table from paths to file handles.  Of   *)
(* the recorded functions only what they do to that table and to the file  *)
(* system is kept:                                                         *)
(*                                                                         *)
(*   plain    getattr, readlink, chmod, access, ...: neither               *)
(*   make     mknod, mkdir, symlink, link                                  *)
(*   open     open, opendir                                                *)
(*   create   create that succeeds     nocreate    create that fails       *)
(*   use      read, write, flush, readdir, fsync, ftruncate, fgetattr, ... *)
(*   release  release                  releasedir  releasedir              *)
(*   remove   unlink, rmdir            rename      rename                  *)
(*   lacking  what the passthrough has no function for: lock, utimens,     *)
(*            write_buf, flock, fallocate, ioctl, ...                      *)
(*                                                                         *)
(* The recording is made up as it is played: any calls that a kernel could *)
(* send.  `recorded` holds the files and directories that are open in it.  *)
(***************************************************************************)
EXTENDS Integers, FiniteSets, Sequences, FiniteSetsExt

CONSTANTS
    Paths,      \* the paths in the recordings
    MaxCalls,   \* bound on the recorded calls of all runs
    LaterCalls, \* bound on the recorded calls of the runs after the first
    MaxOpens,   \* bound on the files open at a time
    MaxGroups,  \* bound on the groups of a run
    MaxSequences, \* bound on the sequences of a group
    MaxRuns     \* bound on the runs of the test suite

ASSUME TestsuiteAssumption ==
    {MaxCalls, LaterCalls, MaxOpens, MaxGroups, MaxSequences, MaxRuns} \subseteq Nat

FileSystems == {"passthru", "real"}

VARIABLES
    pc,         \* where testsuite_init is
    fs,         \* both file systems: their paths and their open handles
    fhs,        \* fhs_passthru and fhs_real
    recorded,   \* the files open in the recording: an id and a path
    run,        \* all_passed, group_passed, what is left of the recording, and
                \* whether the group has asked for what the passthrough lacks
    conforming, \* the file system under test does what the passthrough does
    tame,       \* nothing in the recordings so far misleads the tables
    clean,      \* no run so far was cut short
    events,     \* ts_events not displayed yet
    view        \* the tree of results and the iterators into it

vars == <<pc, fs, fhs, recorded, run, conforming, tame, clean, events, view>>
runner == <<pc, fs, fhs, recorded, run, conforming, tame, clean>>

------------------------------------------------------------------------------
(* The table of file handles.                                               *)

NoEntry == [fh |-> 0, open |-> 0, there |-> FALSE]
NoTable == [p \in Paths |-> NoEntry]

\* Mutant: the entry of an earlier open stays.
store_fh_Once(table, path, fh) ==
    IF table[path].there THEN table
    ELSE [table EXCEPT ![path] = [fh |-> fh, open |-> 0, there |-> TRUE]]

store_fh(table, path, fh) == [table EXCEPT ![path] = [fh |-> fh, open |-> 0, there |-> TRUE]]
increment_open(table, path) == [table EXCEPT ![path].open = @ + 1]
path_to_fh(table, path) == table[path].fh

\* Called for unlink and rmdir; only an entry whose count comes to 0 goes.
destroy_fh(table, path) ==
    IF table[path].open = 1 THEN [table EXCEPT ![path] = NoEntry]
    ELSE [table EXCEPT ![path].open = @ - 1]

------------------------------------------------------------------------------
(* A file system: the paths that exist, and for each handle the id of the   *)
(* file it was opened for.  A handle is the least number that is free, like *)
(* the file descriptors of the passthrough.                                 *)

Handles == 1..MaxOpens
Empty == [paths |-> {}, open |-> [h \in Handles |-> 0]]
FreeHandle(f) == CHOOSE h \in Handles : f.open[h] = 0 /\ \A k \in 1..(h - 1) : f.open[k] # 0
IsLive(f, fh) == fh \in Handles /\ f.open[fh] # 0

Opened(f, path, id) ==
    [paths |-> f.paths \cup {path}, open |-> [f.open EXCEPT ![FreeHandle(f)] = id]]

(***************************************************************************)
(* make_call on one file system F with its table T: the new F and T, and   *)
(* whether the call succeeds.  A call with a handle that is not open fails *)
(* in the passthrough; elsewhere, `dead` decides.                          *)
(***************************************************************************)
Needs(c) == c.kind \in {"use", "release", "releasedir", "remove"}

\* Mutant: only an open that succeeds is entered in the table.
CallOpen_StoreOnSuccess(F, T, c) ==
    IF c.path \notin F.paths THEN [fs |-> F, fhs |-> T, ok |-> FALSE]
    ELSE [fs |-> Opened(F, c.path, c.id), ok |-> TRUE,
          fhs |-> increment_open(store_fh(T, c.path, FreeHandle(F)), c.path)]

\* The handle is entered and counted also if the open failed.
CallOpen(F, T, c) ==
    LET exists == c.path \in F.paths
        stored == store_fh(T, c.path, IF exists THEN FreeHandle(F) ELSE 0)
    IN  [fs |-> IF exists THEN Opened(F, c.path, c.id) ELSE F,
         fhs |-> increment_open(stored, c.path), ok |-> exists]

make_call(F, T, c, dead) ==
    LET p == c.path
        fh == path_to_fh(T, p)
        ok == [fs |-> F, fhs |-> T, ok |-> TRUE]
        failed == [ok EXCEPT !.ok = FALSE]
        exists == p \in F.paths
    IN  CASE c.kind = "plain" -> [ok EXCEPT !.ok = exists]
          [] c.kind = "make" ->
                IF exists THEN failed ELSE [ok EXCEPT !.fs.paths = @ \cup {p}]
          [] c.kind = "open" -> CallOpen(F, T, c)
          [] c.kind = "create" ->
                [ok EXCEPT !.fs = Opened(F, p, c.id), !.fhs = store_fh(T, p, FreeHandle(F))]
          [] c.kind = "nocreate" -> [failed EXCEPT !.fhs = store_fh(T, p, 0)]
          [] c.kind = "use" -> [ok EXCEPT !.ok = IsLive(F, fh) \/ dead]
          [] c.kind = "release" ->
                IF IsLive(F, fh) THEN [ok EXCEPT !.fs.open[fh] = 0] ELSE [ok EXCEPT !.ok = dead]
          [] c.kind = "releasedir" -> failed       \* nothing is called
          [] c.kind = "remove" ->
                [fs |-> [F EXCEPT !.paths = @ \ {p}], fhs |-> destroy_fh(T, p), ok |-> exists]
          [] c.kind = "rename" ->
                IF ~exists THEN failed
                ELSE [ok EXCEPT !.fs.paths = (@ \ {p}) \cup {c.new}]

------------------------------------------------------------------------------
(* The recording.                                                           *)

OpenPaths == {r.path : r \in recorded}
UsedIds ==
    {r.id : r \in recorded} \cup UNION {{fs[f].open[h] : h \in Handles} : f \in FileSystems}
FreshId == CHOOSE i \in 1..(Cardinality(UsedIds) + 1) : i \notin UsedIds
Exists(p) == p \in fs["passthru"].paths

\* The calls the kernel could send next.
Recordable(c) ==
    /\ c.kind \in {"open", "create"} => Cardinality(recorded) < MaxOpens
                                        /\ \A f \in FileSystems : \E h \in Handles : fs[f].open[h] = 0
    /\ c.kind \in {"create", "nocreate"} => ~Exists(c.path)
    /\ c.kind \in {"use", "release", "releasedir"} => c.path \in OpenPaths
    /\ c.kind \in {"remove", "rename"} => Exists(c.path)
    /\ c.kind = "remove" => c.path \notin OpenPaths

RecordableCalls ==
    {c \in [kind : {"plain", "make", "nocreate", "use", "release", "releasedir", "remove", "lacking"},
            path : Paths, new : {""}, id : {0}]
           \cup [kind : {"open", "create"}, path : Paths, new : {""}, id : {FreshId}]
           \cup [kind : {"rename"}, path : Paths, new : Paths, id : {0}] :
        Recordable(c) /\ c.new # c.path}

\* What a call does to the files open in the recording.
Record(c) ==
    CASE c.kind = "create" \/ (c.kind = "open" /\ Exists(c.path)) ->
            {recorded \cup {[id |-> c.id, path |-> c.path]}}
      [] c.kind \in {"release", "releasedir"} ->
            {recorded \ {r} : r \in {r \in recorded : r.path = c.path}}
      [] c.kind = "rename" -> {{[r EXCEPT !.path = IF @ = c.path THEN c.new ELSE @] : r \in recorded}}
      [] OTHER -> {recorded}

(***************************************************************************)
(* A recording misleads the tables if it opens a path that is open, moves  *)
(* an open file to another path, or removes a path that was never opened:  *)
(* the table has one entry for each path, and does not follow a rename.    *)
(***************************************************************************)
IsTame(c) ==
    /\ c.kind \in {"open", "create", "nocreate"} => c.path \notin OpenPaths
    /\ c.kind = "rename" => {c.path, c.new} \cap OpenPaths = {}
    /\ c.kind = "remove" => fhs["passthru"][c.path].there

------------------------------------------------------------------------------
(* testsuite_init.  An event carries, besides what the code sends, the run, *)
(* the group and the sequence it belongs to.                                *)

Label == <<run.number, run.group, run.sequence>>
Event(kind, passed) == [kind |-> kind, passed |-> passed, label |-> Label]
Report(es) == events' = events \o es
Goto(place) == pc' = place

NoRun(n, calls) ==
    [number |-> n, group |-> 0, sequence |-> 0, groups |-> 0, sequences |-> 0,
     calls |-> calls, all_passed |-> TRUE, group_passed |-> TRUE, lacking |-> FALSE]

\* The process is gone; what it has written to the disk is not.
HandlesClosed(F) == [F EXCEPT !.open = Empty.open]
Gone(left) ==
    /\ Goto("idle")
    /\ fs' = [f \in FileSystems |-> HandlesClosed(left[f])]
    /\ fhs' = [f \in FileSystems |-> NoTable] /\ recorded' = {}
    /\ run' = NoRun(run.number, Min({run.calls, LaterCalls}))
    /\ UNCHANGED <<conforming, events, view>>

(***************************************************************************)
(* A run begins; the reader of the GUI drops the events of the last one.   *)
(* There may be no test data, or a basic operation may be missing.         *)
(***************************************************************************)
testsuite_init ==
    /\ pc = "idle" /\ run.number < MaxRuns
    /\ run' = [NoRun(run.number + 1, run.calls) EXCEPT !.groups = MaxGroups]
    /\ fs' \in {fs, [fs EXCEPT !["real"] = Empty]}
    /\ view' = [view EXCEPT !.displayed = FALSE]
    /\ LET E(kind) == [kind |-> kind, passed |-> FALSE, label |-> <<run.number + 1, 0, 0>>]
       IN  \/ events' = <<>> /\ Goto("groups")
           \/ events' = <<E("__ERROR")>> /\ Goto("end")
           \/ ~conforming /\ events' = <<E("call"), E("__ERROR")>> /\ Goto("end")
    /\ UNCHANGED <<fhs, recorded, conforming, tame, clean>>

testsuite_grp_start ==
    /\ pc = "groups" /\ run.groups > 0 /\ Goto("sequences")
    /\ run' = [run EXCEPT !.groups = @ - 1, !.sequences = MaxSequences, !.group = @ + 1,
                          !.sequence = 0, !.group_passed = TRUE, !.all_passed = TRUE, !.lacking = FALSE]
    /\ events' = Append(events, [kind |-> "__GROUP_START", passed |-> TRUE,
                                 label |-> <<run.number, run.group + 1, 0>>])
    /\ UNCHANGED <<fs, fhs, recorded, conforming, tame, clean, view>>

testsuite_seq_start ==
    /\ pc = "sequences" /\ run.sequences > 0 /\ Goto("calls")
    /\ run' = [run EXCEPT !.sequences = @ - 1, !.sequence = @ + 1, !.all_passed = TRUE]
    /\ events' = Append(events, [kind |-> "__SEQUENCE_START", passed |-> TRUE,
                                 label |-> <<run.number, run.group, run.sequence + 1>>])
    /\ UNCHANGED <<fs, fhs, recorded, conforming, tame, clean, view>>

(***************************************************************************)
(* One call of run_test_sequence.  A function that the passthrough lacks   *)
(* fails the sequence whatever the file system under test is.  One that    *)
(* does not conform may not have the function, answer the opposite, lose   *)
(* the effect or die; releasedir is called in neither.  A call that needs  *)
(* the entry of a path that has none kills the process, and so may the     *)
(* report of a difference in the contents, which frees the parameters      *)
(* twice.                                                                  *)
(***************************************************************************)
RealAnswers(c) ==
    LET right == {make_call(fs["real"], fhs["real"], c, dead) : dead \in BOOLEAN}
    IN  IF conforming \/ c.kind = "releasedir" THEN right
        ELSE right \cup {[r EXCEPT !.ok = ~ @] : r \in right}
                   \cup {[r EXCEPT !.fs.paths = fs["real"].paths] : r \in right}

Played(c, p, r) ==
    /\ fs' = [fs EXCEPT !["passthru"] = p.fs, !["real"] = r.fs]
    /\ fhs' = [fhs EXCEPT !["passthru"] = p.fhs, !["real"] = r.fhs]

run_test_sequence(c) ==
    /\ pc = "calls" /\ run.calls > 0
    /\ Needs(c) => fhs["passthru"][c.path].there
    /\ recorded' \in Record(c)
    /\ tame' = (tame /\ IsTame(c))
    /\ \/ /\ c.kind = "lacking"                 \* passthru_func_not_defined
          /\ run' = [run EXCEPT !.calls = @ - 1, !.all_passed = FALSE, !.lacking = TRUE]
          /\ Goto("failed") /\ Report(<<Event("call", FALSE)>>)
          /\ UNCHANGED <<fs, fhs>>
       \/ /\ c.kind # "lacking"
          /\ \E p \in {make_call(fs["passthru"], fhs["passthru"], c, FALSE)} :
             \/ /\ ~conforming                     \* real_func_not_defined
                /\ fs' = [fs EXCEPT !["passthru"] = p.fs]
                /\ fhs' = [fhs EXCEPT !["passthru"] = p.fhs]
                /\ run' = [run EXCEPT !.calls = @ - 1, !.all_passed = FALSE]
                /\ Goto("failed") /\ Report(<<Event("call", FALSE)>>)
             \/ \E r \in RealAnswers(c) :
                  LET passed == p.ok = r.ok /\ p.fs.paths \subseteq r.fs.paths IN
                  /\ Played(c, p, r)
                  /\ run' = [run EXCEPT !.calls = @ - 1, !.all_passed = passed]
                  /\ Goto(IF passed THEN "calls" ELSE "failed")
                  /\ Report(<<Event("call", passed)>>)
    /\ UNCHANGED <<conforming, clean, view>>

\* A removal has been done in the passthrough when its entry is missed.
Dies(c) ==
    /\ pc = "calls" /\ run.calls > 0
    /\ Needs(c) /\ ~fhs["passthru"][c.path].there
    /\ tame' = (tame /\ IsTame(c)) /\ clean' = FALSE
    /\ Gone(IF c.kind = "remove" THEN [fs EXCEPT !["passthru"].paths = @ \ {c.path}] ELSE fs)

\* Mutant: the failure of a sequence is not the failure of its group.
testsuite_seq_end_GroupGoesOn ==
    /\ pc \in {"calls", "failed"}
    /\ Goto(IF run.all_passed THEN "sequences" ELSE "reset")
    /\ Report(<<Event("__SEQUENCE_END", run.all_passed)>>)
    /\ UNCHANGED <<fs, fhs, recorded, run, conforming, tame, clean, view>>

testsuite_seq_end ==
    /\ pc \in {"calls", "failed"}
    /\ run' = [run EXCEPT !.group_passed = @ /\ run.all_passed]
    /\ Goto(IF run.all_passed THEN "sequences" ELSE "reset")
    /\ Report(<<Event("__SEQUENCE_END", run.all_passed)>>)
    /\ UNCHANGED <<fs, fhs, recorded, conforming, tame, clean, view>>

\* Mutant: the passthrough's directory is not emptied after a group.
testsuite_grp_end_RealOnly ==
    /\ pc \in {"sequences", "reset"} /\ Goto("groups")
    /\ fs' = [fs EXCEPT !["real"].paths = {}]
    /\ Report(<<[kind |-> "__GROUP_END", passed |-> run.group_passed,
                 label |-> <<run.number, run.group, 0>>]>>)
    /\ fhs' = [f \in FileSystems |-> NoTable] /\ recorded' = {}
    /\ UNCHANGED <<run, conforming, tame, clean, view>>

\* reset_filesystem on both, then the end of the group and of its tables.
testsuite_grp_end ==
    LET end == [kind |-> "__GROUP_END", passed |-> run.group_passed,
                label |-> <<run.number, run.group, 0>>]
        failed == [end EXCEPT !.kind = "call", !.passed = FALSE]
        Reset(real) == fs' = [fs EXCEPT !["passthru"].paths = {}, !["real"].paths = real]
    IN
    /\ pc \in {"sequences", "reset"} /\ Goto("groups")
    /\ \/ Reset({}) /\ Report(<<end>>)
       \/ ~conforming /\ Reset(fs["real"].paths) /\ Report(<<failed, end>>)
    /\ fhs' = [f \in FileSystems |-> NoTable] /\ recorded' = {}
    /\ UNCHANGED <<run, conforming, tame, clean, view>>

testsuite_end ==
    /\ pc \in {"groups", "end"} /\ UNCHANGED <<tame, clean>>
    /\ Gone(fs)

\* The user stops the run, or the file system under test dies by itself.
Killed == pc # "idle" /\ clean' = FALSE /\ UNCHANGED tame /\ Gone(fs)

------------------------------------------------------------------------------
(* The tree of results.  A row is the label of the event that made it, its  *)
(* parent and its status; an iterator names a row of one filling of the     *)
(* table, and outlives it.                                                  *)

NoIter == [gen |-> 0, row |-> 0]
NewRow(V) == [gen |-> V.gen, row |-> Len(V.rows) + 1]

Verdict(e) == IF e.passed THEN "PASS" ELSE "FAIL"
IsRow(V, iter) == iter.gen = V.gen /\ iter.row \in DOMAIN V.rows

\* The tree refuses an iterator of an earlier filling.
Appended(V, e, parent) ==
    IF ~IsRow(V, parent) /\ parent # NoIter THEN V
    ELSE [V EXCEPT !.rows = Append(@, [label |-> e.label, parent |-> parent,
                                       status |-> IF e.kind = "call" THEN Verdict(e)
                                                  ELSE "Running"])]
SetStatus(V, iter, status) == IF IsRow(V, iter) THEN [V EXCEPT !.rows[iter.row].status = status] ELSE V

\* Mutant: the end of a sequence does not forget its row.
ShowEvent_KeepSequence(V, e) ==
    CASE e.kind = "__GROUP_START" ->
            [Appended(V, e, NoIter) EXCEPT !.group_iter = NewRow(V)]
      [] e.kind = "__SEQUENCE_START" ->
            [Appended(V, e, V.group_iter) EXCEPT !.sequence_iter = NewRow(V)]
      [] e.kind = "__SEQUENCE_END" -> SetStatus(V, V.sequence_iter, Verdict(e))
      [] e.kind = "__GROUP_END" ->
            [SetStatus(V, V.group_iter, Verdict(e)) EXCEPT !.group_iter = NoIter]
      [] e.kind = "__ERROR" -> V
      [] e.kind = "call" -> Appended(V, e, V.sequence_iter)

ShowEvent(V, e) ==
    CASE e.kind = "__GROUP_START" ->
            [Appended(V, e, NoIter) EXCEPT !.group_iter = NewRow(V)]
      [] e.kind = "__SEQUENCE_START" ->
            [Appended(V, e, V.group_iter) EXCEPT !.sequence_iter = NewRow(V)]
      [] e.kind = "__SEQUENCE_END" ->
            [SetStatus(V, V.sequence_iter, Verdict(e)) EXCEPT !.sequence_iter = NoIter]
      [] e.kind = "__GROUP_END" ->
            [SetStatus(V, V.group_iter, Verdict(e)) EXCEPT !.group_iter = NoIter]
      [] e.kind = "__ERROR" -> V
      [] e.kind = "call" -> Appended(V, e, V.sequence_iter)

Show(V, es) ==
    LET shown[i \in 0..Len(es)] == IF i = 0 THEN V ELSE ShowEvent(shown[i - 1], es[i])
    IN  shown[Len(es)]

gui_idle_testsuite ==
    LET V == IF view.displayed THEN view ELSE [view EXCEPT !.rows = <<>>, !.gen = run.number]
    IN
    /\ events # <<>> \/ V # view
    /\ view' = [Show(V, events) EXCEPT !.displayed = @ \/ events # <<>>]
    /\ events' = <<>>
    /\ UNCHANGED runner

------------------------------------------------------------------------------
Init ==
    /\ pc = "idle" /\ conforming \in BOOLEAN /\ tame = TRUE /\ clean = TRUE
    /\ fs = [f \in FileSystems |-> Empty]
    /\ fhs = [f \in FileSystems |-> NoTable]
    /\ recorded = {}
    /\ run = NoRun(0, MaxCalls)
    /\ events = <<>>
    /\ view = [displayed |-> FALSE, gen |-> 0, rows |-> <<>>, group_iter |-> NoIter,
               sequence_iter |-> NoIter]

Next ==
    \/ testsuite_init \/ testsuite_grp_start \/ testsuite_seq_start
    \/ \E c \in RecordableCalls : run_test_sequence(c) \/ Dies(c)
    \/ testsuite_seq_end \/ testsuite_grp_end \/ testsuite_end \/ Killed
    \/ gui_idle_testsuite

Spec == Init /\ [][Next]_vars

------------------------------------------------------------------------------
(* Properties.                                                              *)

(***************************************************************************)
(* The tables (store_fh, destroy_fh, update_fi): for every file that is    *)
(* open in the recording, each file system is handed the handle that it    *)
(* gave out when that very file was opened, also after handles have been   *)
(* released and given out again; as long as the recording is tame.         *)
(***************************************************************************)
HandleIsOfItsOpen ==
    tame /\ pc = "calls" => \A r \in recorded, f \in FileSystems :
        conforming \/ f = "passthru" =>
            LET e == fhs[f][r.path]
            IN  e.there /\ IsLive(fs[f], e.fh) /\ fs[f].open[e.fh] = r.id

(***************************************************************************)
(* The two tables go hand in hand: after a call that both file systems     *)
(* have answered, they have the same paths with the same open counts, so   *)
(* the next call finds an entry in both or in neither.                     *)
(***************************************************************************)
TablesAgree ==
    pc = "calls" =>
        \A p \in Paths : /\ fhs["passthru"][p].there = fhs["real"][p].there
                         /\ fhs["passthru"][p].open = fhs["real"][p].open

(***************************************************************************)
(* No false alarm (run_test_sequence): a file system that does what the    *)
(* passthrough does passes every tame recording, whatever it answers to a  *)
(* handle that is not open, if no earlier run was cut short and so left    *)
(* files in the passthrough's directory; save the groups that ask for a    *)
(* function that the passthrough lacks, whatever earlier groups asked for. *)
(***************************************************************************)
ConformingPasses ==
    conforming /\ tame /\ clean /\ ~run.lacking => run.all_passed /\ run.group_passed

(***************************************************************************)
(* The tree of results (gui_idle_testsuite): a row of a sequence is in the *)
(* table under the row of that sequence, and that under its group, also    *)
(* when earlier runs were cut short and left their iterators behind.       *)
(***************************************************************************)
RowsAreUnderTheirSequence ==
    \A i \in DOMAIN view.rows :
        LET row == view.rows[i]
            parent == row.parent
        IN  \/ parent = NoIter /\ row.label[3] = 0
            \/ /\ IsRow(view, parent)
               /\ SubSeq(view.rows[parent.row].label, 1, 2) = SubSeq(row.label, 1, 2)
               /\ view.rows[parent.row].label[3] \in {0, row.label[3]}

(***************************************************************************)
(* A verdict is the verdict of everything under it: below a row that says  *)
(* PASS there is no FAIL and nothing that still runs.                      *)
(***************************************************************************)
PassCoversItsRows ==
    \A i \in DOMAIN view.rows :
        LET parent == view.rows[i].parent
        IN  IsRow(view, parent) /\ view.rows[parent.row].status = "PASS"
              => view.rows[i].status = "PASS"
=============================================================================
