---------------------------- MODULE WizardTests ----------------------------
(***************************************************************************)
(* The wizard's tests, which the modified libfuse runs in the file         *)
(* system's process instead of mounting (wizard_tests.c).                  *)
(*                                                                         *)
(* A test function is a sequence of checks.  A check is made if the check  *)
(* it needs had one of the given outcomes, and if its guard is not a test  *)
(* that the user skipped; it calls operations of the file system through   *)
(* fuse_operations, and reports one result.  What is reported is not       *)
(* always what the guard asks about, so a check has both keys.  A key is a *)
(* function's name (without test_) and a test number.                      *)
(*                                                                         *)
(* The file system is arbitrary: there may be operations that it does not  *)
(* define (missing), checks that it does not answer as expected (wrong),   *)
(* and checks in which an operation crashes (fatal).                       *)
(***************************************************************************)
EXTENDS Integers, Sequences, FiniteSets, FiniteSetsExt

CONSTANTS
    MaxFaults,   \* bound: faults of the file system
    FifoSize     \* bound: events that the FIFO holds

ASSUME WizardTestsAssumption ==
    /\ MaxFaults \in Nat
    /\ FifoSize \in Nat \ {0}

NoKey == <<"", 0>>
-----------------------------------------------------------------------------
(* The forms a check takes.  Calls alone report nothing.                   *)

Passed(f, n) == [of |-> <<f, n>>, was |-> {"pass"}]
Made(f, n) == [of |-> <<f, n>>, was |-> {"pass", "fail"}]

\* The head of a test function: is the operation defined?
Entry(f) ==
    [entry |-> TRUE, needs |-> Passed("", 0), guard |-> <<f, 0>>,
     skipAs |-> <<f, 0>>, calls |-> {}, defines |-> {f}, key |-> <<f, 0>>]

\* A check that reports `key`, guarded by `guard` and skipped as `skipAs`.
GuardedBy(guard, skipAs, needs, calls, key) ==
    [entry |-> FALSE, needs |-> needs, guard |-> guard,
     skipAs |-> skipAs, calls |-> calls, defines |-> {}, key |-> key]

\* The regular check: one key for the guard, the skip and the report.
Check(f, n, needs, calls) ==
    GuardedBy(<<f, n>>, <<f, n>>, needs, calls, <<f, n>>)

\* A check that asks nobody whether it is skipped.
Unguarded(f, n, needs, calls) ==
    GuardedBy(NoKey, NoKey, needs, calls, <<f, n>>)

Calls(needs, calls) == GuardedBy(NoKey, NoKey, needs, calls, NoKey)
-----------------------------------------------------------------------------
(* The test functions.                                                     *)

\* The structure is never NULL here: fuse_new has copied it before.
test_operations == << [Entry("operations") EXCEPT !.defines = {}] >>

test_init == << Entry("init") >>

test_getattr == <<
    Entry("getattr"),
    Check("getattr", 1, Passed("getattr", 0), {"getattr"}),
    Check("getattr", 2, Passed("getattr", 0), {"getattr"}) >>

test_access == <<
    Entry("access"),
    Check("access", 1, Passed("access", 0), {"access"}),
    Check("access", 2, Passed("access", 0), {"access"}),
    Check("access", 3, Passed("access", 0), {"access"}) >>

test_rmdir == <<
    Entry("rmdir"),
    Check("rmdir", 1, Passed("rmdir", 0), {"rmdir"}),
    Check("rmdir", 2, Passed("rmdir", 1), {}),
    Calls(Passed("rmdir", 0), {"rmdir"}) >>

test_mkdir == <<
    Entry("mkdir"),
    Check("mkdir", 1, Passed("mkdir", 0), {"mkdir"}),
    Check("mkdir", 2, Passed("mkdir", 1), {"mkdir"}),
    Unguarded("mkdir", 3, Passed("mkdir", 2), {}),
    GuardedBy(<<"mkdir", 3>>, <<"mkdir", 3>>, Made("mkdir", 2), {"rmdir"},
              <<"rmdir", 3>>) >>

test_unlink == <<
    Entry("unlink"),
    Check("unlink", 1, Passed("unlink", 0), {"unlink"}),
    Check("unlink", 2, Passed("unlink", 1), {}),
    Calls(Passed("unlink", 0), {"unlink"}) >>

test_create == <<
    Entry("create"),
    Check("create", 1, Passed("create", 0), {"create"}),
    Check("unlink", 3, Passed("create", 1), {"unlink"}) >>

test_fgetattr == <<
    Entry("fgetattr"),
    Check("fgetattr", 1, Passed("fgetattr", 0), {"create", "fgetattr"}),
    Calls(Made("fgetattr", 1), {"unlink"}) >>

test_flush == << Entry("flush") >>

test_release == << Entry("release") >>

test_opendir == <<
    Entry("opendir"),
    Check("opendir", 1, Passed("opendir", 0), {"opendir"}),
    Check("opendir", 2, Passed("opendir", 0), {"opendir"}) >>

\* A skipped first check reports nothing.
test_readdir == <<
    Entry("readdir"),
    GuardedBy(<<"readdir", 1>>, NoKey, Passed("readdir", 0),
              {"create", "opendir", "readdir"}, <<"readdir", 1>>),
    Check("readdir", 2, Made("readdir", 1), {}),
    Check("readdir", 3, Made("readdir", 1), {}),
    Check("readdir", 4, Made("readdir", 1), {}),
    Check("readdir", 5, Made("readdir", 1), {}),
    Check("readdir", 6, Made("readdir", 1), {}),
    Check("readdir", 7, Made("readdir", 1), {}),
    Calls(Made("readdir", 1), {"unlink"}) >>

test_releasedir == << Entry("releasedir") >>

test_open == <<
    Entry("open"),
    GuardedBy(<<"open", 1>>, <<"open", 1>>, Passed("open", 0), {"create"},
              <<"create", 2>>),
    Unguarded("open", 1, Passed("create", 2), {"open"}),
    Unguarded("unlink", 4, Passed("create", 2), {"unlink"}),
    Check("open", 2, Passed("open", 0), {"open"}) >>

test_read_and_write == <<
    Entry("write"),
    GuardedBy(<<"create", 3>>, <<"write", 1>>, Passed("write", 0), {"create"},
              <<"create", 3>>),
    Unguarded("open", 2, Passed("create", 3), {"open"}),
    Check("write", 2, Passed("open", 2), {"write"}),
    [Check("read", 0, Made("write", 2), {}) EXCEPT !.defines = {"read"}],
    Check("read", 1, Passed("read", 0), {"read"}),
    Check("read", 2, Passed("read", 1), {}),
    Unguarded("unlink", 5, Passed("create", 3), {"unlink"}) >>

test_symlink == <<
    Entry("symlink"),
    Calls(Passed("symlink", 0), {"create"}),
    Check("symlink", 1, Passed("symlink", 0), {"symlink"}),
    Calls(Passed("symlink", 0), {"unlink"}) >>

\* The system's readlink is called, not the file system's.
test_readlink == <<
    Entry("readlink"),
    Check("readlink", 1, Passed("readlink", 0), {}) >>

test_link == <<
    Entry("link"),
    Calls(Passed("link", 0), {"create"}),
    Check("link", 1, Passed("link", 0), {"link"}),
    Calls(Passed("link", 0), {"unlink"}) >>

\* Mutant: the check does not ask whether it is skipped.
test_rename_Unguarded == <<
    Entry("rename"),
    Calls(Passed("rename", 0), {"create"}),
    Unguarded("rename", 1, Passed("rename", 0), {"rename"}),
    Calls(Passed("rename", 0), {"unlink"}) >>

test_rename == <<
    Entry("rename"),
    Calls(Passed("rename", 0), {"create"}),
    Check("rename", 1, Passed("rename", 0), {"rename"}),
    Calls(Passed("rename", 0), {"unlink"}) >>

test_truncate == <<
    Entry("truncate"),
    Check("truncate", 1, Passed("truncate", 0),
          {"create", "open", "write", "truncate"}),
    Calls(Made("truncate", 1), {"unlink"}) >>

test_utimens == <<
    Entry("utimens"),
    Check("utimens", 1, Passed("utimens", 0), {"create", "open", "utimens"}),
    Calls(Made("utimens", 1), {"unlink"}) >>

\* Mutant: mkdir is tested before the rmdir that it calls.
fwizard_init_MkdirFirst ==
    test_operations \o test_init \o test_getattr \o test_access
      \o test_mkdir \o test_rmdir \o test_unlink \o test_create
      \o test_fgetattr \o test_flush \o test_release
      \o test_opendir \o test_readdir \o test_releasedir
      \o test_open \o test_read_and_write
      \o test_symlink \o test_readlink \o test_link
      \o test_rename \o test_truncate \o test_utimens

\* All tests, in the order they are run.
fwizard_init ==
    test_operations \o test_init \o test_getattr \o test_access
      \o test_rmdir \o test_mkdir \o test_unlink \o test_create
      \o test_fgetattr \o test_flush \o test_release
      \o test_opendir \o test_readdir \o test_releasedir
      \o test_open \o test_read_and_write
      \o test_symlink \o test_readlink \o test_link
      \o test_rename \o test_truncate \o test_utimens
-----------------------------------------------------------------------------
(* The file system's process.                                              *)

N == Len(fwizard_init)

\* Where the test function of a check begins.
EntryOf == [j \in 1..N |-> Max({k \in 1..j : fwizard_init[k].entry})]

Operations == UNION {fwizard_init[i].defines : i \in 1..N}

\* Checks whose answer the file system decides.  readdir:2 always passes:
\* nothing sets bad_increment.
Fallible ==
    {i \in 1..N : /\ fwizard_init[i].key \notin {NoKey, <<"readdir", 2>>}
                  /\ ~fwizard_init[i].entry
                  /\ fwizard_init[i].defines = {}}

Faults == {<<"missing", op>> : op \in Operations}
            \cup {<<"wrong", i>> : i \in Fallible}
            \cup {<<"fatal", i>> : i \in {j \in 1..N :
                                             fwizard_init[j].calls # {}}}

Keys == {fwizard_init[i].key : i \in 1..N} \cup
          {fwizard_init[i].skipAs : i \in 1..N}

End == [key |-> <<"__END", 0>>, is |-> "pass"]

VARIABLES
    faults,        \* what is wrong with the file system
    skipped_tests, \* keys in SKIPPED_TESTS
    fs,            \* "none", "opening", "testing", "ended" or "crashed"
    pc,            \* the next check, N + 1 after the last one
    outcome,       \* of the checks made so far in this test function
    test_failed,
    fifo           \* events written and not yet read

testVars == <<faults, skipped_tests, fs, pc, outcome, test_failed, fifo>>

missing == {op \in Operations : <<"missing", op>> \in faults}

is_skipped(key) == key # NoKey /\ key \in skipped_tests

\* What a check reports when it is made.
Result(i) ==
    IF \/ <<"wrong", i>> \in faults
       \/ fwizard_init[i].defines \cap missing # {}
    THEN "fail" ELSE "pass"

\* The check after i, given the outcomes in its function: a test function
\* is entered unless a test has failed, and a check within a function is
\* made if the one it needs came out right.
Following(i, seen, failed) ==
    LET Holds(needs) == /\ needs.of \in DOMAIN seen
                        /\ seen[needs.of] \in needs.was
        IsDue(j) == \/ fwizard_init[j].entry /\ ~failed
                    \/ /\ EntryOf[j] = EntryOf[i]
                       /\ Holds(fwizard_init[j].needs)
    IN  Min({j \in (i + 1)..N : IsDue(j)} \cup {N + 1})

\* The current check came out as `res`; go on to the next one.
GoOn(res) ==
    LET check == fwizard_init[pc]
        before == IF check.entry THEN <<>> ELSE outcome
        seen == [key \in DOMAIN before \cup {check.key} |->
                   IF key = check.key THEN res ELSE before[key]]
        failed == test_failed \/ res = "fail"
        next == Following(pc, seen, failed)
    IN  /\ test_failed' = failed
        /\ pc' = next
        /\ outcome' = IF next <= N /\ fwizard_init[next].entry
                      THEN <<>> ELSE seen

report_wizard_event(key, res) ==
    /\ Len(fifo) < FifoSize
    /\ fifo' = Append(fifo, [key |-> key, is |-> res])

\* Mutant: a check that is skipped is passed over silently.
SkipCheck_Silent ==
    /\ fs = "testing" /\ pc <= N
    /\ is_skipped(fwizard_init[pc].guard)
    /\ GoOn("skip")
    /\ UNCHANGED <<faults, skipped_tests, fs, fifo>>

\* The user skipped the test: test_skip, where the code calls it.
SkipCheck ==
    /\ fs = "testing" /\ pc <= N
    /\ LET check == fwizard_init[pc]
       IN  /\ is_skipped(check.guard)
           /\ IF check.skipAs = NoKey
              THEN UNCHANGED fifo
              ELSE report_wizard_event(check.skipAs, "skip")
    /\ GoOn("skip")
    /\ UNCHANGED <<faults, skipped_tests, fs>>

\* The operations are called and answer: test_pass or test_fail.
MakeCheck ==
    /\ fs = "testing" /\ pc <= N
    /\ LET check == fwizard_init[pc]
       IN  /\ ~is_skipped(check.guard)
           /\ check.calls \cap missing = {} /\ <<"fatal", pc>> \notin faults
           /\ IF check.key = NoKey
              THEN UNCHANGED fifo
              ELSE report_wizard_event(check.key, Result(pc))
    /\ GoOn(Result(pc))
    /\ UNCHANGED <<faults, skipped_tests, fs>>

\* An operation that is not defined is called through its NULL pointer.
CallUndefined ==
    /\ fs = "testing" /\ pc <= N
    /\ ~is_skipped(fwizard_init[pc].guard)
    /\ fwizard_init[pc].calls \cap missing # {}
    /\ fs' = "crashed"
    /\ UNCHANGED <<faults, skipped_tests, pc, outcome, test_failed, fifo>>

\* An operation of the file system crashes.
CrashInOperation ==
    /\ fs = "testing" /\ pc <= N
    /\ ~is_skipped(fwizard_init[pc].guard)
    /\ <<"fatal", pc>> \in faults
    /\ fs' = "crashed"
    /\ UNCHANGED <<faults, skipped_tests, pc, outcome, test_failed, fifo>>

\* tests_end and wizard_fifo_destroy; the process then leaves.
tests_end ==
    /\ fs = "testing" /\ pc = N + 1
    /\ Len(fifo) < FifoSize
    /\ fifo' = Append(fifo, End)
    /\ fs' = "ended"
    /\ UNCHANGED <<faults, skipped_tests, pc, outcome, test_failed>>

TestStep == SkipCheck \/ MakeCheck \/ CallUndefined \/ CrashInOperation
              \/ tests_end

TestInit ==
    /\ faults \in {{f[k] : k \in 1..MaxFaults} \ {<<>>} :
                     f \in [1..MaxFaults -> Faults \cup {<<>>}]}
    /\ skipped_tests = {}
    /\ fs = "none" /\ pc = 1
    /\ outcome = <<>> /\ test_failed = FALSE
    /\ fifo = <<>>

\* The types of the variables above.
TestTypeOK ==
    /\ faults \subseteq Faults
    /\ skipped_tests \subseteq Keys
    /\ fs \in {"none", "opening", "testing", "ended", "crashed"}
    /\ pc \in 1..(N + 1)
    /\ DOMAIN outcome \subseteq Keys
    /\ \A key \in DOMAIN outcome : outcome[key] \in {"pass", "fail", "skip"}
    /\ test_failed \in BOOLEAN
    /\ Len(fifo) <= FifoSize
=============================================================================
