------------------------------- MODULE Wizard -------------------------------
(***************************************************************************)
(* The wizard: the tests in the file system's process (WizardTests), the   *)
(* reader thread, the window, and the user who mends the file system or    *)
(* skips the test that it fails, over and over (wizard.c).                 *)
(*                                                                         *)
(* Of the rows only those are kept that do not say "Done", with whether    *)
(* there is any; the message is reduced to its kind.  A pass of the idle   *)
(* callback is two steps: the rows, under the lock, then the message.  The *)
(* user is patient: no button is clicked before the process and the reader *)
(* have ended.  Processes that never open the FIFO, readers that are late  *)
(* and the names of FIFOs are Launcher's.                                  *)
(***************************************************************************)
EXTENDS WizardTests, SequencesExt

VARIABLES
    reader,             \* "none", "opening", "reset", "reading" or "done"
    recv_end_event,
    fs_mounted,
    wizard_events,
    displayed,          \* is wizard_events_displayed not empty?
    notification_event, \* the key of a failed test, or NoKey
    rows,               \* status of each displayed function, if not "Done"
    gui,                \* "idle", or "rows" between the parts of a pass
    message             \* what the box to the right shows

viewVars == <<reader, recv_end_event, fs_mounted, wizard_events,
              displayed, notification_event, rows, gui, message>>
vars == <<testVars, viewVars>>
-----------------------------------------------------------------------------
(* The reader thread.                                                      *)

\* Both ends of the FIFO are opened at once: each fopen waits for the other.
OpenFifo ==
    /\ reader = "opening" /\ fs = "opening"
    /\ reader' = "reset" /\ fs' = "testing"
    /\ UNCHANGED <<faults, skipped_tests, pc, outcome, test_failed, fifo,
                   recv_end_event, fs_mounted, wizard_events, rows,
                   displayed, notification_event, gui, message>>

\* Mutant: the notification of the last run stays.
doStartWizard_KeepNotification ==
    /\ reader = "reset"
    /\ reader' = "reading"
    /\ wizard_events' = <<>> /\ displayed' = FALSE
    /\ rows' = <<>>
    /\ UNCHANGED <<testVars, recv_end_event, fs_mounted, notification_event,
                   gui, message>>

\* The lists are replaced without the lock.  That this does not fall into
\* the part of a pass that walks them is an assumption.
doStartWizard ==
    /\ reader = "reset"
    /\ reader' = "reading"
    /\ wizard_events' = <<>> /\ displayed' = FALSE
    /\ rows' = <<>> /\ notification_event' = NoKey
    /\ UNCHANGED <<testVars, recv_end_event, fs_mounted, gui, message>>

\* Mutant: the end is listed like the result of a test.
handleWizardEvent_ListEnd ==
    /\ reader = "reading" /\ fifo # <<>>
    /\ fifo' = Tail(fifo)
    /\ recv_end_event' = (recv_end_event \/ Head(fifo) = End)
    /\ wizard_events' = Append(wizard_events, Head(fifo))
    /\ UNCHANGED <<faults, skipped_tests, fs, pc, outcome, test_failed,
                   reader, fs_mounted, displayed, rows,
                   notification_event, gui, message>>

handleWizardEvent ==
    /\ reader = "reading" /\ fifo # <<>>
    /\ fifo' = Tail(fifo)
    /\ IF Head(fifo) = End
       THEN recv_end_event' = TRUE /\ UNCHANGED wizard_events
       ELSE /\ wizard_events' = Append(wizard_events, Head(fifo))
            /\ UNCHANGED recv_end_event
    /\ UNCHANGED <<faults, skipped_tests, fs, pc, outcome, test_failed,
                   reader, fs_mounted, displayed, rows,
                   notification_event, gui, message>>

ReadEof ==
    /\ reader = "reading" /\ fifo = <<>>
    /\ fs \in {"ended", "crashed"}
    /\ reader' = "done"
    /\ UNCHANGED <<testVars, recv_end_event, fs_mounted, wizard_events, rows,
                   displayed, notification_event, gui, message>>

\* The process is gone and SIGCHLD is handled, after at most one second of
\* waiting for the reader.
childKilled ==
    /\ fs \in {"ended", "crashed"} /\ fs_mounted
    /\ fs_mounted' = FALSE
    /\ UNCHANGED <<testVars, reader, recv_end_event, wizard_events, rows,
                   displayed, notification_event, gui, message>>
-----------------------------------------------------------------------------
(* The window.                                                             *)

getFunctionStatus(f) ==
    LET Some(res) == \E e \in ToSet(wizard_events) :
                       e.key[1] = f /\ e.is \in res
    IN  IF ~Some({"fail"})
        THEN IF Some({"skip"}) THEN "Skipped" ELSE "Done"
        ELSE IF Some({"pass", "skip"})
             THEN "Needs fixing" ELSE "Needs defining"

\* The functions of the events with one of these results.
FunctionsWith(res) == {e.key[1] : e \in {x \in ToSet(wizard_events) : x.is \in res}}

\* Where the first event of a function, or its first failure, is in the list.
FirstEvent(f, res) ==
    Min({i \in 1..Len(wizard_events) : /\ wizard_events[i].key[1] = f
                                       /\ wizard_events[i].is \in res})

\* updateFunctionRow for every row.
UpdatedRows ==
    [f \in FunctionsWith({"fail", "skip"}) |-> getFunctionStatus(f)]

\* The failure to tell the user about.  The rows are gone through from the
\* newest to the oldest function, so the first failure of the oldest one
\* that fails stays; without a failure the old notification does.
Notified ==
    LET failing == FunctionsWith({"fail"})
        Age(f) == FirstEvent(f, {"pass", "fail", "skip"})
        oldest == CHOOSE f \in failing : \A g \in failing : Age(f) <= Age(g)
    IN  IF failing = {} THEN notification_event
        ELSE wizard_events[FirstEvent(oldest, {"fail"})].key

\* The kind of message in the box to the right.
MessageFor(notified, some) ==
    CASE notified # NoKey -> "function"
      [] notified = NoKey /\ ~some -> "Wizard"
      [] OTHER -> IF fs_mounted THEN "Running tests"
                  ELSE IF recv_end_event THEN "Success"
                  ELSE "Filesystem crashed"

\* gui_idle_wizard, under the lock.
UpdateRows ==
    /\ gui = "idle"
    /\ displayed' = (wizard_events # <<>>)
    /\ rows' = UpdatedRows
    /\ notification_event' = Notified
    /\ gui' = "rows"
    /\ UNCHANGED <<testVars, reader, recv_end_event, fs_mounted, wizard_events,
                   message>>

\* The rest of gui_idle_wizard, outside the lock.
UpdateMessage ==
    /\ gui = "rows"
    /\ gui' = "idle"
    /\ message' = MessageFor(notification_event, displayed)
    /\ UNCHANGED <<testVars, reader, recv_end_event, fs_mounted, wizard_events,
                   displayed, notification_event, rows>>

\* startTool and startWizard.  The child sets fs_mounted.
StartWizard ==
    /\ ~fs_mounted /\ reader \in {"none", "done"} /\ gui = "idle"
    /\ fs' = "opening" /\ fs_mounted' = TRUE
    /\ recv_end_event' = FALSE
    /\ reader' = "opening"
    /\ pc' = 1 /\ outcome' = <<>> /\ test_failed' = FALSE
    /\ UNCHANGED <<fifo, wizard_events, displayed, rows,
                   notification_event, gui, message>>

\* Start, or "Run wizard again", perhaps after mending the file system.
start_btn_handler ==
    /\ StartWizard
    /\ faults' \in SUBSET faults
    /\ UNCHANGED skipped_tests

skip_btn_handler ==
    /\ message = "function" /\ notification_event # NoKey
    /\ StartWizard
    /\ skipped_tests' = skipped_tests \cup {notification_event}
    /\ UNCHANGED faults
-----------------------------------------------------------------------------
Init ==
    /\ TestInit
    /\ reader = "none" /\ recv_end_event = FALSE /\ fs_mounted = FALSE
    /\ wizard_events = <<>> /\ displayed = FALSE
    /\ notification_event = NoKey /\ rows = <<>>
    /\ gui = "idle" /\ message = "Wizard"

Next ==
    \/ TestStep /\ UNCHANGED viewVars
    \/ OpenFifo \/ doStartWizard \/ handleWizardEvent \/ ReadEof
    \/ childKilled
    \/ UpdateRows \/ UpdateMessage
    \/ start_btn_handler \/ skip_btn_handler

Spec == Init /\ [][Next]_vars
-----------------------------------------------------------------------------
(* Properties.                                                             *)

\* Type invariant.  Only results of tests are listed, never the end event.
TypeOK ==
    /\ TestTypeOK
    /\ reader \in {"none", "opening", "reset", "reading", "done"}
    /\ recv_end_event \in BOOLEAN /\ fs_mounted \in BOOLEAN
    /\ \A i \in 1..Len(wizard_events) :
         wizard_events[i].key \in Keys \ {NoKey}
    /\ notification_event \in Keys
    /\ displayed \in BOOLEAN
    /\ \A f \in DOMAIN rows :
         rows[f] \in {"Skipped", "Needs fixing", "Needs defining"}
    /\ gui \in {"idle", "rows"}
    /\ message \in {"Wizard", "function", "Running tests", "Success",
                    "Filesystem crashed"}

\* The keys under which a check reports that does not ask for them.
CannotBeSkipped == {<<"mkdir", 3>>, <<"rmdir", 3>>, <<"create", 2>>,
                    <<"open", 2>>, <<"unlink", 4>>, <<"unlink", 5>>}

\* Every event in the list is of the current run.
ListIsCurrent == reader \in {"reading", "done"}

\* A test that the user skipped does not fail in a later run, with six
\* exceptions: Skip makes progress, whatever the file system gets wrong.
SkippedTestsDoNotFail ==
    ListIsCurrent =>
      \A e \in ToSet(wizard_events) :
        e.is = "fail" /\ e.key \in skipped_tests => e.key \in CannotBeSkipped

\* The tests call an operation that the file system does not define only if
\* the user skipped the test that asks whether it is defined: the order of
\* the tests protects everybody else.
UndefinedCallsWereSkipped ==
    ENABLED CallUndefined =>
      \A op \in fwizard_init[pc].calls \cap missing :
        <<op, 0>> \in skipped_tests

RunIsOver == reader = "done" /\ ~fs_mounted

\* What the process knows of its run.
Verdict == IF test_failed THEN "function"
           ELSE IF fs = "ended" THEN "Success" ELSE "Filesystem crashed"

\* After a run the next pass of the idle callback shows how it went: a
\* failure, success, or a crash, in whatever order the events, the end of
\* the process and earlier passes came.
VerdictIsShown ==
    RunIsOver => MessageFor(Notified, wizard_events # <<>>) = Verdict

\* When it shows success, every function with a skipped test has a row that
\* says so.  Two checks do not report that they are skipped under the name
\* they are skipped by.
RowsTellOfSkips ==
    RunIsOver /\ Verdict = "Success" =>
      \A key \in skipped_tests \ (CannotBeSkipped
                                    \cup {<<"readdir", 1>>, <<"create", 3>>}) :
        key[1] \in DOMAIN UpdatedRows /\ UpdatedRows[key[1]] = "Skipped"
=============================================================================
