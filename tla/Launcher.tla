------------------------------ MODULE Launcher ------------------------------
(***************************************************************************)
(* Starting and stopping a tool: FDT's GUI thread, the file system         *)
(* processes that it forks, the SIGCHLD and SIGINT handlers, and the       *)
(* reader thread of each session with the name of its FIFO.                *)
(*                                                                         *)
(* A session is numbered by its fork, and the number stands for the        *)
(* process id.  The wizard also stands for the test suite, which is        *)
(* started, stopped and ended in the same way.  Both signal handlers run   *)
(* on the GUI thread.  What the tools do meanwhile is left out.            *)
(*                                                                         *)
(* Some things are possible but need bad luck or an impatient user.  A     *)
(* behaviour is without those in prompt, which is fixed at its start:      *)
(*   "pid"    a signal arrives between fork and the store of its result;   *)
(*   "child"  the GUI becomes idle before the child sets fs_mounted;       *)
(*   "tool"   the file system opens its log before the tool has made it;   *)
(*   "reader" a reader thread with something to do takes longer than the   *)
(*            second childKilled waits, or than the user takes to press    *)
(*            Start again;                                                 *)
(*   "again"  Skip or "Run wizard again" is pressed while Start is not      *)
(*            sensitive.                                                   *)
(***************************************************************************)
EXTENDS Integers, FiniteSets

CONSTANTS
    MaxStarts,     \* bound: times Start is pressed
    Prompts,       \* choices of what does not happen
    CanForkFail    \* may fork fail?

ASSUME LauncherAssumption ==
    /\ MaxStarts \in Nat \ {0}
    /\ Prompts \subseteq SUBSET {"pid", "child", "tool", "reader", "again"}
    /\ CanForkFail \in BOOLEAN

VARIABLES
    prompt,          \* what does not happen in this behaviour
    fdt,             \* "up" or "exited"
    gui,             \* where startTool is: "idle", "fork", "tool"
    started,         \* forks so far
    tool,            \* the tool of each session
    fuse_pid,
    fs_mounted,
    shared_error,
    stopToolFunction,
    terminate_calls,
    start_button,    \* sensitive?
    stop_button,
    child,           \* life of each file system process
    cause,           \* why it ended
    log,             \* the FIFO it opened for writing
    ending,          \* its __END event: "no", "sent" or "read"
    sigchld,         \* SIGCHLD is pending
    handler,         \* childKilled: "none", "reap" or "wait"
    pid,             \* the process childKilled waits for
    reader,          \* life of each reader thread
    fifo,            \* the FIFO it opened for reading
    name,            \* what the name of each tool's FIFO refers to
    signals,         \* signals sent, with their target
    reported         \* processes whose failure was written to shared_error

buttonVars == <<start_button, stop_button>>
childVars  == <<child, cause, log, ending>>
sigVars    == <<sigchld, handler, pid>>
readerVars == <<reader, fifo>>
toolVars   == <<fuse_pid, stopToolFunction, terminate_calls, signals>>
vars == <<prompt, fdt, gui, started, tool, fuse_pid, fs_mounted, shared_error,
          stopToolFunction, terminate_calls, start_button, stop_button, child,
          cause, log, ending, sigchld, handler, pid, reader, fifo, name,
          signals, reported>>

Tools    == {"wizard", "debugger"}
Sessions == 1..MaxStarts

\* What a FIFO's name may refer to besides the FIFO of a session.
Nothing     == 0
RegularFile == -1
Files       == {RegularFile, Nothing} \cup Sessions

Alive(s) == child[s] \in {"forked", "execing", "serving", "leaving"}
Dead(s)  == child[s] \in {"zombie", "reaped"}

\* The GUI thread is back in its main loop.
GuiIdle == fdt = "up" /\ handler = "none" /\ gui = "idle"

\* A reader thread that is not blocked.
Busy(s) ==
    \/ reader[s] \in {"opening", "unlinking"}
    \/ reader[s] = "reading" /\ \E c \in Sessions : log[c] = fifo[s] /\ Dead(c)

(***************************************************************************)
(* Buttons and idle callback                                               *)
(***************************************************************************)

\* A test of the wizard has failed, so that the wizard's tab shows "Skip" and
\* "Run wizard again".
TestFailed ==
    \E s \in Sessions :
        /\ tool[s] = "wizard" /\ log[s] # Nothing
        /\ reader[s] \notin {"none", "opening"}

\* The handler runs for the Start button when that is sensitive, and for the
\* wizard's two buttons, which stay sensitive, whenever they are shown.
StartPressed(t) ==
    \/ start_button
    \/ "again" \notin prompt /\ t = "wizard" /\ TestFailed

\* startTool up to its fork.
start_btn_handler(t) ==
    /\ GuiIdle
    /\ StartPressed(t)
    /\ started < MaxStarts
    /\ "reader" \in prompt => \A s \in Sessions : ~Busy(s)
    /\ start_button' = FALSE
    /\ terminate_calls' = 0
    /\ started' = started + 1
    /\ tool' = [tool EXCEPT ![started + 1] = t]
    /\ child' = [child EXCEPT ![started + 1] = "forked"]
    /\ gui' = "fork"
    /\ UNCHANGED <<prompt, fdt, fuse_pid, fs_mounted, shared_error,
                   stopToolFunction, stop_button, cause, log, ending, sigVars,
                   readerVars, name, signals, reported>>

\* fork fails: its result is stored all the same, and no tool is started.
ForkFails ==
    /\ CanForkFail
    /\ GuiIdle
    /\ \E t \in Tools : StartPressed(t)
    /\ start_button' = FALSE
    /\ terminate_calls' = 0
    /\ fuse_pid' = -1
    /\ UNCHANGED <<prompt, fdt, gui, started, tool, fs_mounted, shared_error,
                   stopToolFunction, stop_button, childVars, sigVars,
                   readerVars, name, signals, reported>>

StorePid ==
    /\ fdt = "up" /\ handler = "none" /\ gui = "fork"
    /\ fuse_pid' = started
    /\ gui' = "tool"
    /\ UNCHANGED <<prompt, fdt, started, tool, fs_mounted, shared_error,
                   stopToolFunction, terminate_calls, buttonVars, childVars,
                   sigVars, readerVars, name, signals, reported>>

\* Mutant: the FIFO is not made.
RunTool_NoFifo ==
    /\ fdt = "up" /\ handler = "none" /\ gui = "tool"
    /\ reader' = [reader EXCEPT ![started] = "opening"]
    /\ stopToolFunction' = tool[started]
    /\ gui' = "idle"
    /\ UNCHANGED <<prompt, fdt, started, tool, fuse_pid, fs_mounted,
                   shared_error, terminate_calls, buttonVars, childVars,
                   sigVars, fifo, name, signals, reported>>

\* startDebugger, startWizard or startTestsuite: a new FIFO and its reader.
RunTool ==
    /\ fdt = "up" /\ handler = "none" /\ gui = "tool"
    /\ name' = [name EXCEPT ![tool[started]] = started]
    /\ reader' = [reader EXCEPT ![started] = "opening"]
    /\ stopToolFunction' = tool[started]
    /\ gui' = "idle"
    /\ UNCHANGED <<prompt, fdt, started, tool, fuse_pid, fs_mounted,
                   shared_error, terminate_calls, buttonVars, childVars,
                   sigVars, fifo, signals, reported>>

\* Mutant: Start does not ask whether a file system is mounted.
gui_idle_AlwaysStart ==
    /\ GuiIdle
    /\ "child" \in prompt => \A s \in Sessions : child[s] # "forked"
    /\ shared_error' = "none"
    /\ start_button' = TRUE
    /\ stop_button' = fs_mounted
    /\ UNCHANGED <<prompt, fdt, gui, started, tool, toolVars, fs_mounted,
                   childVars, sigVars, readerVars, name, reported>>

gui_idle ==
    /\ GuiIdle
    /\ "child" \in prompt => \A s \in Sessions : child[s] # "forked"
    /\ shared_error' = "none"
    /\ start_button' = ~fs_mounted
    /\ stop_button' = fs_mounted
    /\ UNCHANGED <<prompt, fdt, gui, started, tool, toolVars, fs_mounted,
                   childVars, sigVars, readerVars, name, reported>>

\* Mutant: Stop forgets the process before it signals it.
StopTool_NoSignal ==
    /\ fuse_pid' = 0
    /\ UNCHANGED signals
    /\ stopToolFunction' = "none"

\* Mutant: the process is still expected after it has been told to stop.
StopTool_KeepPid ==
    /\ signals' = IF fuse_pid # 0 THEN signals \cup {<<fuse_pid, "INT">>}
                                  ELSE signals
    /\ stopToolFunction' = "none"
    /\ UNCHANGED fuse_pid

\* stopDebugger, stopWizard or stopTestsuite; the caller drops the function.
StopTool ==
    /\ fuse_pid' = 0
    /\ signals' = IF fuse_pid # 0 THEN signals \cup {<<fuse_pid, "INT">>}
                                  ELSE signals
    /\ stopToolFunction' = "none"

stop_btn_handler ==
    /\ GuiIdle
    /\ stop_button
    /\ stop_button' = FALSE
    /\ IF stopToolFunction # "none"
         THEN StopTool
         ELSE UNCHANGED <<fuse_pid, signals, stopToolFunction>>
    /\ UNCHANGED <<prompt, fdt, gui, started, tool, fs_mounted, shared_error,
                   terminate_calls, start_button, childVars, sigVars,
                   readerVars, name, reported>>

\* exit: FDT's threads are gone, and so is all that only they looked at.
Exit ==
    /\ fdt' = "exited"
    /\ signals' = IF fuse_pid # 0 THEN signals \cup {<<fuse_pid, "KILL">>}
                                  ELSE signals
    /\ gui' = "idle"
    /\ handler' = "none"
    /\ pid' = 0
    /\ start_button' = FALSE
    /\ stop_button' = FALSE
    /\ reader' = [s \in Sessions |-> "none"]
    /\ fifo' = [s \in Sessions |-> Nothing]
    /\ fuse_pid' = 0
    /\ stopToolFunction' = "none"

\* SIGINT, at any time, or the window being closed.
terminate ==
    /\ fdt = "up"
    /\ "pid" \in prompt => gui # "fork"
    /\ terminate_calls' = terminate_calls + 1
    /\ IF stopToolFunction # "none" /\ terminate_calls = 0
         THEN /\ StopTool
              /\ UNCHANGED <<fdt, gui, handler, pid, buttonVars, readerVars>>
         ELSE Exit
    /\ UNCHANGED <<prompt, started, tool, fs_mounted, shared_error, childVars,
                   sigchld, name, reported>>

(***************************************************************************)
(* The file system process of session s                                    *)
(***************************************************************************)

\* The process ends for the reason why.
Ends(s, why) ==
    /\ "pid" \in prompt => gui # "fork"
    /\ child' = [child EXCEPT ![s] = "zombie"]
    /\ cause' = [cause EXCEPT ![s] = why]
    /\ sigchld' = TRUE

SetMounted(s) ==
    /\ child[s] = "forked"
    /\ fs_mounted' = TRUE
    /\ child' = [child EXCEPT ![s] = "execing"]
    /\ UNCHANGED <<prompt, fdt, gui, started, tool, toolVars, shared_error,
                   buttonVars, cause, log, ending, sigVars, readerVars, name,
                   reported>>

ExecFails(s) ==
    /\ child[s] = "execing"
    /\ shared_error' = "exec"
    /\ reported' = reported \cup {s}
    /\ Ends(s, "exec")
    /\ UNCHANGED <<prompt, fdt, gui, started, tool, toolVars, fs_mounted,
                   buttonVars, log, ending, handler, pid, readerVars, name>>

\* fopen(name, "w") makes a regular file if there is nothing of that name.
OpenLog(s) ==
    /\ child[s] = "execing"
    /\ "tool" \in prompt => reader[s] # "none"
    /\ LET f == IF name[tool[s]] = Nothing THEN RegularFile ELSE name[tool[s]]
       IN  /\ log' = [log EXCEPT ![s] = f]
           /\ name' = [name EXCEPT ![tool[s]] = f]
    /\ child' = [child EXCEPT ![s] = "serving"]
    /\ UNCHANGED <<prompt, fdt, gui, started, tool, toolVars, fs_mounted,
                   shared_error, buttonVars, cause, ending, sigVars,
                   readerVars, reported>>

\* Opening a FIFO for writing takes until somebody reads it.
LogOpen(s) ==
    \/ log[s] = RegularFile
    \/ \E r \in Sessions : reader[r] = "reading" /\ fifo[r] = log[s]

\* All tests have been run: __END is written, the FIFO closed and removed.
TestsEnd(s) ==
    /\ child[s] = "serving" /\ tool[s] = "wizard" /\ LogOpen(s)
    /\ ending' = [ending EXCEPT ![s] = "sent"]
    /\ name' = [name EXCEPT !["wizard"] = Nothing]
    /\ child' = [child EXCEPT ![s] = "leaving"]
    /\ UNCHANGED <<prompt, fdt, gui, started, tool, toolVars, fs_mounted,
                   shared_error, buttonVars, cause, log, sigVars, readerVars,
                   reported>>

\* The loop of a mounted file system ends on SIGINT.
ObeySigint(s) ==
    /\ child[s] = "serving" /\ tool[s] = "debugger"
    /\ <<s, "INT">> \in signals
    /\ child' = [child EXCEPT ![s] = "leaving"]
    /\ UNCHANGED <<prompt, fdt, gui, started, tool, toolVars, fs_mounted,
                   shared_error, buttonVars, cause, log, ending, sigVars,
                   readerVars, name, reported>>

\* main returns; or SIGINT finds no handler yet; or SIGKILL.
Leave(s) ==
    /\ \/ child[s] = "leaving"
       \/ child[s] = "execing" /\ <<s, "INT">> \in signals
       \/ Alive(s) /\ <<s, "KILL">> \in signals
    /\ Ends(s, "done")
    /\ UNCHANGED <<prompt, fdt, gui, started, tool, toolVars, fs_mounted,
                   shared_error, buttonVars, log, ending, handler, pid,
                   readerVars, name, reported>>

\* It crashes, cannot mount, or is unmounted from outside.
Crash(s) ==
    /\ child[s] \in {"execing", "serving"}
    /\ Ends(s, "crash")
    /\ UNCHANGED <<prompt, fdt, gui, started, tool, toolVars, fs_mounted,
                   shared_error, buttonVars, log, ending, handler, pid,
                   readerVars, name, reported>>

(***************************************************************************)
(* childKilled                                                             *)
(***************************************************************************)

Sigchld ==
    /\ fdt = "up" /\ handler = "none" /\ sigchld
    /\ handler' = "reap"
    /\ sigchld' = FALSE
    /\ UNCHANGED <<prompt, fdt, gui, started, tool, toolVars, fs_mounted,
                   shared_error, buttonVars, childVars, pid, readerVars, name,
                   reported>>

\* Mutant: a process that is no longer expected leaves the flag alone.
Reap_KeepMounted(s) ==
    /\ child' = [child EXCEPT ![s] = "reaped"]
    /\ IF s = fuse_pid THEN handler' = "wait" /\ pid' = s
                       ELSE UNCHANGED <<handler, pid>>
    /\ UNCHANGED fs_mounted

\* Mutant: the process is looked at and not reaped.
Reap_NoWait(s) ==
    /\ IF s = fuse_pid THEN handler' = "wait" /\ pid' = s
                       ELSE UNCHANGED <<handler, pid>>
    /\ fs_mounted' = IF fuse_pid = 0 THEN FALSE ELSE fs_mounted
    /\ UNCHANGED child

\* waitpid returns the process s.
Reap(s) ==
    /\ child' = [child EXCEPT ![s] = "reaped"]
    /\ IF s = fuse_pid THEN handler' = "wait" /\ pid' = s
                       ELSE UNCHANGED <<handler, pid>>
    /\ fs_mounted' = IF fuse_pid = 0 THEN FALSE ELSE fs_mounted

\* waitpid returns -1: no child is left.  It returns 0 when there are only
\* running ones; 0 is also what fuse_pid is when no process is expected.
WaitpidNone ==
    IF \A s \in Sessions : ~Alive(s)
      THEN handler' = "none" /\ UNCHANGED pid
      ELSE IF fuse_pid = 0 THEN handler' = "wait" /\ pid' = 0
                           ELSE UNCHANGED <<handler, pid>>

Waitpid ==
    /\ fdt = "up" /\ handler = "reap"
    /\ \/ /\ \E s \in Sessions : child[s] = "zombie" /\ Reap(s)
       \/ /\ \A s \in Sessions : child[s] # "zombie"
          /\ WaitpidNone
          /\ UNCHANGED <<child, fs_mounted>>
    /\ UNCHANGED <<prompt, fdt, gui, started, tool, toolVars, shared_error,
                   buttonVars, cause, log, ending, sigchld, readerVars, name,
                   reported>>

\* Mutant: every end counts as a clean one.
CleanExit_Always ==
    /\ fdt = "up" /\ handler = "wait"
    /\ fs_mounted' = FALSE
    /\ handler' = "none"
    /\ pid' = 0
    /\ UNCHANGED <<prompt, fdt, gui, started, tool, toolVars, shared_error,
                   buttonVars, childVars, sigchld, readerVars, name, reported>>

\* The process has been forgotten meanwhile: it ended cleanly.
CleanExit ==
    /\ fdt = "up" /\ handler = "wait" /\ pid # fuse_pid
    /\ fs_mounted' = FALSE
    /\ handler' = "none"
    /\ pid' = 0
    /\ UNCHANGED <<prompt, fdt, gui, started, tool, toolVars, shared_error,
                   buttonVars, childVars, sigchld, readerVars, name, reported>>

\* It is still expected after ten looks at fuse_pid.
Timeout ==
    /\ fdt = "up" /\ handler = "wait" /\ pid = fuse_pid
    /\ "reader" \in prompt => \A s \in Sessions : ending[s] # "sent"
    /\ shared_error' = IF shared_error = "none" THEN "crash" ELSE shared_error
    /\ reported' = reported \cup {pid}
    /\ fuse_pid' = 0
    /\ fs_mounted' = FALSE
    /\ handler' = "none"
    /\ pid' = 0
    /\ UNCHANGED <<prompt, fdt, gui, started, tool, stopToolFunction,
                   terminate_calls, signals, buttonVars, childVars, sigchld,
                   readerVars, name>>

(***************************************************************************)
(* The reader thread of session r                                          *)
(***************************************************************************)

ReaderOpen(r) ==
    /\ fdt = "up" /\ reader[r] = "opening"
    /\ fifo' = [fifo EXCEPT ![r] = name[tool[r]]]
    /\ reader' = [reader EXCEPT ![r] =
                     IF name[tool[r]] = Nothing THEN "unlinking" ELSE "reading"]
    /\ UNCHANGED <<prompt, fdt, gui, started, tool, toolVars, fs_mounted,
                   shared_error, buttonVars, childVars, sigVars, name,
                   reported>>

\* handleWizardEvent or handleTestsuiteEvent on __END.
HandleEnd(r) ==
    /\ fdt = "up" /\ reader[r] = "reading"
    /\ \E c \in Sessions :
         /\ log[c] = fifo[r] /\ ending[c] = "sent"
         /\ ending' = [ending EXCEPT ![c] = "read"]
    /\ fuse_pid' = 0
    /\ UNCHANGED <<prompt, fdt, gui, started, tool, stopToolFunction,
                   terminate_calls, signals, fs_mounted, shared_error,
                   buttonVars, child, cause, log, sigVars, readerVars, name,
                   reported>>

\* End of file: whoever wrote is gone and everything has been read.
ReaderEof(r) ==
    /\ fdt = "up" /\ reader[r] = "reading"
    /\ \/ fifo[r] = RegularFile
       \/ /\ \E c \in Sessions : log[c] = fifo[r]
          /\ \A c \in Sessions : log[c] = fifo[r] =>
               \/ ending[c] = "read"
               \/ Dead(c) /\ ending[c] = "no"
    /\ reader' = [reader EXCEPT ![r] = "unlinking"]
    /\ UNCHANGED <<prompt, fdt, gui, started, tool, toolVars, fs_mounted,
                   shared_error, buttonVars, childVars, sigVars, fifo, name,
                   reported>>

ReaderUnlink(r) ==
    /\ fdt = "up" /\ reader[r] = "unlinking"
    /\ name' = [name EXCEPT ![tool[r]] = Nothing]
    /\ fifo' = [fifo EXCEPT ![r] = Nothing]
    /\ reader' = [reader EXCEPT ![r] = "done"]
    /\ UNCHANGED <<prompt, fdt, gui, started, tool, toolVars, fs_mounted,
                   shared_error, buttonVars, childVars, sigVars, reported>>

-----------------------------------------------------------------------------

Init ==
    /\ prompt \in Prompts
    /\ fdt = "up"
    /\ gui = "idle"
    /\ started = 0
    /\ tool = [s \in Sessions |-> "none"]
    /\ fuse_pid = 0
    /\ fs_mounted = FALSE
    /\ shared_error = "none"
    /\ stopToolFunction = "none"
    /\ terminate_calls = 0
    /\ start_button = TRUE
    /\ stop_button = FALSE
    /\ child = [s \in Sessions |-> "none"]
    /\ cause = [s \in Sessions |-> "none"]
    /\ log = [s \in Sessions |-> Nothing]
    /\ ending = [s \in Sessions |-> "no"]
    /\ sigchld = FALSE
    /\ handler = "none"
    /\ pid = 0
    /\ reader = [s \in Sessions |-> "none"]
    /\ fifo = [s \in Sessions |-> Nothing]
    /\ name = [t \in Tools |-> Nothing]
    /\ signals = {}
    /\ reported = {}

UserStep ==
    \/ \E t \in Tools : start_btn_handler(t)
    \/ stop_btn_handler
    \/ terminate

GuiStep == StorePid \/ RunTool \/ gui_idle

HandlerStep == Sigchld \/ Waitpid \/ CleanExit \/ Timeout

ChildStep(s) ==
    \/ SetMounted(s)
    \/ ExecFails(s)
    \/ OpenLog(s)
    \/ TestsEnd(s)
    \/ ObeySigint(s)
    \/ Leave(s)
    \/ Crash(s)

ReaderStep(r) ==
    \/ ReaderOpen(r)
    \/ HandleEnd(r)
    \/ ReaderEof(r)
    \/ ReaderUnlink(r)

Finished == fdt = "exited" /\ UNCHANGED vars

Next ==
    \/ UserStep
    \/ ForkFails
    \/ GuiStep
    \/ HandlerStep
    \/ \E s \in Sessions : ChildStep(s) \/ ReaderStep(s)
    \/ Finished

Spec == Init /\ [][Next]_vars

(***************************************************************************)
(* Fairness: FDT's threads and signal handlers run, and a process that has *)
(* been forked or is leaving gets on.  Nothing makes the user click, a     *)
(* file system end, or a process obey SIGINT.                              *)
(***************************************************************************)
Progress ==
    /\ WF_vars(GuiStep)
    /\ WF_vars(HandlerStep)
    /\ \A s \in Sessions :
         /\ WF_vars(ReaderStep(s))
         /\ WF_vars(SetMounted(s) \/ Leave(s))

FairSpec == Spec /\ Progress

-----------------------------------------------------------------------------
(***************************************************************************)
(* Properties                                                              *)
(***************************************************************************)

\* Types; childKilled waits only for a process that it has reaped.
TypeOK ==
    /\ prompt \in Prompts
    /\ fdt \in {"up", "exited"}
    /\ gui \in {"idle", "fork", "tool"}
    /\ started \in 0..MaxStarts
    /\ tool \in [Sessions -> Tools \cup {"none"}]
    /\ fuse_pid \in {-1, 0} \cup Sessions
    /\ fs_mounted \in BOOLEAN
    /\ shared_error \in {"none", "exec", "crash"}
    /\ stopToolFunction \in Tools \cup {"none"}
    /\ terminate_calls \in Nat
    /\ start_button \in BOOLEAN
    /\ stop_button \in BOOLEAN
    /\ child \in [Sessions -> {"none", "forked", "execing", "serving",
                               "leaving", "zombie", "reaped"}]
    /\ cause \in [Sessions -> {"none", "exec", "crash", "done"}]
    /\ log \in [Sessions -> Files]
    /\ ending \in [Sessions -> {"no", "sent", "read"}]
    /\ sigchld \in BOOLEAN
    /\ handler \in {"none", "reap", "wait"}
    /\ pid \in {0} \cup Sessions
    /\ reader \in [Sessions -> {"none", "opening", "reading", "unlinking",
                                "done"}]
    /\ fifo \in [Sessions -> Files]
    /\ name \in [Tools -> Files]
    /\ signals \subseteq (({-1} \cup Sessions) \X {"INT", "KILL"})
    /\ reported \subseteq ({0} \cup Sessions)
    /\ handler = "wait" /\ pid # 0 => child[pid] = "reaped"

\* FDT makes the FIFO before the file system opens it, and its reader threads
\* keep up.
NoSlowTool == {"tool", "reader"} \subseteq prompt

\* The user leaves the wizard's buttons alone while Start is not sensitive.
PatientUser == "again" \in prompt

Signalled(s) == \E g \in {"INT", "KILL"} : <<s, g>> \in signals

\* No file system is mounted beside one that is still running.
OneFileSystem == Cardinality({s \in Sessions : Alive(s)}) <= 1

\* If the child sets fs_mounted before the GUI is idle again, the Start button
\* never lets a second file system be mounted beside one that is still running:
\* only the wizard's buttons, which nothing makes insensitive, can do that.
StartMountsOneFileSystem ==
    "child" \in prompt /\ PatientUser => OneFileSystem

\* If FDT is not slow and the user patient, the file system of a session writes
\* its events where the reader thread of that session reads them: the name of
\* the FIFO is made, opened by both and removed in an order that never lets two
\* sessions mix.
EventsReachReader ==
    NoSlowTool /\ PatientUser => \A s \in Sessions :
        child[s] = "serving" /\ reader[s] \notin {"none", "opening"} =>
            log[s] = s /\ fifo[s] = s

\* If FDT is not slow and the user patient, an error is shown only for a file
\* system that could not be executed, or that ended by itself without having
\* finished its tests.
NoFalseAlarm ==
    NoSlowTool /\ PatientUser =>
        \A s \in reported : s \in Sessions /\ cause[s] \in {"exec", "crash"}

\* When FDT, not being slow, exits, and the user has been patient, each file
\* system that still runs has been told to stop, or has finished its tests.
ExitStopsFileSystems ==
    NoSlowTool /\ PatientUser /\ fdt = "exited" => \A s \in Sessions :
        Alive(s) => Signalled(s) \/ child[s] = "leaving"

\* If the user is patient, the Start button becomes sensitive again once no
\* file system runs, in whatever way the last one ended.
StartComesBack ==
    PatientUser /\ (\A s \in Sessions : ~Alive(s))
        ~> (start_button \/ fdt = "exited")

\* A file system that has crashed, that nobody asked to stop and whose end has
\* not been reported.
CrashUnreported ==
    \E s \in Sessions :
        cause[s] = "crash" /\ s \notin reported /\ ~Signalled(s)

\* If FDT is not slow and the user patient, a file system that crashes, and
\* that nobody asked to stop, is reported.
CrashIsReported ==
    NoSlowTool /\ PatientUser /\ CrashUnreported
        ~> (~CrashUnreported \/ fdt = "exited")
=============================================================================
