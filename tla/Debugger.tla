------------------------------ MODULE Debugger ------------------------------
(***************************************************************************)
(* The debugger's single-stepping protocol.                                *)
(*                                                                         *)
(* The mounted file system runs in its own process.  Each of its threads   *)
(* wraps every user-defined operation: it takes a sequence number, writes  *)
(* an "invoke" event to a FIFO, blocks on a named semaphore, runs the      *)
(* operation and writes a "return" event.  In the FDT process a reader     *)
(* thread takes the events, counts the calls that are waiting in           *)
(* pendingInvocations and queues the events for display; the GUI thread    *)
(* drains that queue and serves the Advance, Auto-advance, Stop and Start  *)
(* buttons.  Both threads post the semaphore and both update the counter,  *)
(* which no lock protects.                                                 *)
(*                                                                         *)
(* An event is reduced to its type and to the thread that made the call    *)
(* (a thread has one call in progress).  Memory is sequentially            *)
(* consistent.                                                             *)
(***************************************************************************)
EXTENDS Integers, Sequences, FiniteSets

CONSTANTS
    Workers,      \* worker threads of the multithreaded FUSE loop
    Main,         \* the file system's main thread, which makes the destroy call
    MaxCalls,     \* bound: calls the workers make in the first session
    LaterCalls,   \* bound: calls they make in each session after it
    MaxSessions,  \* bound: times the debugger is started
    CanToggle,    \* may the user click the Auto-advance check box?
    CanFail       \* may the file system crash, or be unmounted from outside?

ASSUME DebuggerAssumption ==
    /\ IsFiniteSet(Workers)
    /\ Main \notin Workers
    /\ MaxCalls \in Nat
    /\ LaterCalls \in Nat
    /\ MaxSessions \in Nat \ {0}
    /\ CanToggle \in BOOLEAN
    /\ CanFail \in BOOLEAN

VARIABLES
    fs,                  \* life of the file system process
    wpc,                 \* what each thread of that process is doing
    calls,               \* fs->next_seqnum: calls begun in this session
    fifo,                \* events written and not yet read
    sem,                 \* value of the semaphore fuse-step.sem
    pc,                  \* control points of the reader and of the GUI thread
    tmp,                 \* the value each of them loaded of the counter, or 0
    event,               \* the event the reader is handling
    handler,             \* the button handler the GUI thread is running
    pendingInvocations,
    autoAdvance,
    closing,
    events,              \* tailq_events
    advance_btn,         \* is the Advance button sensitive?
    session,             \* times the debugger has been started
    overlapped           \* history: two updates of the counter have overlapped

fsVars  == <<fs, wpc, calls>>
guiVars == <<handler, autoAdvance, closing, advance_btn>>
vars    == <<fs, wpc, calls, fifo, sem, pc, tmp, event, handler,
             pendingInvocations, autoAdvance, closing, events, advance_btn,
             session, overlapped>>

FsThreads == Workers \cup {Main}
Reader    == "reader"
Gui       == "gui"
Threads   == {Reader, Gui}

Event == [type : {"invoke", "return"}, by : FsThreads]

\* Control points between the load and the store of pendingInvocations++ / --.
Storing == {"incStore", "decStore"}

ReaderPc == {"read", "inc", "mode", "check", "post", "dec", "enqueue",
             "detached"} \cup Storing
GuiPc    == {"idle", "drain", "update", "check", "post", "dec", "decStore",
             "kill"}

\* What the reader holds when it handles no event.
NoEvent == [type |-> "return", by |-> Main]

Goto(t, l) == pc' = [pc EXCEPT ![t] = l]

\* Thread t goes on at l; a GUI handler that returns to the main loop is over.
Continue(t, l) ==
    /\ Goto(t, l)
    /\ handler' = IF t = Gui /\ l = "idle" THEN "none" ELSE handler

(***************************************************************************)
(* The file system process                                                 *)
(***************************************************************************)

\* A worker receives a request and its wrapper takes a sequence number under
\* seqnum_lock.  The request is served even if the loop is ending meanwhile.
\* The kernel waits for the answer to its first request, which makes a call
\* only if the file system defines init; from then on calls overlap.
next_seqnum(w) ==
    /\ fs = "mounted"
    /\ w \in Workers
    /\ wpc[w] = "idle"
    /\ calls < IF session = 1 THEN MaxCalls ELSE LaterCalls
    /\ calls' = calls + 1
    /\ wpc' = [wpc EXCEPT ![w] = "report"]
    /\ UNCHANGED <<fs, fifo, sem, pc, tmp, event, pendingInvocations, events,
                   session, overlapped, guiVars>>

\* The invoke event is written and flushed; the thread goes on to sem_wait.
report_fs_call(w) ==
    /\ wpc[w] = "report"
    /\ fifo' = Append(fifo, [type |-> "invoke", by |-> w])
    /\ wpc' = [wpc EXCEPT ![w] = "wait"]
    /\ UNCHANGED <<fs, calls, sem, pc, tmp, event, pendingInvocations, events,
                   session, overlapped, guiVars>>

\* Mutant: a wait that does not block.
sem_wait_TryOnly(w) ==
    /\ wpc[w] = "wait"
    /\ sem' = sem - 1
    /\ wpc' = [wpc EXCEPT ![w] = "run"]
    /\ UNCHANGED <<fs, calls, fifo, pc, tmp, event, pendingInvocations, events,
                   session, overlapped, guiVars>>

\* sem_wait returns: the operation runs.
sem_wait(w) ==
    /\ wpc[w] = "wait"
    /\ sem > 0
    /\ sem' = sem - 1
    /\ wpc' = [wpc EXCEPT ![w] = "run"]
    /\ UNCHANGED <<fs, calls, fifo, pc, tmp, event, pendingInvocations, events,
                   session, overlapped, guiVars>>

\* The operation returns and its return event is written.
report_fs_call_return(w) ==
    /\ wpc[w] = "run"
    /\ fifo' = Append(fifo, [type |-> "return", by |-> w])
    /\ wpc' = [wpc EXCEPT ![w] = "idle"]
    /\ UNCHANGED <<fs, calls, sem, pc, tmp, event, pendingInvocations, events,
                   session, overlapped, guiVars>>

\* The FUSE loop ends after an unmount from outside.
Unmount ==
    /\ CanFail
    /\ fs = "mounted"
    /\ fs' = "exiting"
    /\ UNCHANGED <<wpc, calls, fifo, sem, pc, tmp, event, pendingInvocations,
                   events, session, overlapped, guiVars>>

\* fuse_session_loop_mt joins its workers, none of which can be cancelled
\* inside a call; then fuse_destroy makes the destroy call, if the file
\* system defines that operation.
JoinWorkers ==
    /\ fs = "exiting"
    /\ \A w \in Workers : wpc[w] = "idle"
    /\ \/ /\ fs' = "destroying"
          /\ wpc' = [wpc EXCEPT ![Main] = "report"]
          /\ calls' = calls + 1
       \/ /\ fs' = "gone"
          /\ UNCHANGED <<wpc, calls>>
    /\ UNCHANGED <<fifo, sem, pc, tmp, event, pendingInvocations, events,
                   session, overlapped, guiVars>>

ExitProcess ==
    /\ fs = "destroying"
    /\ wpc[Main] = "idle"
    /\ fs' = "gone"
    /\ UNCHANGED <<wpc, calls, fifo, sem, pc, tmp, event, pendingInvocations,
                   events, session, overlapped, guiVars>>

Crash ==
    /\ CanFail
    /\ fs # "gone"
    /\ fs' = "gone"
    /\ wpc' = [w \in FsThreads |-> "idle"]
    /\ UNCHANGED <<calls, fifo, sem, pc, tmp, event, pendingInvocations,
                   events, session, overlapped, guiVars>>

(***************************************************************************)
(* advance(), run by the reader thread and by the GUI thread               *)
(***************************************************************************)

\* Mutant: off by one.
canAdvance_MoreThanOne == pendingInvocations > 1

canAdvance == pendingInvocations > 0

\* Where a thread goes when advance() has posted, and when it has not.
Advanced(t) ==
    CASE t = Reader -> "enqueue"
      [] t = Gui    -> IF handler = "advance" THEN "idle" ELSE "check"
NotAdvanced(t) ==
    CASE t = Reader -> "enqueue"
      [] t = Gui    -> IF handler = "stop" THEN "kill" ELSE "idle"

\* Mutant: advance() posts without asking canAdvance().
AdvanceCheck_Unguarded(t) ==
    /\ pc[t] = "check"
    /\ Continue(t, "post")
    /\ UNCHANGED <<fsVars, fifo, sem, tmp, event, pendingInvocations, events,
                   autoAdvance, closing, advance_btn, session, overlapped>>

\* The test of advance(), and of the loop of advancePending() around it.
AdvanceCheck(t) ==
    /\ pc[t] = "check"
    /\ Continue(t, IF canAdvance THEN "post" ELSE NotAdvanced(t))
    /\ UNCHANGED <<fsVars, fifo, sem, tmp, event, pendingInvocations, events,
                   autoAdvance, closing, advance_btn, session, overlapped>>

AdvancePost(t) ==
    /\ pc[t] = "post"
    /\ sem' = sem + 1
    /\ Goto(t, "dec")
    /\ UNCHANGED <<fsVars, fifo, tmp, event, pendingInvocations, events,
                   session, overlapped, guiVars>>

\* pendingInvocations++ and -- load the counter and then store it.  No lock
\* keeps one thread from loading it while the other is about to store.
LoadCounter(t) ==
    /\ pc[t] \in {"inc", "dec"}
    /\ tmp' = [tmp EXCEPT ![t] = pendingInvocations]
    /\ overlapped' = (overlapped \/ \E u \in Threads : pc[u] \in Storing)
    /\ Goto(t, IF pc[t] = "inc" THEN "incStore" ELSE "decStore")
    /\ UNCHANGED <<fsVars, fifo, sem, event, pendingInvocations, events,
                   session, guiVars>>

StoreIncrement ==
    /\ pc[Reader] = "incStore"
    /\ pendingInvocations' = tmp[Reader] + 1
    /\ tmp' = [tmp EXCEPT ![Reader] = 0]
    /\ Goto(Reader, "mode")
    /\ UNCHANGED <<fsVars, fifo, sem, event, events, session, overlapped,
                   guiVars>>

\* Mutant: one advance clears the counter.
StoreDecrement_Reset(t) ==
    /\ pc[t] = "decStore"
    /\ pendingInvocations' = 0
    /\ tmp' = [tmp EXCEPT ![t] = 0]
    /\ Continue(t, Advanced(t))
    /\ UNCHANGED <<fsVars, fifo, sem, event, events, autoAdvance, closing,
                   advance_btn, session, overlapped>>

StoreDecrement(t) ==
    /\ pc[t] = "decStore"
    /\ pendingInvocations' = tmp[t] - 1
    /\ tmp' = [tmp EXCEPT ![t] = 0]
    /\ Continue(t, Advanced(t))
    /\ UNCHANGED <<fsVars, fifo, sem, event, events, autoAdvance, closing,
                   advance_btn, session, overlapped>>

(***************************************************************************)
(* The reader thread: doStartDebugger and handleDebuggerEvent              *)
(***************************************************************************)

ReadEvent ==
    /\ pc[Reader] = "read"
    /\ fifo # <<>>
    /\ event' = Head(fifo)
    /\ fifo' = Tail(fifo)
    /\ Goto(Reader, IF Head(fifo).type = "invoke" THEN "inc" ELSE "enqueue")
    /\ UNCHANGED <<fsVars, sem, tmp, pendingInvocations, events, session,
                   overlapped, guiVars>>

\* Mutant: the reader forgets that the session is closing.
TestMode_NotClosing ==
    /\ pc[Reader] = "mode"
    /\ Goto(Reader, IF autoAdvance THEN "check" ELSE "enqueue")
    /\ UNCHANGED <<fsVars, fifo, sem, tmp, event, pendingInvocations, events,
                   session, overlapped, guiVars>>

\* With the GUI in use, a call that is not advanced here is left to it.
TestMode ==
    /\ pc[Reader] = "mode"
    /\ Goto(Reader, IF closing \/ autoAdvance THEN "check" ELSE "enqueue")
    /\ UNCHANGED <<fsVars, fifo, sem, tmp, event, pendingInvocations, events,
                   session, overlapped, guiVars>>

\* tailq_events_lock is held by the GUI thread for as long as it drains.
Enqueue ==
    /\ pc[Reader] = "enqueue"
    /\ pc[Gui] # "drain"
    /\ events' = Append(events, event)
    /\ event' = NoEvent
    /\ Goto(Reader, "read")
    /\ UNCHANGED <<fsVars, fifo, sem, tmp, pendingInvocations, session,
                   overlapped, guiVars>>

\* End of file: no writer is left.  The names of FIFO and semaphore go.
Detach ==
    /\ pc[Reader] = "read"
    /\ fifo = <<>>
    /\ fs = "gone"
    /\ Goto(Reader, "detached")
    /\ UNCHANGED <<fsVars, fifo, sem, tmp, event, pendingInvocations, events,
                   session, overlapped, guiVars>>

(***************************************************************************)
(* The GUI thread                                                          *)
(***************************************************************************)

\* gui_idle_debugger takes the lock and keeps it until the queue is empty.
BeginDrain ==
    /\ pc[Gui] = "idle"
    /\ events # <<>>
    /\ Goto(Gui, "drain")
    /\ UNCHANGED <<fsVars, fifo, sem, tmp, event, pendingInvocations, events,
                   session, overlapped, guiVars>>

\* Mutant: an event is displayed without updateAdvanceButtonState.
ShowEvent_NoRefresh ==
    /\ pc[Gui] = "drain"
    /\ events # <<>>
    /\ events' = Tail(events)
    /\ Goto(Gui, IF Len(events) = 1 THEN "idle" ELSE "drain")
    /\ UNCHANGED <<fsVars, fifo, sem, tmp, event, pendingInvocations, session,
                   overlapped, guiVars>>

ShowEvent ==
    /\ pc[Gui] = "drain"
    /\ events # <<>>
    /\ advance_btn' = canAdvance
    /\ events' = Tail(events)
    /\ Goto(Gui, IF Len(events) = 1 THEN "idle" ELSE "drain")
    /\ UNCHANGED <<fsVars, fifo, sem, tmp, event, pendingInvocations, handler,
                   autoAdvance, closing, session, overlapped>>

\* Mutant: a click only refreshes the button.
advance_btn_handler_NoAdvance ==
    /\ pc[Gui] = "idle"
    /\ advance_btn
    /\ advance_btn' = canAdvance
    /\ UNCHANGED <<fsVars, fifo, sem, pc, tmp, event, pendingInvocations,
                   events, handler, autoAdvance, closing, session, overlapped>>

advance_btn_handler ==
    /\ pc[Gui] = "idle"
    /\ advance_btn
    /\ handler' = "advance"
    /\ Goto(Gui, "check")
    /\ UNCHANGED <<fsVars, fifo, sem, tmp, event, pendingInvocations, events,
                   autoAdvance, closing, advance_btn, session, overlapped>>

\* Whichever way it is switched, the handler updates the button and then
\* advances everything that is pending.
autoadvance_btn_handler ==
    /\ CanToggle
    /\ pc[Gui] = "idle"
    /\ autoAdvance' = ~autoAdvance
    /\ handler' = "toggle"
    /\ Goto(Gui, "update")
    /\ UNCHANGED <<fsVars, fifo, sem, tmp, event, pendingInvocations, events,
                   closing, advance_btn, session, overlapped>>

updateAdvanceButtonState ==
    /\ pc[Gui] = "update"
    /\ advance_btn' = canAdvance
    /\ Goto(Gui, "check")
    /\ UNCHANGED <<fsVars, fifo, sem, tmp, event, pendingInvocations, events,
                   handler, autoAdvance, closing, session, overlapped>>

\* Mutant: Stop without advancePending.
stopDebugger_NoAdvance ==
    /\ pc[Gui] = "idle"
    /\ ~closing
    /\ closing' = TRUE
    /\ handler' = "stop"
    /\ Goto(Gui, "kill")
    /\ UNCHANGED <<fsVars, fifo, sem, tmp, event, pendingInvocations, events,
                   autoAdvance, advance_btn, session, overlapped>>

\* The Stop button; it is served once in a session.
stopDebugger ==
    /\ pc[Gui] = "idle"
    /\ ~closing
    /\ closing' = TRUE
    /\ handler' = "stop"
    /\ Goto(Gui, "check")
    /\ UNCHANGED <<fsVars, fifo, sem, tmp, event, pendingInvocations, events,
                   autoAdvance, advance_btn, session, overlapped>>

\* stopDebugger ends with SIGINT, on which the FUSE loop ends.  The workers
\* block the signal.  Its handler stays in place after the loop (the library
\* only replaces SIG_DFL) and has no SA_RESTART: the main thread, when it is
\* already in the sem_wait of the destroy call, leaves it without a token.
KillFs ==
    /\ pc[Gui] = "kill"
    /\ fs' = IF fs = "mounted" THEN "exiting" ELSE fs
    /\ \/ UNCHANGED wpc
       \/ /\ wpc[Main] = "wait"
          /\ wpc' = [wpc EXCEPT ![Main] = "run"]
    /\ Continue(Gui, "idle")
    /\ UNCHANGED <<calls, fifo, sem, tmp, event, pendingInvocations, events,
                   autoAdvance, closing, advance_btn, session, overlapped>>

\* Start after the previous session: a new FIFO, a new semaphore at 0, a new
\* reader thread, and a new file system process.
startDebugger ==
    /\ session < MaxSessions
    /\ fs = "gone"
    /\ pc[Reader] = "detached"
    /\ pc[Gui] = "idle"
    /\ closing' = FALSE
    /\ sem' = 0
    /\ fs' = "mounted"
    /\ calls' = 0
    /\ session' = session + 1
    /\ Goto(Reader, "read")
    /\ UNCHANGED <<wpc, fifo, tmp, event, pendingInvocations, events, handler,
                   autoAdvance, advance_btn, overlapped>>

-----------------------------------------------------------------------------

Init ==
    /\ fs = "mounted"
    /\ wpc = [w \in FsThreads |-> "idle"]
    /\ calls = 0
    /\ fifo = <<>>
    /\ sem = 0
    /\ pc = [t \in Threads |-> IF t = Reader THEN "read" ELSE "idle"]
    /\ tmp = [t \in Threads |-> 0]
    /\ event = NoEvent
    /\ handler = "none"
    /\ pendingInvocations = 0
    /\ autoAdvance = FALSE
    /\ closing = FALSE
    /\ events = <<>>
    /\ advance_btn = TRUE
    /\ session = 1
    /\ overlapped = FALSE

FsThreadStep(w) ==
    \/ next_seqnum(w)
    \/ report_fs_call(w)
    \/ sem_wait(w)
    \/ report_fs_call_return(w)

AdvanceStep(t) ==
    \/ AdvanceCheck(t)
    \/ AdvancePost(t)
    \/ LoadCounter(t)
    \/ StoreDecrement(t)

ReaderStep ==
    \/ ReadEvent
    \/ StoreIncrement
    \/ TestMode
    \/ Enqueue
    \/ Detach
    \/ AdvanceStep(Reader)

GuiStep ==
    \/ BeginDrain
    \/ ShowEvent
    \/ updateAdvanceButtonState
    \/ KillFs
    \/ AdvanceStep(Gui)

UserStep ==
    \/ advance_btn_handler
    \/ autoadvance_btn_handler
    \/ stopDebugger
    \/ startDebugger

FsExit == JoinWorkers \/ ExitProcess

\* The session is over and nobody starts another one.
Finished ==
    /\ fs = "gone"
    /\ pc[Reader] = "detached"
    /\ pc[Gui] = "idle"
    /\ events = <<>>
    /\ UNCHANGED vars

\* After overlapping updates a call may wait for a token that nobody posts, so
\* that the system stops; it may stop for no other reason.
Hung ==
    /\ overlapped
    /\ UNCHANGED vars

Next ==
    \/ \E w \in FsThreads : FsThreadStep(w)
    \/ ReaderStep
    \/ GuiStep
    \/ UserStep
    \/ FsExit
    \/ Unmount
    \/ Crash
    \/ Finished
    \/ Hung

Spec == Init /\ [][Next]_vars

(***************************************************************************)
(* Fairness.  The scheduler runs every thread that can take a step, and an *)
(* operation of the file system returns.  Nothing makes the kernel send    *)
(* another request, the file system fail, or the user click.               *)
(***************************************************************************)
Progress ==
    /\ \A w \in FsThreads :
           /\ WF_vars(report_fs_call(w))
           /\ WF_vars(sem_wait(w))
           /\ WF_vars(report_fs_call_return(w))
    /\ WF_vars(ReaderStep)
    /\ WF_vars(GuiStep)
    /\ WF_vars(FsExit)

FairSpec == Spec /\ Progress

-----------------------------------------------------------------------------
(***************************************************************************)
(* Properties                                                              *)
(***************************************************************************)

TypeOK ==
    /\ fs \in {"mounted", "exiting", "destroying", "gone"}
    /\ wpc \in [FsThreads -> {"idle", "report", "wait", "run"}]
    /\ calls \in Nat
    /\ fifo \in Seq(Event)
    /\ sem \in Nat
    /\ pc \in [Threads -> ReaderPc \cup GuiPc]
    /\ pc[Reader] \in ReaderPc
    /\ pc[Gui] \in GuiPc
    /\ tmp \in [Threads -> Int]
    /\ event \in Event
    /\ handler \in {"none", "advance", "toggle", "stop"}
    /\ pendingInvocations \in Int
    /\ autoAdvance \in BOOLEAN
    /\ closing \in BOOLEAN
    /\ events \in Seq(Event)
    /\ advance_btn \in BOOLEAN
    /\ session \in Nat
    /\ overlapped \in BOOLEAN

Waiting == {w \in FsThreads : wpc[w] = "wait"}

\* Both threads of the debugger have done all they can for now.
Quiescent ==
    /\ fifo = <<>>
    /\ events = <<>>
    /\ pc[Reader] \in {"read", "detached"}
    /\ pc[Gui] = "idle"

\* The Advance button is never left insensitive while the counter says that a
\* call can be advanced: the button follows the counter only when an event is
\* displayed or Auto-advance is clicked, so this rests on handleDebuggerEvent
\* counting a call before it queues the event, and it holds even when updates
\* of the counter are torn.
AdvanceButtonFollowsCounter ==
    Quiescent /\ canAdvance => advance_btn

\* Invoke events that have been written and not read.
Unread == {i \in 1..Len(fifo) : fifo[i].type = "invoke"}

\* The number of threads that are between two control points.
CountAt(ls) == Cardinality({t \in Threads : pc[t] \in ls})

\* While the first file system serves requests and no two updates of the
\* counter have overlapped, every call that waits on the semaphore is accounted
\* for exactly once: its event is unread, or is being counted, or it is in
\* pendingInvocations (less the decrements still to come), or a token is
\* there for it.
EveryWaitAccountedFor ==
    session = 1 /\ fs \in {"mounted", "exiting"} /\ ~overlapped =>
        Cardinality(Waiting) =
            Cardinality(Unread) + CountAt({"inc", "incStore"})
              + pendingInvocations - CountAt({"dec", "decStore"}) + sem

\* When the user only steps (Auto-advance off, Stop not pressed) and no two
\* updates of the counter have overlapped, a token in the semaphore is always
\* meant for a call that already waits; a token with no such call would let
\* the next call through report_fs_call without a pause.
NoSpareToken ==
    ~overlapped =>
        (~autoAdvance /\ ~closing /\ fs # "gone" =>
            sem <= Cardinality(Waiting))

\* In the first session, and as long as no two updates of the counter have
\* overlapped: once Stop has been pressed and the debugger's threads are at
\* rest, no call is left without a token.  Otherwise fuse_session_loop_mt joins
\* a worker that never returns, and the file system cannot be stopped.
StopReleasesEveryCall ==
    session = 1 /\ ~overlapped =>
        (closing /\ Quiescent => Cardinality(Waiting) <= sem)

\* As long as no two updates of the counter have overlapped, a paused call can
\* be resumed from the window: when everything is at rest and a call waits
\* with no token for it, the Advance button is sensitive and clicking it will
\* post.
PausedCallCanBeAdvanced ==
    ~overlapped =>
        (Quiescent /\ Cardinality(Waiting) > sem => advance_btn /\ canAdvance)

\* Pressing Stop brings the file system process to its end and the reader
\* thread out of its loop, whatever calls were in progress, unless two updates
\* of the counter overlap.
StopEndsSession ==
    closing ~> ((fs = "gone" /\ pc[Reader] = "detached") \/ overlapped)

\* A user who never gives up on the Advance button while it can be clicked.
PatientUser == SF_vars(advance_btn_handler)

\* With a patient user, every call that the kernel makes is eventually let
\* through its sem_wait in report_fs_call, unless two updates of the counter
\* overlap.
EveryCallIsResumed ==
    PatientUser => \A w \in FsThreads :
        wpc[w] = "wait" ~> (wpc[w] # "wait" \/ overlapped)
=============================================================================
