------------------------------- MODULE Logger -------------------------------
(***************************************************************************)
(* The console logger (fdt --logger): it captures sequences of file system *)
(* calls for the test suite.                                               *)
(*                                                                         *)
(* FDT has one thread here.  It reads the events of the file system from a *)
(* FIFO in non-blocking mode, lets every call go on as soon as it has read *)
(* its invoke event, and looks at the keyboard whenever the FIFO is empty, *)
(* be it in the middle of an event.  Handlers of SIGINT (Ctrl-C) and       *)
(* SIGCHLD interrupt it anywhere.                                          *)
(*                                                                         *)
(* A call is known by the position of its invoke event among those         *)
(* written.  The text of prompts and answers is left out; a prompt that    *)
(* waits for a line of input is one step.                                  *)
(***************************************************************************)
EXTENDS Integers, Sequences, FiniteSets

CONSTANTS
    Workers,    \* worker threads of the file system
    Main,       \* its main thread, which makes the destroy call
    MaxCalls,   \* bound: calls the workers make
    MaxKeys,    \* bound: keys that are pressed
    QuitPosts   \* tokens that quitLogger posts

ASSUME LoggerAssumption ==
    /\ IsFiniteSet(Workers)
    /\ Main \notin Workers
    /\ {MaxCalls, MaxKeys, QuitPosts} \subseteq Nat
    /\ MaxCalls < QuitPosts

VARIABLES
    fs,                  \* life of the file system process
    wpc,                 \* what each of its threads is doing
    calls,               \* calls begun
    written,             \* invoke events written
    fifo,                \* what has been written and not read
    sem,                 \* value of the semaphore fuse-step.sem
    sigint,              \* SIGINT is pending for the file system
    pc,                  \* control point of FDT's thread
    tmp,                 \* the value it loaded of the counter, or 0
    event,               \* the event it is reading or handling
    pendingInvocations,
    fifoOpen,
    current_state,
    current_sequence,
    all_sequences,
    export,              \* what became of all_sequences
    expected,            \* fuse_pid # 0
    terminate_calls,
    keys                 \* keys pressed

fsVars  == <<fs, wpc, calls, written, sigint>>
logVars == <<current_state, current_sequence, all_sequences, export, keys>>
sigVars == <<expected, terminate_calls>>
vars    == <<fs, wpc, calls, written, fifo, sem, sigint, pc, tmp, event,
             pendingInvocations, fifoOpen, current_state, current_sequence,
             all_sequences, export, expected, terminate_calls, keys>>

FsThreads == Workers \cup {Main}

\* What is written at once: an event, its beginning or its end.  The number
\* of a return event is 0.
Piece   == [call : Nat, part : {"whole", "head", "tail"}]
NoEvent == [call |-> 0, part |-> "whole"]

\* FDT has closed the FIFO, by returning from main or by exit.
Over == pc \in {"returned", "exited"}

(***************************************************************************)
(* The file system process.  A write to a FIFO nobody reads is lost.       *)
(***************************************************************************)

Write(p) == fifo' = IF Over THEN fifo ELSE Append(fifo, p)

\* The buffer of the log goes out in order.
NobodyWriting == \A w \in FsThreads : wpc[w] # "part"

\* A worker takes the next request.  The kernel waits for the answer to its
\* first one, which makes a call only if the file system defines init; from
\* then on calls overlap.
next_seqnum(w) ==
    /\ fs = "mounted"
    /\ w \in Workers
    /\ wpc[w] = "idle"
    /\ calls < MaxCalls
    /\ calls' = calls + 1
    /\ wpc' = [wpc EXCEPT ![w] = "report"]
    /\ UNCHANGED <<fs, written, fifo, sem, sigint, pc, tmp, event,
                   pendingInvocations, fifoOpen, logVars, sigVars>>

\* The invoke event is written whole, or its beginning is.
report_fs_call(w) ==
    /\ wpc[w] = "report"
    /\ NobodyWriting
    /\ written' = written + 1
    /\ \E p \in {"whole", "head"} :
         /\ Write([call |-> written + 1, part |-> p])
         /\ wpc' = [wpc EXCEPT ![w] = IF p = "whole" THEN "wait" ELSE "part"]
    /\ UNCHANGED <<fs, calls, sem, sigint, pc, tmp, event, pendingInvocations,
                   fifoOpen, logVars, sigVars>>

fflush(w) ==
    /\ wpc[w] = "part"
    /\ Write([call |-> written, part |-> "tail"])
    /\ wpc' = [wpc EXCEPT ![w] = "wait"]
    /\ UNCHANGED <<fs, calls, written, sem, sigint, pc, tmp, event,
                   pendingInvocations, fifoOpen, logVars, sigVars>>

\* Mutant: a wait that does not block.
sem_wait_TryOnly(w) ==
    /\ wpc[w] = "wait"
    /\ sem' = sem - 1
    /\ wpc' = [wpc EXCEPT ![w] = "run"]
    /\ UNCHANGED <<fs, calls, written, fifo, sigint, pc, tmp, event,
                   pendingInvocations, fifoOpen, logVars, sigVars>>

sem_wait(w) ==
    /\ wpc[w] = "wait"
    /\ sem > 0
    /\ sem' = sem - 1
    /\ wpc' = [wpc EXCEPT ![w] = "run"]
    /\ UNCHANGED <<fs, calls, written, fifo, sigint, pc, tmp, event,
                   pendingInvocations, fifoOpen, logVars, sigVars>>

report_fs_call_return(w) ==
    /\ wpc[w] = "run"
    /\ NobodyWriting
    /\ Write([call |-> 0, part |-> "whole"])
    /\ wpc' = [wpc EXCEPT ![w] = "idle"]
    /\ UNCHANGED <<fs, calls, written, sem, sigint, pc, tmp, event,
                   pendingInvocations, fifoOpen, logVars, sigVars>>

\* The loop ends on SIGINT, or after an unmount from outside.
LeaveLoop ==
    /\ fs = "mounted"
    /\ fs' = "exiting"
    /\ UNCHANGED <<wpc, calls, written, fifo, sem, pc, tmp, event,
                   pendingInvocations, fifoOpen, logVars, sigVars>>

ObeySigint == sigint /\ LeaveLoop /\ sigint' = FALSE
Unmount    == LeaveLoop /\ UNCHANGED sigint

\* After the loop, SIGINT can only end the wait of the destroy call.
InterruptWait ==
    /\ sigint
    /\ wpc[Main] = "wait"
    /\ sigint' = FALSE
    /\ wpc' = [wpc EXCEPT ![Main] = "run"]
    /\ UNCHANGED <<fs, calls, written, fifo, sem, pc, tmp, event,
                   pendingInvocations, fifoOpen, logVars, sigVars>>

\* The workers are joined, and the main thread makes the destroy call.
JoinWorkers ==
    /\ fs = "exiting"
    /\ \A w \in Workers : wpc[w] = "idle"
    /\ fs' = "destroying"
    /\ wpc' = [wpc EXCEPT ![Main] = "report"]
    /\ UNCHANGED <<calls, written, fifo, sem, sigint, pc, tmp, event,
                   pendingInvocations, fifoOpen, logVars, sigVars>>

\* The process ends: main returns, or there is a crash.
FsEnds ==
    /\ fs' = "gone"
    /\ wpc' = [w \in FsThreads |-> "idle"]
    /\ UNCHANGED <<calls, written, fifo, sem, sigint, pc, tmp, event,
                   pendingInvocations, fifoOpen, logVars, sigVars>>

ExitProcess == fs = "destroying" /\ wpc[Main] = "idle" /\ FsEnds
Crash       == fs # "gone" /\ FsEnds

(***************************************************************************)
(* FDT's thread: doStartLogger                                             *)
(***************************************************************************)

\* Where the loop goes on when an event has been handled.
Loop == IF fifoOpen THEN "read" ELSE "end"

\* Characters are taken until the braces of the event are closed.
ReadEvent ==
    /\ pc = "read"
    /\ fifo # <<>>
    /\ event' = Head(fifo)
    /\ fifo' = Tail(fifo)
    /\ pc' = IF Head(fifo).part = "head" THEN "read" ELSE "handle"
    /\ UNCHANGED <<fsVars, sem, tmp, pendingInvocations, fifoOpen, logVars,
                   sigVars>>

\* fgetc returns -1 when the FIFO is empty, and also when no writer is left:
\* the test for EOF that follows is never reached.
ReadNothing ==
    /\ pc = "read"
    /\ fifo = <<>>
    /\ pc' = "prompt"
    /\ UNCHANGED <<fsVars, fifo, sem, tmp, event, pendingInvocations, fifoOpen,
                   logVars, sigVars>>

\* choicePrompt returns into the inner loop, which is over unless it is in
\* the middle of an event.
Prompted == pc' = IF event = NoEvent THEN Loop ELSE "read"

NoKey ==
    /\ pc = "prompt"
    /\ Prompted
    /\ UNCHANGED <<fsVars, fifo, sem, tmp, event, pendingInvocations, fifoOpen,
                   logVars, sigVars>>

Key ==
    /\ pc = "prompt"
    /\ keys < MaxKeys
    /\ keys' = keys + 1
    /\ UNCHANGED <<fs, wpc, calls, written, fifo, sem, tmp, event,
                   pendingInvocations, fifoOpen, terminate_calls>>

StartCapture ==
    /\ Key
    /\ current_state = "IDLE"
    /\ current_state' = "CAPTURING_SEQUENCE"
    /\ Prompted
    /\ UNCHANGED <<sigint, current_sequence, all_sequences, export, expected>>

\* Mutant: the calls stay in current_sequence.
EndCapture_KeepSequence ==
    /\ Key
    /\ current_state = "CAPTURING_SEQUENCE"
    /\ current_state' = "IDLE"
    /\ all_sequences' = IF current_sequence # <<>>
                          THEN Append(all_sequences, current_sequence)
                          ELSE all_sequences
    /\ Prompted
    /\ UNCHANGED <<sigint, current_sequence, export, expected>>

\* An empty sequence is not logged.
EndCapture ==
    /\ Key
    /\ current_state = "CAPTURING_SEQUENCE"
    /\ current_state' = "IDLE"
    /\ all_sequences' = IF current_sequence # <<>>
                          THEN Append(all_sequences, current_sequence)
                          ELSE all_sequences
    /\ current_sequence' = <<>>
    /\ Prompted
    /\ UNCHANGED <<sigint, export, expected>>

\* The part of the q key up to the signal that quitLogger sends.
QuitKey ==
    /\ export' \in IF all_sequences = <<>> THEN {"none"}
                     ELSE {"done", "discarded", "failed"}
    /\ sigint' = (sigint \/ expected)
    /\ expected' = FALSE
    /\ pc' = "quit"
    /\ UNCHANGED <<current_state, current_sequence, all_sequences>>

\* Mutant: q is served during a capture too.
Quit_Anytime == Key /\ QuitKey

Quit == Key /\ current_state = "IDLE" /\ QuitKey

\* Mutant: quitLogger does not post.
QuitPost_None ==
    /\ pc = "quit"
    /\ fifoOpen' = FALSE
    /\ pc' = IF event = NoEvent THEN "end" ELSE "read"
    /\ UNCHANGED <<fsVars, fifo, sem, tmp, event, pendingInvocations, logVars,
                   sigVars>>

\* The rest of quitLogger; the loop ends unless an event is being read.
QuitPost ==
    /\ pc = "quit"
    /\ sem' = sem + QuitPosts
    /\ fifoOpen' = FALSE
    /\ pc' = IF event = NoEvent THEN "end" ELSE "read"
    /\ UNCHANGED <<fsVars, fifo, tmp, event, pendingInvocations, logVars,
                   sigVars>>

\* Mutant: a call that is not captured is not counted either.
handleLoggerEvent_OnlyCaptured ==
    /\ pc = "handle"
    /\ event' = NoEvent
    /\ IF event.call # 0 /\ current_state = "CAPTURING_SEQUENCE"
         THEN /\ current_sequence' = Append(current_sequence, event.call)
              /\ pendingInvocations' = pendingInvocations + 1
              /\ pc' = "check"
         ELSE /\ pc' = Loop
              /\ UNCHANGED <<current_sequence, pendingInvocations>>
    /\ UNCHANGED <<fsVars, fifo, sem, tmp, fifoOpen, current_state,
                   all_sequences, export, keys, sigVars>>

handleLoggerEvent ==
    /\ pc = "handle"
    /\ event' = NoEvent
    /\ IF event.call # 0
         THEN /\ current_sequence' =
                    IF current_state = "CAPTURING_SEQUENCE"
                      THEN Append(current_sequence, event.call)
                      ELSE current_sequence
              /\ pendingInvocations' = pendingInvocations + 1
              /\ pc' = "check"
         ELSE /\ pc' = Loop
              /\ UNCHANGED <<current_sequence, pendingInvocations>>
    /\ UNCHANGED <<fsVars, fifo, sem, tmp, fifoOpen, current_state,
                   all_sequences, export, keys, sigVars>>

l_canAdvance == pendingInvocations > 0

\* l_advance, whose decrement loads the counter and then stores it.
l_advance ==
    /\ \/ /\ pc = "check"
          /\ pc' = IF l_canAdvance THEN "post" ELSE Loop
          /\ UNCHANGED <<sem, tmp, pendingInvocations>>
       \/ /\ pc = "post"
          /\ sem' = sem + 1
          /\ pc' = "dec"
          /\ UNCHANGED <<tmp, pendingInvocations>>
       \/ /\ pc = "dec"
          /\ tmp' = pendingInvocations
          /\ pc' = "decStore"
          /\ UNCHANGED <<sem, pendingInvocations>>
       \/ /\ pc = "decStore"
          /\ pendingInvocations' = tmp - 1
          /\ tmp' = 0
          /\ pc' = Loop
          /\ UNCHANGED sem
    /\ UNCHANGED <<fsVars, fifo, event, fifoOpen, logVars, sigVars>>

\* The FIFO is closed and main returns.
EndLoop ==
    /\ pc = "end"
    /\ pc' = "returned"
    /\ fifo' = <<>>
    /\ UNCHANGED <<fsVars, sem, tmp, event, pendingInvocations, fifoOpen,
                   logVars, sigVars>>

(***************************************************************************)
(* Signal handlers, which suspend the thread                               *)
(***************************************************************************)

\* The first Ctrl-C runs stopLogger; the next one exits.  fuse_pid is 0 by
\* then, so that no SIGKILL is sent.
terminate ==
    /\ ~Over
    /\ terminate_calls' = terminate_calls + 1
    /\ IF terminate_calls = 0
         THEN /\ sem' = IF l_canAdvance THEN sem + pendingInvocations ELSE sem
              /\ pendingInvocations' = IF l_canAdvance THEN 0
                                                       ELSE pendingInvocations
              /\ sigint' = (sigint \/ expected)
              /\ expected' = FALSE
              /\ UNCHANGED <<fifo, pc>>
         ELSE /\ pc' = "exited"
              /\ fifo' = <<>>
              /\ UNCHANGED <<sem, pendingInvocations, sigint, expected>>
    /\ UNCHANGED <<fs, wpc, calls, written, tmp, event, fifoOpen, logVars>>

\* The file system has ended: fuse_pid is reset.
childKilled ==
    /\ ~Over
    /\ fs = "gone" /\ expected
    /\ expected' = FALSE
    /\ UNCHANGED <<fsVars, fifo, sem, pc, tmp, event, pendingInvocations,
                   fifoOpen, logVars, terminate_calls>>

-----------------------------------------------------------------------------

\* With -a the logger captures from the start.
Init ==
    /\ fs = "mounted"
    /\ wpc = [w \in FsThreads |-> "idle"]
    /\ calls = 0
    /\ written = 0
    /\ fifo = <<>>
    /\ sem = 0
    /\ sigint = FALSE
    /\ pc = "read"
    /\ tmp = 0
    /\ event = NoEvent
    /\ pendingInvocations = 0
    /\ fifoOpen = TRUE
    /\ current_state \in {"IDLE", "CAPTURING_SEQUENCE"}
    /\ current_sequence = <<>>
    /\ all_sequences = <<>>
    /\ export = "none"
    /\ expected = TRUE
    /\ terminate_calls = 0
    /\ keys = 0

FsThreadStep(w) ==
    \/ report_fs_call(w)
    \/ fflush(w)
    \/ sem_wait(w)
    \/ report_fs_call_return(w)

FsEnd == ObeySigint \/ JoinWorkers \/ ExitProcess

KeyStep == StartCapture \/ EndCapture \/ Quit

LoggerStep ==
    \/ ReadEvent
    \/ ReadNothing
    \/ NoKey
    \/ QuitPost
    \/ handleLoggerEvent
    \/ l_advance
    \/ EndLoop

Finished == fs = "gone" /\ Over /\ UNCHANGED vars

Next ==
    \/ \E w \in FsThreads : next_seqnum(w) \/ FsThreadStep(w)
    \/ Unmount
    \/ InterruptWait
    \/ FsEnd
    \/ Crash
    \/ KeyStep
    \/ LoggerStep
    \/ terminate
    \/ childKilled
    \/ Finished

Spec == Init /\ [][Next]_vars

(***************************************************************************)
(* Fairness: threads run, operations return, and a file system that has    *)
(* been sent SIGINT obeys it.  Nothing makes the user press a key.         *)
(***************************************************************************)
Progress ==
    /\ \A w \in FsThreads :
         /\ WF_vars(report_fs_call(w))
         /\ WF_vars(fflush(w))
         /\ WF_vars(sem_wait(w))
         /\ WF_vars(report_fs_call_return(w))
    /\ WF_vars(FsEnd)
    /\ WF_vars(LoggerStep)

FairSpec == Spec /\ Progress

-----------------------------------------------------------------------------
(***************************************************************************)
(* Properties                                                              *)
(***************************************************************************)

\* Type invariant.  The semaphore never falls below 0.
TypeOK ==
    /\ fs \in {"mounted", "exiting", "destroying", "gone"}
    /\ wpc \in [FsThreads -> {"idle", "report", "part", "wait", "run"}]
    /\ calls \in 0..MaxCalls
    /\ written \in 0..(MaxCalls + 1)
    /\ fifo \in Seq(Piece)
    /\ sem \in Nat
    /\ pc \in {"read", "prompt", "quit", "handle", "check", "post", "dec",
               "decStore", "end", "returned", "exited"}
    /\ event \in Piece
    /\ {tmp, pendingInvocations} \subseteq Int
    /\ {fifoOpen, sigint, expected} \subseteq BOOLEAN
    /\ current_state \in {"IDLE", "CAPTURING_SEQUENCE"}
    /\ current_sequence \in Seq(Nat)
    /\ all_sequences \in Seq(Seq(Nat))
    /\ export \in {"none", "done", "discarded", "failed"}
    /\ terminate_calls \in 0..2
    /\ keys \in 0..MaxKeys

\* A captured sequence holds every call that was made from its first call to
\* its last one, in the order in which they were made, and no call is in two
\* sequences: the test suite can replay it.
SequencesAreRuns ==
    LET all == Append(all_sequences, current_sequence)
    IN  /\ \A i \in DOMAIN all : \A j \in 1..(Len(all[i]) - 1) :
             all[i][j + 1] = all[i][j] + 1
        /\ \A i, j \in DOMAIN all : i < j =>
             \A m \in DOMAIN all[i], n \in DOMAIN all[j] :
                all[i][m] < all[j][n]

\* When the logger decides to end, it loses nothing that has been captured: no
\* sequence is open, not even one that an event still being read will be added
\* to, and the user has been asked where to export the others.
QuitLosesNothing ==
    [][fifoOpen /\ ~fifoOpen' =>
         /\ current_sequence = <<>>
         /\ current_state = "IDLE"
         /\ all_sequences # <<>> => export # "none"]_vars

\* The logger waits for the rest of an event whose writer is dead.
CutShort == event # NoEvent /\ fs = "gone" /\ fifo = <<>>

\* Once q has been served, the file system and the logger come to an end: the
\* tokens of quitLogger let go every call that the logger will not read any
\* more.  (Unless the user forces FDT to exit, or the file system died while
\* it wrote an event, whose end the inner loop then waits for.)
QuitEndsBoth ==
    ~fifoOpen ~> \/ fs = "gone" /\ pc = "returned"
                 \/ pc = "exited"
                 \/ CutShort

\* Every call is let through report_fs_call, without a key being pressed and
\* whatever the state of the capture, unless FDT is forced to exit or Ctrl-C
\* comes between the post and the decrement of l_advance: both then post for
\* the same call, and the counter becomes negative.
EveryCallIsResumed ==
    [](pendingInvocations >= 0) =>
        \A w \in FsThreads : wpc[w] = "wait" ~> (wpc[w] # "wait" \/ pc = "exited")
=============================================================================
