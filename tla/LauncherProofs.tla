--------------------------- MODULE LauncherProofs ---------------------------
(***************************************************************************)
(* Proofs about Launcher: for any number of presses of Start, one file     *)
(* system runs at a time, the sessions do not mix their events, no error   *)
(* is reported for a file system that ended as it should, and FDT leaves   *)
(* none behind.                                                            *)
(*                                                                         *)
(* The inductive invariant is LauncherInv.  Its parts build on each other: *)
(* that only the last session's process can be alive (OneInv), which FIFO  *)
(* each process and each reader has hold of (ReadInv), what the process    *)
(* that is expected has been told and has said (PidInv, CauseInv), and     *)
(* that none that runs is forgotten (ExitInv).                             *)
(***************************************************************************)
EXTENDS Launcher, FiniteSetTheorems, TLAPS

\* A leaf that names no prover is given to SMT and then to Zenon.
USE SMTT(40), ZenonT(40)

(***************************************************************************)
(* Types                                                                   *)
(***************************************************************************)

\* Sessions begin in order, and each has a tool from its fork on.
SessionInv ==
    /\ \A s \in Sessions : s > started => child[s] = "none"
    /\ \A s \in Sessions : s <= started =>
          tool[s] \in Tools /\ child[s] # "none"
    /\ \A s \in Sessions : reader[s] # "none" => s <= started
    /\ gui # "idle" => started > 0

TypeInv == TypeOK /\ SessionInv

\* There is at least one session.
LEMMA SomeStart == MaxStarts \in Nat /\ MaxStarts > 0
BY LauncherAssumption

\* The sessions begun are sessions.
LEMMA StartedIsSession ==
    ASSUME TypeOK, started > 0
    PROVE  started \in Sessions
BY SomeStart DEF TypeOK, Sessions

\* fuse_pid and started are numbers.
LEMMA Numbers ==
    ASSUME TypeOK
    PROVE  fuse_pid \in Int /\ started \in Nat
<1>1. fuse_pid \in {-1, 0} \cup Sessions /\ started \in 0..MaxStarts
  BY Zenon DEF TypeOK
<1> QED BY <1>1, SomeStart DEF Sessions

\* The FIFO of a session is neither a regular file nor nothing.
LEMMA FileKinds ==
    ASSUME NEW s \in Sessions
    PROVE  s \in Nat /\ s > 0 /\ s # Nothing /\ s # RegularFile
BY DEF Sessions, Nothing, RegularFile

\* TypeOK in parts: the GUI thread and the session it is at,
GuiTypes ==
    /\ prompt \in Prompts
    /\ fdt \in {"up", "exited"}
    /\ gui \in {"idle", "fork", "tool"}
    /\ started \in 0..MaxStarts
    /\ tool \in [Sessions -> Tools \cup {"none"}]
    /\ terminate_calls \in Nat
    /\ start_button \in BOOLEAN
    /\ stop_button \in BOOLEAN

\* the tool that is expected to run and what has been sent or reported,
ToolTypes ==
    /\ fuse_pid \in {-1, 0} \cup Sessions
    /\ fs_mounted \in BOOLEAN
    /\ shared_error \in {"none", "exec", "crash"}
    /\ stopToolFunction \in Tools \cup {"none"}
    /\ signals \subseteq (({-1} \cup Sessions) \X {"INT", "KILL"})
    /\ reported \subseteq ({0} \cup Sessions)

\* the file system processes,
ChildTypes ==
    /\ child \in [Sessions -> {"none", "forked", "execing", "serving",
                               "leaving", "zombie", "reaped"}]
    /\ cause \in [Sessions -> {"none", "exec", "crash", "done"}]
    /\ log \in [Sessions -> Files]
    /\ ending \in [Sessions -> {"no", "sent", "read"}]

\* childKilled,
HandlerTypes ==
    /\ sigchld \in BOOLEAN
    /\ handler \in {"none", "reap", "wait"}
    /\ pid \in {0} \cup Sessions
    /\ handler = "wait" /\ pid # 0 => child[pid] = "reaped"

\* and the reader threads with the names of the FIFOs.
ReaderTypes ==
    /\ reader \in [Sessions -> {"none", "opening", "reading", "unlinking",
                                "done"}]
    /\ fifo \in [Sessions -> Files]
    /\ name \in [Tools -> Files]

\* A state is well typed if its parts are.
LEMMA TypeParts ==
    ASSUME GuiTypes', ToolTypes', ChildTypes', HandlerTypes', ReaderTypes'
    PROVE  TypeOK'
BY DEF TypeOK, GuiTypes, ToolTypes, ChildTypes, HandlerTypes, ReaderTypes

\* The parts that a step does not touch keep their types.
LEMMA PartsStay ==
    ASSUME TypeOK
    PROVE  /\ UNCHANGED <<prompt, fdt, gui, started, tool, terminate_calls,
                          start_button, stop_button>> => GuiTypes'
           /\ UNCHANGED <<child, cause, log, ending>> => ChildTypes'
           /\ UNCHANGED <<reader, fifo, name>> => ReaderTypes'
<1> USE DEF TypeOK
<1>1. UNCHANGED <<prompt, fdt, gui, started, tool, terminate_calls,
                  start_button, stop_button>> => GuiTypes'
  BY Zenon DEF GuiTypes
<1>2. UNCHANGED <<child, cause, log, ending>> => ChildTypes'
  BY Zenon DEF ChildTypes
<1>3. UNCHANGED <<reader, fifo, name>> => ReaderTypes'
  BY Zenon DEF ReaderTypes
<1> QED BY <1>1, <1>2, <1>3, Zenon

\* A step that changes nothing keeps the types.
LEMMA StutterKeepsType ==
    ASSUME TypeOK, UNCHANGED vars
    PROVE  TypeOK'
BY DEF TypeOK, vars

\* kill is only ever called with the process id in fuse_pid.
LEMMA SignalType ==
    ASSUME TypeOK, NEW g \in {"INT", "KILL"},
           signals' = IF fuse_pid # 0 THEN signals \cup {<<fuse_pid, g>>}
                                      ELSE signals
    PROVE  signals' \subseteq (({-1} \cup Sessions) \X {"INT", "KILL"})
<1>1. fuse_pid # 0 =>
        <<fuse_pid, g>> \in ({-1} \cup Sessions) \X {"INT", "KILL"}
  BY DEF TypeOK
<1>2. signals \subseteq (({-1} \cup Sessions) \X {"INT", "KILL"})
  BY DEF TypeOK
<1> QED BY <1>1, <1>2, Zenon

\* The buttons, startTool and the idle callback keep the types.
LEMMA ButtonsKeepType ==
    ASSUME TypeInv, UserStep \/ ForkFails \/ GuiStep
    PROVE  TypeOK'
<1> USE DEF TypeInv, TypeOK, Tools
<1>1. ASSUME NEW t \in Tools, start_btn_handler(t) PROVE TypeOK'
  <2>1. started + 1 \in Sessions /\ child[started + 1] = "none"
    BY <1>1, SomeStart DEF start_btn_handler, SessionInv, Sessions
  <2>2. child' \in [Sessions -> {"none", "forked", "execing", "serving",
                                 "leaving", "zombie", "reaped"}]
    BY <1>1, <2>1 DEF start_btn_handler
  <2>3. handler' = "wait" /\ pid' # 0 => child'[pid'] = "reaped"
    BY <1>1, <2>1 DEF start_btn_handler, GuiIdle, sigVars
  <2>4. ToolTypes' /\ ReaderTypes'
    BY <1>1 DEF start_btn_handler, readerVars, ToolTypes, ReaderTypes
  <2>5. HandlerTypes' /\ ChildTypes'
    BY <1>1, <2>2, <2>3 DEF start_btn_handler, sigVars, HandlerTypes,
       ChildTypes
  <2>6. /\ started' \in 0..MaxStarts
        /\ tool' \in [Sessions -> Tools \cup {"none"}]
    BY <1>1, <2>1, SomeStart DEF start_btn_handler, Sessions
  <2>7. GuiTypes'
    BY <1>1, <2>6, Zenon DEF start_btn_handler, GuiTypes
  <2> QED BY <2>4, <2>5, <2>7, TypeParts
<1>2. CASE stop_btn_handler
  <2>1. /\ fuse_pid' \in {-1, 0} \cup Sessions /\ stop_button' \in BOOLEAN
        /\ signals' \subseteq (({-1} \cup Sessions) \X {"INT", "KILL"})
        /\ stopToolFunction' \in Tools \cup {"none"}
    <3>1. CASE stopToolFunction # "none"
      BY <1>2, <3>1, SignalType, Zenon DEF stop_btn_handler, StopTool
    <3>2. CASE stopToolFunction = "none"
      BY <1>2, <3>2, Zenon DEF stop_btn_handler
    <3> QED BY <3>1, <3>2
  <2> QED BY <1>2, <2>1 DEF stop_btn_handler, childVars, sigVars, readerVars
<1>3. CASE terminate
  <2>1. /\ fuse_pid' \in {-1, 0} \cup Sessions /\ terminate_calls' \in Nat
        /\ signals' \subseteq (({-1} \cup Sessions) \X {"INT", "KILL"})
    BY <1>3, SignalType DEF terminate, StopTool, Exit
  <2>2. CASE StopTool /\ UNCHANGED <<fdt, gui, handler, pid, buttonVars,
                                     readerVars>>
    BY <1>3, <2>1, <2>2 DEF terminate, StopTool, childVars, buttonVars,
       readerVars
  <2>3. CASE Exit
    BY <1>3, <2>1, <2>3, Zenon DEF terminate, Exit, childVars, Files
  <2> QED BY <1>3, <2>2, <2>3 DEF terminate
<1>4. CASE ForkFails
  <2>1. fuse_pid' \in {-1, 0} \cup Sessions /\ terminate_calls' \in Nat
    BY <1>4 DEF ForkFails
  <2>2. UNCHANGED <<prompt, fdt, gui, started, tool, fs_mounted, shared_error,
                    stopToolFunction, stop_button, child, cause, log, ending,
                    sigchld, handler, pid, reader, fifo, name, signals,
                    reported>>
        /\ start_button' \in BOOLEAN
    BY <1>4, Zenon DEF ForkFails, childVars, sigVars, readerVars
  <2> QED BY <2>1, <2>2
<1>5. CASE StorePid
  BY <1>5, StartedIsSession DEF StorePid, SessionInv, childVars, sigVars,
     readerVars, buttonVars
<1>6. CASE RunTool
  BY <1>6, StartedIsSession DEF RunTool, SessionInv, childVars, sigVars,
     buttonVars, Files
<1>7. CASE gui_idle
  BY <1>7 DEF gui_idle, childVars, sigVars, readerVars, toolVars
<1> QED BY <1>1, <1>2, <1>3, <1>4, <1>5, <1>6, <1>7 DEF UserStep, GuiStep

\* childKilled keeps the types; what it waits for it has reaped.
LEMMA HandlersKeepType ==
    ASSUME TypeInv, HandlerStep \/ Finished \/ UNCHANGED vars
    PROVE  TypeOK'
<1> USE DEF TypeInv
<1>1. HandlerStep => GuiTypes' /\ ReaderTypes'
  <2>1. HandlerStep => UNCHANGED <<prompt, fdt, gui, started, tool,
                                   terminate_calls, start_button, stop_button,
                                   reader, fifo, name>>
    BY Zenon DEF HandlerStep, Sigchld, Waitpid, CleanExit, Timeout, toolVars,
       buttonVars, readerVars
  <2> QED BY <2>1, PartsStay, Zenon
<1>2. CASE Sigchld
  <2>1. /\ UNCHANGED <<child, cause, log, ending, fuse_pid, fs_mounted,
                       shared_error, stopToolFunction, signals, reported, pid>>
        /\ handler' = "reap" /\ sigchld' = FALSE
    BY <1>2, Zenon DEF Sigchld, childVars, toolVars
  <2>2. ToolTypes' /\ HandlerTypes'
    BY <2>1, Zenon DEF TypeOK, ToolTypes, HandlerTypes
  <2> QED BY <1>1, <1>2, <2>1, <2>2, PartsStay, TypeParts, Zenon
          DEF HandlerStep
<1>3. CASE Waitpid
  <2>1. UNCHANGED <<cause, log, ending, fuse_pid, shared_error, sigchld,
                    stopToolFunction, signals, reported>>
    BY <1>3, Zenon DEF Waitpid, toolVars
  <2>2. ASSUME NEW s \in Sessions, child[s] = "zombie", Reap(s) PROVE TypeOK'
    <3>1. /\ handler' \in {"none", "reap", "wait"}
          /\ pid' \in {0} \cup Sessions
          /\ fs_mounted' \in BOOLEAN
      BY <1>3, <2>2, Zenon DEF Waitpid, Reap, TypeOK
    <3>2. handler = "reap" /\ child'[s] = "reaped" /\ ChildTypes'
      BY <1>3, <2>1, <2>2 DEF Waitpid, Reap, TypeOK, ChildTypes
    <3>3. handler' = "wait" /\ pid' # 0 => child'[pid'] = "reaped"
      BY <2>2, <3>2 DEF Reap
    <3>4. ToolTypes'
      BY <2>1, <3>1, Zenon DEF TypeOK, ToolTypes
    <3>5. HandlerTypes'
      BY <2>1, <3>1, <3>3, Zenon DEF TypeOK, HandlerTypes
    <3> QED BY <1>1, <1>3, <3>2, <3>4, <3>5, TypeParts, Zenon DEF HandlerStep
  <2>3. ASSUME WaitpidNone, UNCHANGED <<child, fs_mounted>> PROVE TypeOK'
    <3>1. HandlerTypes'
      BY <1>3, <2>1, <2>3 DEF Waitpid, WaitpidNone, TypeOK, HandlerTypes
    <3>2. ToolTypes' /\ ChildTypes'
      BY <2>1, <2>3, Zenon DEF TypeOK, ToolTypes, ChildTypes
    <3> QED BY <1>1, <1>3, <3>1, <3>2, TypeParts, Zenon DEF HandlerStep
  <2> QED BY <1>3, <2>2, <2>3, Zenon DEF Waitpid
<1>4. CASE CleanExit \/ Timeout
  <2>1. /\ UNCHANGED <<child, cause, log, ending, sigchld, stopToolFunction,
                       signals>>
        /\ handler' = "none" /\ pid' = 0 /\ fs_mounted' = FALSE
    BY <1>4, Zenon DEF CleanExit, Timeout, childVars, toolVars
  <2>2. /\ fuse_pid' \in {0, fuse_pid}
        /\ reported' \in {reported, reported \cup {pid}}
        /\ shared_error' \in {shared_error, "crash"}
    BY <1>4, Zenon DEF CleanExit, Timeout, toolVars
  <2>3. ToolTypes'
    <3>1. fuse_pid' \in {-1, 0} \cup Sessions
      BY <2>2, Zenon DEF TypeOK
    <3>2. reported' \subseteq ({0} \cup Sessions)
      BY <2>2 DEF TypeOK
    <3> QED BY <2>1, <2>2, <3>1, <3>2, Zenon DEF TypeOK, ToolTypes
  <2>4. HandlerTypes'
    BY <2>1, Zenon DEF TypeOK, HandlerTypes
  <2> QED BY <1>1, <1>4, <2>1, <2>3, <2>4, PartsStay, TypeParts, Zenon
          DEF HandlerStep
<1>5. CASE Finished \/ UNCHANGED vars
  BY <1>5, StutterKeepsType DEF Finished
<1> QED BY <1>2, <1>3, <1>4, <1>5 DEF HandlerStep

\* The steps of the file system processes keep the types.
LEMMA ChildrenKeepType ==
    ASSUME TypeInv, NEW s \in Sessions, ChildStep(s)
    PROVE  TypeOK'
<1> USE DEF TypeInv, TypeOK, toolVars, buttonVars, readerVars, sigVars
<1>1. CASE SetMounted(s)
  BY <1>1 DEF SetMounted
<1>2. CASE ExecFails(s)
  <2>1. reported' \subseteq ({0} \cup Sessions)
    BY <1>2, Zenon DEF ExecFails
  <2> QED BY <1>2, <2>1 DEF ExecFails, Ends
<1>3. CASE OpenLog(s)
  <2>1. tool[s] \in Tools
    BY <1>3 DEF OpenLog, SessionInv, Sessions
  <2>2. log' \in [Sessions -> Files] /\ name' \in [Tools -> Files]
    BY <1>3, <2>1 DEF OpenLog, Files
  <2> QED BY <1>3, <2>2 DEF OpenLog
<1>4. CASE TestsEnd(s)
  BY <1>4 DEF TestsEnd, Files
<1>5. CASE ObeySigint(s)
  BY <1>5 DEF ObeySigint
<1>6. CASE Leave(s)
  BY <1>6 DEF Leave, Ends, Alive
<1>7. CASE Crash(s)
  BY <1>7 DEF Crash, Ends
<1> QED BY <1>1, <1>2, <1>3, <1>4, <1>5, <1>6, <1>7 DEF ChildStep

\* The steps of the reader threads keep the types.
LEMMA ReadersKeepType ==
    ASSUME TypeInv, NEW r \in Sessions, ReaderStep(r)
    PROVE  TypeOK'
<1> USE DEF TypeInv, TypeOK, toolVars, buttonVars, childVars, sigVars
<1>1. CASE ReaderOpen(r)
  BY <1>1 DEF ReaderOpen, SessionInv
<1>2. CASE HandleEnd(r)
  <2>1. ending' \in [Sessions -> {"no", "sent", "read"}] /\ fuse_pid' = 0
    BY <1>2 DEF HandleEnd
  <2>2. UNCHANGED <<prompt, fdt, gui, started, tool, stopToolFunction,
                    terminate_calls, signals, fs_mounted, shared_error,
                    start_button, stop_button, child, cause, log, sigchld,
                    handler, pid, reader, fifo, name, reported>>
    BY <1>2, Zenon DEF HandleEnd, readerVars
  <2> QED BY <2>1, <2>2
<1>3. CASE ReaderEof(r)
  BY <1>3 DEF ReaderEof
<1>4. CASE ReaderUnlink(r)
  <2>1. tool[r] \in Tools
    BY <1>4 DEF ReaderUnlink, SessionInv
  <2> QED BY <1>4, <2>1 DEF ReaderUnlink, Files
<1> QED BY <1>1, <1>2, <1>3, <1>4 DEF ReaderStep

\* How the life of a file system process goes on.
Moves(s) ==
    \/ child[s] = "forked" /\ child'[s] = "execing" /\ fs_mounted'
    \/ /\ child[s] = "execing" /\ child'[s] = "serving"
       /\ fs_mounted' = fs_mounted
    \/ /\ child[s] = "serving" /\ child'[s] = "leaving"
       /\ fs_mounted' = fs_mounted
    \/ /\ Alive(s) /\ child'[s] = "zombie"
       /\ child[s] = "forked" => <<s, "KILL">> \in signals
       /\ fs_mounted' = fs_mounted

\* What the steps of a file system process leave alone, and how its life goes.
LEMMA ChildFrame ==
    ASSUME TypeOK, NEW s \in Sessions, ChildStep(s)
    PROVE  /\ UNCHANGED <<prompt, fdt, gui, started, tool, fuse_pid,
                          stopToolFunction, terminate_calls, signals,
                          start_button, stop_button, handler, pid, reader,
                          fifo>>
           /\ \A c \in Sessions : c # s =>
                 /\ child'[c] = child[c] /\ cause'[c] = cause[c]
                 /\ log'[c] = log[c] /\ ending'[c] = ending[c]
           /\ Moves(s)
           /\ sigchld' = (sigchld \/ child'[s] = "zombie")
<1> USE DEF Moves, toolVars, buttonVars, sigVars, readerVars
<1>1. UNCHANGED <<prompt, fdt, gui, started, tool, fuse_pid, stopToolFunction,
                  terminate_calls, signals, start_button, stop_button, handler,
                  pid, reader, fifo>>
  BY Zenon DEF ChildStep, SetMounted, ExecFails, OpenLog, TestsEnd,
               ObeySigint, Leave, Crash
<1>2. CASE SetMounted(s)
  BY <1>1, <1>2 DEF SetMounted, TypeOK
<1>3. CASE OpenLog(s)
  BY <1>1, <1>3 DEF OpenLog, TypeOK
<1>4. CASE TestsEnd(s) \/ ObeySigint(s)
  BY <1>1, <1>4 DEF TestsEnd, ObeySigint, TypeOK
<1>5. CASE ExecFails(s) \/ Leave(s) \/ Crash(s)
  BY <1>1, <1>5, ZenonT(40) DEF ExecFails, Leave, Crash, Ends, TypeOK, Alive
<1> QED BY <1>2, <1>3, <1>4, <1>5, Zenon DEF ChildStep

\* What the steps of a reader thread leave alone.
LEMMA ReaderFrame ==
    ASSUME TypeOK, NEW r \in Sessions, ReaderStep(r)
    PROVE  /\ UNCHANGED <<prompt, fdt, gui, started, tool, stopToolFunction,
                          terminate_calls, signals, fs_mounted, shared_error,
                          start_button, stop_button, child, cause, log,
                          sigchld, handler, pid, reported>>
           /\ fdt = "up"
           /\ \A c \in Sessions : c # r =>
                 reader'[c] = reader[c] /\ fifo'[c] = fifo[c]
           /\ reader[r] # "none" /\ reader'[r] # "none"
           /\ fuse_pid' \in {0, fuse_pid}
<1> USE DEF toolVars, buttonVars, childVars, sigVars, readerVars
<1>1. UNCHANGED <<prompt, fdt, gui, started, tool, stopToolFunction,
                  terminate_calls, signals, fs_mounted, shared_error,
                  start_button, stop_button, child, cause, log, sigchld,
                  handler, pid, reported>>
  BY Zenon DEF ReaderStep, ReaderOpen, HandleEnd, ReaderEof, ReaderUnlink
<1>2. /\ fdt = "up" /\ reader[r] # "none" /\ fuse_pid' \in {0, fuse_pid}
  BY DEF ReaderStep, ReaderOpen, HandleEnd, ReaderEof, ReaderUnlink
<1>3. /\ \A c \in Sessions : c # r =>
            reader'[c] = reader[c] /\ fifo'[c] = fifo[c]
      /\ reader'[r] # "none"
  BY DEF ReaderStep, ReaderOpen, HandleEnd, ReaderEof, ReaderUnlink, TypeOK
<1> QED BY <1>1, <1>2, <1>3, Zenon

\* What the signal handler and the end leave alone.
LEMMA HandlerFrame ==
    ASSUME HandlerStep \/ Finished \/ UNCHANGED vars
    PROVE  UNCHANGED <<prompt, fdt, gui, started, tool, stopToolFunction,
                       terminate_calls, signals, start_button, stop_button,
                       cause, log, ending, reader, fifo, name>>
BY Zenon DEF HandlerStep, Sigchld, Waitpid, CleanExit, Timeout, Finished, vars,
       toolVars, buttonVars, childVars, readerVars

\* What the buttons and the GUI leave alone, apart from Start.
LEMMA GuiFrame ==
    ASSUME stop_btn_handler \/ terminate \/ ForkFails \/ GuiStep
    PROVE  UNCHANGED <<prompt, started, tool, fs_mounted, child, cause, log,
                       ending, sigchld, reported>>
BY Zenon DEF stop_btn_handler, terminate, ForkFails, GuiStep, StorePid,
       RunTool, gui_idle, toolVars, buttonVars, childVars, readerVars, sigVars

\* No step of theirs begins startTool.
LEMMA GuiMoves ==
    ASSUME stop_btn_handler \/ terminate \/ ForkFails \/ GuiStep
    PROVE  gui' # "idle" => gui # "idle"
<1>1. CASE stop_btn_handler \/ ForkFails \/ gui_idle
  BY <1>1, Zenon DEF stop_btn_handler, ForkFails, gui_idle
<1>2. CASE terminate
  BY <1>2, Zenon DEF terminate, Exit
<1>3. CASE StorePid \/ RunTool
  BY <1>3 DEF StorePid, RunTool
<1> QED BY <1>1, <1>2, <1>3 DEF GuiStep

\* startTool makes the reader of the session that has just been forked.
LEMMA GuiReaders ==
    ASSUME stop_btn_handler \/ terminate \/ ForkFails \/ GuiStep,
           NEW s \in Sessions, DOMAIN reader = Sessions,
           reader'[s] # "none"
    PROVE  reader[s] # "none" \/ (gui # "idle" /\ s = started)
<1>1. CASE RunTool
  <2>1. reader' = [reader EXCEPT ![started] = "opening"] /\ gui # "idle"
    BY <1>1 DEF RunTool
  <2> QED BY <2>1
<1>2. CASE reader' = [c \in Sessions |-> "none"]
  BY <1>2
<1>3. CASE reader' = reader
  BY <1>3
<1>4. RunTool \/ reader' = reader \/ reader' = [c \in Sessions |-> "none"]
  BY Zenon DEF stop_btn_handler, terminate, Exit, ForkFails, GuiStep, StorePid,
     gui_idle, readerVars
<1> QED BY <1>1, <1>2, <1>3, <1>4

\* What Start does to the sessions.
LEMMA StartEffect ==
    ASSUME TypeInv, NEW t \in Tools, start_btn_handler(t)
    PROVE  /\ started \in Nat /\ started + 1 \in Sessions
           /\ started' = started + 1
           /\ child' = [child EXCEPT ![started + 1] = "forked"]
           /\ \A s \in Sessions : s # started + 1 =>
                 child'[s] = child[s] /\ tool'[s] = tool[s]
           /\ child'[started + 1] = "forked" /\ tool'[started + 1] = t
           /\ child[started + 1] = "none" /\ reader[started + 1] = "none"
<1>1. started \in Nat
  BY Numbers DEF TypeInv
<1>2. /\ started < MaxStarts /\ started' = started + 1
      /\ child' = [child EXCEPT ![started + 1] = "forked"]
      /\ tool' = [tool EXCEPT ![started + 1] = t]
  BY Zenon DEF start_btn_handler
<1>3. started + 1 \in Sessions
  BY <1>1, <1>2, SomeStart DEF Sessions
<1>4. DOMAIN child = Sessions /\ DOMAIN tool = Sessions
  BY Zenon DEF TypeInv, TypeOK
<1>5. child[started + 1] = "none" /\ reader[started + 1] = "none"
  BY <1>1, <1>3 DEF TypeInv, SessionInv
<1>6. /\ \A s \in Sessions : s # started + 1 =>
            child'[s] = child[s] /\ tool'[s] = tool[s]
      /\ child'[started + 1] = "forked" /\ tool'[started + 1] = t
  BY <1>2, <1>3, <1>4, Zenon
<1> QED BY <1>1, <1>2, <1>3, <1>5, <1>6

\* Every step keeps the sessions in order.
LEMMA SessionStep ==
    ASSUME TypeInv, [Next]_vars
    PROVE  SessionInv'
<1> USE DEF TypeInv
<1>1. ASSUME NEW t \in Tools, start_btn_handler(t) PROVE SessionInv'
  <2>1. /\ started + 1 \in Sessions /\ started \in Nat
        /\ started' = started + 1 /\ reader' = reader
        /\ \A s \in Sessions : s # started + 1 =>
              child'[s] = child[s] /\ tool'[s] = tool[s]
        /\ tool'[started + 1] = t /\ child'[started + 1] = "forked"
    BY <1>1, StartEffect, Zenon DEF start_btn_handler, readerVars
  <2> QED BY <2>1 DEF SessionInv, Sessions
<1>2. CASE stop_btn_handler \/ terminate \/ ForkFails \/ GuiStep
  <2>1. UNCHANGED <<started, tool, child>>
    BY <1>2, GuiFrame, Zenon
  <2>2. \A s \in Sessions : reader'[s] # "none" =>
          reader[s] # "none" \/ (gui # "idle" /\ s = started)
    <3>1. DOMAIN reader = Sessions
      BY Zenon DEF TypeOK
    <3> QED BY <1>2, <3>1, GuiReaders, Zenon
  <2>3. gui' # "idle" => gui # "idle"
    BY <1>2, GuiMoves, Zenon
  <2>4. started \in Nat
    BY Numbers
  <2> QED BY <2>1, <2>2, <2>3, <2>4 DEF SessionInv
<1>3. CASE HandlerStep \/ Finished \/ UNCHANGED vars
  <2>1. UNCHANGED <<started, tool, reader, gui>>
    BY <1>3, HandlerFrame, Zenon
  <2>2. \A s \in Sessions : child[s] = "none" <=> child'[s] = "none"
    BY <1>3, ZenonT(40) DEF HandlerStep, Sigchld, Waitpid, Reap, CleanExit, Timeout,
          Finished, vars, childVars, TypeOK
  <2> QED BY <2>1, <2>2 DEF SessionInv
<1>4. ASSUME NEW s \in Sessions, ChildStep(s) PROVE SessionInv'
  <2>1. /\ UNCHANGED <<started, tool, reader, gui>>
        /\ \A c \in Sessions : child[c] = "none" <=> child'[c] = "none"
    <3>1. /\ UNCHANGED <<started, tool, reader, gui>>
          /\ \A c \in Sessions : c # s => child'[c] = child[c]
          /\ Moves(s)
      BY <1>4, ChildFrame, Zenon
    <3>2. child[s] # "none" /\ child'[s] # "none"
      BY <3>1 DEF Moves, Alive
    <3> QED BY <3>1, <3>2, Zenon
  <2> QED BY <2>1 DEF SessionInv
<1>5. ASSUME NEW s \in Sessions, ReaderStep(s) PROVE SessionInv'
  <2>1. /\ UNCHANGED <<started, tool, child, gui>>
        /\ \A c \in Sessions : reader'[c] # "none" => reader[c] # "none"
    BY <1>5, ReaderFrame
  <2> QED BY <2>1 DEF SessionInv
<1> QED BY <1>1, <1>2, <1>3, <1>4, <1>5 DEF Next, UserStep

(***************************************************************************)
(* One session at a time                                                   *)
(***************************************************************************)

\* One session at a time: the earlier ones have been reaped, the flag is set
\* from before the last one is executed until it has been reaped, and Start is
\* insensitive meanwhile.
OneInv ==
    /\ \A s \in Sessions : s < started => child[s] = "reaped"
    /\ sigchld =>
         started > 0 /\ child[started] = "zombie" /\ handler = "none"
    /\ handler = "reap" =>
         started > 0 /\ child[started] \in {"zombie", "reaped"}
    /\ handler = "wait" =>
         started > 0 /\ child[started] = "reaped" /\ pid = started
    /\ fdt = "up" /\ start_button =>
         started = 0 \/ child[started] = "reaped"
    /\ fdt = "up" /\ started > 0 =>
         (child[started] \in {"execing", "serving", "leaving", "zombie"} =>
            fs_mounted)
    /\ \A s \in Sessions : <<s, "KILL">> \in signals => fdt = "exited"

\* The child is prompt, and the user leaves the wizard's buttons alone while
\* Start is not sensitive.
Orderly == {"child", "again"} \subseteq prompt

\* Start is only sensitive when the last session has been reaped.
LEMMA StartKeepsOne ==
    ASSUME TypeInv, OneInv, Orderly, NEW t \in Tools, start_btn_handler(t)
    PROVE  OneInv'
<1>1. /\ started + 1 \in Sessions /\ started \in Nat /\ started' = started + 1
      /\ child' = [child EXCEPT ![started + 1] = "forked"]
      /\ UNCHANGED <<sigchld, handler, signals, fdt>>
      /\ fdt = "up" /\ handler = "none" /\ start_button /\ ~start_button'
  <2>1. "again" \in prompt
    BY DEF Orderly
  <2>2. /\ UNCHANGED <<sigchld, handler, signals, fdt>>
        /\ fdt = "up" /\ handler = "none" /\ start_button /\ ~start_button'
    BY <2>1, Zenon DEF start_btn_handler, StartPressed, GuiIdle, sigVars
  <2> QED BY <2>2, StartEffect, Zenon
<1>2. started = 0 \/ child[started] = "reaped"
  BY <1>1 DEF OneInv
<1>3. ~sigchld
  BY <1>1, <1>2 DEF OneInv
<1>4. \A s \in Sessions : s < started' => child'[s] = "reaped"
  BY <1>1, <1>2, StartEffect DEF OneInv, Sessions
<1>5. child'[started'] = "forked"
  BY <1>1, StartEffect, Zenon
<1> QED BY <1>1, <1>3, <1>4, <1>5 DEF OneInv

\* gui_idle makes Start sensitive only when no file system is mounted,
\* and the flag is set before the child can be overlooked.
LEMMA GuiKeepsOne ==
    ASSUME TypeInv, OneInv, Orderly,
           stop_btn_handler \/ terminate \/ ForkFails \/ GuiStep
    PROVE  OneInv'
<1>1. UNCHANGED <<started, child, fs_mounted, sigchld>>
  BY GuiFrame, Zenon
<1>2. /\ handler' \in {"none", handler}
      /\ handler' # "none" => pid' = pid
      /\ fdt' = "up" => fdt = "up"
  BY DEF stop_btn_handler, terminate, Exit, ForkFails, GuiStep, StorePid,
         RunTool, gui_idle, sigVars
<1>3. fdt' = "up" /\ start_button' =>
        start_button \/ (~fs_mounted /\ started = 0)
                     \/ (~fs_mounted /\ child[started] # "forked")
  <2>1. CASE gui_idle
    <3>1. started = 0 \/ started \in Sessions
      BY SomeStart DEF TypeInv, TypeOK, Sessions
    <3>2. \A s \in Sessions : child[s] # "forked"
      <4>1. "child" \in prompt
        BY DEF Orderly
      <4> QED BY <2>1, <4>1, Zenon DEF gui_idle
    <3>3. start_button' => ~fs_mounted
      BY <2>1, Zenon DEF gui_idle
    <3> QED BY <3>1, <3>2, <3>3
  <2>2. CASE stop_btn_handler \/ terminate \/ ForkFails \/ StorePid \/ RunTool
    BY <2>2, Zenon DEF stop_btn_handler, terminate, Exit, ForkFails, StorePid,
       RunTool, buttonVars
  <2> QED BY <2>1, <2>2 DEF GuiStep
<1>4. started > 0 /\ child[started] # "forked" /\ fdt = "up" /\ ~fs_mounted =>
        child[started] = "reaped"
  BY StartedIsSession DEF OneInv, TypeInv, TypeOK, SessionInv
<1>5. \A s \in Sessions :
        <<s, "KILL">> \in signals' =>
          <<s, "KILL">> \in signals \/ fdt' = "exited"
  BY DEF stop_btn_handler, StopTool, terminate, Exit, ForkFails, GuiStep,
         StorePid, RunTool, gui_idle, toolVars
<1>6. fdt' = "exited" \/ fdt' = fdt
  BY DEF stop_btn_handler, terminate, Exit, ForkFails, GuiStep, StorePid,
         RunTool, gui_idle
<1>7. started \in Nat
  BY SomeStart DEF TypeInv, TypeOK
<1> QED BY <1>1, <1>2, <1>3, <1>4, <1>5, <1>6, <1>7 DEF OneInv

\* childKilled reaps the last session, finds no other child and clears the
\* flag only then.
LEMMA HandlerKeepsOne ==
    ASSUME TypeInv, OneInv, HandlerStep \/ Finished \/ UNCHANGED vars
    PROVE  OneInv'
<1>1. UNCHANGED <<started, start_button, signals, fdt>>
  BY HandlerFrame, Zenon
<1>2. started \in Nat
  BY SomeStart DEF TypeInv, TypeOK
<1>3. CASE Sigchld
  BY <1>1, <1>2, <1>3 DEF Sigchld, childVars, OneInv
<1>4. CASE Waitpid
  <2>1. started \in Sessions /\ fdt = "up" /\ handler = "reap"
        /\ sigchld' = sigchld /\ ~sigchld
    BY <1>4, StartedIsSession DEF Waitpid, OneInv, TypeInv
  <2>2. ASSUME NEW s \in Sessions, child[s] = "zombie", Reap(s)
        PROVE  OneInv'
    <3>1. s = started
      BY <2>2, <1>2 DEF OneInv, TypeInv, SessionInv, Sessions
    <3>2. /\ child' = [child EXCEPT ![started] = "reaped"]
          /\ \/ handler' = "wait" /\ pid' = started
             \/ handler' = "reap"
      BY <2>1, <2>2, <3>1 DEF Reap
    <3>3. child'[started] = "reaped"
          /\ \A c \in Sessions : c # started => child'[c] = child[c]
      BY <3>2, <2>1 DEF TypeInv, TypeOK
    <3> QED BY <1>1, <1>2, <2>1, <3>2, <3>3 DEF OneInv
  <2>3. ASSUME \A s \in Sessions : child[s] # "zombie",
               WaitpidNone, UNCHANGED <<child, fs_mounted>>
        PROVE  OneInv'
    <3>1. child[started] = "reaped"
      BY <2>1, <2>3 DEF OneInv
    <3>2. \A s \in Sessions : ~Alive(s)
      BY <3>1, <1>2 DEF OneInv, TypeInv, SessionInv, Alive, Sessions
    <3>3. handler' = "none"
      BY <2>3, <3>2 DEF WaitpidNone
    <3> QED BY <1>1, <2>1, <2>3, <3>3 DEF OneInv
  <2> QED BY <1>4, <2>2, <2>3 DEF Waitpid
<1>5. CASE CleanExit \/ Timeout
  BY <1>1, <1>2, <1>5 DEF CleanExit, Timeout, childVars, OneInv
<1>6. CASE Finished \/ UNCHANGED vars
  <2>1. UNCHANGED <<started, child, sigchld, handler, pid, fdt, start_button,
                    fs_mounted, signals>>
    BY <1>6, Zenon DEF Finished, vars
  <2> QED BY <2>1, ZenonT(40) DEF OneInv
<1> QED BY <1>3, <1>4, <1>5, <1>6 DEF HandlerStep

\* The file system process that moves is the last one.
LEMMA ChildKeepsOne ==
    ASSUME TypeInv, OneInv, NEW s \in Sessions, ChildStep(s)
    PROVE  OneInv'
<1>1. /\ UNCHANGED <<started, handler, start_button, signals, fdt>>
      /\ \A c \in Sessions : c # s => child'[c] = child[c]
      /\ Moves(s)
      /\ sigchld' = (sigchld \/ child'[s] = "zombie")
  BY ChildFrame, Zenon DEF TypeInv
<1>2. /\ started \in Nat /\ s \in Nat /\ s > 0 /\ sigchld \in BOOLEAN
      /\ handler \in {"none", "reap", "wait"}
      /\ fdt \in {"up", "exited"}
  BY Numbers, FileKinds, Zenon DEF TypeInv, TypeOK
<1>3. Alive(s)
  BY <1>1 DEF Moves, Alive
<1>4. s = started
  BY <1>2, <1>3 DEF OneInv, TypeInv, SessionInv, Alive
<1>5. /\ handler = "none" /\ ~sigchld
      /\ fdt = "up" => ~start_button
  BY <1>2, <1>3, <1>4 DEF OneInv, Alive
<1>6. /\ sigchld' => child'[s] = "zombie"
      /\ fdt = "up" =>
           (child'[s] \in {"execing", "serving", "leaving", "zombie"} =>
              fs_mounted')
  BY <1>1, <1>2, <1>4, <1>5 DEF OneInv, Moves, Alive
<1> QED BY <1>1, <1>2, <1>4, <1>5, <1>6 DEF OneInv

\* The reader threads change nothing that OneInv speaks of.
LEMMA ReaderKeepsOne ==
    ASSUME TypeInv, OneInv, NEW r \in Sessions, ReaderStep(r)
    PROVE  OneInv'
<1>1. UNCHANGED <<fdt, started, signals, fs_mounted, start_button, child,
                  sigchld, handler, pid>>
  BY ReaderFrame, Zenon DEF TypeInv
<1> QED BY <1>1 DEF OneInv

\* The delays are chosen at the start.
LEMMA PromptIsFixed ==
    ASSUME TypeInv, [Next]_vars
    PROVE  prompt' = prompt
<1>1. ASSUME NEW t \in Tools, start_btn_handler(t) PROVE prompt' = prompt
  BY <1>1 DEF start_btn_handler
<1> QED BY <1>1, GuiFrame, HandlerFrame, ChildFrame, ReaderFrame
        DEF Next, UserStep, TypeInv

\* Every step keeps OneInv, in orderly behaviours.
LEMMA OneStep ==
    ASSUME TypeInv, Orderly, OneInv, [Next]_vars
    PROVE  OneInv'
BY StartKeepsOne, GuiKeepsOne, HandlerKeepsOne, ChildKeepsOne,
   ReaderKeepsOne DEF Next, UserStep

(***************************************************************************)
(* Who reads what                                                          *)
(***************************************************************************)

\* Also the tool and the readers are prompt.
Quiet == Orderly /\ {"tool", "reader"} \subseteq prompt

\* Each file system writes to the FIFO of its session or to nothing, and each
\* reader reads the FIFO of its session.  A reader of an earlier session is
\* finished, or waits for a writer that never came and never will.
LogInv ==
    \A s \in Sessions :
        /\ log[s] \in {Nothing, s}
        /\ child[s] \in {"serving", "leaving"} => log[s] = s
        /\ child[s] \in {"none", "forked", "execing"} => log[s] = Nothing
        /\ child[s] \in {"none", "forked", "execing", "serving"} =>
             ending[s] = "no"
        /\ reader[s] = "reading" => fifo[s] = s
        /\ s # started =>
             \/ reader[s] \in {"none", "done"}
             \/ reader[s] = "reading" /\ log[s] = Nothing

\* The last session: while its file system has not opened the FIFO, the name
\* refers to it from the moment its reader is there.
LastInv ==
    started > 0 =>
        /\ child[started] \in {"forked", "execing", "serving"} =>
             reader[started] \in {"none", "opening", "reading"}
        /\ reader[started] = "opening" => name[tool[started]] = started
        /\ reader[started] = "reading" /\
           child[started] \in {"forked", "execing"} =>
             name[tool[started]] = started
        /\ gui # "idle" => reader[started] = "none" /\ log[started] = Nothing
        /\ fdt = "up" /\ reader[started] \in {"none", "opening"} =>
             ending[started] = "no"

ReadInv == LogInv /\ LastInv

\* When Start is pressed the reader of the last session is done with its
\* FIFO, or waits for a writer that never came.
LEMMA StartKeepsRead ==
    ASSUME TypeInv, OneInv, ReadInv, Quiet, NEW t \in Tools,
           start_btn_handler(t)
    PROVE  ReadInv'
<1> DEFINE n == started + 1
<1>1. /\ n \in Sessions /\ started \in Nat /\ started' = n
      /\ \A s \in Sessions : s # n => child'[s] = child[s]
      /\ child'[n] = "forked" /\ child[n] = "none" /\ reader[n] = "none"
  BY StartEffect, Zenon
<1>2. UNCHANGED <<log, ending, reader, fifo, name>>
  BY Zenon DEF start_btn_handler, readerVars
<1>3. /\ \A s \in Sessions : ~Busy(s)
      /\ start_button /\ fdt = "up"
  <2>1. "reader" \in prompt /\ "again" \in prompt
    BY DEF Quiet, Orderly
  <2> QED BY <2>1, Zenon DEF start_btn_handler, StartPressed, GuiIdle
<1>4. ASSUME started > 0
      PROVE  \/ reader[started] \in {"none", "done"}
             \/ reader[started] = "reading" /\ log[started] = Nothing
  <2>1. started \in Sessions /\ child[started] = "reaped"
    BY <1>1, <1>3, <1>4, StartedIsSession DEF OneInv, TypeInv
  <2>2. reader[started] \in {"none", "opening", "reading", "unlinking", "done"}
    BY <2>1 DEF TypeInv, TypeOK
  <2>3. /\ reader[started] \notin {"opening", "unlinking"}
        /\ reader[started] = "reading" => log[started] # fifo[started]
    BY <1>3, <2>1 DEF Busy, Dead
  <2>4. /\ log[started] \in {Nothing, started}
        /\ reader[started] = "reading" => fifo[started] = started
    BY <2>1 DEF ReadInv, LogInv
  <2> QED BY <2>2, <2>3, <2>4
<1>5. LogInv'
  <2> SUFFICES ASSUME NEW s \in Sessions
               PROVE  /\ log[s] \in {Nothing, s}
                      /\ child'[s] \in {"serving", "leaving"} => log[s] = s
                      /\ child'[s] \in {"none", "forked", "execing"} =>
                           log[s] = Nothing
                      /\ child'[s] \in {"none", "forked", "execing",
                                        "serving"} => ending[s] = "no"
                      /\ reader[s] = "reading" => fifo[s] = s
                      /\ s # n =>
                           \/ reader[s] \in {"none", "done"}
                           \/ reader[s] = "reading" /\ log[s] = Nothing
    BY <1>1, <1>2 DEF LogInv
  <2> HIDE DEF n
  <2>1. CASE s = n
    BY <1>1, <2>1 DEF ReadInv, LogInv
  <2>2. CASE s # n
    BY <1>1, <1>4, <2>2, FileKinds DEF ReadInv, LogInv
  <2> QED BY <2>1, <2>2
<1>6. LastInv'
  <2>1. log[n] = Nothing /\ ending[n] = "no"
    BY <1>1 DEF ReadInv, LogInv
  <2> HIDE DEF n
  <2> QED BY <1>1, <1>2, <2>1 DEF LastInv
<1> QED BY <1>5, <1>6 DEF ReadInv

\* startDebugger and its like make the FIFO together with its reader.
LEMMA GuiKeepsRead ==
    ASSUME TypeInv, ReadInv,
           stop_btn_handler \/ terminate \/ ForkFails \/ GuiStep
    PROVE  ReadInv'
<1>1. UNCHANGED <<started, tool, child, log, ending>>
  BY GuiFrame, ZenonT(40)
<1>2. CASE Exit /\ terminate
  <2>1. /\ \A s \in Sessions : reader'[s] = "none"
        /\ gui' = "idle" /\ fdt' = "exited"
    BY <1>2 DEF Exit
  <2>2. started > 0 => started \in Sessions
    BY StartedIsSession DEF TypeInv
  <2> QED BY <1>1, <2>1, <2>2 DEF ReadInv, LogInv, LastInv
<1>3. CASE RunTool
  <2>1. /\ started \in Sessions /\ started > 0 /\ gui # "idle" /\ fdt = "up"
    BY <1>3, StartedIsSession DEF RunTool, TypeInv, SessionInv
  <2>2. tool[started] \in Tools /\ started \in Nat
    BY <2>1, SomeStart DEF TypeInv, SessionInv, TypeOK
  <2>3. /\ name'[tool[started]] = started
        /\ reader'[started] = "opening"
        /\ \A s \in Sessions : s # started => reader'[s] = reader[s]
        /\ fifo' = fifo /\ gui' = "idle"
    BY <1>3, <2>1, <2>2 DEF RunTool, TypeInv, TypeOK
  <2>4. LogInv'
    BY <1>1, <2>1, <2>3 DEF ReadInv, LogInv
  <2>5. ending[started] = "no"
    BY <2>1 DEF ReadInv, LastInv
  <2> QED BY <1>1, <2>3, <2>4, <2>5 DEF ReadInv, LastInv
<1>4. CASE ~(Exit /\ terminate) /\ ~RunTool
  <2>1. /\ UNCHANGED <<reader, fifo, name, fdt>>
        /\ gui' # "idle" => gui # "idle"
    BY <1>4 DEF stop_btn_handler, terminate, ForkFails, GuiStep, StorePid,
                gui_idle, readerVars
  <2> QED BY <1>1, <2>1 DEF ReadInv, LogInv, LastInv
<1> QED BY <1>2, <1>3, <1>4

\* Reaping a process changes nothing for the readers.
LEMMA HandlerKeepsRead ==
    ASSUME TypeInv, ReadInv, HandlerStep \/ Finished \/ UNCHANGED vars
    PROVE  ReadInv'
<1>1. UNCHANGED <<fdt, gui, started, tool, log, ending, reader, fifo, name>>
  BY HandlerFrame, Zenon
<1>2. \A s \in Sessions : child'[s] = child[s] \/ child'[s] = "reaped"
  BY Zenon DEF HandlerStep, Sigchld, Waitpid, Reap, CleanExit, Timeout,
     Finished,
         vars, childVars, TypeInv, TypeOK
<1>3. started > 0 => started \in Sessions
  BY StartedIsSession DEF TypeInv
<1>4. LogInv'
  BY <1>1, <1>2, Zenon DEF ReadInv, LogInv
<1>5. LastInv'
  BY <1>1, <1>2, <1>3, Zenon DEF ReadInv, LastInv
<1> QED BY <1>4, <1>5 DEF ReadInv

\* Only the last session's file system runs.
LEMMA LastRuns ==
    ASSUME TypeInv, OneInv, NEW s \in Sessions, Alive(s)
    PROVE  s = started /\ started \in Nat /\ started > 0
<1>1. started \in Nat /\ s \in Nat /\ s > 0
  BY Numbers, FileKinds DEF TypeInv
<1> QED BY <1>1 DEF OneInv, TypeInv, SessionInv, Alive

\* The file system finds the FIFO of its own session under the name, and
\* removes the name only once the reader holds the FIFO.
LEMMA ChildKeepsRead ==
    ASSUME TypeInv, OneInv, ReadInv, Quiet, NEW s \in Sessions, ChildStep(s)
    PROVE  ReadInv'
<1>1. /\ UNCHANGED <<fdt, gui, started, tool, reader, fifo>>
      /\ \A c \in Sessions : c # s =>
            child'[c] = child[c] /\ log'[c] = log[c] /\ ending'[c] = ending[c]
      /\ Moves(s)
  BY ChildFrame, Zenon DEF TypeInv
<1>2. Alive(s)
  BY <1>1, Zenon DEF Moves, Alive
<1>3. s = started /\ started \in Nat /\ started > 0
  BY <1>2, LastRuns
<1>4. s # Nothing /\ s # RegularFile /\ tool[s] \in Tools
  BY <1>3, FileKinds DEF TypeInv, SessionInv
<1>5. CASE OpenLog(s)
  <2>1. /\ child[s] = "execing" /\ reader[s] # "none"
    BY <1>5 DEF OpenLog, Quiet
  <2>2. name[tool[s]] = s
    BY <1>3, <2>1 DEF ReadInv, LastInv
  <2>3. /\ log' = [log EXCEPT ![s] = s] /\ ending' = ending
        /\ name' = [name EXCEPT ![tool[s]] = s]
        /\ child' = [child EXCEPT ![s] = "serving"]
    BY <1>4, <1>5, <2>2 DEF OpenLog
  <2>4. /\ log'[s] = s /\ child'[s] = "serving" /\ name'[tool[s]] = s
        /\ ending'[s] = "no"
    BY <1>4, <2>1, <2>3 DEF TypeInv, TypeOK, ReadInv, LogInv
  <2>5. gui = "idle"
    BY <1>3, <2>1, Zenon DEF ReadInv, LastInv
  <2>6. LogInv'
    <3> SUFFICES ASSUME NEW c \in Sessions
                 PROVE  /\ log'[c] \in {Nothing, c}
                        /\ child'[c] \in {"serving", "leaving"} => log'[c] = c
                        /\ child'[c] \in {"none", "forked", "execing"} =>
                             log'[c] = Nothing
                        /\ child'[c] \in {"none", "forked", "execing",
                                          "serving"} => ending'[c] = "no"
                        /\ reader[c] = "reading" => fifo[c] = c
                        /\ c # started =>
                             \/ reader[c] \in {"none", "done"}
                             \/ reader[c] = "reading" /\ log'[c] = Nothing
      BY <1>1, Zenon DEF LogInv
    <3>1. CASE c = s
      BY <1>3, <2>4, <3>1, Zenon DEF ReadInv, LogInv
    <3>2. CASE c # s
      BY <1>1, <3>2, Zenon DEF ReadInv, LogInv
    <3> QED BY <3>1, <3>2, Zenon
  <2>7. LastInv'
    BY <1>1, <1>3, <2>1, <2>4, <2>5, Zenon DEF ReadInv, LastInv
  <2> QED BY <2>6, <2>7 DEF ReadInv
<1>6. CASE TestsEnd(s)
  <2>1. log[s] = s /\ log' = log
    BY <1>6, Zenon DEF TestsEnd, ReadInv, LogInv
  <2>2. reader[s] = "reading" /\ fifo[s] = s
    <3>1. LogOpen(s)
      BY <1>6, Zenon DEF TestsEnd
    <3>2. PICK c \in Sessions : reader[c] = "reading" /\ fifo[c] = s
      BY <1>4, <2>1, <3>1 DEF LogOpen
    <3>3. c = s
      BY <3>2, ZenonT(40) DEF ReadInv, LogInv
    <3> QED BY <3>2, <3>3
  <2>3. child'[s] = "leaving"
    BY <1>6 DEF TestsEnd, TypeInv, TypeOK
  <2>4. LogInv'
    BY <1>1, <1>3, <2>1, <2>2, <2>3 DEF ReadInv, LogInv
  <2>5. LastInv'
    BY <1>1, <1>3, <2>2, <2>3, Zenon DEF ReadInv, LastInv
  <2> QED BY <2>4, <2>5 DEF ReadInv
<1>7. CASE ~OpenLog(s) /\ ~TestsEnd(s)
  <2>1. UNCHANGED <<log, ending, name>>
    BY <1>7, Zenon DEF ChildStep, SetMounted, ExecFails, ObeySigint, Leave,
                       Crash
  <2>2. \/ child[s] = "forked" /\ child'[s] = "execing"
        \/ child[s] = "serving" /\ child'[s] = "leaving"
        \/ child'[s] = "zombie"
    BY <1>7, ZenonT(40) DEF ChildStep, SetMounted, ExecFails, ObeySigint, Leave,
       Crash,
                Ends, TypeInv, TypeOK
  <2>3. LogInv'
    BY <1>1, <1>3, <2>1, <2>2 DEF ReadInv, LogInv
  <2>4. LastInv'
    BY <1>1, <1>3, <2>1, <2>2 DEF ReadInv, LastInv
  <2> QED BY <2>3, <2>4 DEF ReadInv
<1> QED BY <1>5, <1>6, <1>7

\* Only the reader of the last session has anything to do.
LEMMA ReaderIsOfLast ==
    ASSUME TypeInv, ReadInv, NEW r \in Sessions,
           reader[r] \in {"opening", "unlinking"}
             \/ (reader[r] = "reading" /\ \E c \in Sessions : log[c] = fifo[r])
    PROVE  r = started /\ started > 0
<1>1. reader[r] = "reading" /\ (\E c \in Sessions : log[c] = fifo[r]) =>
        log[r] = r
  BY FileKinds DEF ReadInv, LogInv
<1>2. r = started
  BY <1>1, FileKinds DEF ReadInv, LogInv
<1> QED BY <1>2, FileKinds

\* A reader opens the FIFO of its own session, reads only its own writer, and
\* removes the name only when that writer has ended.
LEMMA ReaderKeepsRead ==
    ASSUME TypeInv, ReadInv, NEW r \in Sessions, ReaderStep(r)
    PROVE  ReadInv'
<1>1. UNCHANGED <<fdt, gui, started, tool, child, log>> /\ fdt = "up"
      /\ \A c \in Sessions : c # r =>
            reader'[c] = reader[c] /\ fifo'[c] = fifo[c]
  BY ReaderFrame DEF TypeInv
<1>2. r # Nothing /\ r # RegularFile /\ r \in Nat
  BY FileKinds
<1>3. CASE ReaderOpen(r)
  <2>1. reader[r] = "opening" /\ r = started /\ started > 0
    BY <1>3, ReaderIsOfLast DEF ReaderOpen
  <2>2. name[tool[r]] = r
    BY <2>1 DEF ReadInv, LastInv
  <2>3. /\ reader'[r] = "reading" /\ fifo'[r] = r
        /\ UNCHANGED <<name, ending>>
    BY <1>2, <1>3, <2>2 DEF ReaderOpen, TypeInv, TypeOK, childVars
  <2>4. gui = "idle"
    BY <2>1 DEF ReadInv, LastInv
  <2>5. LogInv'
    BY <1>1, <2>1, <2>3 DEF ReadInv, LogInv
  <2>6. LastInv'
    BY <1>1, <2>1, <2>2, <2>3, <2>4 DEF ReadInv, LastInv
  <2> QED BY <2>5, <2>6 DEF ReadInv
<1>4. CASE HandleEnd(r)
  <2>1. PICK c \in Sessions :
          /\ log[c] = fifo[r] /\ ending[c] = "sent"
          /\ ending' = [ending EXCEPT ![c] = "read"]
    BY <1>4, ZenonT(40) DEF HandleEnd
  <2>2. reader[r] = "reading" /\ UNCHANGED <<reader, fifo, name>>
    BY <1>4 DEF HandleEnd, readerVars
  <2>3. r = started /\ started > 0
    BY <2>1, <2>2, ReaderIsOfLast
  <2>4. c = r
    BY <1>2, <2>1, <2>2 DEF ReadInv, LogInv
  <2>5. \A d \in Sessions : d # r => ending'[d] = ending[d]
    BY <2>1, <2>4 DEF TypeInv, TypeOK
  <2>6. LogInv'
    BY <1>1, <2>1, <2>2, <2>4, <2>5, ZenonT(40) DEF ReadInv, LogInv
  <2>7. LastInv'
    BY <1>1, <2>2, <2>3, Zenon DEF ReadInv, LastInv
  <2> QED BY <2>6, <2>7 DEF ReadInv
<1>5. CASE ReaderEof(r)
  <2>1. /\ reader[r] = "reading" /\ fifo[r] = r
        /\ \E c \in Sessions : log[c] = fifo[r]
        /\ \A c \in Sessions : log[c] = fifo[r] =>
             ending[c] = "read" \/ (Dead(c) /\ ending[c] = "no")
    BY <1>2, <1>5 DEF ReaderEof, ReadInv, LogInv
  <2>2. r = started /\ started > 0
    BY <2>1, ReaderIsOfLast
  <2>3. log[r] = r
    BY <1>2, <2>1 DEF ReadInv, LogInv
  <2>4. child[r] \notin {"none", "forked", "execing", "serving"}
    BY <2>1, <2>3, Zenon DEF ReadInv, LogInv, Dead
  <2>5. reader'[r] = "unlinking" /\ UNCHANGED <<fifo, name, ending>>
    BY <1>5, Zenon DEF ReaderEof, TypeInv, TypeOK, childVars
  <2>6. gui = "idle"
    BY <2>1, <2>2, Zenon DEF ReadInv, LastInv
  <2>7. LogInv'
    BY <1>1, <2>2, <2>5 DEF ReadInv, LogInv
  <2>8. LastInv'
    BY <1>1, <2>2, <2>4, <2>5, <2>6 DEF ReadInv, LastInv
  <2> QED BY <2>7, <2>8 DEF ReadInv
<1>6. CASE ReaderUnlink(r)
  <2>1. reader[r] = "unlinking" /\ r = started /\ started > 0
    BY <1>6, ReaderIsOfLast DEF ReaderUnlink
  <2>2. reader'[r] = "done" /\ UNCHANGED ending
    BY <1>6 DEF ReaderUnlink, TypeInv, TypeOK, childVars
  <2>3. gui = "idle" /\ child[r] \notin {"forked", "execing", "serving"}
    BY <2>1 DEF ReadInv, LastInv
  <2>4. LogInv'
    BY <1>1, <2>1, <2>2 DEF ReadInv, LogInv
  <2>5. LastInv'
    BY <1>1, <2>1, <2>2, <2>3, Zenon DEF ReadInv, LastInv
  <2> QED BY <2>4, <2>5 DEF ReadInv
<1> QED BY <1>3, <1>4, <1>5, <1>6 DEF ReaderStep

\* Every step keeps ReadInv.
LEMMA ReadStep ==
    ASSUME TypeInv, OneInv, Quiet, ReadInv, [Next]_vars
    PROVE  ReadInv'
BY StartKeepsRead, GuiKeepsRead, HandlerKeepsRead, ChildKeepsRead,
   ReaderKeepsRead DEF Next, UserStep

(***************************************************************************)
(* Who is expected, and who is reported                                    *)
(***************************************************************************)

\* The process that is expected has neither been told to stop nor had its
\* __END read; before its id is stored it is not expected at all.
PidInv ==
    /\ fuse_pid <= started
    /\ \A s \in Sessions :
          /\ <<s, "INT">> \in signals => fuse_pid # s /\ s <= started
          /\ ending[s] = "read" => fuse_pid # s
    /\ gui = "fork" => fuse_pid # started /\ ~Signalled(started)

\* A process that ended well was told to or has sent __END, and the processes
\* that were reported did not end well.
CauseInv ==
    /\ \A s \in Sessions :
          /\ child[s] = "leaving" \/ cause[s] = "done" =>
               ending[s] # "no" \/ Signalled(s)
          /\ Dead(s) <=> cause[s] # "none"
    /\ \A s \in reported : s \in Sessions /\ cause[s] \in {"exec", "crash"}

\* A new session is not expected yet, and nobody has signalled it.
LEMMA StartKeepsPid ==
    ASSUME TypeInv, OneInv, PidInv, NEW t \in Tools, start_btn_handler(t)
    PROVE  PidInv'
<1>1. /\ started' = started + 1 /\ started \in Nat /\ fuse_pid \in Int
      /\ started + 1 \in Sessions /\ fdt = "up"
      /\ UNCHANGED <<fuse_pid, signals, ending>>
  <2>1. started \in Nat /\ fuse_pid \in Int
    BY Numbers DEF TypeInv
  <2>2. /\ started < MaxStarts /\ started' = started + 1 /\ fdt = "up"
        /\ UNCHANGED <<fuse_pid, signals, ending>>
    BY Zenon DEF start_btn_handler, GuiIdle
  <2> QED BY <2>1, <2>2, SomeStart DEF Sessions
<1>2. \A g \in {"INT", "KILL"} : <<started + 1, g>> \notin signals
  <2>1. <<started + 1, "KILL">> \notin signals
    BY <1>1 DEF OneInv
  <2>2. <<started + 1, "INT">> \notin signals
    BY <1>1 DEF PidInv
  <2> QED BY <2>1, <2>2
<1>3. fuse_pid <= started' /\ fuse_pid # started'
  BY <1>1 DEF PidInv
<1>4. ~Signalled(started)'
  BY <1>1, <1>2 DEF Signalled
<1>5. \A s \in Sessions :
          /\ <<s, "INT">> \in signals => fuse_pid # s /\ s <= started'
          /\ ending[s] = "read" => fuse_pid # s
  <2> SUFFICES ASSUME NEW s \in Sessions
               PROVE  /\ <<s, "INT">> \in signals =>
                           fuse_pid # s /\ s <= started + 1
                      /\ ending[s] = "read" => fuse_pid # s
    BY <1>1, Zenon
  <2>1. s \in Nat
    BY FileKinds
  <2> QED BY <1>1, <2>1 DEF PidInv
<1> QED BY <1>1, <1>3, <1>4, <1>5 DEF PidInv

\* A new session has not ended.
LEMMA StartKeepsCause ==
    ASSUME TypeInv, CauseInv, NEW t \in Tools, start_btn_handler(t)
    PROVE  CauseInv'
<1>1. /\ started + 1 \in Sessions
      /\ child' = [child EXCEPT ![started + 1] = "forked"]
      /\ UNCHANGED <<signals, ending, cause, reported>>
      /\ child[started + 1] = "none"
  BY StartEffect, Zenon DEF start_btn_handler
<1>2. \A s \in Sessions :
        child'[s] = child[s] \/ (child[s] = "none" /\ child'[s] = "forked")
  BY <1>1 DEF TypeInv, TypeOK
<1> QED BY <1>1, <1>2 DEF CauseInv, Dead, Signalled

\* What Stop and the end do to the process that is expected.
LEMMA Signalling ==
    ASSUME stop_btn_handler \/ terminate \/ ForkFails \/ GuiStep
    PROVE  \/ UNCHANGED <<fuse_pid, signals, fdt>>
           \/ fuse_pid' = 0 /\ fuse_pid = 0 /\ UNCHANGED signals
           \/ /\ fuse_pid' = 0 /\ fuse_pid # 0
              /\ signals' = signals \cup {<<fuse_pid, "INT">>}
              /\ fdt' = fdt
           \/ /\ fuse_pid' = 0 /\ fuse_pid # 0
              /\ signals' = signals \cup {<<fuse_pid, "KILL">>}
              /\ fdt' = "exited"
           \/ /\ ForkFails /\ fuse_pid' = -1 /\ UNCHANGED <<signals, fdt>>
           \/ /\ StorePid /\ fuse_pid' = started /\ UNCHANGED <<signals, fdt>>
<1>1. CASE stop_btn_handler
  BY <1>1 DEF stop_btn_handler, StopTool
<1>2. CASE terminate
  BY <1>2 DEF terminate, StopTool, Exit
<1>3. CASE ForkFails \/ GuiStep
  BY <1>3, Zenon DEF ForkFails, GuiStep, StorePid, RunTool, gui_idle, toolVars
<1> QED BY <1>1, <1>2, <1>3

\* A process that is signalled is forgotten in the same step.
LEMMA GuiKeepsPid ==
    ASSUME TypeInv, ReadInv, PidInv,
           stop_btn_handler \/ terminate \/ ForkFails \/ GuiStep
    PROVE  PidInv'
<1>1. UNCHANGED <<started, ending>>
  BY GuiFrame, Zenon
<1>2. fuse_pid \in Int /\ started \in Nat
  BY Numbers DEF TypeInv
<1>3. gui' = "fork" => gui = "fork" /\ ~ForkFails /\ ~StorePid
  BY DEF stop_btn_handler, terminate, Exit, ForkFails, GuiStep, StorePid,
         RunTool, gui_idle, GuiIdle
<1>4. CASE StorePid
  <2>1. /\ fuse_pid' = started /\ signals' = signals /\ gui = "fork"
        /\ gui' = "tool" /\ fdt = "up"
    BY <1>4 DEF StorePid, toolVars
  <2>2. started \in Sessions /\ started > 0
    BY <2>1, StartedIsSession DEF TypeInv, SessionInv
  <2>3. ending[started] = "no" /\ <<started, "INT">> \notin signals
    BY <2>1, <2>2 DEF ReadInv, LastInv, PidInv, Signalled
  <2> QED BY <1>1, <1>2, <2>1, <2>3 DEF PidInv
<1>5. CASE fuse_pid' = 0 /\ fuse_pid # 0
  <2>1. \A s \in Sessions : \A g \in {"INT", "KILL"} :
          <<s, g>> \in signals' => <<s, g>> \in signals \/ s = fuse_pid
    <3>1. CASE signals' = signals \cup {<<fuse_pid, "INT">>}
      BY <3>1
    <3>2. CASE signals' = signals \cup {<<fuse_pid, "KILL">>}
      BY <3>2
    <3>3. CASE signals' = signals
      BY <3>3
    <3> QED BY <1>5, <3>1, <3>2, <3>3, Signalling
  <2>2. \A s \in Sessions : s # 0
    BY FileKinds
  <2>3. gui = "fork" => started \in Sessions
    BY StartedIsSession DEF TypeInv, SessionInv
  <2>4. gui' = "fork" => ~Signalled(started)'
    BY <1>1, <1>3, <2>1, <2>3 DEF PidInv, Signalled
  <2>5. \A s \in Sessions : <<s, "INT">> \in signals' => s <= started
    BY <1>2, <2>1, FileKinds, Zenon DEF PidInv
  <2>6. gui' = "fork" => started # 0
    BY <1>3 DEF TypeInv, SessionInv
  <2> QED BY <1>1, <1>2, <1>5, <2>2, <2>4, <2>5, <2>6 DEF PidInv
<1>6. CASE \/ UNCHANGED <<fuse_pid, signals>>
           \/ fuse_pid' = 0 /\ fuse_pid = 0 /\ UNCHANGED signals
  BY <1>1, <1>2, <1>3, <1>6 DEF PidInv, Signalled
<1>7. CASE ForkFails /\ fuse_pid' = -1 /\ UNCHANGED signals
  <2>1. \A s \in Sessions : s # -1
    BY FileKinds
  <2> QED BY <1>1, <1>2, <1>3, <1>7, <2>1 DEF PidInv, Signalled
<1> QED BY <1>4, <1>5, <1>6, <1>7, Signalling

\* The GUI ends no process itself, and takes no signal back.
LEMMA GuiKeepsCause ==
    ASSUME CauseInv,
           stop_btn_handler \/ terminate \/ ForkFails \/ GuiStep
    PROVE  CauseInv'
<1>1. UNCHANGED <<child, cause, ending, reported>>
  BY GuiFrame, Zenon
<1>2. signals \subseteq signals'
  BY Signalling
<1> QED BY <1>1, <1>2 DEF CauseInv, Dead, Signalled

\* childKilled only ever forgets the expected process.
LEMMA HandlerKeepsPid ==
    ASSUME TypeInv, PidInv, HandlerStep \/ Finished \/ UNCHANGED vars
    PROVE  PidInv'
<1>1. UNCHANGED <<gui, started, ending, signals>>
  BY HandlerFrame, Zenon
<1>2. fuse_pid' \in {0, fuse_pid}
  BY Zenon DEF HandlerStep, Sigchld, Waitpid, CleanExit, Timeout, Finished,
     vars,
         toolVars
<1>3. fuse_pid \in Int /\ started \in Nat
  BY Numbers DEF TypeInv
<1>4. \A s \in Sessions : s # 0
  BY FileKinds
<1>5. gui = "fork" => started # 0
  BY DEF TypeInv, SessionInv
<1> QED BY <1>1, <1>2, <1>3, <1>4, <1>5 DEF PidInv, Signalled

\* childKilled reports the process only when it is still expected: it was
\* not told to stop, and its __END has not been sent.
LEMMA HandlerKeepsCause ==
    ASSUME TypeInv, OneInv, PidInv, CauseInv, Quiet,
           HandlerStep \/ Finished \/ UNCHANGED vars
    PROVE  CauseInv'
<1>1. UNCHANGED <<cause, ending, signals>>
  BY HandlerFrame, Zenon
<1>2. \A s \in Sessions :
        child'[s] = child[s] \/ (child[s] = "zombie" /\ child'[s] = "reaped")
  BY ZenonT(40) DEF HandlerStep, Sigchld, Waitpid, Reap, CleanExit, Timeout,
     Finished,
         vars, childVars, TypeInv, TypeOK
<1>3. \A s \in reported' : s \in Sessions /\ cause[s] \in {"exec", "crash"}
  <2>1. CASE Timeout
    <3>1. /\ handler = "wait" /\ pid = fuse_pid /\ fdt = "up"
          /\ \A s \in Sessions : ending[s] # "sent"
          /\ reported' = reported \cup {pid}
      BY <2>1, Zenon DEF Timeout, Quiet
    <3>2. /\ pid = started /\ started \in Sessions
          /\ child[started] = "reaped"
      BY <3>1, StartedIsSession DEF OneInv, TypeInv
    <3>3. /\ ending[started] = "no" /\ ~Signalled(started)
          /\ cause[started] # "none"
      BY <3>1, <3>2 DEF OneInv, PidInv, CauseInv, Signalled, Dead, TypeInv,
                        TypeOK
    <3>4. cause[started] \in {"exec", "crash"}
      BY <3>2, <3>3, Zenon DEF CauseInv, TypeInv, TypeOK
    <3> QED BY <3>1, <3>2, <3>4 DEF CauseInv
  <2>2. CASE ~Timeout
    <3>1. reported' = reported
      BY <2>2, Zenon DEF HandlerStep, Sigchld, Waitpid, CleanExit, Finished,
                         vars
    <3> QED BY <3>1, Zenon DEF CauseInv
  <2> QED BY <2>1, <2>2
<1> QED BY <1>1, <1>2, <1>3, Zenon DEF CauseInv, Dead, Signalled

\* A file system process does not touch fuse_pid, nor read its own __END.
LEMMA ChildKeepsPid ==
    ASSUME TypeInv, PidInv, NEW s \in Sessions, ChildStep(s)
    PROVE  PidInv'
<1>1. UNCHANGED <<gui, started, fuse_pid, signals>>
  BY ChildFrame, Zenon DEF TypeInv
<1>2. \A c \in Sessions : ending'[c] = "read" => ending[c] = "read"
  BY ZenonT(40) DEF ChildStep, SetMounted, ExecFails, OpenLog, TestsEnd, ObeySigint,
         Leave, Crash, TypeInv, TypeOK
<1> QED BY <1>1, <1>2 DEF PidInv, Signalled

\* A process that leaves was told to or has sent __END; one that cannot be
\* executed reports itself.
LEMMA ChildKeepsCause ==
    ASSUME TypeInv, OneInv, CauseInv, NEW s \in Sessions, ChildStep(s)
    PROVE  CauseInv'
<1>1. /\ UNCHANGED signals
      /\ \A c \in Sessions : c # s =>
            /\ child'[c] = child[c] /\ cause'[c] = cause[c]
            /\ ending'[c] = ending[c]
      /\ Moves(s)
  BY ChildFrame, Zenon DEF TypeInv
<1>2. cause[s] = "none" /\ s \notin reported
  BY <1>1, Zenon DEF CauseInv, Moves, Alive, Dead
<1>3. /\ child'[s] = "zombie" <=> cause'[s] # "none"
      /\ child'[s] = "leaving" \/ cause'[s] = "done" =>
           ending'[s] # "no" \/ Signalled(s)
  <2>1. CASE SetMounted(s) \/ OpenLog(s)
    <3>1. child'[s] \in {"execing", "serving"} /\ cause' = cause
      BY <2>1 DEF SetMounted, OpenLog, TypeInv, TypeOK
    <3> QED BY <1>2, <3>1
  <2>2. CASE TestsEnd(s)
    <3>1. child'[s] = "leaving" /\ ending'[s] = "sent" /\ cause' = cause
      BY <2>2, Zenon DEF TestsEnd, TypeInv, TypeOK
    <3> QED BY <1>2, <3>1, Zenon
  <2>3. CASE ObeySigint(s)
    <3>1. child'[s] = "leaving" /\ Signalled(s) /\ cause' = cause
      BY <2>3, Zenon DEF ObeySigint, Signalled, TypeInv, TypeOK
    <3> QED BY <1>2, <3>1
  <2>4. CASE ExecFails(s) \/ Crash(s)
    <3>1. child'[s] = "zombie" /\ cause'[s] \in {"exec", "crash"}
      BY <2>4, ZenonT(40) DEF ExecFails, Crash, Ends, TypeInv, TypeOK
    <3> QED BY <3>1
  <2>5. CASE Leave(s)
    <3>1. /\ child'[s] = "zombie" /\ cause'[s] = "done" /\ ending' = ending
          /\ child[s] = "leaving" \/ Signalled(s)
      BY <2>5, Zenon DEF Leave, Ends, Signalled, TypeInv, TypeOK
    <3> QED BY <3>1, Zenon DEF CauseInv
  <2> QED BY <2>1, <2>2, <2>3, <2>4, <2>5, Zenon DEF ChildStep
<1>4. reported' = reported
        \/ (reported' = reported \cup {s} /\ cause'[s] = "exec")
  <2>1. CASE ExecFails(s)
    BY <2>1 DEF ExecFails, Ends, TypeInv, TypeOK
  <2>2. CASE ~ExecFails(s)
    BY <2>2, Zenon DEF ChildStep, SetMounted, OpenLog, TestsEnd, ObeySigint,
       Leave, Crash
  <2> QED BY <2>1, <2>2
<1>5. \A c \in reported' : c \in Sessions /\ cause'[c] \in {"exec", "crash"}
  BY <1>1, <1>2, <1>4, Zenon DEF CauseInv
<1>6. \A c \in Sessions :
        /\ child'[c] = "leaving" \/ cause'[c] = "done" =>
             ending'[c] # "no" \/ Signalled(c)'
        /\ Dead(c)' <=> cause'[c] # "none"
  BY <1>1, <1>3, Zenon DEF CauseInv, Signalled, Dead, Moves
<1> QED BY <1>5, <1>6, Zenon DEF CauseInv

\* Reading __END forgets the process.
LEMMA ReaderKeepsPid ==
    ASSUME TypeInv, PidInv, NEW r \in Sessions, ReaderStep(r)
    PROVE  PidInv'
<1>1. /\ UNCHANGED <<gui, started, signals>> /\ fuse_pid' \in {0, fuse_pid}
  BY ReaderFrame, Zenon DEF TypeInv
<1>2. fuse_pid' = 0 \/ ending' = ending
  BY Zenon DEF ReaderStep, ReaderOpen, HandleEnd, ReaderEof, ReaderUnlink,
     childVars
<1>3. fuse_pid \in Int /\ started \in Nat
  BY Numbers DEF TypeInv
<1>4. \A s \in Sessions : s # 0
  BY FileKinds
<1>5. gui = "fork" => started # 0
  BY DEF TypeInv, SessionInv
<1> QED BY <1>1, <1>2, <1>3, <1>4, <1>5 DEF PidInv, Signalled

\* An __END that has been sent stays sent.
LEMMA ReaderKeepsCause ==
    ASSUME TypeInv, CauseInv, NEW r \in Sessions, ReaderStep(r)
    PROVE  CauseInv'
<1>1. UNCHANGED <<child, cause, signals, reported>>
  BY ReaderFrame, Zenon DEF TypeInv
<1>2. \A c \in Sessions : ending[c] # "no" => ending'[c] # "no"
  BY ZenonT(40) DEF ReaderStep, ReaderOpen, HandleEnd, ReaderEof, ReaderUnlink,
         childVars, TypeInv, TypeOK
<1> QED BY <1>1, <1>2, Zenon DEF CauseInv, Dead, Signalled

\* Every step keeps PidInv and CauseInv.
LEMMA AlarmStep ==
    ASSUME TypeInv, OneInv, Quiet, ReadInv, PidInv, CauseInv, [Next]_vars
    PROVE  PidInv' /\ CauseInv'
BY StartKeepsPid, GuiKeepsPid, HandlerKeepsPid, ChildKeepsPid, ReaderKeepsPid,
   StartKeepsCause, GuiKeepsCause, HandlerKeepsCause, ChildKeepsCause,
   ReaderKeepsCause DEF Next, UserStep

(***************************************************************************)
(* What the end leaves behind                                              *)
(***************************************************************************)

\* A file system that runs is expected, is being forked, has been told to stop
\* or is leaving by itself.
ExitInv ==
    \A s \in Sessions : Alive(s) =>
        \/ Signalled(s)
        \/ child[s] = "leaving"
        \/ fdt = "up" /\ (gui = "fork" \/ fuse_pid = s)

\* Stop and the end signal the process they forget; when fork fails, no
\* file system runs.
LEMMA GuiKeepsExit ==
    ASSUME TypeInv, OneInv, Orderly, ExitInv, "pid" \in prompt,
           stop_btn_handler \/ terminate \/ ForkFails \/ GuiStep
    PROVE  ExitInv'
<1>1. child' = child
  BY GuiFrame, Zenon
<1>2. CASE StorePid
  BY <1>1, <1>2, LastRuns DEF StorePid, ExitInv, Alive
<1>3. CASE ~StorePid
  <2>1. gui # "fork"
    BY <1>3 DEF stop_btn_handler, terminate, ForkFails, GuiStep, RunTool,
                gui_idle, GuiIdle
  <2>2. signals \subseteq signals'
    BY Signalling
  <2> SUFFICES ASSUME NEW s \in Sessions, Alive(s), fdt = "up", fuse_pid = s
               PROVE  Signalled(s)' \/ (fdt' = "up" /\ fuse_pid' = s)
    BY <1>1, <2>1, <2>2 DEF ExitInv, Alive, Signalled
  <2>3. ~ForkFails
    <3>1. s = started /\ started > 0
      BY LastRuns
    <3>2. child[started] # "reaped"
      BY <3>1 DEF Alive
    <3>3. ~start_button
      BY <3>1, <3>2 DEF OneInv
    <3>4. "again" \in prompt
      BY DEF Orderly
    <3> QED BY <3>3, <3>4, Zenon DEF ForkFails, StartPressed
  <2>4. s # 0
    BY FileKinds
  <2> QED BY <1>3, <2>3, <2>4, Signalling DEF Signalled
<1> QED BY <1>2, <1>3

\* The process is forgotten elsewhere only when it has ended or has finished
\* its tests.
LEMMA OthersKeepExit ==
    ASSUME TypeInv, OneInv, ReadInv, ExitInv,
           \/ \E t \in Tools : start_btn_handler(t)
           \/ HandlerStep \/ Finished \/ UNCHANGED vars
           \/ \E s \in Sessions : ChildStep(s) \/ ReaderStep(s)
    PROVE  ExitInv'
<1>1. ASSUME NEW t \in Tools, start_btn_handler(t) PROVE ExitInv'
  BY <1>1 DEF start_btn_handler, GuiIdle, ExitInv
<1>2. CASE HandlerStep \/ Finished \/ UNCHANGED vars
  <2>1. UNCHANGED <<fdt, gui, signals>>
    BY <1>2, HandlerFrame, Zenon
  <2>2. \A s \in Sessions : child'[s] = child[s] \/ child'[s] = "reaped"
    BY <1>2, ZenonT(40) DEF HandlerStep, Sigchld, Waitpid, Reap, CleanExit, Timeout,
          Finished, vars, childVars, TypeInv, TypeOK
  <2>3. \A s \in Sessions : Alive(s) => ~Timeout
    BY LastRuns DEF Timeout, OneInv, Alive
  <2>4. ~Timeout => fuse_pid' = fuse_pid
    BY <1>2, Zenon DEF HandlerStep, Sigchld, Waitpid, CleanExit, Finished,
                       vars, toolVars
  <2> QED BY <2>1, <2>2, <2>3, <2>4, Zenon DEF ExitInv, Alive, Signalled
<1>3. ASSUME NEW s \in Sessions, ChildStep(s) PROVE ExitInv'
  <2>1. /\ UNCHANGED <<fdt, gui, fuse_pid, signals>>
        /\ \A c \in Sessions : c # s => child'[c] = child[c]
        /\ Moves(s)
    BY <1>3, ChildFrame, Zenon DEF TypeInv
  <2> QED BY <2>1, Zenon DEF ExitInv, Alive, Signalled, Moves
<1>4. ASSUME NEW r \in Sessions, ReaderStep(r) PROVE ExitInv'
  <2>1. UNCHANGED <<fdt, gui, signals, child>>
    BY <1>4, ReaderFrame, Zenon DEF TypeInv
  <2>2. CASE HandleEnd(r)
    <3>1. PICK c \in Sessions : log[c] = fifo[r] /\ ending[c] = "sent"
      BY <2>2, Zenon DEF HandleEnd
    <3>2. reader[r] = "reading" /\ fifo[r] = r /\ r # Nothing
      BY <2>2, FileKinds DEF HandleEnd, ReadInv, LogInv
    <3>3. c = r /\ r = started
      BY <3>1, <3>2, ReaderIsOfLast DEF ReadInv, LogInv
    <3>4. child[started] \notin {"none", "forked", "execing", "serving"}
      BY <3>1, <3>3 DEF ReadInv, LogInv
    <3>5. \A s \in Sessions : Alive(s) => child[s] = "leaving"
      BY <3>4, LastRuns DEF Alive
    <3> QED BY <2>1, <3>5 DEF ExitInv, Alive
  <2>3. CASE ~HandleEnd(r)
    <3>1. fuse_pid' = fuse_pid
      BY <1>4, <2>3, Zenon DEF ReaderStep, ReaderOpen, ReaderEof,
                               ReaderUnlink, toolVars
    <3> QED BY <2>1, <3>1 DEF ExitInv, Alive, Signalled
  <2> QED BY <2>2, <2>3
<1> QED BY <1>1, <1>2, <1>3, <1>4

\* Every step keeps ExitInv.
LEMMA ExitStep ==
    ASSUME TypeInv, OneInv, Orderly, ReadInv, ExitInv, "pid" \in prompt,
           [Next]_vars
    PROVE  ExitInv'
BY GuiKeepsExit, OthersKeepExit DEF Next, UserStep

\* Every step keeps the types and the order of the sessions.
LEMMA TypeStep ==
    ASSUME TypeInv, [Next]_vars
    PROVE  TypeInv'
<1>1. TypeOK'
  BY ButtonsKeepType, HandlersKeepType, ChildrenKeepType, ReadersKeepType,
     StutterKeepsType DEF Next, TypeInv, Finished
<1> QED BY <1>1, SessionStep DEF TypeInv

(***************************************************************************)
(* The theorems                                                            *)
(***************************************************************************)

\* All of it.  The parts depend on what is left out.
LauncherInv ==
    /\ TypeInv
    /\ Orderly => OneInv
    /\ Quiet => ReadInv /\ PidInv /\ CauseInv
    /\ Quiet /\ "pid" \in prompt => ExitInv

\* The invariant holds when FDT starts.
LEMMA LauncherInit == Init => LauncherInv
<1> SUFFICES ASSUME Init PROVE LauncherInv
  OBVIOUS
<1>1. TypeOK
  <2>1. GuiTypes
    <3>1. 0 \in Nat /\ 0 \in 0..MaxStarts
      BY SomeStart
    <3>2. tool \in [Sessions -> Tools \cup {"none"}]
      BY DEF Init
    <3> QED BY <3>1, <3>2, Zenon DEF Init, GuiTypes
  <2>2. ToolTypes /\ HandlerTypes
    BY Zenon DEF Init, ToolTypes, HandlerTypes
  <2>3. ChildTypes /\ ReaderTypes
    BY DEF Init, ChildTypes, ReaderTypes, Files
  <2> QED BY <2>1, <2>2, <2>3 DEF TypeOK, GuiTypes, ToolTypes, ChildTypes,
             HandlerTypes, ReaderTypes
<1>2. SessionInv /\ OneInv
  <2>1. /\ started = 0 /\ gui = "idle" /\ ~sigchld /\ handler = "none"
        /\ signals = {}
        /\ \A s \in Sessions : child[s] = "none" /\ reader[s] = "none"
    BY DEF Init
  <2>2. \A s \in Sessions : s \in Nat /\ s > 0
    BY FileKinds
  <2> QED BY <2>1, <2>2 DEF SessionInv, OneInv
<1>3. ReadInv
  <2>1. /\ started = 0
        /\ \A s \in Sessions : /\ child[s] = "none" /\ reader[s] = "none"
                               /\ log[s] = Nothing /\ ending[s] = "no"
    BY DEF Init
  <2> QED BY <2>1 DEF ReadInv, LogInv, LastInv
<1>4. PidInv /\ CauseInv
  BY DEF Init, PidInv, CauseInv, Dead, Sessions
<1>5. ExitInv
  BY DEF Init, ExitInv, Alive
<1> QED BY <1>1, <1>2, <1>3, <1>4, <1>5 DEF LauncherInv, TypeInv

\* Every step keeps the invariant.
LEMMA LauncherStep == LauncherInv /\ [Next]_vars => LauncherInv'
<1> SUFFICES ASSUME LauncherInv, [Next]_vars PROVE LauncherInv'
  OBVIOUS
<1>1. TypeInv' /\ prompt' = prompt
  BY TypeStep, PromptIsFixed DEF LauncherInv
<1>2. Orderly => OneInv'
  BY OneStep DEF LauncherInv
<1>3. Quiet => ReadInv' /\ PidInv' /\ CauseInv'
  <2> SUFFICES ASSUME Quiet PROVE ReadInv' /\ PidInv' /\ CauseInv'
    OBVIOUS
  <2>1. OneInv
    BY DEF LauncherInv, Quiet
  <2> QED BY <2>1, ReadStep, AlarmStep DEF LauncherInv
<1>4. Quiet /\ "pid" \in prompt => ExitInv'
  <2> SUFFICES ASSUME Quiet, "pid" \in prompt PROVE ExitInv'
    OBVIOUS
  <2>1. OneInv /\ Orderly
    BY DEF LauncherInv, Quiet
  <2> QED BY <2>1, ExitStep DEF LauncherInv
<1>5. (Quiet' <=> Quiet) /\ (Orderly' <=> Orderly)
  BY <1>1 DEF Quiet, Orderly
<1> QED BY <1>1, <1>2, <1>3, <1>4, <1>5 DEF LauncherInv

\* The invariant always holds.
LEMMA LauncherInvariant == Spec => []LauncherInv
BY LauncherInit, LauncherStep, PTL DEF Spec

\* The variables keep their types whatever the delays; in particular,
\* childKilled waits for nothing but a process that waitpid has returned.
THEOREM LauncherTypes == Spec => []TypeOK
<1>1. LauncherInv => TypeOK
  BY DEF LauncherInv, TypeInv
<1> QED BY <1>1, LauncherInvariant, PTL

\* However often Start is pressed: if the child sets fs_mounted before the GUI
\* is idle again, the button never lets a second file system run beside one
\* that has not been reaped.  The wizard's Skip and "Run wizard again" are not
\* behind that button and do let one run.
THEOREM StartMountsOne == Spec => []StartMountsOneFileSystem
<1>1. ASSUME LauncherInv, Orderly PROVE OneFileSystem
  <2>1. {s \in Sessions : Alive(s)} \subseteq {started}
    BY <1>1, LastRuns DEF LauncherInv
  <2>2. IsFiniteSet({started}) /\ Cardinality({started}) = 1
    BY FS_Singleton
  <2>3. LET S == {s \in Sessions : Alive(s)}
        IN  Cardinality(S) \in Nat /\ Cardinality(S) <= 1
    BY <2>1, <2>2, FS_Subset, FS_CardinalityType
  <2> QED BY <2>3 DEF OneFileSystem
<1>2. LauncherInv => StartMountsOneFileSystem
  BY <1>1 DEF StartMountsOneFileSystem, PatientUser, Orderly
<1> QED BY <1>2, LauncherInvariant, PTL

\* However often Start is pressed: under the same condition, and if FDT is not
\* slow, a file system writes to the FIFO of its own session and the reader of
\* that session reads it, although all sessions of a tool share one name.
THEOREM SessionsDoNotMix == Spec => []("child" \in prompt => EventsReachReader)
<1>1. ASSUME LauncherInv, Quiet PROVE EventsReachReader
  <2> SUFFICES ASSUME NEW s \in Sessions, child[s] = "serving",
                      reader[s] \notin {"none", "opening"}
               PROVE  log[s] = s /\ fifo[s] = s
    BY DEF EventsReachReader
  <2>1. s = started /\ started > 0
    BY <1>1, LastRuns DEF LauncherInv, Quiet, Alive
  <2> QED BY <1>1, <2>1 DEF LauncherInv, ReadInv, LogInv, LastInv
<1>2. LauncherInv => ("child" \in prompt => EventsReachReader)
  BY <1>1 DEF EventsReachReader, NoSlowTool, PatientUser, Quiet, Orderly
<1> QED BY <1>2, LauncherInvariant, PTL

\* However often Start is pressed: under the same conditions childKilled never
\* reports a file system that was told to stop or that has finished its tests.
THEOREM AlarmsAreTrue == Spec => []("child" \in prompt => NoFalseAlarm)
<1>1. LauncherInv => ("child" \in prompt => NoFalseAlarm)
  BY DEF LauncherInv, CauseInv, NoFalseAlarm, NoSlowTool, PatientUser, Quiet,
         Orderly
<1> QED BY <1>1, LauncherInvariant, PTL

\* However often Start is pressed: if no signal arrives between fork and the
\* store of its result, and under the same conditions, terminate leaves no file
\* system behind that has not been told to stop.
THEOREM ExitStopsAll ==
    Spec => []({"pid", "child"} \subseteq prompt => ExitStopsFileSystems)
<1>1. LauncherInv =>
        ({"pid", "child"} \subseteq prompt => ExitStopsFileSystems)
  BY DEF LauncherInv, ExitInv, ExitStopsFileSystems, NoSlowTool, PatientUser,
         Quiet, Orderly
<1> QED BY <1>1, LauncherInvariant, PTL
=============================================================================
