--------------------------- MODULE DebuggerProofs ---------------------------
(***************************************************************************)
(* Proofs about the single-stepping protocol of module Debugger: types and *)
(* the Advance button; that the calls waiting on the semaphore, the events *)
(* in the FIFO, pendingInvocations and the semaphore's value balance, for  *)
(* any number of threads and calls, and that nothing stays pending after   *)
(* Stop; and, from this balance, that a paused call can always be advanced *)
(* and that a user who only steps never lets a call through unseen.        *)
(***************************************************************************)
EXTENDS Debugger, FiniteSetTheorems, TLAPS

\* A leaf that names no prover is given to SMT and then to Zenon.
USE SMTT(40), ZenonT(40)

-----------------------------------------------------------------------------
(* Type correctness *)

\* The events that the file system's threads write are events.
LEMMA EventTypes ==
    /\ NoEvent \in Event
    /\ \A w \in FsThreads : /\ [type |-> "invoke", by |-> w] \in Event
                            /\ [type |-> "return", by |-> w] \in Event
BY DEF Event, NoEvent, FsThreads

\* An event appended to a sequence of events leaves a sequence of events.
LEMMA AppendEvent ==
    ASSUME NEW s \in Seq(Event), NEW e \in Event
    PROVE  Append(s, e) \in Seq(Event)
OBVIOUS

\* What the GUI stores in the button's sensitivity is a truth value.
LEMMA CanAdvanceBoolean == canAdvance \in BOOLEAN
BY DEF canAdvance

\* Every step of the file system's threads, of the reader, of the GUI and of
\* the user keeps every variable of the protocol within its type.
THEOREM TypeCorrect == Spec => []TypeOK
<1>1. Init => TypeOK
  <2> SUFFICES ASSUME Init PROVE TypeOK
    OBVIOUS
  <2> USE DEF Init
  <2>1. /\ wpc \in [FsThreads -> {"idle", "report", "wait", "run"}]
        /\ fifo \in Seq(Event)
        /\ events \in Seq(Event)
        /\ event \in Event
    BY EventTypes
  <2>2. /\ pc \in [Threads -> ReaderPc \cup GuiPc]
        /\ pc[Reader] \in ReaderPc
        /\ pc[Gui] \in GuiPc
        /\ tmp \in [Threads -> Int]
    BY DEF Threads, Reader, Gui, ReaderPc, GuiPc
  <2>3. /\ advance_btn \in BOOLEAN /\ autoAdvance \in BOOLEAN
        /\ closing \in BOOLEAN /\ overlapped \in BOOLEAN
    BY Zenon
  <2> QED BY <2>1, <2>2, <2>3 DEF TypeOK
<1>2. TypeOK /\ [Next]_vars => TypeOK'
  <2> SUFFICES ASSUME TypeOK, [Next]_vars PROVE TypeOK'
    OBVIOUS
  <2> USE DebuggerAssumption DEF TypeOK, Threads, Reader, Gui,
          ReaderPc, GuiPc, Storing, fsVars, guiVars, Goto
  <2>1. ASSUME NEW w \in FsThreads, FsThreadStep(w) PROVE TypeOK'
    <3>1. CASE next_seqnum(w)
      BY <3>1 DEF next_seqnum
    <3>2. CASE report_fs_call(w)
      <4>1. fifo' \in Seq(Event)
        BY <3>2, EventTypes, AppendEvent, Zenon DEF report_fs_call
      <4> QED BY <3>2, <4>1 DEF report_fs_call
    <3>3. CASE sem_wait(w)
      BY <3>3 DEF sem_wait
    <3>4. CASE report_fs_call_return(w)
      <4>1. fifo' \in Seq(Event)
        BY <3>4, EventTypes, AppendEvent, Zenon DEF report_fs_call_return
      <4> QED BY <3>4, <4>1 DEF report_fs_call_return
    <3> QED BY <2>1, <3>1, <3>2, <3>3, <3>4 DEF FsThreadStep
  <2>2. ASSUME NEW t \in Threads, AdvanceStep(t) PROVE TypeOK'
    <3>1. CASE AdvanceCheck(t)
      BY <3>1 DEF AdvanceCheck, Continue, NotAdvanced
    <3>2. CASE AdvancePost(t)
      BY <3>2 DEF AdvancePost
    <3>3. CASE LoadCounter(t)
      <4>1. overlapped' \in BOOLEAN
        BY <3>3, Zenon DEF LoadCounter
      <4> QED BY <3>3, <4>1 DEF LoadCounter
    <3>4. CASE StoreDecrement(t)
      BY <3>4 DEF StoreDecrement, Continue, Advanced
    <3> QED BY <2>2, <3>1, <3>2, <3>3, <3>4 DEF AdvanceStep
  <2>3. CASE ReadEvent
    BY <2>3 DEF ReadEvent
  <2>4. CASE StoreIncrement \/ TestMode \/ Enqueue \/ Detach
    <3>1. CASE StoreIncrement
      BY <3>1 DEF StoreIncrement
    <3>2. CASE TestMode
      BY <3>2 DEF TestMode
    <3>3. CASE Enqueue
      <4>1. events' \in Seq(Event)
        BY <3>3 DEF Enqueue
      <4> QED BY <3>3, <4>1, EventTypes DEF Enqueue
    <3>4. CASE Detach
      BY <3>4 DEF Detach
    <3> QED BY <2>4, <3>1, <3>2, <3>3, <3>4
  <2>5. CASE BeginDrain \/ updateAdvanceButtonState \/ KillFs
    <3>1. CASE BeginDrain
      BY <3>1 DEF BeginDrain
    <3>2. CASE updateAdvanceButtonState
      BY <3>2, CanAdvanceBoolean DEF updateAdvanceButtonState
    <3>3. CASE KillFs
      BY <3>3 DEF KillFs, Continue
    <3> QED BY <2>5, <3>1, <3>2, <3>3
  <2>6. CASE ShowEvent
    BY <2>6, CanAdvanceBoolean DEF ShowEvent
  <2>7. CASE UserStep
    <3>1. CASE advance_btn_handler
      BY <3>1 DEF advance_btn_handler
    <3>2. CASE autoadvance_btn_handler
      BY <3>2 DEF autoadvance_btn_handler
    <3>3. CASE stopDebugger
      BY <3>3 DEF stopDebugger
    <3>4. CASE startDebugger
      <4>1. /\ closing' \in BOOLEAN /\ autoAdvance' \in BOOLEAN
            /\ advance_btn' \in BOOLEAN /\ overlapped' \in BOOLEAN
        BY <3>4, Zenon DEF startDebugger
      <4> QED BY <3>4, <4>1 DEF startDebugger
    <3> QED BY <2>7, <3>1, <3>2, <3>3, <3>4 DEF UserStep
  <2>8. CASE FsExit \/ Unmount \/ Crash
    BY <2>8 DEF FsExit, JoinWorkers, ExitProcess, Unmount, Crash, FsThreads
  <2>9. CASE Finished \/ Hung \/ UNCHANGED vars
    BY <2>9 DEF Finished, Hung, vars
  <2> QED
    BY <2>1, <2>2, <2>3, <2>4, <2>5, <2>6, <2>7, <2>8, <2>9
       DEF Next, ReaderStep, GuiStep
<1> QED BY <1>1, <1>2, PTL DEF Spec

-----------------------------------------------------------------------------
(* The Advance button *)

\* An update of the button's sensitivity is still to come: an event is queued,
\* or the reader is going to queue one, or Auto-advance has been clicked.
RefreshDue ==
    \/ events # <<>>
    \/ pc[Reader] \in {"mode", "check", "post", "dec", "decStore", "enqueue"}
    \/ pc[Gui] = "update"

\* The strengthening: an insensitive button is wrong only as long as a refresh
\* is due, for the counter as it is and for the value that the GUI thread is
\* about to store in it.
ButtonInv ==
    ~advance_btn =>
        /\ pendingInvocations > 0 => RefreshDue
        /\ pc[Gui] = "decStore" /\ tmp[Gui] > 1 => RefreshDue

\* The reader never lets the last refresh go by before it has counted the
\* call, whatever the two threads do to the counter and however many sessions
\* there are: an insensitive button is wrong only while a refresh is due.
LEMMA ButtonInvInductive ==
    TypeOK /\ ButtonInv /\ [Next]_vars => ButtonInv'
<1> SUFFICES ASSUME TypeOK, ButtonInv, [Next]_vars PROVE ButtonInv'
  OBVIOUS
<1> USE DEF ButtonInv, RefreshDue, TypeOK, Threads, Reader, Gui, fsVars,
        guiVars, Goto, canAdvance
<1>1. ASSUME NEW w \in FsThreads, FsThreadStep(w) PROVE ButtonInv'
  BY <1>1 DEF FsThreadStep, next_seqnum, report_fs_call, sem_wait,
     report_fs_call_return
<1>2. CASE AdvanceStep(Reader)
  <2>1. CASE AdvanceCheck(Reader)
    BY <2>1 DEF AdvanceCheck, Continue, NotAdvanced
  <2>2. CASE AdvancePost(Reader)
    BY <2>2 DEF AdvancePost
  <2>3. CASE LoadCounter(Reader)
    BY <2>3 DEF LoadCounter
  <2>4. CASE StoreDecrement(Reader)
    BY <2>4 DEF StoreDecrement, Continue, Advanced
  <2> QED BY <1>2, <2>1, <2>2, <2>3, <2>4 DEF AdvanceStep
<1>3. CASE AdvanceStep(Gui)
  <2>1. CASE AdvanceCheck(Gui)
    BY <2>1 DEF AdvanceCheck, Continue, NotAdvanced
  <2>2. CASE AdvancePost(Gui)
    BY <2>2 DEF AdvancePost
  <2>3. CASE LoadCounter(Gui)
    BY <2>3 DEF LoadCounter
  <2>4. CASE StoreDecrement(Gui)
    BY <2>4 DEF StoreDecrement, Continue, Advanced
  <2> QED BY <1>3, <2>1, <2>2, <2>3, <2>4 DEF AdvanceStep
<1>4. CASE ReadEvent \/ StoreIncrement \/ TestMode \/ Detach
  BY <1>4 DEF ReadEvent, StoreIncrement, TestMode, Detach
<1>5. CASE Enqueue
  <2>1. events' # <<>>
    BY <1>5 DEF Enqueue
  <2> QED BY <1>5, <2>1 DEF Enqueue
<1>6. CASE BeginDrain \/ KillFs
  BY <1>6 DEF BeginDrain, KillFs, Continue
<1>7. CASE ShowEvent \/ updateAdvanceButtonState
  BY <1>7, Zenon DEF ShowEvent, updateAdvanceButtonState
<1>8. CASE UserStep
  BY <1>8 DEF UserStep, advance_btn_handler, autoadvance_btn_handler,
     stopDebugger, startDebugger
<1>9. CASE FsExit \/ Unmount \/ Crash
  BY <1>9 DEF FsExit, JoinWorkers, ExitProcess, Unmount, Crash
<1>10. CASE Finished \/ Hung \/ UNCHANGED vars
  BY <1>10 DEF Finished, Hung, vars
<1> QED
  BY <1>1, <1>2, <1>3, <1>4, <1>5, <1>6, <1>7, <1>8, <1>9, <1>10
     DEF Next, ReaderStep, GuiStep

\* For any number of threads, calls and sessions, and even when the updates of
\* pendingInvocations by the reader and by the GUI are torn: once the debugger
\* is at rest, a counter that says a call can be advanced comes with a
\* sensitive Advance button.
THEOREM ButtonFollowsCounter == Spec => []AdvanceButtonFollowsCounter
<1>1. Init => ButtonInv
  BY DEF Init, ButtonInv
<1>2. ButtonInv => AdvanceButtonFollowsCounter
  BY DEF ButtonInv, RefreshDue, AdvanceButtonFollowsCounter, Quiescent,
     canAdvance
<1> QED BY <1>1, <1>2, TypeCorrect, ButtonInvInductive, PTL DEF Spec

-----------------------------------------------------------------------------
(* Counting *)

\* The threads that wait in f, and the positions of the invoke events in s.
WaitingIn(f) == {w \in FsThreads : f[w] = "wait"}
InvokesIn(s) == {i \in 1..Len(s) : s[i].type = "invoke"}

\* 1 for an l in ls and 0 for any other.
At(l, ls) == IF l \in ls THEN 1 ELSE 0

\* The sets that are counted are finite.
LEMMA CountedAreFinite ==
    /\ \A f : IsFiniteSet(WaitingIn(f)) /\ Cardinality(WaitingIn(f)) \in Nat
    /\ \A s \in Seq(Event) :
          IsFiniteSet(InvokesIn(s)) /\ Cardinality(InvokesIn(s)) \in Nat
<1>1. IsFiniteSet(FsThreads)
  BY DebuggerAssumption, FS_AddElement DEF FsThreads
<1>2. ASSUME NEW f
      PROVE  IsFiniteSet(WaitingIn(f)) /\ Cardinality(WaitingIn(f)) \in Nat
  <2>1. WaitingIn(f) \in SUBSET FsThreads
    BY DEF WaitingIn
  <2>2. IsFiniteSet(WaitingIn(f))
    BY <1>1, <2>1, FS_Subset
  <2> QED BY <2>2, FS_CardinalityType
<1>3. ASSUME NEW s \in Seq(Event)
      PROVE  IsFiniteSet(InvokesIn(s)) /\ Cardinality(InvokesIn(s)) \in Nat
  <2>1. InvokesIn(s) \in SUBSET (1..Len(s)) /\ Len(s) \in Nat
    BY DEF InvokesIn
  <2>2. IsFiniteSet(1..Len(s))
    BY <2>1, FS_Interval
  <2>3. IsFiniteSet(InvokesIn(s))
    BY <2>1, <2>2, FS_Subset
  <2> QED BY <2>3, FS_CardinalityType
<1> QED BY <1>2, <1>3

\* A thread that begins to wait adds one to the number of waiting threads.
LEMMA WaitingAdded ==
    ASSUME NEW f \in [FsThreads -> {"idle", "report", "wait", "run"}],
           NEW w \in FsThreads, f[w] # "wait"
    PROVE  Cardinality(WaitingIn([f EXCEPT ![w] = "wait"]))
             = Cardinality(WaitingIn(f)) + 1
<1>1. WaitingIn([f EXCEPT ![w] = "wait"]) = WaitingIn(f) \cup {w}
  BY DEF WaitingIn
<1>2. w \notin WaitingIn(f)
  BY DEF WaitingIn
<1> QED BY <1>1, <1>2, CountedAreFinite, FS_AddElement, Zenon

\* A thread whose sem_wait returns takes one away.
LEMMA WaitingRemoved ==
    ASSUME NEW f \in [FsThreads -> {"idle", "report", "wait", "run"}],
           NEW w \in FsThreads, f[w] = "wait", NEW l, l # "wait"
    PROVE  Cardinality(WaitingIn([f EXCEPT ![w] = l]))
             = Cardinality(WaitingIn(f)) - 1
<1>1. WaitingIn([f EXCEPT ![w] = l]) = WaitingIn(f) \ {w}
  BY DEF WaitingIn
<1>2. w \in WaitingIn(f)
  BY DEF WaitingIn
<1> QED BY <1>1, <1>2, CountedAreFinite, FS_RemoveElement, Zenon

\* A thread's other steps leave the waiting threads as they are.
LEMMA WaitingSame ==
    ASSUME NEW f \in [FsThreads -> {"idle", "report", "wait", "run"}],
           NEW w \in FsThreads, f[w] # "wait", NEW l, l # "wait"
    PROVE  WaitingIn([f EXCEPT ![w] = l]) = WaitingIn(f)
BY DEF WaitingIn

\* An event written to the FIFO adds one to its invoke events, or nothing.
LEMMA InvokesAppended ==
    ASSUME NEW s \in Seq(Event), NEW e \in Event
    PROVE  Cardinality(InvokesIn(Append(s, e)))
             = Cardinality(InvokesIn(s)) + At(e.type, {"invoke"})
<1>1. /\ Len(s) \in Nat
      /\ Len(Append(s, e)) = Len(s) + 1
      /\ Append(s, e)[Len(s) + 1] = e
      /\ \A i \in 1..Len(s) : Append(s, e)[i] = s[i]
  OBVIOUS
<1>2. CASE e.type = "invoke"
  <2>1. InvokesIn(Append(s, e)) = InvokesIn(s) \cup {Len(s) + 1}
    BY <1>1, <1>2 DEF InvokesIn
  <2>2. Len(s) + 1 \notin InvokesIn(s)
    BY <1>1 DEF InvokesIn
  <2> QED BY <1>2, <2>1, <2>2, CountedAreFinite, FS_AddElement, Zenon DEF At
<1>3. CASE e.type # "invoke"
  <2>1. InvokesIn(Append(s, e)) = InvokesIn(s)
    BY <1>1, <1>3 DEF InvokesIn
  <2> QED BY <1>3, <2>1, CountedAreFinite DEF At
<1> QED BY <1>2, <1>3

\* An event read from the FIFO takes one away, or nothing.
LEMMA InvokesRead ==
    ASSUME NEW s \in Seq(Event), s # <<>>
    PROVE  Cardinality(InvokesIn(Tail(s)))
             = Cardinality(InvokesIn(s)) - At(Head(s).type, {"invoke"})
<1> DEFINE U == InvokesIn(s) \ {1}
           V == InvokesIn(Tail(s))
           g == [i \in V |-> i + 1]
<1>1. /\ Len(s) \in Nat \ {0}
      /\ Tail(s) \in Seq(Event)
      /\ Len(Tail(s)) = Len(s) - 1
      /\ Head(s) = s[1]
      /\ \A i \in 1..Len(Tail(s)) : Tail(s)[i] = s[i + 1]
  OBVIOUS
<1>2. \A i \in V : i \in Nat /\ i + 1 \in U
  BY <1>1 DEF InvokesIn
<1>3. \A j \in U : j - 1 \in V /\ j = (j - 1) + 1
  BY <1>1 DEF InvokesIn
<1>4. g \in Bijection(V, U)
  <2>1. g \in [V -> U]
    BY <1>2
  <2>2. \A a, b \in V : g[a] = g[b] => a = b
    BY <1>2
  <2>3. \A j \in U : \E i \in V : g[i] = j
    BY <1>3
  <2> QED BY <2>1, <2>2, <2>3 DEF Bijection, Injection, Surjection, IsInjective
<1>5. Cardinality(U) = Cardinality(V)
  BY <1>1, <1>4, CountedAreFinite, FS_Bijection, Zenon DEF ExistsBijection
<1>6. 1 \in InvokesIn(s) <=> Head(s).type = "invoke"
  BY <1>1 DEF InvokesIn
<1>7. Cardinality(U) = Cardinality(InvokesIn(s)) - At(Head(s).type, {"invoke"})
  <2>1. Cardinality(U) = IF 1 \in InvokesIn(s)
                           THEN Cardinality(InvokesIn(s)) - 1
                           ELSE Cardinality(InvokesIn(s))
    BY CountedAreFinite, FS_RemoveElement, Zenon
  <2> QED BY <1>6, <2>1, CountedAreFinite DEF At
<1> QED BY <1>5, <1>7

-----------------------------------------------------------------------------
(* The balance *)

\* The difference of the two sides of EveryWaitAccountedFor, with its counts of
\* threads spelt out; the GUI thread never increments.
Slack ==
    Cardinality(InvokesIn(fifo)) + At(pc[Reader], {"inc", "incStore"})
      + pendingInvocations - At(pc[Reader], {"dec", "decStore"})
      - At(pc[Gui], {"dec", "decStore"}) + sem - Cardinality(WaitingIn(wpc))

\* Updates that do not overlap: at most one thread is between its load and its
\* store, and what it has loaded is still what the counter holds.
UpdatesExclusive ==
    /\ \A t \in Threads : pc[t] \in Storing => tmp[t] = pendingInvocations
    /\ ~(pc[Reader] \in Storing /\ pc[Gui] \in Storing)

\* The main thread makes a call only when the workers are gone.
MainIdle == fs # "destroying" => wpc[Main] = "idle"

\* Stop advances in a loop until nothing is pending; after that only a call
\* that the reader is about to advance may be pending.
StopDrains ==
    closing =>
        \/ handler = "stop" /\ pc[Gui] \in {"check", "post", "dec", "decStore"}
        \/ pendingInvocations
             <= At(pc[Reader], {"mode", "check", "post", "dec", "decStore"})

\* The strengthening of EveryWaitAccountedFor and StopReleasesEveryCall.  The
\* slack is only known for the first session (a later one inherits the
\* counter).  A crash takes the waiting calls with it, and SIGINT can end the
\* wait of the destroy call: then there is some, but never less than none.
AccountInv ==
    /\ session > 0
    /\ MainIdle
    /\ ~overlapped => UpdatesExclusive /\ StopDrains
    /\ session = 1 /\ ~overlapped =>
          /\ Slack >= 0
          /\ fs \in {"mounted", "exiting"} => Slack = 0

\* A count over the two threads of the debugger is a sum of two terms.
LEMMA CountTwo ==
    ASSUME NEW ls
    PROVE  CountAt(ls) = At(pc[Reader], ls) + At(pc[Gui], ls)
<1> DEFINE C == {t \in Threads : pc[t] \in ls}
<1>1. /\ Cardinality({}) = 0
      /\ Cardinality({Reader}) = 1
      /\ Cardinality({Gui}) = 1
      /\ Cardinality({Reader} \cup {Gui}) = 2
  <2>1. /\ IsFiniteSet({Reader})
        /\ Cardinality({Reader}) = 1
        /\ Cardinality({Gui}) = 1
    BY FS_Singleton, Zenon
  <2>2. Gui \notin {Reader}
    BY DEF Reader, Gui
  <2>3. Cardinality({Reader} \cup {Gui}) = Cardinality({Reader}) + 1
    BY <2>1, <2>2, FS_AddElement
  <2> QED BY <2>1, <2>3, FS_EmptySet
<1>2. C = IF pc[Reader] \in ls
            THEN IF pc[Gui] \in ls THEN {Reader} \cup {Gui} ELSE {Reader}
            ELSE IF pc[Gui] \in ls THEN {Gui} ELSE {}
  BY DEF Threads
<1>3. CountAt(ls) = Cardinality(C)
  BY DEF CountAt
<1> HIDE DEF C
<1> QED BY <1>1, <1>2, <1>3 DEF At

\* What is counted, in the terms of the properties.
LEMMA CountsOfProperties ==
    ASSUME TypeOK
    PROVE  /\ Cardinality(Waiting) \in Nat
           /\ Slack = 0 =>
                Cardinality(Waiting) =
                  Cardinality(Unread) + CountAt({"inc", "incStore"})
                    + pendingInvocations - CountAt({"dec", "decStore"}) + sem
<1>1. Waiting = WaitingIn(wpc) /\ Unread = InvokesIn(fifo)
  BY DEF Waiting, Unread, WaitingIn, InvokesIn
<1>2. CountAt({"inc", "incStore"}) = At(pc[Reader], {"inc", "incStore"})
  <2>1. pc[Gui] \notin {"inc", "incStore"}
    BY DEF TypeOK, GuiPc
  <2> QED BY <2>1, CountTwo DEF At
<1>3. CountAt({"dec", "decStore"}) = At(pc[Reader], {"dec", "decStore"})
                                      + At(pc[Gui], {"dec", "decStore"})
  BY CountTwo
<1>4. /\ Cardinality(InvokesIn(fifo)) \in Nat
      /\ Cardinality(WaitingIn(wpc)) \in Nat
      /\ pendingInvocations \in Int
      /\ sem \in Nat
  BY CountedAreFinite DEF TypeOK
<1> QED BY <1>1, <1>2, <1>3, <1>4 DEF Slack, At

\* The strengthening implies the properties.
LEMMA AccountInvImplies ==
    TypeOK /\ AccountInv => EveryWaitAccountedFor /\ StopReleasesEveryCall
<1> SUFFICES ASSUME TypeOK, AccountInv, session = 1, ~overlapped
             PROVE  /\ fs \in {"mounted", "exiting"} =>
                          Cardinality(Waiting) =
                            Cardinality(Unread) + CountAt({"inc", "incStore"})
                              + pendingInvocations
                              - CountAt({"dec", "decStore"}) + sem
                    /\ closing /\ Quiescent => Cardinality(Waiting) <= sem
  BY DEF EveryWaitAccountedFor, StopReleasesEveryCall
<1>1. pendingInvocations \in Int /\ sem \in Nat
  BY DEF TypeOK
<1>2. ASSUME fs \in {"mounted", "exiting"}
      PROVE  Cardinality(Waiting) =
                Cardinality(Unread) + CountAt({"inc", "incStore"})
                  + pendingInvocations - CountAt({"dec", "decStore"}) + sem
  <2>1. Slack = 0
    BY <1>2 DEF AccountInv
  <2> QED BY <1>1, <2>1, CountsOfProperties
<1>3. ASSUME closing, Quiescent
      PROVE  Cardinality(Waiting) <= sem
  <2>1. /\ Cardinality(InvokesIn(fifo)) = 0
        /\ pc[Reader] \in {"read", "detached"} /\ pc[Gui] = "idle"
    <3>1. InvokesIn(fifo) = {}
      BY <1>3 DEF Quiescent, InvokesIn
    <3> QED BY <1>3, <3>1, FS_EmptySet DEF Quiescent
  <2>2. pendingInvocations <= 0
    BY <1>1, <1>3, <2>1 DEF AccountInv, StopDrains, At
  <2>3. Slack >= 0 /\ Slack = pendingInvocations + sem - Cardinality(Waiting)
    <3>1. Waiting = WaitingIn(wpc) /\ Cardinality(Waiting) \in Nat
      BY CountedAreFinite, Zenon DEF Waiting, WaitingIn
    <3> QED BY <1>1, <2>1, <3>1 DEF AccountInv, Slack, At
  <2> QED BY <1>1, <2>2, <2>3, CountsOfProperties
<1> QED BY <1>2, <1>3

\* Overlapping updates of the counter are remembered.
LEMMA OverlapRemembered ==
    ASSUME [Next]_vars, overlapped
    PROVE  overlapped'
<1>1. ASSUME NEW w \in FsThreads, FsThreadStep(w) PROVE overlapped'
  BY <1>1, Zenon DEF FsThreadStep, next_seqnum, report_fs_call, sem_wait,
     report_fs_call_return
<1>2. ASSUME NEW t \in Threads, AdvanceStep(t) PROVE overlapped'
  BY <1>2, Zenon DEF AdvanceStep, AdvanceCheck, AdvancePost, LoadCounter,
     StoreDecrement
<1>3. CASE ReadEvent \/ StoreIncrement \/ TestMode \/ Enqueue \/ Detach
  BY <1>3, Zenon DEF ReadEvent, StoreIncrement, TestMode, Enqueue, Detach
<1>4. CASE BeginDrain \/ ShowEvent \/ updateAdvanceButtonState \/ KillFs
  BY <1>4, Zenon DEF BeginDrain, ShowEvent, updateAdvanceButtonState, KillFs
<1>5. CASE UserStep
  BY <1>5, Zenon DEF UserStep, advance_btn_handler, autoadvance_btn_handler,
     stopDebugger, startDebugger
<1>6. CASE FsExit \/ Unmount \/ Crash
  BY <1>6, Zenon DEF FsExit, JoinWorkers, ExitProcess, Unmount, Crash
<1>7. CASE Finished \/ Hung \/ UNCHANGED vars
  BY <1>7, Zenon DEF Finished, Hung, vars
<1> QED
  BY <1>1, <1>2, <1>3, <1>4, <1>5, <1>6, <1>7
     DEF Next, ReaderStep, GuiStep, Threads

\* What the balance rests on is kept by every step: as long as no overlap is
\* recorded, a thread has loaded the counter only when the other one was not
\* between load and store, and the main thread stays out of report_fs_call
\* until fuse_destroy.
LEMMA ExclusiveInductive ==
    ASSUME TypeOK, session > 0, MainIdle, ~overlapped => UpdatesExclusive,
           [Next]_vars
    PROVE  session' > 0 /\ MainIdle' /\ (~overlapped' => UpdatesExclusive')
<1> DEFINE Goal == /\ session' > 0 /\ MainIdle'
                   /\ ~overlapped' => UpdatesExclusive'
<1> USE DebuggerAssumption
    DEF TypeOK, MainIdle, UpdatesExclusive, Storing, Threads, Reader, Gui,
        fsVars, guiVars, Goto
<1>1. ASSUME NEW w \in FsThreads, FsThreadStep(w) PROVE Goal
  <2>1. CASE next_seqnum(w)
    BY <2>1 DEF next_seqnum
  <2>2. CASE report_fs_call(w)
    BY <2>2 DEF report_fs_call
  <2>3. CASE sem_wait(w)
    BY <2>3 DEF sem_wait
  <2>4. CASE report_fs_call_return(w)
    BY <2>4 DEF report_fs_call_return
  <2> QED BY <1>1, <2>1, <2>2, <2>3, <2>4 DEF FsThreadStep
<1>2. ASSUME NEW t \in Threads, AdvanceStep(t) PROVE Goal
  <2>1. CASE AdvanceCheck(t)
    BY <2>1 DEF AdvanceCheck, Continue, NotAdvanced
  <2>2. CASE AdvancePost(t)
    BY <2>2 DEF AdvancePost
  <2>3. CASE LoadCounter(t)
    BY <2>3 DEF LoadCounter
  <2>4. CASE StoreDecrement(t)
    BY <2>4 DEF StoreDecrement, Continue, Advanced
  <2> QED BY <1>2, <2>1, <2>2, <2>3, <2>4 DEF AdvanceStep
<1>3. CASE ReadEvent \/ StoreIncrement \/ TestMode \/ Enqueue \/ Detach
  BY <1>3 DEF ReadEvent, StoreIncrement, TestMode, Enqueue, Detach
<1>4. CASE BeginDrain \/ ShowEvent \/ updateAdvanceButtonState
  BY <1>4 DEF BeginDrain, ShowEvent, updateAdvanceButtonState
<1>5. CASE KillFs
  BY <1>5 DEF KillFs, Continue
<1>6. CASE UserStep
  BY <1>6 DEF UserStep, advance_btn_handler, autoadvance_btn_handler,
     stopDebugger, startDebugger
<1>7. CASE FsExit \/ Unmount \/ Crash
  BY <1>7 DEF FsExit, JoinWorkers, ExitProcess, Unmount, Crash, FsThreads
<1>8. CASE Finished \/ Hung \/ UNCHANGED vars
  BY <1>8 DEF Finished, Hung, vars
<1> QED
  BY <1>1, <1>2, <1>3, <1>4, <1>5, <1>6, <1>7, <1>8
     DEF Next, ReaderStep, GuiStep

\* A step that ends in the first session began there, and a step after which
\* the file system is serving requests began with it serving them.
LEMMA SameSession ==
    ASSUME TypeOK, session > 0, [Next]_vars, session' = 1
    PROVE  /\ session = 1
           /\ fs' \in {"mounted", "exiting"} => fs \in {"mounted", "exiting"}
           /\ ~startDebugger
<1> USE DEF TypeOK, fsVars, guiVars
<1>1. ~startDebugger
  BY DEF startDebugger
<1>2. ASSUME NEW w \in FsThreads, FsThreadStep(w)
      PROVE  session' = session /\ fs' = fs
  BY <1>2 DEF FsThreadStep, next_seqnum, report_fs_call, sem_wait,
     report_fs_call_return
<1>3. ASSUME NEW t \in Threads, AdvanceStep(t)
      PROVE  session' = session /\ fs' = fs
  BY <1>3 DEF AdvanceStep, AdvanceCheck, AdvancePost, LoadCounter,
     StoreDecrement
<1>4. ASSUME ReadEvent \/ StoreIncrement \/ TestMode \/ Enqueue \/ Detach
             \/ BeginDrain \/ ShowEvent \/ updateAdvanceButtonState
      PROVE  session' = session /\ fs' = fs
  BY <1>4 DEF ReadEvent, StoreIncrement, TestMode, Enqueue, Detach, BeginDrain,
     ShowEvent, updateAdvanceButtonState
<1>5. ASSUME advance_btn_handler \/ autoadvance_btn_handler \/ stopDebugger
      PROVE  session' = session /\ fs' = fs
  BY <1>5 DEF advance_btn_handler, autoadvance_btn_handler, stopDebugger
<1>6. ASSUME KillFs \/ FsExit \/ Unmount \/ Crash
      PROVE  /\ session' = session
             /\ fs' \in {"mounted", "exiting"} => fs \in {"mounted", "exiting"}
  BY <1>6 DEF KillFs, FsExit, JoinWorkers, ExitProcess, Unmount, Crash
<1>7. ASSUME Finished \/ Hung \/ UNCHANGED vars
      PROVE  session' = session /\ fs' = fs
  BY <1>7 DEF Finished, Hung, vars
<1> QED
  BY <1>1, <1>2, <1>3, <1>4, <1>5, <1>6, <1>7
     DEF Next, ReaderStep, GuiStep, UserStep, Threads

\* Each step of each thread keeps the balance: what one term loses another one
\* gains.  Only a crash and SIGINT during the destroy call let a call go
\* without a token.
LEMMA SlackKept ==
    ASSUME TypeOK, MainIdle, UpdatesExclusive, [Next]_vars, ~startDebugger
    PROVE  /\ Slack' >= Slack
           /\ fs' \in {"mounted", "exiting"} => Slack' = Slack
           /\ ~KillFs /\ ~Crash => Slack' = Slack
<1> USE DEF Reader, Gui, fsVars, guiVars, Goto
<1>1. /\ wpc \in [FsThreads -> {"idle", "report", "wait", "run"}]
      /\ fifo \in Seq(Event)
      /\ sem \in Nat
      /\ pendingInvocations \in Int
      /\ pc \in [Threads -> ReaderPc \cup GuiPc]
      /\ pc[Reader] \in ReaderPc
      /\ pc[Gui] \in GuiPc
  BY DEF TypeOK
<1>2. /\ Cardinality(WaitingIn(wpc)) \in Nat
      /\ Cardinality(InvokesIn(fifo)) \in Nat
  BY <1>1, CountedAreFinite
<1>3. ASSUME NEW w \in FsThreads, FsThreadStep(w) PROVE Slack' = Slack
  <2>1. CASE next_seqnum(w)
    <3>1. WaitingIn(wpc') = WaitingIn(wpc)
      BY <1>1, <2>1, WaitingSame, Zenon DEF next_seqnum
    <3> QED BY <2>1, <3>1 DEF next_seqnum, Slack
  <2>2. CASE report_fs_call(w)
    <3>1. Cardinality(WaitingIn(wpc')) = Cardinality(WaitingIn(wpc)) + 1
      BY <1>1, <2>2, WaitingAdded, Zenon DEF report_fs_call
    <3>2. Cardinality(InvokesIn(fifo')) = Cardinality(InvokesIn(fifo)) + 1
      <4>1. /\ [type |-> "invoke", by |-> w] \in Event
            /\ [type |-> "invoke", by |-> w].type = "invoke"
        BY EventTypes, Zenon
      <4>2. fifo' = Append(fifo, [type |-> "invoke", by |-> w])
        BY <2>2 DEF report_fs_call
      <4> QED BY <1>1, <4>1, <4>2, InvokesAppended DEF At
    <3> QED BY <1>1, <1>2, <2>2, <3>1, <3>2 DEF report_fs_call, Slack, At
  <2>3. CASE sem_wait(w)
    <3>1. Cardinality(WaitingIn(wpc')) = Cardinality(WaitingIn(wpc)) - 1
      BY <1>1, <2>3, WaitingRemoved, Zenon DEF sem_wait
    <3> QED BY <1>1, <1>2, <2>3, <3>1 DEF sem_wait, Slack, At
  <2>4. CASE report_fs_call_return(w)
    <3>1. WaitingIn(wpc') = WaitingIn(wpc)
      BY <1>1, <2>4, WaitingSame, Zenon DEF report_fs_call_return
    <3>2. Cardinality(InvokesIn(fifo')) = Cardinality(InvokesIn(fifo))
      <4>1. /\ [type |-> "return", by |-> w] \in Event
            /\ [type |-> "return", by |-> w].type # "invoke"
        BY EventTypes, Zenon
      <4>2. fifo' = Append(fifo, [type |-> "return", by |-> w])
        BY <2>4 DEF report_fs_call_return
      <4> QED BY <1>1, <1>2, <4>1, <4>2, InvokesAppended DEF At
    <3> QED BY <2>4, <3>1, <3>2 DEF report_fs_call_return, Slack
  <2> QED BY <1>3, <2>1, <2>2, <2>3, <2>4 DEF FsThreadStep
<1>4. ASSUME NEW t \in Threads, AdvanceStep(t) PROVE Slack' = Slack
  <2>1. CASE AdvancePost(t)
    <3>1. /\ wpc' = wpc /\ fifo' = fifo /\ sem' = sem + 1
          /\ pendingInvocations' = pendingInvocations
          /\ pc[t] = "post" /\ pc' = [pc EXCEPT ![t] = "dec"]
      BY <2>1 DEF AdvancePost
    <3>2. sem \in Int /\ pendingInvocations \in Int
      BY <1>1
    <3>3. CASE t = Reader
      <4>1. /\ pc[Reader] = "post" /\ pc'[Reader] = "dec"
            /\ pc'[Gui] = pc[Gui]
        BY <1>1, <3>1, <3>3 DEF Threads
      <4> QED BY <1>2, <3>1, <3>2, <4>1 DEF Slack, At
    <3>4. CASE t = Gui
      <4>1. pc[Gui] = "post" /\ pc'[Gui] = "dec" /\ pc'[Reader] = pc[Reader]
        BY <1>1, <3>1, <3>4 DEF Threads
      <4> QED BY <1>2, <3>1, <3>2, <4>1 DEF Slack, At
    <3> QED BY <3>3, <3>4 DEF Threads
  <2> USE <1>1, <1>2 DEF Slack, At, Threads, ReaderPc, GuiPc, Storing
  <2>2. CASE AdvanceCheck(t)
    BY <2>2, Zenon DEF AdvanceCheck, Continue, NotAdvanced
  <2>3. CASE LoadCounter(t)
    BY <2>3, Zenon DEF LoadCounter
  <2>4. CASE StoreDecrement(t)
    <3>1. tmp[t] = pendingInvocations
      BY <2>4 DEF StoreDecrement, UpdatesExclusive
    <3> QED BY <2>4, <3>1 DEF StoreDecrement, Continue, Advanced
  <2> QED BY <1>4, <2>1, <2>2, <2>3, <2>4 DEF AdvanceStep
<1>5. ASSUME ReadEvent PROVE Slack' = Slack
  <2>1. Cardinality(InvokesIn(fifo'))
          = Cardinality(InvokesIn(fifo)) - At(Head(fifo).type, {"invoke"})
    BY <1>1, <1>5, InvokesRead DEF ReadEvent
  <2> QED BY <1>1, <1>2, <1>5, <2>1 DEF ReadEvent, Slack, At, Threads
<1>6. ASSUME StoreIncrement PROVE Slack' = Slack
  <2>1. tmp[Reader] = pendingInvocations
    BY <1>6 DEF StoreIncrement, UpdatesExclusive, Storing, Threads
  <2>2. /\ wpc' = wpc /\ fifo' = fifo /\ sem' = sem
        /\ pendingInvocations' = pendingInvocations + 1
        /\ pc[Reader] = "incStore" /\ pc'[Reader] = "mode"
        /\ pc'[Gui] = pc[Gui]
    BY <1>1, <1>6, <2>1 DEF StoreIncrement, Threads
  <2> QED BY <1>1, <1>2, <2>2 DEF Slack, At
<1>7. ASSUME TestMode \/ Enqueue \/ Detach PROVE Slack' = Slack
  BY <1>1, <1>7 DEF TestMode, Enqueue, Detach, Slack, At, Threads
<1>8. ASSUME BeginDrain \/ ShowEvent \/ updateAdvanceButtonState
      PROVE  Slack' = Slack
  BY <1>1, <1>8
     DEF BeginDrain, ShowEvent, updateAdvanceButtonState, Slack, At, Threads
<1>9. ASSUME KillFs
      PROVE  /\ Slack' >= Slack
             /\ fs' \in {"mounted", "exiting"} => Slack' = Slack
  <2>1. /\ fifo' = fifo /\ sem' = sem
        /\ pendingInvocations' = pendingInvocations
        /\ pc[Gui] = "kill" /\ pc'[Gui] = "idle" /\ pc'[Reader] = pc[Reader]
    BY <1>1, <1>9 DEF KillFs, Continue, Threads
  <2>2. CASE wpc' = wpc
    BY <1>1, <1>2, <2>1, <2>2 DEF Slack, At
  <2>3. CASE wpc[Main] = "wait" /\ wpc' = [wpc EXCEPT ![Main] = "run"]
    <3>1. Cardinality(WaitingIn(wpc')) = Cardinality(WaitingIn(wpc)) - 1
      BY <1>1, <2>3, WaitingRemoved, Zenon DEF FsThreads
    <3>2. fs' \notin {"mounted", "exiting"}
      BY <1>9, <2>3 DEF KillFs, MainIdle
    <3> QED BY <1>1, <1>2, <2>1, <3>1, <3>2 DEF Slack, At
  <2> QED BY <1>9, <2>2, <2>3 DEF KillFs
<1>10. ASSUME advance_btn_handler \/ autoadvance_btn_handler \/ stopDebugger
       PROVE  Slack' = Slack
  BY <1>1, <1>10
     DEF advance_btn_handler, autoadvance_btn_handler, stopDebugger, Slack,
         At, Threads
<1>11. ASSUME Unmount PROVE Slack' = Slack
  BY <1>11 DEF Unmount, Slack
<1>12. ASSUME FsExit PROVE Slack' = Slack
  <2>1. WaitingIn(wpc') = WaitingIn(wpc)
    <3>1. CASE UNCHANGED wpc
      BY <3>1
    <3>2. CASE wpc[Main] = "idle" /\ wpc' = [wpc EXCEPT ![Main] = "report"]
      BY <1>1, <3>2, WaitingSame, Zenon DEF FsThreads
    <3> QED BY <1>12, <3>1, <3>2 DEF FsExit, JoinWorkers, ExitProcess, MainIdle
  <2> QED BY <1>12, <2>1 DEF FsExit, JoinWorkers, ExitProcess, Slack
<1>13. ASSUME Crash PROVE Slack' >= Slack /\ fs' = "gone"
  <2>1. Cardinality(WaitingIn(wpc')) = 0
    <3>1. WaitingIn(wpc') = {}
      BY <1>13 DEF Crash, WaitingIn
    <3> QED BY <3>1, FS_EmptySet
  <2> QED BY <1>1, <1>2, <1>13, <2>1 DEF Crash, Slack, At
<1>14. ASSUME Finished \/ Hung \/ UNCHANGED vars PROVE Slack' = Slack
  BY <1>14 DEF Finished, Hung, vars, Slack
<1>15. Slack \in Int
  BY <1>1, <1>2 DEF Slack, At
<1>16. \/ /\ KillFs \/ Crash
          /\ Slack' >= Slack
          /\ fs' \in {"mounted", "exiting"} => Slack' = Slack
       \/ Slack' = Slack
  BY <1>3, <1>4, <1>5, <1>6, <1>7, <1>8, <1>9, <1>10, <1>11, <1>12, <1>13,
     <1>14
     DEF Next, ReaderStep, GuiStep, UserStep, Threads
<1> QED BY <1>15, <1>16

\* Stop leaves nothing pending behind it: its loop ends on a counter that is
\* not positive, and from then on the reader advances what it counts.
LEMMA StopDrainsInductive ==
    ASSUME TypeOK, UpdatesExclusive, StopDrains, [Next]_vars
    PROVE  StopDrains'
<1> USE DEF Reader, Gui, fsVars, guiVars, Goto, StopDrains, At, Threads, TypeOK
<1>1. ASSUME NEW w \in FsThreads, FsThreadStep(w) PROVE StopDrains'
  BY <1>1, Zenon DEF FsThreadStep, next_seqnum, report_fs_call, sem_wait,
              report_fs_call_return
<1>2. ASSUME NEW t \in Threads, AdvanceStep(t) PROVE StopDrains'
  <2>1. CASE AdvanceCheck(t)
    BY <2>1 DEF AdvanceCheck, Continue, NotAdvanced, canAdvance
  <2>2. CASE AdvancePost(t)
    BY <2>2 DEF AdvancePost
  <2>3. CASE LoadCounter(t)
    BY <2>3 DEF LoadCounter
  <2>4. CASE StoreDecrement(t)
    <3>1. tmp[t] = pendingInvocations
      BY <2>4 DEF StoreDecrement, UpdatesExclusive, Storing
    <3> QED BY <2>4, <3>1 DEF StoreDecrement, Continue, Advanced
  <2> QED BY <1>2, <2>1, <2>2, <2>3, <2>4 DEF AdvanceStep
<1>3. CASE ReadEvent \/ TestMode \/ Enqueue \/ Detach
  BY <1>3, Zenon DEF ReadEvent, TestMode, Enqueue, Detach
<1>4. CASE StoreIncrement
  <2>1. tmp[Reader] = pendingInvocations
    BY <1>4 DEF StoreIncrement, UpdatesExclusive, Storing
  <2> QED BY <1>4, <2>1 DEF StoreIncrement
<1>5. CASE BeginDrain \/ ShowEvent \/ updateAdvanceButtonState \/ KillFs
  BY <1>5, Zenon
  DEF BeginDrain, ShowEvent, updateAdvanceButtonState, KillFs, Continue
<1>6. CASE UserStep
  BY <1>6, Zenon DEF UserStep, advance_btn_handler, autoadvance_btn_handler,
              stopDebugger, startDebugger
<1>7. CASE FsExit \/ Unmount \/ Crash
  BY <1>7, Zenon DEF FsExit, JoinWorkers, ExitProcess, Unmount, Crash
<1>8. CASE Finished \/ Hung \/ UNCHANGED vars
  BY <1>8, Zenon DEF Finished, Hung, vars
<1> QED
  BY <1>1, <1>2, <1>3, <1>4, <1>5, <1>6, <1>7, <1>8
     DEF Next, ReaderStep, GuiStep

\* The strengthening is an inductive invariant of the debugger.
LEMMA AccountInvHolds == Spec => [](TypeOK /\ AccountInv)
<1>1. Init => AccountInv
  <2> SUFFICES ASSUME Init PROVE AccountInv
    OBVIOUS
  <2>1. WaitingIn(wpc) = {} /\ InvokesIn(fifo) = {}
    BY DEF Init, WaitingIn, InvokesIn
  <2>2. Slack = 0
    <3>1. Cardinality(WaitingIn(wpc)) = 0 /\ Cardinality(InvokesIn(fifo)) = 0
      BY <2>1, FS_EmptySet
    <3>2. pc[Reader] = "read" /\ pc[Gui] = "idle"
      BY DEF Init, Threads, Reader, Gui
    <3> QED BY <3>1, <3>2 DEF Init, Slack, At
  <2>3. UpdatesExclusive /\ StopDrains
    BY DEF Init, UpdatesExclusive, Storing, StopDrains, Threads, Reader, Gui
  <2>4. session > 0 /\ MainIdle
    BY DEF Init, MainIdle, FsThreads
  <2> QED BY <2>2, <2>3, <2>4 DEF AccountInv
<1>2. TypeOK /\ TypeOK' /\ AccountInv /\ [Next]_vars => AccountInv'
  <2> SUFFICES ASSUME TypeOK, TypeOK', AccountInv, [Next]_vars
               PROVE  AccountInv'
    OBVIOUS
  <2>1. session' > 0 /\ MainIdle' /\ (~overlapped' => UpdatesExclusive')
    BY ExclusiveInductive DEF AccountInv
  <2>2. ~overlapped' => StopDrains'
    BY OverlapRemembered, StopDrainsInductive DEF AccountInv
  <2>3. ASSUME session' = 1, ~overlapped'
        PROVE  /\ Slack' >= 0
               /\ fs' \in {"mounted", "exiting"} => Slack' = 0
    <3>1. session = 1 /\ ~startDebugger /\ ~overlapped
           /\ (fs' \in {"mounted", "exiting"} => fs \in {"mounted", "exiting"})
      BY <2>3, OverlapRemembered, SameSession DEF AccountInv
    <3>2. Slack \in Int /\ Slack' \in Int
      <4>1. /\ Cardinality(WaitingIn(wpc)) \in Nat
            /\ Cardinality(InvokesIn(fifo)) \in Nat
            /\ Cardinality(WaitingIn(wpc')) \in Nat
            /\ Cardinality(InvokesIn(fifo')) \in Nat
        BY CountedAreFinite DEF TypeOK
      <4>2. /\ sem \in Nat /\ pendingInvocations \in Int
            /\ sem' \in Nat /\ pendingInvocations' \in Int
        BY DEF TypeOK
      <4> QED BY <4>1, <4>2 DEF Slack, At
    <3> QED BY <2>3, <3>1, <3>2, SlackKept DEF AccountInv
  <2> QED BY <2>1, <2>2, <2>3 DEF AccountInv
<1> QED BY <1>1, <1>2, TypeCorrect, PTL DEF Spec

\* For any number of threads and calls: as long as no two updates of
\* pendingInvocations have overlapped, each call that waits in report_fs_call
\* is accounted for exactly once, by its unread event, by the counter or by a
\* token in the semaphore, whatever the user clicks and however the reader and
\* the GUI thread race in advance().
THEOREM WaitsAccountedFor == Spec => []EveryWaitAccountedFor
<1> QED BY AccountInvHolds, AccountInvImplies, PTL

\* For any number of threads and calls, under the same condition: when the
\* debugger's threads come to rest after Stop, there is a token for every call
\* that still waits in report_fs_call, whatever calls were in progress, counted
\* or unread when stopDebugger ran, and whether the file system is serving,
\* ending, in its destroy call or dead.
THEOREM StopReleases == Spec => []StopReleasesEveryCall
<1> QED BY AccountInvHolds, AccountInvImplies, PTL

-----------------------------------------------------------------------------
(* Single-stepping *)

\* What holds in the first session until Stop is pressed or two updates of the
\* counter overlap, if Auto-advance is never clicked: only the GUI thread
\* advances, for a call that is counted.
SteppingInv ==
    /\ ~autoAdvance
    /\ session = 1 /\ ~closing /\ ~overlapped =>
          /\ handler # "stop" /\ pc[Gui] # "kill"
          /\ pc[Reader] \notin {"check", "post", "dec", "decStore"}
          /\ pendingInvocations >= At(pc[Gui], {"post", "dec", "decStore"})
          /\ fs # "gone" => Slack = 0

\* Steps of the file system leave the debugger's state alone, or only the
\* slack has to be looked at.
LEMMA SteppingInductive ==
    ASSUME TypeOK, AccountInv, SteppingInv, [Next]_vars, ~CanToggle
    PROVE  SteppingInv'
<1> USE DEF Reader, Gui, fsVars, guiVars, Goto, At, Threads
<1> DEFINE Rest ==
        /\ handler # "stop" /\ pc[Gui] # "kill"
        /\ pc[Reader] \notin {"check", "post", "dec", "decStore"}
        /\ pendingInvocations >= At(pc[Gui], {"post", "dec", "decStore"})
<1>1. ASSUME ~overlapped' PROVE ~overlapped /\ UpdatesExclusive
  BY <1>1, OverlapRemembered DEF AccountInv
<1>2. ASSUME ~startDebugger
      PROVE  /\ ~autoAdvance'
             /\ ~closing' => ~closing
             /\ ~closing' /\ ~overlapped' /\ Rest => Rest'
  <2> USE DEF TypeOK, SteppingInv
  <2>1. ASSUME NEW w \in FsThreads, FsThreadStep(w)
        PROVE  ~autoAdvance' /\ closing' = closing /\ (Rest => Rest')
    BY <2>1 DEF FsThreadStep, next_seqnum, report_fs_call, sem_wait,
                report_fs_call_return
  <2>2. ASSUME NEW t \in Threads, AdvanceStep(t)
        PROVE  /\ ~autoAdvance' /\ closing' = closing
               /\ ~overlapped' /\ Rest => Rest'
    <3>1. CASE AdvanceCheck(t)
      BY <3>1 DEF AdvanceCheck, Continue, NotAdvanced, canAdvance
    <3>2. CASE AdvancePost(t)
      BY <3>2 DEF AdvancePost
    <3>3. CASE LoadCounter(t)
      BY <3>3 DEF LoadCounter
    <3>4. CASE StoreDecrement(t)
      <4>1. ~overlapped' => tmp[t] = pendingInvocations
        BY <1>1, <3>4 DEF StoreDecrement, UpdatesExclusive, Storing
      <4> QED BY <3>4, <4>1 DEF StoreDecrement, Continue, Advanced
    <3> QED BY <2>2, <3>1, <3>2, <3>3, <3>4 DEF AdvanceStep
  <2>3. ASSUME ReadEvent \/ Enqueue \/ Detach
        PROVE  ~autoAdvance' /\ closing' = closing /\ (Rest => Rest')
    BY <2>3 DEF ReadEvent, Enqueue, Detach
  <2>4. ASSUME TestMode
        PROVE  /\ ~autoAdvance' /\ closing' = closing
               /\ ~closing /\ Rest => Rest'
    BY <2>4 DEF TestMode
  <2>5. ASSUME StoreIncrement
        PROVE  /\ ~autoAdvance' /\ closing' = closing
               /\ ~overlapped' /\ Rest => Rest'
    <3>1. ~overlapped' => tmp[Reader] = pendingInvocations
      BY <1>1, <2>5 DEF StoreIncrement, UpdatesExclusive, Storing
    <3> QED BY <2>5, <3>1 DEF StoreIncrement
  <2>6. ASSUME BeginDrain \/ ShowEvent \/ updateAdvanceButtonState \/ KillFs
        PROVE  ~autoAdvance' /\ closing' = closing /\ (Rest => Rest')
    BY <2>6 DEF BeginDrain, ShowEvent, updateAdvanceButtonState, KillFs,
                Continue
  <2>7. ASSUME advance_btn_handler
        PROVE  ~autoAdvance' /\ closing' = closing /\ (Rest => Rest')
    BY <2>7 DEF advance_btn_handler
  <2>8. ASSUME stopDebugger PROVE ~autoAdvance' /\ closing'
    BY <2>8 DEF stopDebugger
  <2>9. ~autoadvance_btn_handler
    BY DEF autoadvance_btn_handler
  <2>10. ASSUME FsExit \/ Unmount \/ Crash \/ Finished \/ Hung \/ UNCHANGED vars
         PROVE  ~autoAdvance' /\ closing' = closing /\ (Rest => Rest')
    BY <2>10 DEF FsExit, JoinWorkers, ExitProcess, Unmount, Crash, Finished,
                 Hung, vars
  <2> QED
    BY <1>2, <2>1, <2>2, <2>3, <2>4, <2>5, <2>6, <2>7, <2>8, <2>9, <2>10
       DEF Next, ReaderStep, GuiStep, UserStep
<1>3. ASSUME ~startDebugger, session = 1, ~closing, ~closing', ~overlapped',
             fs' # "gone"
      PROVE  Slack' = Slack /\ fs # "gone"
  <2>1. ~KillFs /\ ~Crash
    BY <1>1, <1>3 DEF SteppingInv, KillFs, Crash
  <2>2. fs # "gone"
    <3>1. ASSUME NEW w \in FsThreads, FsThreadStep(w) PROVE fs' = fs
      BY <3>1 DEF FsThreadStep, next_seqnum, report_fs_call, sem_wait,
                  report_fs_call_return
    <3>2. ASSUME NEW t \in Threads, AdvanceStep(t) PROVE fs' = fs
      BY <3>2 DEF AdvanceStep, AdvanceCheck, AdvancePost, LoadCounter,
                  StoreDecrement
    <3>3. ASSUME ReadEvent \/ StoreIncrement \/ TestMode \/ Enqueue \/ Detach
                 \/ BeginDrain \/ ShowEvent \/ updateAdvanceButtonState
          PROVE  fs' = fs
      BY <3>3 DEF ReadEvent, StoreIncrement, TestMode, Enqueue, Detach,
                  BeginDrain, ShowEvent, updateAdvanceButtonState
    <3>4. ASSUME advance_btn_handler \/ autoadvance_btn_handler \/ stopDebugger
                 \/ Finished \/ Hung \/ UNCHANGED vars
          PROVE  fs' = fs
      BY <3>4 DEF advance_btn_handler, autoadvance_btn_handler, stopDebugger,
                  Finished, Hung, vars
    <3>5. ASSUME FsExit \/ Unmount PROVE fs # "gone"
      BY <3>5 DEF FsExit, JoinWorkers, ExitProcess, Unmount
    <3> QED
      BY <1>3, <2>1, <3>1, <3>2, <3>3, <3>4, <3>5
         DEF Next, ReaderStep, GuiStep, UserStep
  <2> QED BY <1>1, <1>3, <2>1, <2>2, SlackKept DEF AccountInv
<1>4. CASE startDebugger
  <2>1. session' # 1 /\ autoAdvance' = autoAdvance
    BY <1>4 DEF startDebugger, AccountInv, TypeOK
  <2> QED BY <2>1 DEF SteppingInv
<1>5. CASE ~startDebugger
  <2> SUFFICES ASSUME session' = 1, ~closing', ~overlapped'
               PROVE  Rest' /\ (fs' # "gone" => Slack' = 0)
    BY <1>2, <1>5 DEF SteppingInv
  <2>1. session = 1 /\ ~closing /\ ~overlapped
    BY <1>1, <1>2, <1>5, SameSession DEF AccountInv
  <2> QED BY <1>2, <1>3, <1>5, <2>1 DEF SteppingInv
<1> QED BY <1>4, <1>5

\* If the user never clicks Auto-advance, then for any number of threads and
\* calls, with crashes and outside unmounts, in the first session and until the
\* reader's and the GUI thread's updates of the counter overlap, advance()
\* never posts a token that no waiting call is there for: no call gets through
\* report_fs_call without a pause before Stop is pressed.
THEOREM StepsOneCall ==
    ~CanToggle => (Spec => [](session = 1 => NoSpareToken))
<1> SUFFICES ASSUME ~CanToggle
             PROVE  Spec => [](session = 1 => NoSpareToken)
  OBVIOUS
<1>1. Init => SteppingInv
  <2> SUFFICES ASSUME Init PROVE SteppingInv
    OBVIOUS
  <2>1. Cardinality(WaitingIn(wpc)) = 0 /\ Cardinality(InvokesIn(fifo)) = 0
    <3>1. WaitingIn(wpc) = {} /\ InvokesIn(fifo) = {}
      BY DEF Init, WaitingIn, InvokesIn
    <3> QED BY <3>1, FS_EmptySet
  <2>2. pc[Reader] = "read" /\ pc[Gui] = "idle"
    BY DEF Init, Threads, Reader, Gui
  <2> QED BY <2>1, <2>2 DEF Init, SteppingInv, Slack, At
<1>2. TypeOK /\ AccountInv /\ SteppingInv /\ [Next]_vars => SteppingInv'
  BY SteppingInductive
<1>3. TypeOK /\ SteppingInv => (session = 1 => NoSpareToken)
  <2> SUFFICES ASSUME TypeOK, SteppingInv, session = 1, ~closing, ~overlapped,
                      fs # "gone"
               PROVE  sem <= Cardinality(Waiting)
    BY DEF NoSpareToken
  <2>1. /\ Cardinality(InvokesIn(fifo)) \in Nat
        /\ Cardinality(WaitingIn(wpc)) \in Nat
        /\ Waiting = WaitingIn(wpc)
    BY CountedAreFinite, Zenon DEF TypeOK, Waiting, WaitingIn
  <2>2. pendingInvocations \in Int /\ sem \in Nat
    BY DEF TypeOK
  <2> QED BY <2>1, <2>2 DEF SteppingInv, Slack, At
<1> QED BY <1>1, <1>2, <1>3, AccountInvHolds, PTL DEF Spec

\* For any number of threads and calls, whatever the user clicks: in the first
\* session and until the reader's and the GUI thread's updates of the counter
\* overlap, a call that is left waiting when everything is at rest can be
\* resumed with the Advance button.
THEOREM PausedCanAdvance ==
    Spec => [](session = 1 => PausedCallCanBeAdvanced)
<1>1. TypeOK /\ AccountInv /\ AdvanceButtonFollowsCounter
        => (session = 1 => PausedCallCanBeAdvanced)
  <2> SUFFICES ASSUME TypeOK, AccountInv, AdvanceButtonFollowsCounter,
                      session = 1, ~overlapped, Quiescent,
                      Cardinality(Waiting) > sem
               PROVE  advance_btn /\ canAdvance
    BY DEF PausedCallCanBeAdvanced
  <2>1. /\ Cardinality(WaitingIn(wpc)) \in Nat
        /\ Waiting = WaitingIn(wpc)
    BY CountedAreFinite, Zenon DEF Waiting, WaitingIn
  <2>2. Cardinality(InvokesIn(fifo)) = 0
    <3>1. InvokesIn(fifo) = {}
      BY DEF Quiescent, InvokesIn
    <3> QED BY <3>1, FS_EmptySet
  <2>3. pendingInvocations \in Int /\ sem \in Nat
    BY DEF TypeOK
  <2>4. canAdvance
    <3>1. Slack >= 0 /\ pc[Reader] \in {"read", "detached"} /\ pc[Gui] = "idle"
      BY DEF AccountInv, Quiescent
    <3>2. Slack = pendingInvocations + sem - Cardinality(Waiting)
      BY <2>1, <2>2, <2>3, <3>1 DEF Slack, At
    <3> QED BY <2>1, <2>3, <3>1, <3>2 DEF canAdvance
  <2> QED BY <2>4 DEF AdvanceButtonFollowsCounter
<1> QED BY <1>1, AccountInvHolds, ButtonFollowsCounter, PTL
=============================================================================
