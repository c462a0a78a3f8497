---------------------------- MODULE LoggerProofs ----------------------------
(***************************************************************************)
(* Proofs about the console logger, for any number of threads, calls and   *)
(* keys: its types, that a captured sequence is a run of consecutive       *)
(* calls, and that no captured call is lost when the logger ends by        *)
(* itself.                                                                 *)
(***************************************************************************)
EXTENDS Logger, FiniteSetTheorems, TLAPS

\* A leaf that names no prover is given to SMT and then to Zenon.
USE SMTT(40), ZenonT(40)

-----------------------------------------------------------------------------
(* Types *)

\* The threads that have taken a call and not written its invoke event.
Reporting == {w \in FsThreads : wpc[w] = "report"}

\* No more events are written than calls begun, the destroy call included,
\* which begins when the workers have been joined; and the second Ctrl-C is
\* the last one.
CountInv ==
    /\ written + Cardinality(Reporting) <=
          calls + IF fs \in {"mounted", "exiting"} THEN 0 ELSE 1
    /\ terminate_calls = 2 => Over
    /\ fs \in {"mounted", "exiting"} => wpc[Main] = "idle"
    /\ fs = "gone" => \A w \in FsThreads : wpc[w] = "idle"

\* The inductive invariant for the types.
TypeInv == TypeOK /\ CountInv

\* The bounds are natural numbers.
LEMMA Bounds == MaxCalls \in Nat /\ MaxKeys \in Nat /\ QuitPosts \in Nat
BY LoggerAssumption

\* What is written to the FIFO is a piece of an event.
LEMMA Pieces ==
    /\ NoEvent \in Piece
    /\ \A n \in Nat : \A p \in {"whole", "head", "tail"} :
          [call |-> n, part |-> p] \in Piece
BY DEF Piece, NoEvent

\* Sequences begin empty and grow at their end.
LEMMA SeqTypes ==
    ASSUME NEW S
    PROVE  /\ <<>> \in Seq(S)
           /\ \A s \in Seq(S) : \A e \in S : Append(s, e) \in Seq(S)
OBVIOUS

\* A write leaves a sequence of pieces, whether or not anybody reads it.
LEMMA WriteType ==
    ASSUME fifo \in Seq(Piece), NEW p \in Piece, Write(p)
    PROVE  fifo' \in Seq(Piece)
BY DEF Write

\* The threads of the file system are finitely many.
LEMMA FiniteReporting ==
    /\ IsFiniteSet(FsThreads)
    /\ IsFiniteSet(Reporting) /\ Cardinality(Reporting) \in Nat
    /\ IsFiniteSet(Reporting') /\ Cardinality(Reporting') \in Nat
<1>1. IsFiniteSet(FsThreads)
  BY LoggerAssumption, FS_AddElement DEF FsThreads
<1>2. Reporting \subseteq FsThreads /\ Reporting' \subseteq FsThreads
  BY DEF Reporting, FsThreads
<1> QED BY <1>1, <1>2, FS_Subset, FS_CardinalityType

\* A thread begins to report a call.
LEMMA OneMoreReports ==
    ASSUME TypeOK, NEW w \in FsThreads, wpc[w] # "report",
           wpc' = [wpc EXCEPT ![w] = "report"]
    PROVE  Cardinality(Reporting') = Cardinality(Reporting) + 1
<1>1. Reporting' = Reporting \cup {w} /\ w \notin Reporting
  BY DEF Reporting, TypeOK, FsThreads
<1> QED BY <1>1, FiniteReporting, FS_AddElement

\* A thread has written its invoke event.
LEMMA OneLessReports ==
    ASSUME TypeOK, NEW w \in FsThreads, NEW p, p # "report", wpc[w] = "report",
           wpc' = [wpc EXCEPT ![w] = p]
    PROVE  Cardinality(Reporting') = Cardinality(Reporting) - 1
<1>1. Reporting' = Reporting \ {w} /\ w \in Reporting
  BY DEF Reporting, TypeOK, FsThreads
<1> QED BY <1>1, FiniteReporting, FS_RemoveElement

\* What CountInv says as long as no thread begins or ends a report.
LEMMA CountStays ==
    ASSUME CountInv, fs' = fs, wpc' = wpc, calls' = calls, written' = written,
           (terminate_calls' = 2 => Over')
    PROVE  CountInv'
<1>1. Cardinality(Reporting') = Cardinality(Reporting)
  BY DEF Reporting
<1> QED BY <1>1 DEF CountInv

\* The threads of the file system keep the types and the count.
LEMMA FsKeepsType ==
    ASSUME TypeInv, \E w \in FsThreads : next_seqnum(w) \/ FsThreadStep(w)
    PROVE  TypeInv'
<1> USE Bounds DEF TypeInv, TypeOK, logVars, sigVars, FsThreads
<1> PICK w \in FsThreads : next_seqnum(w) \/ FsThreadStep(w)
  OBVIOUS
<1>0. Cardinality(Reporting) \in Nat /\ Cardinality(Reporting') \in Nat
  BY FiniteReporting
<1>1. CASE next_seqnum(w)
  <2>1. TypeOK'
    BY <1>1 DEF next_seqnum
  <2>2. Cardinality(Reporting') = Cardinality(Reporting) + 1
    BY <1>1, OneMoreReports, Zenon DEF next_seqnum
  <2>3. CountInv'
    BY <1>1, <1>0, <2>2, LoggerAssumption DEF next_seqnum, CountInv, Over
  <2> QED BY <2>1, <2>3
<1>2. CASE report_fs_call(w)
  <2> PICK p \in {"whole", "head"} :
         /\ Write([call |-> written + 1, part |-> p])
         /\ wpc' = [wpc EXCEPT ![w] = IF p = "whole" THEN "wait" ELSE "part"]
    BY <1>2, Zenon DEF report_fs_call
  <2>0. Cardinality(Reporting') = Cardinality(Reporting) - 1
    BY <1>2, OneLessReports, Zenon DEF report_fs_call
  <2>1. CountInv'
    BY <1>2, <1>0, <2>0 DEF report_fs_call, CountInv, Over
  <2>2. written' \in 0..(MaxCalls + 1)
    BY <1>2, <1>0, <2>0 DEF report_fs_call, CountInv
  <2>3. fifo' \in Seq(Piece)
    <3>1. written + 1 \in Nat
      OBVIOUS
    <3>2. [call |-> written + 1, part |-> p] \in Piece
      BY <3>1, Pieces, Zenon
    <3> QED BY <3>2, WriteType
  <2>4. TypeOK'
    BY <1>2, <2>2, <2>3 DEF report_fs_call
  <2> QED BY <2>1, <2>4
<1>3. CASE fflush(w) \/ sem_wait(w) \/ report_fs_call_return(w)
  <2>1. Reporting' = Reporting
    BY <1>3 DEF fflush, sem_wait, report_fs_call_return, Reporting
  <2>2. CountInv'
    BY <1>3, <2>1 DEF fflush, sem_wait, report_fs_call_return, CountInv, Over
  <2>3. fifo' \in Seq(Piece)
    <3>1. written \in Nat /\ 0 \in Nat
      OBVIOUS
    <3>2. /\ [call |-> written, part |-> "tail"] \in Piece
          /\ [call |-> 0, part |-> "whole"] \in Piece
      BY <3>1, Pieces, Zenon
    <3> QED
      BY <1>3, <3>2, WriteType DEF fflush, sem_wait, report_fs_call_return
  <2>4. sem' \in Nat
    BY <1>3 DEF fflush, sem_wait, report_fs_call_return
  <2>5. wpc' \in [FsThreads -> {"idle", "report", "part", "wait", "run"}]
    BY <1>3 DEF fflush, sem_wait, report_fs_call_return
  <2>6. /\ UNCHANGED <<fs, calls, written, sigint, pc, tmp, event,
                       pendingInvocations, fifoOpen, logVars, sigVars>>
    BY <1>3, Zenon DEF fflush, sem_wait, report_fs_call_return
  <2>7. TypeOK'
    BY <2>3, <2>4, <2>5, <2>6
  <2> QED BY <2>2, <2>7
<1> QED BY <1>1, <1>2, <1>3 DEF FsThreadStep

\* So does the end of the file system.
LEMMA EndKeepsType ==
    ASSUME TypeInv, Unmount \/ InterruptWait \/ FsEnd \/ Crash
    PROVE  TypeInv'
<1> USE Bounds DEF TypeInv, TypeOK, logVars, sigVars, FsThreads
<1>0. Cardinality(Reporting) \in Nat /\ Cardinality(Reporting') \in Nat
  BY FiniteReporting
<1>1. CASE Unmount \/ ObeySigint
  <2>1. Reporting' = Reporting
    BY <1>1 DEF Unmount, ObeySigint, LeaveLoop, Reporting
  <2>2. CountInv'
    BY <1>1, <2>1 DEF Unmount, ObeySigint, LeaveLoop, CountInv, Over
  <2> QED BY <1>1, <2>2, Zenon DEF Unmount, ObeySigint, LeaveLoop
<1>2. CASE InterruptWait
  <2>1. Reporting' = Reporting
    BY <1>2 DEF InterruptWait, Reporting
  <2>2. CountInv'
    BY <1>2, <2>1 DEF InterruptWait, CountInv, Over
  <2> QED BY <1>2, <2>2, Zenon DEF InterruptWait
<1>3. CASE JoinWorkers
  <2>1. Cardinality(Reporting') = Cardinality(Reporting) + 1
    BY <1>3, OneMoreReports, Zenon DEF JoinWorkers, CountInv
  <2>2. CountInv'
    BY <1>3, <1>0, <2>1 DEF JoinWorkers, CountInv, Over
  <2> QED BY <1>3, <2>2 DEF JoinWorkers
<1>4. CASE ExitProcess \/ Crash
  <2>1. Cardinality(Reporting') = 0
    <3>1. Reporting' = {}
      BY <1>4 DEF ExitProcess, Crash, FsEnds, Reporting
    <3> QED BY <3>1, FS_EmptySet
  <2>2. CountInv'
    BY <1>4, <1>0, <2>1 DEF ExitProcess, Crash, FsEnds, CountInv, Over
  <2> QED BY <1>4, <2>2, Zenon DEF ExitProcess, Crash, FsEnds
<1> QED BY <1>1, <1>2, <1>3, <1>4 DEF FsEnd

\* So do the steps of FDT's thread.
LEMMA LoggerKeepsType ==
    ASSUME TypeInv, LoggerStep
    PROVE  TypeInv'
<1> USE DEF TypeInv, TypeOK, logVars, sigVars, fsVars, Loop
<1>0. CountInv'
  <2>1. /\ fs' = fs /\ wpc' = wpc /\ calls' = calls /\ written' = written
        /\ terminate_calls' = terminate_calls
        /\ ~Over
    BY DEF LoggerStep, ReadEvent, ReadNothing, NoKey, EndLoop, QuitPost,
           handleLoggerEvent, l_advance, Over
  <2>2. terminate_calls' # 2
    BY <2>1 DEF CountInv
  <2> QED BY <2>1, <2>2, CountStays
<1>1. CASE ReadEvent
  <2>1. fifo' \in Seq(Piece) /\ event' \in Piece
    BY <1>1 DEF ReadEvent
  <2> QED BY <1>0, <1>1, <2>1 DEF ReadEvent
<1>2. CASE ReadNothing \/ EndLoop
  <2>1. fifo' \in Seq(Piece)
    BY <1>2, SeqTypes, Zenon DEF ReadNothing, EndLoop
  <2> QED BY <1>0, <1>2, <2>1, Zenon DEF ReadNothing, EndLoop
<1>6. CASE NoKey
  BY <1>0, <1>6 DEF NoKey, Prompted
<1>3. CASE QuitPost
  <2>1. sem' \in Nat
    BY <1>3, Bounds DEF QuitPost
  <2> QED BY <1>0, <1>3, <2>1, Zenon DEF QuitPost
<1>4. CASE handleLoggerEvent
  <2>1. event' \in Piece
    BY <1>4, Pieces DEF handleLoggerEvent
  <2>2. event.call \in Nat
    BY DEF Piece
  <2>3. current_sequence' \in Seq(Nat)
    <3>1. \/ current_sequence' = current_sequence
          \/ current_sequence' = Append(current_sequence, event.call)
      BY <1>4, Zenon DEF handleLoggerEvent
    <3> QED BY <2>2, <3>1, SeqTypes, ZenonT(40)
  <2> QED BY <1>0, <1>4, <2>1, <2>3 DEF handleLoggerEvent
<1>5. CASE l_advance
  BY <1>0, <1>5 DEF l_advance
<1> QED BY <1>1, <1>2, <1>3, <1>4, <1>5, <1>6 DEF LoggerStep

\* So do the keys and the signal handlers.
LEMMA SignalsAndKeysKeepType ==
    ASSUME TypeInv,
           KeyStep \/ terminate \/ childKilled \/ Finished \/ UNCHANGED vars
    PROVE  TypeInv'
<1> USE Bounds DEF TypeInv, TypeOK, logVars, sigVars, fsVars
<1>0. CountInv'
  <2>1. /\ fs' = fs /\ wpc' = wpc /\ calls' = calls /\ written' = written
        /\ terminate_calls' = 2 => Over'
    BY DEF KeyStep, StartCapture, EndCapture, Quit, QuitKey, Key, terminate,
           childKilled, Finished, vars, Over, CountInv
  <2> QED BY <2>1, CountStays
<1>1. CASE StartCapture
  BY <1>0, <1>1 DEF StartCapture, Key, Prompted, Loop
<1>2. CASE EndCapture
  <2>1. all_sequences' \in Seq(Seq(Nat)) /\ current_sequence' \in Seq(Nat)
    BY <1>2 DEF EndCapture
  <2> QED BY <1>0, <1>2, <2>1 DEF EndCapture, Key, Prompted, Loop
<1>3. CASE Quit
  <2>1. /\ sigint' \in BOOLEAN /\ expected' \in BOOLEAN /\ fifoOpen' \in BOOLEAN
        /\ export' \in {"none", "done", "discarded", "failed"}
    BY <1>3, Zenon DEF Quit, QuitKey, Key
  <2> QED BY <1>0, <1>3, <2>1 DEF Quit, QuitKey, Key
<1>4. CASE terminate
  <2>1. sigint' \in BOOLEAN /\ expected' \in BOOLEAN /\ fifoOpen' \in BOOLEAN
    BY <1>4, Zenon DEF terminate
  <2>2. /\ sem' \in Nat /\ pendingInvocations' \in Int
        /\ terminate_calls' \in 0..2
    BY <1>4 DEF terminate, l_canAdvance, CountInv
  <2>3. fifo' \in Seq(Piece)
    BY <1>4, SeqTypes, Zenon DEF terminate
  <2> QED BY <1>0, <1>4, <2>1, <2>2, <2>3 DEF terminate
<1>5. CASE childKilled \/ Finished \/ UNCHANGED vars
  BY <1>0, <1>5, Zenon DEF childKilled, Finished, vars
<1> QED BY <1>1, <1>2, <1>3, <1>4, <1>5, SMTT(40) DEF KeyStep

\* Every step keeps the types and the count.
LEMMA TypeStep ==
    ASSUME TypeInv, [Next]_vars
    PROVE  TypeInv'
BY FsKeepsType, EndKeepsType, LoggerKeepsType, SignalsAndKeysKeepType DEF Next

-----------------------------------------------------------------------------
(* The captured sequences *)

\* A piece that ends an invoke event: what handleLoggerEvent will be given.
Completes(p) == p.call # 0 /\ p.part # "head"

\* The invoke event of call n is still to be handled.
ToCome(n) ==
    \/ pc = "handle" /\ event.call = n
    \/ \E i \in 1..Len(fifo) : Completes(fifo[i]) /\ fifo[i].call = n

\* Nothing above h has been captured, and a sequence that is open ends in h.
Handled(h) ==
    /\ \A i \in 1..Len(all_sequences) : \A m \in 1..Len(all_sequences[i]) :
          all_sequences[i][m] <= h
    /\ \A m \in 1..Len(current_sequence) : current_sequence[m] <= h
    /\ current_sequence # <<>> =>
          current_sequence[Len(current_sequence)] = h

\* Events above h are in order in the FIFO, behind the one being handled.
InOrder(h) ==
    /\ \A i \in 1..Len(fifo) : Completes(fifo[i]) =>
          h < fifo[i].call /\ fifo[i].call <= written
    /\ \A i, j \in 1..Len(fifo) :
          Completes(fifo[i]) /\ Completes(fifo[j]) /\ i < j =>
             fifo[i].call < fifo[j].call
    /\ pc = "handle" /\ event.call # 0 =>
          /\ h < event.call /\ event.call <= written
          /\ \A i \in 1..Len(fifo) :
                Completes(fifo[i]) => event.call < fifo[i].call

\* None of them is missing, but for one that is being written or that the
\* death of its writer has cut short.
Complete(h) ==
    /\ \A n \in (h + 1)..written :
          \/ ToCome(n)
          \/ n = written /\ (~NobodyWriting \/ fs = "gone")
    /\ ~NobodyWriting => h < written /\ ~ToCome(written)

\* The calls are handled in the order of their numbers, up to some h.
StreamInv ==
    ~Over => \E h \in Nat : /\ h <= written
                            /\ Handled(h)
                            /\ InOrder(h)
                            /\ Complete(h)

\* One event is written at a time.
OneWriter ==
    \A v, w \in FsThreads : wpc[v] = "part" /\ wpc[w] = "part" => v = w

\* The calls of s follow one another, and come before those of t.
IsRun(s) == \A j \in 1..(Len(s) - 1) : s[j + 1] = s[j] + 1

Below(s, t) == \A m \in 1..Len(s), n \in 1..Len(t) : s[m] < t[n]

\* SequencesAreRuns, with the open sequence apart; it is empty when there is no
\* capture.
RunsInv ==
    /\ IsRun(current_sequence)
    /\ \A i \in 1..Len(all_sequences) :
          IsRun(all_sequences[i]) /\ Below(all_sequences[i], current_sequence)
    /\ \A i, j \in 1..Len(all_sequences) :
          i < j => Below(all_sequences[i], all_sequences[j])
    /\ current_state = "IDLE" => current_sequence = <<>>

\* The inductive invariant.
RunInv == TypeInv /\ OneWriter /\ StreamInv /\ RunsInv

\* The positions of a sequence.
LEMMA Positions ==
    ASSUME NEW s \in Seq(Nat), NEW m \in DOMAIN s
    PROVE  m \in 1..Len(s)
OBVIOUS

\* It says of both together what it says of each.
LEMMA RunsAreRuns ==
    ASSUME TypeOK, RunsInv
    PROVE  SequencesAreRuns
<1> DEFINE all == Append(all_sequences, current_sequence)
<1> USE DEF TypeOK
<1>1. /\ DOMAIN all = 1..(Len(all_sequences) + 1)
      /\ all[Len(all_sequences) + 1] = current_sequence
      /\ \A i \in 1..Len(all_sequences) : all[i] = all_sequences[i]
      /\ Len(all_sequences) \in Nat
  OBVIOUS
<1>2. ASSUME NEW i \in DOMAIN all PROVE all[i] \in Seq(Nat) /\ IsRun(all[i])
  BY <1>1 DEF RunsInv
<1>3. ASSUME NEW i \in DOMAIN all, NEW j \in DOMAIN all, i < j
      PROVE  Below(all[i], all[j])
  <2>1. i \in 1..Len(all_sequences) /\ all[i] = all_sequences[i]
    BY <1>1, <1>3
  <2>2. CASE j \in 1..Len(all_sequences)
    BY <1>1, <1>3, <2>1, <2>2, Zenon DEF RunsInv
  <2>3. CASE j = Len(all_sequences) + 1
    BY <1>1, <2>1, <2>3 DEF RunsInv
  <2> QED BY <1>1, <2>2, <2>3
<1> HIDE DEF all
<1>4. \A i \in DOMAIN all : \A j \in 1..(Len(all[i]) - 1) :
             all[i][j + 1] = all[i][j] + 1
  BY <1>2, Zenon DEF IsRun
<1>5. ASSUME NEW i \in DOMAIN all, NEW j \in DOMAIN all, i < j,
             NEW m \in DOMAIN all[i], NEW n \in DOMAIN all[j]
      PROVE  all[i][m] < all[j][n]
  <2>1. Below(all[i], all[j])
    BY <1>3, <1>5
  <2>2. all[i] \in Seq(Nat) /\ all[j] \in Seq(Nat)
    BY <1>2
  <2>3. m \in 1..Len(all[i]) /\ n \in 1..Len(all[j])
    BY <2>2, Positions, Zenon
  <2> QED BY <2>1, <2>3 DEF Below
<1> QED BY <1>4, <1>5, Zenon DEF SequencesAreRuns, all

\* Steps that neither write, read, handle nor capture.
LEMMA StreamStays ==
    ASSUME StreamInv, fifo' = fifo, written' = written, event' = event,
           NobodyWriting' = NobodyWriting,
           (fs' = "gone") = (fs = "gone"),
           (pc' = "handle") = (pc = "handle"), ~Over' => ~Over,
           UNCHANGED <<current_sequence, all_sequences>>
    PROVE  StreamInv'
<1> SUFFICES ASSUME ~Over'
             PROVE  \E h \in Nat : /\ h <= written'
                                   /\ Handled(h)'
                                   /\ InOrder(h)'
                                   /\ Complete(h)'
  BY DEF StreamInv
<1> PICK h \in Nat : h <= written /\ Handled(h) /\ InOrder(h) /\ Complete(h)
  BY DEF StreamInv
<1>1. Handled(h)'
  BY DEF Handled
<1>2. InOrder(h)'
  BY DEF InOrder
<1>3. Complete(h)'
  <2>1. \A n : ToCome(n)' = ToCome(n)
    BY DEF ToCome
  <2> QED BY <2>1 DEF Complete
<1> QED BY <1>1, <1>2, <1>3

\* Steps that do not touch the log.
LEMMA RunsStay ==
    ASSUME RunsInv,
           UNCHANGED <<current_sequence, all_sequences, current_state>>
    PROVE  RunsInv'
BY DEF RunsInv, IsRun, Below

\* A new piece at the end of the FIFO.
LEMMA AfterWrite ==
    ASSUME TypeOK, ~Over, NEW p \in Piece, Write(p)
    PROVE  /\ fifo' \in Seq(Piece)
           /\ Len(fifo') = Len(fifo) + 1
           /\ fifo'[Len(fifo) + 1] = p
           /\ \A i \in 1..Len(fifo) : fifo'[i] = fifo[i]
           /\ Len(fifo) \in Nat
BY DEF Write, TypeOK

\* The numbers in the FIFO are numbers.
LEMMA FifoTypes ==
    ASSUME TypeOK
    PROVE  /\ \A i \in 1..Len(fifo) : fifo[i].call \in Nat
           /\ Len(fifo) \in Nat
           /\ event.call \in Nat
           /\ written \in Nat
<1>1. \A i \in 1..Len(fifo) : fifo[i] \in Piece
  BY DEF TypeOK
<1> QED BY <1>1, Bounds DEF TypeOK, Piece

\* A completing piece is written behind those of the calls before it.
LEMMA WriteKeepsOrder ==
    ASSUME TypeOK, ~Over, NEW h \in Nat, InOrder(h), NEW q \in Piece, Write(q),
           pc' = pc, event' = event, written' \in Nat, written <= written',
           Completes(q) =>
              /\ h < q.call /\ q.call <= written'
              /\ \A i \in 1..Len(fifo) :
                    Completes(fifo[i]) => fifo[i].call < q.call
              /\ pc = "handle" => event.call < q.call
    PROVE  InOrder(h)'
<1>1. /\ \A i \in 1..Len(fifo) : fifo[i].call \in Nat
      /\ event.call \in Nat /\ written \in Nat /\ q.call \in Nat
  BY FifoTypes DEF Piece
<1>2. /\ Len(fifo') = Len(fifo) + 1
      /\ fifo'[Len(fifo) + 1] = q
      /\ \A i \in 1..Len(fifo) : fifo'[i] = fifo[i]
      /\ Len(fifo) \in Nat
  BY AfterWrite
<1>3. ASSUME NEW i \in 1..Len(fifo'), Completes(fifo'[i])
      PROVE  h < fifo'[i].call /\ fifo'[i].call <= written'
  BY <1>1, <1>2, <1>3 DEF InOrder
<1>4. ASSUME NEW i \in 1..Len(fifo'), NEW j \in 1..Len(fifo'), i < j,
             Completes(fifo'[i]), Completes(fifo'[j])
      PROVE  fifo'[i].call < fifo'[j].call
  <2>1. i \in 1..Len(fifo) /\ Completes(fifo[i]) /\ fifo'[i].call = fifo[i].call
    BY <1>2, <1>4
  <2>2. CASE j \in 1..Len(fifo)
    <3>1. Completes(fifo[j]) /\ fifo'[j].call = fifo[j].call
      BY <1>2, <1>4, <2>2
    <3> QED BY <1>4, <2>1, <2>2, <3>1 DEF InOrder
  <2>3. CASE j = Len(fifo) + 1
    BY <1>2, <1>4, <2>1, <2>3
  <2> QED BY <1>2, <2>2, <2>3
<1>5. pc = "handle" /\ event.call # 0 =>
        /\ h < event.call /\ event.call <= written'
        /\ \A i \in 1..Len(fifo') :
              Completes(fifo'[i]) => event.call < fifo'[i].call
  <2>1. ASSUME pc = "handle", event.call # 0, NEW i \in 1..Len(fifo'),
               Completes(fifo'[i])
        PROVE  event.call < fifo'[i].call
    BY <1>1, <1>2, <2>1 DEF InOrder
  <2>2. pc = "handle" /\ event.call # 0 =>
           h < event.call /\ event.call <= written'
    BY <1>1 DEF InOrder
  <2> QED BY <2>1, <2>2
<1> QED BY <1>3, <1>4, <1>5 DEF InOrder

\* What was to come is still to come after a write, with what was written.
LEMMA WriteAdds ==
    ASSUME TypeOK, ~Over, NEW q \in Piece, Write(q), pc' = pc, event' = event
    PROVE  \A n : ToCome(n)' <=> ToCome(n) \/ (Completes(q) /\ q.call = n)
<1>1. /\ Len(fifo') = Len(fifo) + 1
      /\ fifo'[Len(fifo) + 1] = q
      /\ \A i \in 1..Len(fifo) : fifo'[i] = fifo[i]
      /\ Len(fifo) \in Nat
  BY AfterWrite
<1> QED BY <1>1 DEF ToCome

\* The numbers of the events to come are below one that is not yet to come.
LEMMA NumbersBelow ==
    ASSUME TypeOK, NEW h \in Nat, InOrder(h), NEW k \in Nat, 0 < k,
           written < k \/ (written = k /\ ~ToCome(k))
    PROVE  /\ \A i \in 1..Len(fifo) : Completes(fifo[i]) => fifo[i].call < k
           /\ pc = "handle" => event.call < k
BY FifoTypes DEF InOrder, ToCome

\* report_fs_call: an event is written, or its beginning is.
LEMMA ReportKeepsStream ==
    ASSUME RunInv, NEW w \in FsThreads, report_fs_call(w)
    PROVE  StreamInv'
<1> SUFFICES ASSUME ~Over'
             PROVE  \E h \in Nat : /\ h <= written'
                                   /\ Handled(h)'
                                   /\ InOrder(h)'
                                   /\ Complete(h)'
  BY DEF StreamInv
<1> USE DEF RunInv, TypeInv
<1> PICK k \in Nat : k = written + 1
  BY FifoTypes
<1>1. /\ ~Over /\ NobodyWriting /\ written' = k /\ written \in Nat
      /\ fs' = fs /\ pc' = pc /\ event' = event
      /\ UNCHANGED <<current_sequence, all_sequences>>
      /\ fs # "gone"
  BY FifoTypes DEF report_fs_call, Over, CountInv, logVars
<1> PICK h \in Nat : h <= written /\ Handled(h) /\ InOrder(h) /\ Complete(h)
  BY <1>1 DEF StreamInv
<1> PICK p \in {"whole", "head"} :
         /\ Write([call |-> k, part |-> p])
         /\ wpc' = [wpc EXCEPT ![w] = IF p = "whole" THEN "wait" ELSE "part"]
  BY Zenon DEF report_fs_call
<1> DEFINE q == [call |-> k, part |-> p]
<1>2. /\ q \in Piece /\ q.call = k /\ Write(q)
      /\ Completes(q) <=> p = "whole"
  <2>1. k # 0 /\ q.call = k /\ q.part = p
    BY <1>1
  <2> QED BY <2>1 DEF Piece, Completes
<1> HIDE DEF q
<1>3. Handled(h)'
  BY <1>1 DEF Handled
<1>4. /\ \A i \in 1..Len(fifo) : Completes(fifo[i]) => fifo[i].call < k
      /\ pc = "handle" => event.call < k
  <2>1. 0 < k /\ written < k
    BY <1>1
  <2> QED BY <2>1, NumbersBelow, ZenonT(40)
<1>5. InOrder(h)'
  <2>1. /\ written' \in Nat /\ written <= written'
        /\ h < q.call /\ q.call <= written'
    BY <1>1, <1>2
  <2> QED BY <1>1, <1>2, <1>4, <2>1, WriteKeepsOrder, ZenonT(40)
<1>6. \A n : ToCome(n)' <=> ToCome(n) \/ (p = "whole" /\ n = k)
  BY <1>1, <1>2, WriteAdds, Zenon
<1>7. NobodyWriting' <=> p = "whole"
  BY <1>1 DEF NobodyWriting, TypeOK
<1>8. Complete(h)'
  <2>1. ASSUME NEW n \in (h + 1)..k
        PROVE  ToCome(n)' \/ (n = k /\ ~NobodyWriting')
    <3>1. CASE n = k
      BY <1>6, <1>7, <3>1, Zenon
    <3>2. CASE n # k
      <4>1. n \in (h + 1)..written
        BY <1>1, <3>2
      <4>2. ToCome(n)
        BY <1>1, <4>1 DEF Complete
      <4> QED BY <1>6, <4>2, Zenon
    <3> QED BY <3>1, <3>2
  <2>2. ~NobodyWriting' => ~ToCome(k)'
    <3>1. ~ToCome(k)
      BY <1>4, <1>1 DEF ToCome
    <3> QED BY <1>6, <1>7, <3>1, Zenon
  <2>3. h < k
    BY <1>1
  <2> QED BY <1>1, <2>1, <2>2, <2>3 DEF Complete
<1>9. h <= k
  BY <1>1
<1> QED BY <1>1, <1>3, <1>5, <1>8, <1>9

\* fflush: the rest of the event is written.
LEMMA FlushKeepsStream ==
    ASSUME RunInv, NEW w \in FsThreads, fflush(w)
    PROVE  StreamInv'
<1> SUFFICES ASSUME ~Over'
             PROVE  \E h \in Nat : /\ h <= written'
                                   /\ Handled(h)'
                                   /\ InOrder(h)'
                                   /\ Complete(h)'
  BY DEF StreamInv
<1> USE DEF RunInv, TypeInv
<1> PICK k \in Nat : k = written
  BY FifoTypes
<1>1. /\ ~Over /\ ~NobodyWriting /\ written' = k
      /\ fs' = fs /\ pc' = pc /\ event' = event
      /\ UNCHANGED <<current_sequence, all_sequences>>
  BY FifoTypes DEF fflush, Over, logVars, NobodyWriting
<1> PICK h \in Nat : h <= written /\ Handled(h) /\ InOrder(h) /\ Complete(h)
  BY <1>1 DEF StreamInv
<1>0. h < k /\ ~ToCome(k)
  BY <1>1 DEF Complete
<1> DEFINE q == [call |-> k, part |-> "tail"]
<1>2. /\ q \in Piece /\ q.call = k /\ Write(q) /\ Completes(q)
  BY <1>0 DEF Piece, Completes, fflush
<1> HIDE DEF q
<1>3. Handled(h)'
  BY <1>1 DEF Handled
<1>4. /\ \A i \in 1..Len(fifo) : Completes(fifo[i]) => fifo[i].call < k
      /\ pc = "handle" => event.call < k
  <2>1. 0 < k
    BY <1>0
  <2> QED BY <1>0, <2>1, NumbersBelow, ZenonT(40)
<1>5. InOrder(h)'
  <2>1. /\ written' \in Nat /\ written <= written'
        /\ h < q.call /\ q.call <= written'
    BY <1>0, <1>1, <1>2
  <2> QED BY <1>1, <1>2, <1>4, <2>1, WriteKeepsOrder, ZenonT(40)
<1>6. \A n : ToCome(n)' <=> ToCome(n) \/ n = k
  BY <1>1, <1>2, WriteAdds, Zenon
<1>7. NobodyWriting'
  BY DEF NobodyWriting, TypeOK, fflush, OneWriter
<1>8. Complete(h)'
  <2>1. ASSUME NEW n \in (h + 1)..k PROVE ToCome(n)'
    BY <1>6 DEF Complete
  <2> QED BY <1>1, <1>7, <2>1 DEF Complete
<1> QED BY <1>1, <1>3, <1>5, <1>8

\* report_fs_call_return: return events have no number.
LEMMA ReturnKeepsStream ==
    ASSUME RunInv, NEW w \in FsThreads, report_fs_call_return(w)
    PROVE  StreamInv'
<1> SUFFICES ASSUME ~Over'
             PROVE  \E h \in Nat : /\ h <= written'
                                   /\ Handled(h)'
                                   /\ InOrder(h)'
                                   /\ Complete(h)'
  BY DEF StreamInv
<1> USE DEF RunInv, TypeInv
<1>1. /\ ~Over /\ NobodyWriting /\ written' = written
      /\ fs' = fs /\ pc' = pc /\ event' = event
      /\ UNCHANGED <<current_sequence, all_sequences>>
  BY DEF report_fs_call_return, Over, logVars
<1> PICK h \in Nat : h <= written /\ Handled(h) /\ InOrder(h) /\ Complete(h)
  BY <1>1 DEF StreamInv
<1> DEFINE q == [call |-> 0, part |-> "whole"]
<1>2. q \in Piece /\ ~Completes(q) /\ Write(q)
  BY DEF Piece, Completes, report_fs_call_return
<1> HIDE DEF q
<1>3. Handled(h)'
  BY <1>1 DEF Handled
<1>4. InOrder(h)'
  BY <1>1, <1>2, FifoTypes, WriteKeepsOrder
<1>5. \A n : ToCome(n)' <=> ToCome(n)
  BY <1>1, <1>2, WriteAdds, Zenon
<1>6. NobodyWriting'
  BY <1>1 DEF NobodyWriting, TypeOK, report_fs_call_return
<1>7. Complete(h)'
  BY <1>1, <1>5, <1>6 DEF Complete
<1> QED BY <1>1, <1>3, <1>4, <1>7

\* The process ends: an event may be cut short.
LEMMA EndKeepsStream ==
    ASSUME RunInv, FsEnds
    PROVE  StreamInv'
<1> SUFFICES ASSUME ~Over'
             PROVE  \E h \in Nat : /\ h <= written'
                                   /\ Handled(h)'
                                   /\ InOrder(h)'
                                   /\ Complete(h)'
  BY DEF StreamInv
<1>1. /\ ~Over /\ written' = written /\ fifo' = fifo
      /\ fs' = "gone" /\ pc' = pc /\ event' = event
      /\ UNCHANGED <<current_sequence, all_sequences>>
      /\ NobodyWriting'
  BY DEF FsEnds, Over, logVars, NobodyWriting
<1> PICK h \in Nat : h <= written /\ Handled(h) /\ InOrder(h) /\ Complete(h)
  BY <1>1 DEF StreamInv, RunInv
<1>2. Handled(h)'
  BY <1>1 DEF Handled
<1>3. InOrder(h)'
  BY <1>1 DEF InOrder
<1>4. \A n : ToCome(n)' <=> ToCome(n)
  BY <1>1 DEF ToCome
<1>5. Complete(h)'
  BY <1>1, <1>4 DEF Complete
<1> QED BY <1>1, <1>2, <1>3, <1>5

\* A piece is read: it is handled next, unless it is the beginning of an
\* event, which counts for nothing.
LEMMA ReadKeepsStream ==
    ASSUME RunInv, ReadEvent
    PROVE  StreamInv'
<1> SUFFICES ASSUME ~Over'
             PROVE  \E h \in Nat : /\ h <= written'
                                   /\ Handled(h)'
                                   /\ InOrder(h)'
                                   /\ Complete(h)'
  BY DEF StreamInv
<1> USE DEF RunInv, TypeInv
<1>1. /\ ~Over /\ written' = written /\ written \in Nat /\ fs' = fs
      /\ NobodyWriting' = NobodyWriting
      /\ UNCHANGED <<current_sequence, all_sequences>>
      /\ pc = "read" /\ event' = fifo[1]
      /\ pc' = "handle" <=> fifo[1].part # "head"
  BY FifoTypes DEF ReadEvent, Over, fsVars, logVars, NobodyWriting, TypeOK
<1>2. /\ Len(fifo) \in Nat \ {0}
      /\ Len(fifo') = Len(fifo) - 1
      /\ \A i \in 1..Len(fifo') : fifo'[i] = fifo[i + 1]
  BY DEF ReadEvent, TypeOK
<1> PICK h \in Nat : h <= written /\ Handled(h) /\ InOrder(h) /\ Complete(h)
  BY <1>1 DEF StreamInv
<1>3. Handled(h)'
  BY <1>1 DEF Handled
<1>4. ASSUME NEW i \in 1..Len(fifo')
      PROVE  i + 1 \in 1..Len(fifo) /\ 1 \in 1..Len(fifo) /\ 1 < i + 1
  BY <1>2
<1>5. InOrder(h)'
  <2>1. ASSUME NEW i \in 1..Len(fifo'), Completes(fifo'[i])
        PROVE  h < fifo'[i].call /\ fifo'[i].call <= written
    BY <1>2, <1>4, <2>1 DEF InOrder
  <2>2. ASSUME NEW i \in 1..Len(fifo'), NEW j \in 1..Len(fifo'), i < j,
               Completes(fifo'[i]), Completes(fifo'[j])
        PROVE  fifo'[i].call < fifo'[j].call
    <3>1. /\ i + 1 \in 1..Len(fifo) /\ j + 1 \in 1..Len(fifo) /\ i + 1 < j + 1
          /\ fifo'[i] = fifo[i + 1] /\ fifo'[j] = fifo[j + 1]
      BY <1>2, <2>2
    <3> QED BY <2>2, <3>1 DEF InOrder
  <2>3. ASSUME pc' = "handle", event'.call # 0
        PROVE  Completes(fifo[1]) /\ 1 \in 1..Len(fifo)
    BY <1>1, <1>2, <2>3 DEF Completes
  <2>4. ASSUME pc' = "handle", event'.call # 0
        PROVE  h < event'.call /\ event'.call <= written
    BY <1>1, <2>3, <2>4 DEF InOrder
  <2>5. ASSUME pc' = "handle", event'.call # 0, NEW i \in 1..Len(fifo'),
               Completes(fifo'[i])
        PROVE  event'.call < fifo'[i].call
    BY <1>1, <1>2, <1>4, <2>3, <2>5 DEF InOrder
  <2> QED BY <1>1, <2>1, <2>2, <2>4, <2>5 DEF InOrder
<1>6. ASSUME NEW n \in Nat \ {0} PROVE ToCome(n)' <=> ToCome(n)
  <2>1. ASSUME ToCome(n)' PROVE ToCome(n)
    <3>1. CASE pc' = "handle" /\ event'.call = n
      BY <1>1, <1>2, <3>1 DEF ToCome, Completes
    <3>2. CASE \E i \in 1..Len(fifo') : Completes(fifo'[i]) /\ fifo'[i].call = n
      BY <1>2, <1>4, <3>2 DEF ToCome
    <3> QED BY <2>1, <3>1, <3>2 DEF ToCome
  <2>2. ASSUME ToCome(n) PROVE ToCome(n)'
    <3> PICK i \in 1..Len(fifo) : Completes(fifo[i]) /\ fifo[i].call = n
      BY <1>1, <2>2 DEF ToCome
    <3>1. CASE i = 1
      BY <1>1, <3>1 DEF ToCome, Completes
    <3>2. CASE i # 1
      <4>1. i - 1 \in 1..Len(fifo') /\ fifo'[i - 1] = fifo[i]
        BY <1>2, <3>2
      <4> QED BY <4>1 DEF ToCome
    <3> QED BY <3>1, <3>2
  <2> QED BY <2>1, <2>2
<1>7. Complete(h)'
  <2>1. ASSUME NEW n \in (h + 1)..written
        PROVE  \/ ToCome(n)'
               \/ n = written /\ (~NobodyWriting \/ fs = "gone")
    BY <1>1, <1>6 DEF Complete
  <2>2. ASSUME ~NobodyWriting
        PROVE  h < written /\ ~ToCome(written)'
    <3>1. h < written /\ ~ToCome(written)
      BY <2>2 DEF Complete
    <3> QED BY <1>1, <1>6, <3>1
  <2> QED BY <1>1, <2>1, <2>2 DEF Complete
<1> QED BY <1>1, <1>3, <1>5, <1>7

\* The numbers captured are numbers.
LEMMA CapturedTypes ==
    ASSUME TypeOK
    PROVE  \A i \in 1..Len(all_sequences) :
              /\ all_sequences[i] \in Seq(Nat)
              /\ \A m \in 1..Len(all_sequences[i]) : all_sequences[i][m] \in Nat
<1>1. \A i \in 1..Len(all_sequences) : all_sequences[i] \in Seq(Nat)
  BY DEF TypeOK
<1> QED BY <1>1

\* The event being handled is the one after the last one handled.
LEMMA NextIsHandled ==
    ASSUME TypeOK, NEW h \in Nat, InOrder(h), Complete(h),
           pc = "handle", event.call # 0
    PROVE  event.call = h + 1
<1>1. /\ h < event.call /\ event.call <= written
      /\ event.call \in Nat /\ written \in Nat
  BY FifoTypes DEF InOrder
<1>2. h + 1 \in (h + 1)..written
  BY <1>1
<1>3. ToCome(h + 1) \/ h + 1 = written
  BY <1>2 DEF Complete
<1>4. CASE h + 1 = written
  BY <1>1, <1>4
<1>5. CASE ToCome(h + 1)
  <2>1. CASE \E i \in 1..Len(fifo) : Completes(fifo[i]) /\ fifo[i].call = h + 1
    BY <1>1, <2>1 DEF InOrder
  <2> QED BY <1>5, <2>1 DEF ToCome
<1> QED BY <1>3, <1>4, <1>5

\* handleLoggerEvent: the call is captured behind the one before it.
LEMMA HandleKeepsStream ==
    ASSUME RunInv, handleLoggerEvent
    PROVE  StreamInv' /\ RunsInv'
<1> USE DEF RunInv, TypeInv
<1>1. /\ ~Over /\ written' = written /\ fs' = fs /\ fifo' = fifo
      /\ NobodyWriting' = NobodyWriting
      /\ all_sequences' = all_sequences /\ current_state' = current_state
      /\ pc = "handle" /\ pc' # "handle"
  BY DEF handleLoggerEvent, Over, fsVars, NobodyWriting, Loop
<1>2. /\ \A i \in 1..Len(fifo) : fifo[i].call \in Nat
      /\ event.call \in Nat /\ written \in Nat
  BY FifoTypes
<1> PICK h \in Nat : h <= written /\ Handled(h) /\ InOrder(h) /\ Complete(h)
  BY <1>1 DEF StreamInv
<1>3. CASE event.call = 0
  <2>1. current_sequence' = current_sequence
    BY <1>3 DEF handleLoggerEvent
  <2>2. Handled(h)'
    BY <1>1, <2>1 DEF Handled
  <2>3. InOrder(h)'
    BY <1>1 DEF InOrder
  <2>4. \A n \in Nat \ {0} : ToCome(n)' <=> ToCome(n)
    BY <1>1, <1>3 DEF ToCome
  <2>5. Complete(h)'
    <3>1. ASSUME NEW n \in (h + 1)..written
          PROVE  \/ ToCome(n)'
                 \/ n = written /\ (~NobodyWriting \/ fs = "gone")
      BY <1>2, <2>4 DEF Complete
    <3>2. ASSUME ~NobodyWriting
          PROVE  h < written /\ ~ToCome(written)'
      <4>1. h < written /\ ~ToCome(written)
        BY <3>2 DEF Complete
      <4> QED BY <1>1, <1>2, <2>4, <4>1
    <3> QED BY <1>1, <3>1, <3>2 DEF Complete
  <2> QED BY <1>1, <2>1, <2>2, <2>3, <2>5, RunsStay DEF StreamInv
<1>4. CASE event.call # 0
  <2> PICK k \in Nat : k = event.call
    BY <1>2
  <2>1. k = h + 1 /\ k <= written
    BY <1>1, <1>4, NextIsHandled DEF InOrder
  <2>2. \A i \in 1..Len(fifo) : Completes(fifo[i]) => k < fifo[i].call
    BY <1>1, <1>4 DEF InOrder
  <2>3. InOrder(k)'
    BY <1>1, <2>2 DEF InOrder
  <2>4. \A n : n # k => (ToCome(n)' <=> ToCome(n))
    BY <1>1 DEF ToCome
  <2>5. Complete(k)'
    <3>1. ASSUME NEW n \in (k + 1)..written
          PROVE  \/ ToCome(n)'
                 \/ n = written /\ (~NobodyWriting \/ fs = "gone")
      <4>1. n \in (h + 1)..written /\ n # k
        BY <1>2, <2>1
      <4> QED BY <2>4, <4>1 DEF Complete
    <3>2. ASSUME ~NobodyWriting
          PROVE  k < written /\ ~ToCome(written)'
      <4>1. ~ToCome(written)
        BY <3>2 DEF Complete
      <4>2. k # written
        BY <1>1, <4>1 DEF ToCome
      <4>3. k < written
        BY <1>2, <2>1, <4>2
      <4> QED BY <1>1, <2>4, <4>1, <4>2, <4>3
    <3> QED BY <1>1, <3>1, <3>2 DEF Complete
  <2>6. Handled(k)' /\ RunsInv'
    <3>1. CASE current_state = "IDLE"
      <4>1. current_sequence' = current_sequence /\ current_sequence = <<>>
        BY <1>4, <3>1, Zenon DEF handleLoggerEvent, RunsInv
      <4>2. Handled(k)'
        <5>1. ASSUME NEW i \in 1..Len(all_sequences),
                     NEW m \in 1..Len(all_sequences[i])
              PROVE  all_sequences[i][m] <= k
          <6>1. all_sequences[i][m] <= h
            BY DEF Handled
          <6>2. all_sequences[i][m] \in Nat
            BY CapturedTypes
          <6> QED BY <2>1, <6>1, <6>2
        <5>2. current_sequence' = <<>> /\ 1..Len(current_sequence') = {}
          BY <4>1
        <5> QED BY <1>1, <5>1, <5>2, Zenon DEF Handled
      <4> QED BY <1>1, <4>1, <4>2, RunsStay
    <3>2. CASE current_state = "CAPTURING_SEQUENCE"
      <4>1. /\ Len(current_sequence') = Len(current_sequence) + 1
            /\ current_sequence'[Len(current_sequence) + 1] = k
            /\ \A i \in 1..Len(current_sequence) :
                  current_sequence'[i] = current_sequence[i]
            /\ Len(current_sequence) \in Nat
            /\ \A i \in 1..Len(current_sequence) : current_sequence[i] \in Nat
        <5>1. current_sequence' = Append(current_sequence, k)
          BY <1>4, <3>2 DEF handleLoggerEvent
        <5>2. current_sequence \in Seq(Nat)
          BY DEF TypeOK
        <5> QED BY <5>1, <5>2
      <4>2. \A i \in 1..Len(all_sequences) : \A m \in 1..Len(all_sequences[i]) :
               all_sequences[i][m] \in Nat
        BY CapturedTypes
      <4>3. Handled(k)'
        <5>1. ASSUME NEW i \in 1..Len(all_sequences),
                     NEW m \in 1..Len(all_sequences[i])
              PROVE  all_sequences[i][m] <= k
          <6>1. all_sequences[i][m] <= h
            BY DEF Handled
          <6>2. all_sequences[i][m] \in Nat
            BY <4>2
          <6> QED BY <2>1, <6>1, <6>2
        <5>2. ASSUME NEW m \in 1..Len(current_sequence')
              PROVE  current_sequence'[m] <= k
          BY <2>1, <4>1 DEF Handled
        <5> QED BY <1>1, <4>1, <5>1, <5>2 DEF Handled
      <4>4. IsRun(current_sequence')
        <5>1. IsRun(current_sequence)
          BY DEF RunsInv
        <5>2. Len(current_sequence) # 0 =>
                 current_sequence[Len(current_sequence)] = h
          BY DEF Handled
        <5>3. ASSUME NEW j \in 1..Len(current_sequence') - 1
              PROVE  current_sequence'[j + 1] = current_sequence'[j] + 1
          <6>1. CASE j = Len(current_sequence)
            BY <2>1, <4>1, <5>2, <6>1
          <6>2. CASE j # Len(current_sequence)
            <7>1. /\ j \in 1..Len(current_sequence) - 1
                  /\ j \in 1..Len(current_sequence)
                  /\ j + 1 \in 1..Len(current_sequence)
              BY <4>1, <6>2
            <7>2. current_sequence[j + 1] = current_sequence[j] + 1
              BY <5>1, <7>1 DEF IsRun
            <7> QED BY <4>1, <7>1, <7>2
          <6> QED BY <6>1, <6>2
        <5> QED BY <5>3 DEF IsRun
      <4>5. ASSUME NEW i \in 1..Len(all_sequences)
            PROVE  Below(all_sequences[i], current_sequence')
        <5>1. ASSUME NEW m \in 1..Len(all_sequences[i]),
                     NEW n \in 1..Len(current_sequence')
              PROVE  all_sequences[i][m] < current_sequence'[n]
          <6>1. CASE n \in 1..Len(current_sequence)
            <7>1. Below(all_sequences[i], current_sequence)
              BY DEF RunsInv
            <7> QED BY <4>1, <6>1, <7>1 DEF Below
          <6>2. CASE n = Len(current_sequence) + 1
            <7>1. all_sequences[i][m] <= h
              BY DEF Handled
            <7> QED BY <2>1, <4>1, <4>2, <6>2, <7>1
          <6> QED BY <4>1, <6>1, <6>2
        <5> QED BY <5>1 DEF Below
      <4> QED BY <1>1, <3>2, <4>3, <4>4, <4>5 DEF RunsInv
    <3> QED BY <3>1, <3>2 DEF TypeOK
  <2> QED BY <1>1, <2>1, <2>3, <2>5, <2>6 DEF StreamInv
<1> QED BY <1>3, <1>4

\* A capture begins or ends: the sequence moves as it is.
LEMMA CaptureKeepsRuns ==
    ASSUME RunInv, StartCapture \/ EndCapture
    PROVE  StreamInv' /\ RunsInv'
<1> USE DEF RunInv, TypeInv
<1>1. /\ ~Over /\ written' = written /\ fs' = fs /\ fifo' = fifo
      /\ NobodyWriting' = NobodyWriting /\ event' = event
      /\ pc # "handle" /\ pc' # "handle"
  BY DEF StartCapture, EndCapture, Key, Prompted, Loop, Over, NobodyWriting
<1>2. CASE StartCapture
  <2>1. /\ UNCHANGED <<current_sequence, all_sequences>>
        /\ current_state' # "IDLE"
    BY <1>2 DEF StartCapture
  <2>2. StreamInv'
    BY <1>1, <2>1, StreamStays
  <2>3. RunsInv'
    BY <2>1 DEF RunsInv, IsRun, Below
  <2> QED BY <2>2, <2>3
<1>3. CASE EndCapture
  <2> PICK h \in Nat : h <= written /\ Handled(h) /\ InOrder(h) /\ Complete(h)
    BY <1>1 DEF StreamInv
  <2>1. InOrder(h)'
    BY <1>1 DEF InOrder
  <2>2. \A n : ToCome(n)' <=> ToCome(n)
    BY <1>1 DEF ToCome
  <2>3. Complete(h)'
    BY <1>1, <2>2 DEF Complete
  <2>4. current_sequence' = <<>> /\ Len(current_sequence') = 0
    BY <1>3 DEF EndCapture
  <2>5. CASE current_sequence = <<>>
    <3>1. all_sequences' = all_sequences
      BY <1>3, <2>5 DEF EndCapture
    <3>2. Handled(h)'
      BY <2>4, <2>5, <3>1 DEF Handled
    <3>3. RunsInv'
      BY <2>4, <2>5, <3>1, ZenonT(40) DEF RunsInv
    <3> QED BY <1>1, <2>1, <2>3, <3>2, <3>3 DEF StreamInv
  <2>6. CASE current_sequence # <<>>
    <3>1. /\ Len(all_sequences') = Len(all_sequences) + 1
          /\ all_sequences'[Len(all_sequences) + 1] = current_sequence
          /\ \A i \in 1..Len(all_sequences) :
                all_sequences'[i] = all_sequences[i]
          /\ Len(all_sequences) \in Nat
      <4>1. all_sequences' = Append(all_sequences, current_sequence)
        BY <1>3, <2>6, Zenon DEF EndCapture
      <4>2. /\ all_sequences \in Seq(Seq(Nat))
            /\ current_sequence \in Seq(Nat)
        BY DEF TypeOK
      <4> QED BY <4>1, <4>2
    <3>2. Handled(h)'
      <4>1. ASSUME NEW i \in 1..Len(all_sequences'),
                   NEW m \in 1..Len(all_sequences'[i])
            PROVE  all_sequences'[i][m] <= h
        BY <3>1 DEF Handled
      <4>2. 1..Len(current_sequence') = {}
        BY <2>4
      <4> QED BY <2>4, <4>1, <4>2, ZenonT(40) DEF Handled
    <3>3. ASSUME NEW i \in 1..Len(all_sequences')
          PROVE  IsRun(all_sequences'[i]) /\ Below(all_sequences'[i], <<>>)
      <4>1. IsRun(all_sequences'[i])
        BY <3>1 DEF RunsInv
      <4> QED BY <4>1 DEF Below
    <3>4. ASSUME NEW i \in 1..Len(all_sequences'),
                 NEW j \in 1..Len(all_sequences'), i < j
          PROVE  Below(all_sequences'[i], all_sequences'[j])
      BY <3>1, <3>4 DEF RunsInv
    <3>5. IsRun(<<>>)
      BY DEF IsRun
    <3>6. RunsInv'
      BY <2>4, <3>3, <3>4, <3>5 DEF RunsInv
    <3> QED BY <1>1, <2>1, <2>3, <3>2, <3>6 DEF StreamInv
  <2> QED BY <2>5, <2>6
<1> QED BY <1>2, <1>3

\* An event is begun only when no other one is being written.
LEMMA OneWriterStays ==
    ASSUME RunInv, [Next]_vars
    PROVE  OneWriter'
<1> USE DEF RunInv, TypeInv
<1>1. ASSUME NEW w \in FsThreads, report_fs_call(w)
      PROVE  OneWriter'
  <2>1. \A v \in FsThreads : wpc[v] # "part"
    BY <1>1 DEF report_fs_call, NobodyWriting
  <2>2. \A v \in FsThreads : v # w => wpc'[v] = wpc[v]
    BY <1>1 DEF report_fs_call, TypeOK
  <2> QED BY <2>1, <2>2, Zenon DEF OneWriter
<1>2. ASSUME NEW w \in FsThreads,
             \/ next_seqnum(w) \/ fflush(w) \/ sem_wait(w)
             \/ report_fs_call_return(w)
      PROVE  OneWriter'
  <2>1. \A v \in FsThreads : wpc'[v] = "part" => wpc[v] = "part"
    BY <1>2 DEF next_seqnum, fflush, sem_wait, report_fs_call_return, TypeOK
  <2> QED BY <2>1, ZenonT(40) DEF OneWriter
<1>3. CASE Unmount \/ InterruptWait \/ FsEnd \/ Crash
  <2>1. \A v \in FsThreads : wpc'[v] = "part" => wpc[v] = "part"
    BY <1>3 DEF Unmount, InterruptWait, FsEnd, ObeySigint, LeaveLoop,
                JoinWorkers, ExitProcess, Crash, FsEnds, TypeOK
  <2> QED BY <2>1, Zenon DEF OneWriter
<1>4. CASE \/ KeyStep \/ LoggerStep \/ terminate \/ childKilled
           \/ Finished \/ UNCHANGED vars
  <2>1. wpc' = wpc
    BY <1>4, Zenon
       DEF KeyStep, StartCapture, EndCapture, Quit, Key, LoggerStep,
           ReadEvent, ReadNothing, NoKey, QuitPost, handleLoggerEvent,
           l_advance, EndLoop, terminate, childKilled, Finished, vars, fsVars
  <2> QED BY <2>1, Zenon DEF OneWriter
<1> QED BY <1>1, <1>2, <1>3, <1>4 DEF Next, FsThreadStep

\* All other steps leave the events and the log alone, or are FDT's last.
LEMMA OthersKeepStream ==
    ASSUME RunInv,
           \/ \E w \in FsThreads : next_seqnum(w) \/ sem_wait(w)
           \/ Unmount \/ InterruptWait \/ ObeySigint \/ JoinWorkers
           \/ Quit \/ ReadNothing \/ NoKey \/ QuitPost \/ l_advance \/ EndLoop
           \/ terminate \/ childKilled \/ Finished \/ UNCHANGED vars
    PROVE  StreamInv' /\ RunsInv'
<1> USE DEF RunInv, TypeInv
<1>1. /\ UNCHANGED <<current_sequence, all_sequences, current_state>>
      /\ written' = written /\ event' = event
      /\ ~Over' => ~Over /\ fifo' = fifo
      /\ (fs' = "gone") = (fs = "gone")
      /\ ~Over' => (pc' = "handle") = (pc = "handle")
      /\ NobodyWriting' = NobodyWriting
  <2> USE DEF Over, logVars, fsVars
  <2>1. CASE \E w \in FsThreads : next_seqnum(w) \/ sem_wait(w)
    <3>1. NobodyWriting' = NobodyWriting
      BY <2>1 DEF next_seqnum, sem_wait, NobodyWriting, TypeOK
    <3> QED BY <2>1, <3>1, ZenonT(40) DEF next_seqnum, sem_wait
  <2>2. CASE Unmount \/ InterruptWait \/ ObeySigint \/ JoinWorkers
    <3>1. NobodyWriting' = NobodyWriting
      <4>1. \A v \in FsThreads : wpc'[v] = "part" <=> wpc[v] = "part"
        BY <2>2, Zenon DEF Unmount, InterruptWait, ObeySigint, LeaveLoop,
                    JoinWorkers, TypeOK, CountInv
      <4> QED BY <4>1, Zenon DEF NobodyWriting
    <3> QED BY <2>2, <3>1, Zenon
            DEF Unmount, InterruptWait, ObeySigint, LeaveLoop, JoinWorkers
  <2>3. CASE Quit \/ terminate \/ childKilled \/ Finished \/ UNCHANGED vars
    BY <2>3, Zenon DEF Quit, QuitKey, Key, terminate, childKilled, Finished,
                       vars, NobodyWriting
  <2>4. CASE ReadNothing \/ NoKey \/ QuitPost \/ EndLoop
    BY <2>4, ZenonT(40) DEF ReadNothing, NoKey, Prompted, Loop, QuitPost, EndLoop,
                NobodyWriting
  <2>5. CASE l_advance
    BY <2>5 DEF l_advance, Loop, NobodyWriting
  <2> QED BY <2>1, <2>2, <2>3, <2>4, <2>5
<1>2. StreamInv'
  <2>1. CASE Over'
    BY <2>1 DEF StreamInv
  <2>2. CASE ~Over'
    BY <1>1, <2>2, StreamStays
  <2> QED BY <2>1, <2>2
<1> QED BY <1>1, <1>2, RunsStay

\* Writing and reading leave the log alone.
LEMMA WritersKeepRuns ==
    ASSUME RunInv,
           \/ \E w \in FsThreads :
                 report_fs_call(w) \/ fflush(w) \/ report_fs_call_return(w)
           \/ ExitProcess \/ Crash \/ ReadEvent
    PROVE  StreamInv' /\ RunsInv'
<1>1. UNCHANGED <<current_sequence, all_sequences, current_state>>
  BY DEF report_fs_call, fflush, report_fs_call_return, ExitProcess, Crash,
         FsEnds, ReadEvent, logVars
<1>2. StreamInv'
  BY ReportKeepsStream, FlushKeepsStream, ReturnKeepsStream, EndKeepsStream,
     ReadKeepsStream DEF ExitProcess, Crash
<1> QED BY <1>1, <1>2, RunsStay DEF RunInv

\* Every step keeps the invariant.
LEMMA RunStep ==
    ASSUME RunInv, [Next]_vars
    PROVE  RunInv'
<1>1. TypeInv' /\ OneWriter'
  BY TypeStep, OneWriterStays DEF RunInv
<1>2. StreamInv' /\ RunsInv'
  BY WritersKeepRuns, OthersKeepStream, HandleKeepsStream, CaptureKeepsRuns
     DEF Next, FsThreadStep, FsEnd, KeyStep, LoggerStep
<1> QED BY <1>1, <1>2 DEF RunInv

\* At the start there is nothing to come.
LEMMA RunInit == Init => RunInv
<1> SUFFICES ASSUME Init PROVE RunInv
  OBVIOUS
<1> USE DEF Init
<1>1. Cardinality(Reporting) = 0
  <2>1. Reporting = {}
    BY DEF Reporting
  <2> QED BY <2>1, FS_EmptySet
<1>2. CountInv
  BY <1>1 DEF CountInv, FsThreads
<1>3. TypeOK
  <2>1. /\ fifo \in Seq(Piece) /\ event \in Piece
        /\ current_sequence \in Seq(Nat) /\ all_sequences \in Seq(Seq(Nat))
    BY Pieces, SeqTypes, Zenon
  <2>2. {fifoOpen, sigint, expected} \subseteq BOOLEAN
    BY Zenon
  <2> QED BY <2>1, <2>2, Bounds DEF TypeOK
<1>4. OneWriter
  BY DEF OneWriter
<1>5. RunsInv
  BY DEF RunsInv, IsRun, Below
<1>6. StreamInv
  <2>1. Handled(0) /\ InOrder(0)
    BY DEF Handled, InOrder
  <2>2. NobodyWriting
    BY DEF NobodyWriting
  <2>3. Complete(0)
    BY <2>2 DEF Complete
  <2> QED BY <2>1, <2>3 DEF StreamInv
<1> QED BY <1>2, <1>3, <1>4, <1>5, <1>6 DEF RunInv, TypeInv

\* Every variable of the logger stays within its type, for any number of
\* threads, calls and keys; no more events are written than calls are made.
THEOREM LoggerTypes == Spec => []TypeOK
<1>1. RunInv => TypeOK
  BY DEF RunInv, TypeInv
<1> QED BY <1>1, RunInit, RunStep, PTL DEF Spec

\* The sequences that the logger captures are runs of consecutive calls, and no
\* two of them overlap, whenever keys are pressed and signals arrive, also in
\* the middle of an event, and whenever the file system dies.
THEOREM CapturedCallsAreRuns == Spec => []SequencesAreRuns
<1>1. RunInv => SequencesAreRuns
  BY RunsAreRuns DEF RunInv, TypeInv
<1> QED BY <1>1, RunInit, RunStep, PTL DEF Spec

-----------------------------------------------------------------------------
(* The end *)

\* Outside a capture no call is held, and quitLogger only runs outside one,
\* after the question about the export.
QuitInv ==
    /\ current_state = "IDLE" => current_sequence = <<>>
    /\ pc = "quit" =>
          /\ current_state = "IDLE"
          /\ all_sequences # <<>> => export # "none"

\* Steps of the file system and of the signal handlers leave the log alone.
LEMMA OthersKeepQuitInv ==
    ASSUME QuitInv,
           \/ \E w \in FsThreads : next_seqnum(w) \/ FsThreadStep(w)
           \/ Unmount \/ InterruptWait \/ FsEnd \/ Crash
           \/ terminate \/ childKilled \/ Finished \/ UNCHANGED vars
    PROVE  QuitInv' /\ fifoOpen' = fifoOpen
<1> USE DEF QuitInv, logVars, fsVars, sigVars
<1>1. CASE \E w \in FsThreads : next_seqnum(w) \/ FsThreadStep(w)
  BY <1>1, Zenon DEF next_seqnum, FsThreadStep, report_fs_call, fflush,
                     sem_wait, report_fs_call_return
<1>2. CASE Unmount \/ InterruptWait \/ FsEnd \/ Crash
  BY <1>2, ZenonT(40) DEF Unmount, InterruptWait, FsEnd, ObeySigint, LeaveLoop,
              JoinWorkers, ExitProcess, Crash, FsEnds
<1>3. CASE terminate
  BY <1>3 DEF terminate
<1>4. CASE childKilled \/ Finished \/ UNCHANGED vars
  BY <1>4 DEF childKilled, Finished, vars
<1> QED BY <1>1, <1>2, <1>3, <1>4

\* Nor do the steps of the main loop open a sequence outside a capture.
LEMMA LoggerKeepsQuitInv ==
    ASSUME QuitInv, LoggerStep
    PROVE  QuitInv' /\ (fifoOpen' = fifoOpen \/ pc = "quit")
<1> USE DEF QuitInv, logVars, fsVars, sigVars, Loop
<1>1. CASE ReadEvent \/ ReadNothing \/ EndLoop
  BY <1>1 DEF ReadEvent, ReadNothing, EndLoop
<1>2. CASE NoKey
  BY <1>2 DEF NoKey, Prompted
<1>3. CASE QuitPost
  BY <1>3 DEF QuitPost
<1>4. CASE handleLoggerEvent
  BY <1>4 DEF handleLoggerEvent
<1>5. CASE l_advance
  BY <1>5 DEF l_advance
<1> QED BY <1>1, <1>2, <1>3, <1>4, <1>5 DEF LoggerStep

\* A key changes the state and the sequence together.
LEMMA KeysKeepQuitInv ==
    ASSUME QuitInv, KeyStep
    PROVE  QuitInv' /\ fifoOpen' = fifoOpen
<1> USE DEF QuitInv, Key, Prompted, Loop
<1>1. CASE StartCapture
  BY <1>1 DEF StartCapture
<1>2. CASE EndCapture
  BY <1>2 DEF EndCapture
<1>3. CASE Quit
  BY <1>3 DEF Quit, QuitKey
<1> QED BY <1>1, <1>2, <1>3 DEF KeyStep

\* Whatever calls are made, whenever keys are pressed and signals arrive, also
\* in the middle of an event: when quitLogger ends the loop of doStartLogger,
\* no sequence is open and the user has been asked about the others.
THEOREM QuitKeepsCaptures == Spec => QuitLosesNothing
<1>1. Init => QuitInv
  BY DEF Init, QuitInv
<1>2. QuitInv /\ [Next]_vars => QuitInv' /\ (fifoOpen' = fifoOpen \/ pc = "quit")
  BY OthersKeepQuitInv, LoggerKeepsQuitInv, KeysKeepQuitInv DEF Next
<1>3. QuitInv /\ [Next]_vars =>
        [fifoOpen /\ ~fifoOpen' =>
           /\ current_sequence = <<>>
           /\ current_state = "IDLE"
           /\ all_sequences # <<>> => export # "none"]_vars
  BY <1>2 DEF QuitInv
<1> QED BY <1>1, <1>2, <1>3, PTL DEF Spec, QuitLosesNothing
=============================================================================
