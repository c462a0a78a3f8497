---------------------------- MODULE EventStream -----------------------------
(***************************************************************************)
(* What a tool's reader thread promises to the rest of FDT: the events     *)
(* that the file system's process writes arrive one by one, whole and in   *)
(* order, and the thread ends once the writer is gone and everything that  *)
(* was written has been handled.                                           *)
(***************************************************************************)
EXTENDS Naturals, Sequences

CONSTANTS Events, MaxEvents

VARIABLES
    sent,        \* events written so far
    delivered,   \* what has been handed to the tool's event handler
    open,        \* is the writer there?
    ended        \* has the reader thread ended?

vars == <<sent, delivered, open, ended>>

Init ==
    /\ sent = <<>>
    /\ delivered = <<>>
    /\ open = TRUE
    /\ ended = FALSE

Send(e) ==
    /\ open
    /\ Len(sent) < MaxEvents
    /\ sent' = Append(sent, e)
    /\ UNCHANGED <<delivered, open, ended>>

Close ==
    /\ open
    /\ open' = FALSE
    /\ UNCHANGED <<sent, delivered, ended>>

Deliver ==
    /\ Len(delivered) < Len(sent)
    /\ delivered' = Append(delivered, sent[Len(delivered) + 1])
    /\ UNCHANGED <<sent, open, ended>>

End ==
    /\ ~open
    /\ delivered = sent
    /\ ended' = TRUE
    /\ UNCHANGED <<sent, delivered, open>>

Next ==
    \/ \E e \in Events : Send(e)
    \/ Close
    \/ Deliver
    \/ End

\* What may happen, without what must.
Safety == Init /\ [][Next]_vars

Spec == Safety /\ WF_vars(Deliver) /\ WF_vars(End)
=============================================================================
