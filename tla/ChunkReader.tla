---------------------------- MODULE ChunkReader -----------------------------
(***************************************************************************)
(* How a tool's reader thread cuts the bytes of its FIFO into events.      *)
(*                                                                         *)
(* Nothing separates two events: the reader counts the braces that are     *)
(* outside quotes and takes what it has read for one event when they       *)
(* balance.  The loop is the same in doStartDebugger, doStartWizard and    *)
(* doStartTestsuite.  Characters are reduced to the ones that the loop     *)
(* tells apart; the writer is libfuse, which writes and flushes one event  *)
(* at a time, and may die within a write.                                  *)
(***************************************************************************)
EXTENDS Integers, Sequences, FiniteSets

CONSTANTS
    Events,          \* texts of the events that may be written
    MaxEvents,       \* bound: events written
    InitialCapacity, \* bytes first allocated for a chunk
    CanCrash         \* may the writer die in the middle of an event?

LBrace    == "{"
RBrace    == "}"
Quote     == "\""
Backslash == "\\"
Char == {LBrace, RBrace, Quote, Backslash, "x"}

ASSUME ChunkReaderAssumption ==
    /\ Events \subseteq Seq(Char)
    /\ MaxEvents \in Nat
    /\ InitialCapacity \in Nat \ {0}
    /\ CanCrash \in BOOLEAN

VARIABLES
    pipe,             \* characters written and not yet read
    writer,           \* "open", "closed", or "cut" within an event
    sent,             \* events written completely
    pc,               \* "loop" within do ... while, "chunk" after it, "done"
    fifoOpen,
    json_chunk,       \* the characters stored: chunk_pos is their number
    json_chunk_capacity,
    unclosed_braces,
    unclosed_quotes,
    escaping,
    delivered         \* chunks handed to the event handler

writerVars == <<writer, sent>>
scanVars   == <<unclosed_braces, unclosed_quotes, escaping>>
vars == <<pipe, writer, sent, pc, fifoOpen, json_chunk, json_chunk_capacity,
          unclosed_braces, unclosed_quotes, escaping, delivered>>

(***************************************************************************)
(* The writer                                                              *)
(***************************************************************************)

\* fwrite and fflush of one event.
Write(e) ==
    /\ writer = "open"
    /\ Len(sent) < MaxEvents
    /\ pipe' = pipe \o e
    /\ sent' = Append(sent, e)
    /\ UNCHANGED <<writer, pc, fifoOpen, json_chunk, json_chunk_capacity,
                   scanVars, delivered>>

\* The process ends between two events.
Exit ==
    /\ writer = "open"
    /\ writer' = "closed"
    /\ UNCHANGED <<pipe, sent, pc, fifoOpen, json_chunk, json_chunk_capacity,
                   scanVars, delivered>>

\* It is killed when only n characters of e have reached the FIFO.
CrashWriting(e, n) ==
    /\ CanCrash
    /\ writer = "open"
    /\ writer' = "cut"
    /\ pipe' = pipe \o SubSeq(e, 1, n)
    /\ UNCHANGED <<sent, pc, fifoOpen, json_chunk, json_chunk_capacity,
                   scanVars, delivered>>

(***************************************************************************)
(* The reader                                                              *)
(***************************************************************************)

\* Mutant: no room is kept for the terminator.
Grown_NoRoom(capacity, chunk_pos) ==
    IF chunk_pos >= capacity THEN 2 * capacity ELSE capacity

\* The capacity is doubled before the character or its terminator overflow it.
Grown(capacity, chunk_pos) ==
    IF chunk_pos + 1 >= capacity THEN 2 * capacity ELSE capacity

\* Mutant: braces inside strings count.
Braces_InQuotes(c) ==
    CASE c = LBrace -> unclosed_braces + 1
      [] c = RBrace -> unclosed_braces - 1
      [] OTHER   -> unclosed_braces

Braces(c) ==
    CASE ~unclosed_quotes /\ c = LBrace -> unclosed_braces + 1
      [] ~unclosed_quotes /\ c = RBrace -> unclosed_braces - 1
      [] OTHER                       -> unclosed_braces

Quotes(c) ==
    IF c = Quote /\ ~escaping THEN ~unclosed_quotes ELSE unclosed_quotes

ReadChar ==
    /\ pc = "loop"
    /\ pipe # <<>>
    /\ LET c == Head(pipe) IN
         /\ json_chunk' = Append(json_chunk, c)
         /\ unclosed_braces' = Braces(c)
         /\ unclosed_quotes' = Quotes(c)
         /\ escaping' = (c = Backslash)
         /\ pc' = IF Braces(c) > 0 THEN "loop" ELSE "chunk"
    /\ json_chunk_capacity' = Grown(json_chunk_capacity, Len(json_chunk))
    /\ pipe' = Tail(pipe)
    /\ UNCHANGED <<writerVars, fifoOpen, delivered>>

\* fgetc returns EOF; only the braces decide whether the loop is left.
ReadEof ==
    /\ pc = "loop"
    /\ pipe = <<>>
    /\ writer # "open"
    /\ fifoOpen' = FALSE
    /\ pc' = IF unclosed_braces > 0 THEN "loop" ELSE "chunk"
    /\ UNCHANGED <<pipe, writerVars, json_chunk, json_chunk_capacity, scanVars,
                   delivered>>

\* Mutant: the chunk is handed on even if it is empty.
EndChunk_Empty ==
    /\ pc = "chunk"
    /\ delivered' = Append(delivered, json_chunk)
    /\ json_chunk' = <<>>
    /\ unclosed_braces' = 0
    /\ unclosed_quotes' = FALSE
    /\ escaping' = FALSE
    /\ pc' = IF fifoOpen THEN "loop" ELSE "done"
    /\ UNCHANGED <<pipe, writerVars, fifoOpen, json_chunk_capacity>>

\* The chunk is terminated and, if there is one, handed on; a new one begins.
EndChunk ==
    /\ pc = "chunk"
    /\ delivered' = IF json_chunk = <<>> THEN delivered
                                         ELSE Append(delivered, json_chunk)
    /\ json_chunk' = <<>>
    /\ unclosed_braces' = 0
    /\ unclosed_quotes' = FALSE
    /\ escaping' = FALSE
    /\ pc' = IF fifoOpen THEN "loop" ELSE "done"
    /\ UNCHANGED <<pipe, writerVars, fifoOpen, json_chunk_capacity>>

-----------------------------------------------------------------------------

Init ==
    /\ pipe = <<>>
    /\ writer = "open"
    /\ sent = <<>>
    /\ pc = "loop"
    /\ fifoOpen = TRUE
    /\ json_chunk = <<>>
    /\ json_chunk_capacity = InitialCapacity
    /\ unclosed_braces = 0
    /\ unclosed_quotes = FALSE
    /\ escaping = FALSE
    /\ delivered = <<>>

ReaderStep == ReadChar \/ ReadEof \/ EndChunk

WriterStep ==
    \/ \E e \in Events : Write(e)
    \/ Exit
    \/ \E e \in Events : \E n \in 1..(Len(e) - 1) : CrashWriting(e, n)

\* The thread has ended.
Finished == pc = "done" /\ UNCHANGED vars

Next == WriterStep \/ ReaderStep \/ Finished

Spec == Init /\ [][Next]_vars

\* The reader thread is scheduled; nothing makes the writer write or end.
FairSpec == Spec /\ WF_vars(ReaderStep)

-----------------------------------------------------------------------------
(***************************************************************************)
(* Properties                                                              *)
(***************************************************************************)

\* Types; a chunk that is handed on, to a handler that looks for fields in
\* it, is never empty.
TypeOK ==
    /\ pipe \in Seq(Char)
    /\ writer \in {"open", "closed", "cut"}
    /\ sent \in Seq(Events)
    /\ pc \in {"loop", "chunk", "done"}
    /\ fifoOpen \in BOOLEAN
    /\ json_chunk \in Seq(Char)
    /\ json_chunk_capacity \in Nat \ {0}
    /\ unclosed_braces \in Int
    /\ unclosed_quotes \in BOOLEAN
    /\ escaping \in BOOLEAN
    /\ delivered \in Seq(Seq(Char) \ {<<>>})

\* There is always room in the buffer for the terminator that ends the chunk,
\* however long the event, and with a capacity that carries over from one
\* chunk to the next.
RoomForTerminator == Len(json_chunk) < json_chunk_capacity

\* What the loop takes a text for: a quote counts unless the character before
\* it is a backslash, and a brace counts outside quotes.
QuotesUpTo(text, n) ==
    {j \in 1..n : text[j] = Quote /\ ~(j > 1 /\ text[j - 1] = Backslash)}
InQuotes(text, n) == Cardinality(QuotesUpTo(text, n)) % 2 = 1
BracesUpTo(text, n, c) == {j \in 1..n : text[j] = c /\ ~InQuotes(text, j - 1)}
Depth(text, n) == Cardinality(BracesUpTo(text, n, LBrace))
                    - Cardinality(BracesUpTo(text, n, RBrace))

\* The braces of a text balance at its end and nowhere before.
IsFramed(text) ==
    text # <<>> /\ \A n \in 1..Len(text) : Depth(text, n) > 0 <=> n < Len(text)

\* Every event that was written whole is handed to the event handler.
EveryEventDelivered ==
    \A n \in 1..MaxEvents : Len(sent) >= n ~> Len(delivered) >= n

\* A writer that is cut within an event counts as still there: its reader never
\* gets to the end, because the braces of that event stay open.
Stream == INSTANCE EventStream WITH open  <- (writer # "closed"),
                                    ended <- (pc = "done")

\* The reader's cutting implements the stream of events that the tools rely
\* on: only whole events, in order, each of them eventually, even if the file
\* system dies within a write; and then the end, unless it does.
ImplementsEventStream == Stream!Spec
=============================================================================
