------------------------- MODULE ChunkReaderProofs --------------------------
(***************************************************************************)
(* Proofs about the loop that cuts the characters of a FIFO into chunks:   *)
(* its buffer never overflows, its counts are those of the characters it   *)
(* has stored, and, if the braces of every event balance at its end and    *)
(* nowhere before, the chunks are the events (module EventStream).         *)
(***************************************************************************)
EXTENDS ChunkReader, FiniteSetTheorems, SequenceTheorems, TLAPS

\* A leaf that names no prover is given to SMT and then to Zenon.
USE SMTT(40), ZenonT(40)

-----------------------------------------------------------------------------
(* The buffer. *)

\* What the buffer argument needs to know of the variables' types.
BufferInv ==
    /\ pipe \in Seq(Char)
    /\ json_chunk \in Seq(Char)
    /\ json_chunk_capacity \in Nat \ {0}
    /\ RoomForTerminator

\* Doubling leaves room for one more character and for the terminator.
LEMMA GrownHasRoom ==
    ASSUME NEW capacity \in Nat \ {0}, NEW n \in Nat, n < capacity
    PROVE  /\ Grown(capacity, n) \in Nat \ {0}
           /\ n + 1 < Grown(capacity, n)
BY DEF Grown

\* Every step of the writer and of the reader keeps the room in the buffer.
LEMMA BufferInvInductive == BufferInv /\ [Next]_vars => BufferInv'
<1> SUFFICES ASSUME BufferInv, [Next]_vars PROVE BufferInv'
  OBVIOUS
<1> USE DEF BufferInv, RoomForTerminator, writerVars
<1>1. ASSUME NEW e \in Events, Write(e) PROVE BufferInv'
  BY <1>1, ChunkReaderAssumption DEF Write
<1>2. CASE Exit
  BY <1>2 DEF Exit
<1>3. ASSUME NEW e \in Events, NEW n \in 1..(Len(e) - 1), CrashWriting(e, n)
      PROVE BufferInv'
  <2>1. e \in Seq(Char)
    BY ChunkReaderAssumption
  <2>2. SubSeq(e, 1, n) \in Seq(Char)
    BY <2>1
  <2> QED BY <1>3, <2>2 DEF CrashWriting
<1>4. CASE ReadChar
  <2>1. Head(pipe) \in Char /\ Tail(pipe) \in Seq(Char)
    BY <1>4 DEF ReadChar
  <2>2. /\ json_chunk' \in Seq(Char)
        /\ Len(json_chunk') = Len(json_chunk) + 1
    BY <1>4, <2>1 DEF ReadChar
  <2>3. /\ json_chunk_capacity' \in Nat \ {0}
        /\ Len(json_chunk) + 1 < json_chunk_capacity'
    BY <1>4, GrownHasRoom DEF ReadChar
  <2> QED BY <1>4, <2>1, <2>2, <2>3 DEF ReadChar
<1>5. CASE ReadEof
  BY <1>5 DEF ReadEof
<1>6. CASE EndChunk
  BY <1>6 DEF EndChunk
<1>7. CASE Finished \/ UNCHANGED vars
  BY <1>7 DEF Finished, vars
<1> QED
  BY <1>1, <1>2, <1>3, <1>4, <1>5, <1>6, <1>7 DEF Next, WriterStep, ReaderStep

\* The readers never write past the end of json_chunk, whatever the events
\* are, however long, wherever the writer dies and whatever the first
\* allocation: the terminator always has its place.
THEOREM ChunkBufferSafe == Spec => []RoomForTerminator
<1>1. Init => BufferInv
  BY ChunkReaderAssumption DEF Init, BufferInv, RoomForTerminator
<1>2. BufferInv => RoomForTerminator
  BY DEF BufferInv
<1> QED BY <1>1, <1>2, BufferInvInductive, PTL DEF Spec

-----------------------------------------------------------------------------
(* Types. *)

\* The initial state has the types.
LEMMA TypesInit == Init => TypeOK
<1> SUFFICES ASSUME Init PROVE TypeOK
  OBVIOUS
<1>1. /\ pipe \in Seq(Char) /\ sent \in Seq(Events) /\ json_chunk \in Seq(Char)
      /\ delivered \in Seq(Seq(Char) \ {<<>>})
      /\ json_chunk_capacity \in Nat \ {0} /\ unclosed_braces \in Int
  BY ChunkReaderAssumption DEF Init
<1>2. /\ writer \in {"open", "closed", "cut"}
      /\ pc \in {"loop", "chunk", "done"}
      /\ fifoOpen \in BOOLEAN /\ unclosed_quotes \in BOOLEAN
      /\ escaping \in BOOLEAN
  BY Zenon DEF Init
<1> QED BY <1>1, <1>2, Zenon DEF TypeOK

\* Every step of the writer and of the reader keeps the types, and hands on no
\* empty chunk: EndChunk calls the handler only if it has stored a character.
LEMMA TypesNext == TypeOK /\ [Next]_vars => TypeOK'
<1> SUFFICES ASSUME TypeOK, [Next]_vars PROVE TypeOK'
  OBVIOUS
<1> USE DEF TypeOK, writerVars, scanVars
<1>1. ASSUME NEW e \in Events, Write(e) PROVE TypeOK'
  BY <1>1, ChunkReaderAssumption DEF Write
<1>2. CASE Exit
  BY <1>2 DEF Exit
<1>3. ASSUME NEW e \in Events, NEW n \in 1..(Len(e) - 1), CrashWriting(e, n)
      PROVE  TypeOK'
  <2>1. e \in Seq(Char)
    BY ChunkReaderAssumption
  <2>2. SubSeq(e, 1, n) \in Seq(Char)
    BY <2>1
  <2> QED BY <1>3, <2>2 DEF CrashWriting
<1>4. CASE ReadChar
  <2>1. Head(pipe) \in Char /\ Tail(pipe) \in Seq(Char)
    BY <1>4 DEF ReadChar
  <2>2. /\ json_chunk' \in Seq(Char) /\ pc' \in {"loop", "chunk", "done"}
        /\ escaping' \in BOOLEAN /\ pipe' \in Seq(Char)
    BY <1>4, <2>1 DEF ReadChar
  <2>3. unclosed_braces' \in Int
    BY <1>4, <2>1 DEF ReadChar, Braces
  <2>5. unclosed_quotes' \in BOOLEAN
    BY <1>4, Zenon DEF ReadChar, Quotes
  <2>4. json_chunk_capacity' \in Nat \ {0}
    BY <1>4 DEF ReadChar, Grown
  <2> QED BY <1>4, <2>2, <2>3, <2>4, <2>5 DEF ReadChar
<1>5. CASE ReadEof
  BY <1>5, Zenon DEF ReadEof
<1>6. CASE EndChunk
  <2>1. delivered' \in Seq(Seq(Char) \ {<<>>})
    <3>1. CASE json_chunk = <<>>
      BY <1>6, <3>1 DEF EndChunk
    <3>2. CASE json_chunk # <<>>
      <4>1. json_chunk \in Seq(Char) \ {<<>>}
        BY <3>2
      <4>2. delivered' = Append(delivered, json_chunk)
        BY <1>6, <3>2 DEF EndChunk
      <4> QED BY <4>1, <4>2
    <3> QED BY <3>1, <3>2
  <2>2. /\ json_chunk' \in Seq(Char) /\ unclosed_braces' \in Int
        /\ pc' \in {"loop", "chunk", "done"}
    BY <1>6 DEF EndChunk
  <2>3. unclosed_quotes' \in BOOLEAN /\ escaping' \in BOOLEAN
    BY <1>6, Zenon DEF EndChunk
  <2> QED BY <1>6, <2>1, <2>2, <2>3 DEF EndChunk
<1>7. CASE Finished \/ UNCHANGED vars
  BY <1>7 DEF Finished, vars
<1> QED
  BY <1>1, <1>2, <1>3, <1>4, <1>5, <1>6, <1>7 DEF Next, WriterStep, ReaderStep

\* The variables of the reader keep their types, and a chunk that is handed to
\* the event handler is never empty, whatever is written and wherever the
\* writer dies.
THEOREM ReaderTypes == Spec => []TypeOK
BY TypesInit, TypesNext, PTL DEF Spec

-----------------------------------------------------------------------------
(* What the loop counts. *)

\* The characters that the loop asks for are different ones.
LEMMA CharactersDiffer ==
    /\ LBrace # RBrace /\ LBrace # Quote /\ RBrace # Quote
    /\ LBrace \in Char /\ RBrace \in Char
BY Zenon DEF LBrace, RBrace, Quote, Char

\* Texts that begin alike are scanned alike.
LEMMA SameScan ==
    ASSUME NEW s, NEW t, NEW n \in Nat, \A j \in 1..n : s[j] = t[j]
    PROVE  /\ InQuotes(s, n) <=> InQuotes(t, n)
           /\ Depth(s, n) = Depth(t, n)
<1>1. ASSUME NEW k \in Nat, k <= n
      PROVE  QuotesUpTo(s, k) = QuotesUpTo(t, k)
  <2>1. \A j \in 1..k : /\ s[j] = t[j]
                        /\ j > 1 => s[j - 1] = t[j - 1]
    BY <1>1
  <2> QED BY <2>1 DEF QuotesUpTo
<1>2. ASSUME NEW k \in Nat, k <= n
      PROVE  InQuotes(s, k) <=> InQuotes(t, k)
  BY <1>1, <1>2 DEF InQuotes
<1>3. ASSUME NEW c PROVE BracesUpTo(s, n, c) = BracesUpTo(t, n, c)
  <2>1. \A j \in 1..n : s[j] = t[j] /\ j - 1 \in Nat /\ j - 1 <= n
    OBVIOUS
  <2>2. \A j \in 1..n : InQuotes(s, j - 1) <=> InQuotes(t, j - 1)
    BY <1>2, <2>1
  <2> QED BY <2>1, <2>2 DEF BracesUpTo
<1>4. BracesUpTo(s, n, LBrace) = BracesUpTo(t, n, LBrace)
  BY <1>3
<1>5. BracesUpTo(s, n, RBrace) = BracesUpTo(t, n, RBrace)
  BY <1>3
<1>6. InQuotes(s, n) <=> InQuotes(t, n)
  BY <1>2
<1> QED BY <1>4, <1>5, <1>6 DEF Depth

\* The size of a set of places grows by one if the next place belongs to it.
LEMMA OnePlaceMore ==
    ASSUME NEW n \in Nat, NEW S \in SUBSET (1..n)
    PROVE  /\ Cardinality(S) \in Nat
           /\ Cardinality(S \cup {n + 1}) = Cardinality(S) + 1
<1>1. IsFiniteSet(S)
  <2>1. IsFiniteSet(1..n)
    BY FS_Interval
  <2> QED BY <2>1, FS_Subset, Zenon
<1>2. n + 1 \notin S
  OBVIOUS
<1> QED BY <1>1, <1>2, FS_AddElement, FS_CardinalityType

\* What one more character c does to the quotes and to the braces.
LEMMA ScanOneMore ==
    ASSUME NEW t, NEW n \in Nat
    PROVE  LET c == t[n + 1]
               escaped == n > 0 /\ t[n] = Backslash
           IN  /\ InQuotes(t, n) \in BOOLEAN /\ Depth(t, n) \in Int
               /\ InQuotes(t, n + 1) <=>
                    IF c = Quote /\ ~escaped THEN ~InQuotes(t, n)
                                            ELSE InQuotes(t, n)
               /\ Depth(t, n + 1) =
                    IF InQuotes(t, n) THEN Depth(t, n)
                    ELSE IF c = LBrace THEN Depth(t, n) + 1
                    ELSE IF c = RBrace THEN Depth(t, n) - 1 ELSE Depth(t, n)
<1> DEFINE c == t[n + 1]
           escaped == n > 0 /\ t[n] = Backslash
           Q == QuotesUpTo(t, n)
           L == BracesUpTo(t, n, LBrace)
           R == BracesUpTo(t, n, RBrace)
<1>1. Q \in SUBSET (1..n) /\ L \in SUBSET (1..n) /\ R \in SUBSET (1..n)
  BY DEF QuotesUpTo, BracesUpTo
<1>2. /\ \A j \in 1..(n + 1) : j \in 1..n \/ j = n + 1
      /\ \A j \in 1..n : j \in 1..(n + 1)
      /\ n + 1 \in 1..(n + 1) /\ (n + 1) - 1 = n /\ (n + 1 > 1 <=> n > 0)
  OBVIOUS
<1>3. QuotesUpTo(t, n + 1) =
        IF c = Quote /\ ~escaped THEN Q \cup {n + 1} ELSE Q
  BY <1>2 DEF QuotesUpTo
<1>4. ASSUME NEW b
      PROVE  BracesUpTo(t, n + 1, b) =
               IF c = b /\ ~InQuotes(t, n)
               THEN BracesUpTo(t, n, b) \cup {n + 1} ELSE BracesUpTo(t, n, b)
  BY <1>2 DEF BracesUpTo
<1>5. /\ BracesUpTo(t, n + 1, LBrace) =
           IF c = LBrace /\ ~InQuotes(t, n) THEN L \cup {n + 1} ELSE L
      /\ BracesUpTo(t, n + 1, RBrace) =
           IF c = RBrace /\ ~InQuotes(t, n) THEN R \cup {n + 1} ELSE R
  BY <1>4
<1>6. /\ Cardinality(Q) \in Nat
      /\ Cardinality(Q \cup {n + 1}) = Cardinality(Q) + 1
  BY <1>1, OnePlaceMore
<1>7. /\ Cardinality(L) \in Nat
      /\ Cardinality(L \cup {n + 1}) = Cardinality(L) + 1
  BY <1>1, OnePlaceMore
<1>8. /\ Cardinality(R) \in Nat
      /\ Cardinality(R \cup {n + 1}) = Cardinality(R) + 1
  BY <1>1, OnePlaceMore
<1>9. Depth(t, n) = Cardinality(L) - Cardinality(R)
  BY DEF Depth
<1>10. Depth(t, n + 1) = Cardinality(BracesUpTo(t, n + 1, LBrace))
                           - Cardinality(BracesUpTo(t, n + 1, RBrace))
  BY DEF Depth
<1>11. InQuotes(t, n + 1) <=>
         IF c = Quote /\ ~escaped THEN ~InQuotes(t, n) ELSE InQuotes(t, n)
  <2> DEFINE k == Cardinality(Q)
  <2>1. k \in Nat => ((k + 1) % 2 = 1 <=> ~(k % 2 = 1))
    OBVIOUS
  <2> QED BY <1>3, <1>6, <2>1 DEF InQuotes
<1>12. InQuotes(t, n) \in BOOLEAN
  BY DEF InQuotes
<1> HIDE DEF L, R
<1>13. Depth(t, n + 1) =
         IF InQuotes(t, n) THEN Depth(t, n)
         ELSE IF c = LBrace THEN Depth(t, n) + 1
         ELSE IF c = RBrace THEN Depth(t, n) - 1 ELSE Depth(t, n)
  <2>1. CASE InQuotes(t, n)
    BY <1>5, <1>9, <1>10, <2>1
  <2>2. CASE ~InQuotes(t, n) /\ c = LBrace
    <3>1. /\ BracesUpTo(t, n + 1, LBrace) = L \cup {n + 1}
          /\ BracesUpTo(t, n + 1, RBrace) = R
      BY <1>5, <2>2, CharactersDiffer
    <3>2. Depth(t, n + 1) = (Cardinality(L) + 1) - Cardinality(R)
      BY <1>7, <1>8, <1>10, <3>1, Zenon
    <3> QED BY <1>7, <1>8, <1>9, <2>2, <3>2, CharactersDiffer
  <2>3. CASE ~InQuotes(t, n) /\ c = RBrace
    <3>1. /\ BracesUpTo(t, n + 1, LBrace) = L
          /\ BracesUpTo(t, n + 1, RBrace) = R \cup {n + 1}
      BY <1>5, <2>3, CharactersDiffer
    <3>2. Depth(t, n + 1) = Cardinality(L) - (Cardinality(R) + 1)
      BY <1>7, <1>8, <1>10, <3>1, Zenon
    <3> QED BY <1>7, <1>8, <1>9, <2>3, <3>2, CharactersDiffer
  <2>4. CASE ~InQuotes(t, n) /\ c # LBrace /\ c # RBrace
    BY <1>5, <1>9, <1>10, <2>4
  <2> QED BY <2>1, <2>2, <2>3, <2>4
<1>14. Depth(t, n) \in Int
  BY <1>7, <1>8, <1>9
<1> QED BY <1>11, <1>12, <1>13, <1>14

\* The variables of the loop say what the characters read so far amount to.
ScanInv ==
    /\ unclosed_braces = Depth(json_chunk, Len(json_chunk))
    /\ unclosed_quotes <=> InQuotes(json_chunk, Len(json_chunk))
    /\ escaping <=> /\ Len(json_chunk) > 0
                    /\ json_chunk[Len(json_chunk)] = Backslash

\* Before the first character of a chunk the counts are zero, as EndChunk
\* resets them.
LEMMA ScanNothing == Depth(<<>>, 0) = 0 /\ ~InQuotes(<<>>, 0)
<1>1. 1..0 = {} /\ Cardinality({}) = 0 /\ 0 % 2 = 0
  BY FS_EmptySet
<1> QED BY <1>1 DEF Depth, BracesUpTo, InQuotes, QuotesUpTo

\* fgetc's loop keeps its three variables in step with the reference counts
\* over the characters it has stored, whatever they are; and EndChunk resets
\* all three.
LEMMA ScanNext ==
    ASSUME TypeOK, ScanInv, [Next]_vars
    PROVE  ScanInv'
<1>1. CASE ReadChar
  <2> DEFINE c == Head(pipe)
             n == Len(json_chunk)
             t == Append(json_chunk, c)
  <2>1. /\ json_chunk \in Seq(Char) /\ c \in Char /\ n \in Nat
        /\ unclosed_braces \in Int /\ unclosed_quotes \in BOOLEAN
        /\ escaping \in BOOLEAN
    BY <1>1 DEF TypeOK, ReadChar
  <2>2. /\ json_chunk' = t /\ escaping' = (c = Backslash)
        /\ unclosed_braces' = Braces(c) /\ unclosed_quotes' = Quotes(c)
    BY <1>1 DEF ReadChar
  <2>3. /\ Len(t) = n + 1 /\ t[n + 1] = c
        /\ \A j \in 1..n : t[j] = json_chunk[j]
    BY <2>1
  <2>4. n > 0 => t[n] = json_chunk[n]
    BY <2>1, <2>3
  <2> HIDE DEF t
  <2>5. /\ InQuotes(t, n) <=> InQuotes(json_chunk, n)
        /\ Depth(t, n) = Depth(json_chunk, n)
    BY <2>1, <2>3, SameScan
  <2>6. escaping' <=> Len(t) > 0 /\ t[Len(t)] = Backslash
    <3>1. Len(t) > 0 /\ t[Len(t)] = c
      BY <2>1, <2>3
    <3> QED BY <2>2, <3>1, Zenon
  <2>7. unclosed_quotes' <=> InQuotes(t, n + 1)
    BY <2>1, <2>2, <2>3, <2>4, <2>5, ScanOneMore, ZenonT(40) DEF ScanInv, Quotes
  <2>8. unclosed_braces' = Depth(t, n + 1)
    <3>1. Depth(t, n + 1) =
            IF InQuotes(t, n) THEN Depth(t, n)
            ELSE IF c = LBrace THEN Depth(t, n) + 1
            ELSE IF c = RBrace THEN Depth(t, n) - 1 ELSE Depth(t, n)
      <4>1. Depth(t, n + 1) =
              IF InQuotes(t, n) THEN Depth(t, n)
              ELSE IF t[n + 1] = LBrace THEN Depth(t, n) + 1
              ELSE IF t[n + 1] = RBrace THEN Depth(t, n) - 1 ELSE Depth(t, n)
        BY <2>1, ScanOneMore
      <4> HIDE DEF c, n
      <4> QED BY <2>3, <4>1, Zenon
    <3>2. /\ InQuotes(t, n) <=> unclosed_quotes
          /\ Depth(t, n) = unclosed_braces
      BY <2>5 DEF ScanInv
    <3>3. Braces(c) = IF unclosed_quotes THEN unclosed_braces
                      ELSE IF c = LBrace THEN unclosed_braces + 1
                      ELSE IF c = RBrace THEN unclosed_braces - 1
                      ELSE unclosed_braces
      BY CharactersDiffer DEF Braces
    <3> HIDE DEF c
    <3> QED BY <2>2, <3>1, <3>2, <3>3
  <2> QED BY <2>2, <2>3, <2>6, <2>7, <2>8 DEF ScanInv
<1>2. CASE EndChunk
  <2>1. /\ json_chunk' = <<>> /\ unclosed_braces' = 0
        /\ ~unclosed_quotes' /\ ~escaping'
    BY <1>2 DEF EndChunk
  <2>2. Len(<<>>) = 0
    OBVIOUS
  <2> QED BY <2>1, <2>2, ScanNothing DEF ScanInv
<1>3. CASE UNCHANGED <<json_chunk, scanVars>>
  BY <1>3 DEF ScanInv, scanVars
<1> QED BY <1>1, <1>2, <1>3 DEF Next, WriterStep, ReaderStep, Write, Exit,
                               CrashWriting, ReadEof, Finished, vars, scanVars

\* The loop's braces, quotes and escaping are what the reference definitions
\* say of the characters stored, at every step and for any input: an event's
\* end is found by these counts alone.
THEOREM ScanIsRight == Spec => []ScanInv
<1>1. Init => TypeOK /\ ScanInv
  BY TypesInit, ScanNothing DEF Init, ScanInv
<1>2. (TypeOK /\ ScanInv) /\ [Next]_vars => (TypeOK /\ ScanInv)'
  BY TypesNext, ScanNext
<1> QED BY <1>1, <1>2, PTL DEF Spec

-----------------------------------------------------------------------------
(* The texts on the pipe. *)

\* What the loop relies on: the braces of every event, as it counts them,
\* balance at the event's end and nowhere before.
FramedEvents == \A e \in Events : IsFramed(e)

\* What framing says of one event.
LEMMA FramedText ==
    ASSUME FramedEvents, NEW e \in Events
    PROVE  /\ e \in Seq(Char) /\ Len(e) \in Nat /\ Len(e) > 0
           /\ \A n \in 1..Len(e) : Depth(e, n) > 0 <=> n < Len(e)
<1>1. e \in Seq(Char) /\ e # <<>>
  BY ChunkReaderAssumption DEF FramedEvents, IsFramed
<1>2. \A n \in 1..Len(e) : Depth(e, n) > 0 <=> n < Len(e)
  BY DEF FramedEvents, IsFramed
<1> QED BY <1>1, <1>2

\* How the texts of `full` from the one after the m-th on lie on the pipe p:
\* text i begins after place start[i].  k characters of the first one have
\* been read already, and `lack` of the last one have not been written.
Ahead(p, k, m, full, lack, start) ==
    /\ p \in Seq(Char) /\ k \in Nat /\ m \in Nat /\ lack \in Nat
    /\ full \in Seq(Events) /\ m <= Len(full)
    /\ start \in [(m + 1)..(Len(full) + 1) -> Int]
    /\ start[m + 1] = 0 - k /\ start[Len(full) + 1] = Len(p) + lack
    /\ \A i \in (m + 1)..Len(full) : start[i + 1] = start[i] + Len(full[i])
    /\ \A i, j \in (m + 1)..(Len(full) + 1) : i <= j => start[i] <= start[j]
    /\ \A i \in (m + 1)..Len(full) : \A j \in 1..Len(full[i]) :
         start[i] + j \in 1..Len(p) => p[start[i] + j] = full[i][j]

\* Arithmetic on the places of a text: one that ends within the first len
\* characters has all its places there.
LEMMA Within ==
    ASSUME NEW a \in Int, NEW j \in Nat, NEW n \in Nat, NEW len \in Nat,
           NEW more, a + n <= len, j <= n, a + j \in 1..more
    PROVE  a + j \in 1..len
OBVIOUS

\* When the pipe loses its first character every place moves down by one.
LEMMA Onwards ==
    ASSUME NEW a \in Int, NEW j \in Nat, NEW len \in Nat,
           (a - 1) + j \in 1..(len - 1)
    PROVE  a + j \in 1..len /\ ((a - 1) + j) + 1 = a + j
OBVIOUS

\* Moving down by one leaves the distance between two texts as it is.
LEMMA OnwardSum ==
    ASSUME NEW a \in Int, NEW n \in Nat
    PROVE  (a + n) - 1 = (a - 1) + n
OBVIOUS

\* A text of which k < n characters have been read and none is on the pipe
\* lacks the others.
LEMMA SomeLeft ==
    ASSUME NEW k \in Nat, NEW n \in Nat, NEW lack \in Nat, k < n,
           (0 - k) + n <= lack
    PROVE  lack > 0
OBVIOUS

\* A text, or the first n characters of it, is written.
LEMMA TextWritten ==
    ASSUME FramedEvents, NEW p, NEW k, NEW m, NEW full, NEW start,
           Ahead(p, k, m, full, 0, start),
           NEW e \in Events, NEW n \in 1..Len(e), NEW q \in Seq(Char),
           Len(q) = Len(p) + n, \A x \in 1..Len(p) : q[x] = p[x],
           \A x \in 1..n : q[Len(p) + x] = e[x]
    PROVE  \E s : Ahead(q, k, m, Append(full, e), Len(e) - n, s)
<1>1. /\ p \in Seq(Char) /\ k \in Nat /\ m \in Nat /\ full \in Seq(Events)
      /\ m <= Len(full) /\ Len(full) \in Nat /\ Len(p) \in Nat
      /\ Len(e) \in Nat /\ n \in Nat /\ Len(e) - n \in Nat
  BY FramedText DEF Ahead
<1> DEFINE last == Len(full) + 1
           more == Append(full, e)
           s == [i \in (m + 1)..(last + 1) |->
                   IF i = last + 1 THEN start[last] + Len(e) ELSE start[i]]
<1>2. /\ more \in Seq(Events) /\ Len(more) = last /\ more[last] = e
      /\ \A i \in 1..Len(full) : more[i] = full[i]
  BY <1>1
<1>3. start[m + 1] = 0 - k /\ start[last] = Len(p) + 0
  BY Zenon DEF Ahead
<1>4. \A i \in (m + 1)..last : start[i] \in Int
  BY Zenon DEF Ahead
<1>5. \A i \in (m + 1)..Len(full) : start[i + 1] = start[i] + Len(full[i])
  BY Zenon DEF Ahead
<1>6. \A i, j \in (m + 1)..last : i <= j => start[i] <= start[j]
  BY Zenon DEF Ahead
<1>7. \A i \in (m + 1)..Len(full) : \A j \in 1..Len(full[i]) :
        start[i] + j \in 1..Len(p) => p[start[i] + j] = full[i][j]
  BY Zenon DEF Ahead
<1> HIDE DEF more
<1>8. /\ last \in (m + 1)..last /\ m + 1 \in (m + 1)..last
      /\ last \in Nat /\ start[last] = Len(p)
      /\ \A i \in (m + 1)..(last + 1) : i # last + 1 => i \in (m + 1)..last
      /\ \A i \in (m + 1)..last :
           i # last => i \in (m + 1)..Len(full) /\ i + 1 \in (m + 1)..last
      /\ \A i \in (m + 1)..Len(full) :
           /\ i \in 1..Len(full) /\ i \in (m + 1)..last
           /\ i + 1 \in (m + 1)..last
  <2>1. last \in (m + 1)..last /\ m + 1 \in (m + 1)..last /\ last \in Nat
    BY <1>1
  <2>2. start[last] = Len(p)
    BY <1>1, <1>3
  <2>3. \A i \in (m + 1)..(last + 1) : i # last + 1 => i \in (m + 1)..last
    BY <1>1
  <2>4. \A i \in (m + 1)..last : i # last => i \in (m + 1)..Len(full)
    <3>1. m \in Nat /\ Len(full) \in Nat
      BY <1>1
    <3> QED BY <3>1
  <2>5. \A i \in (m + 1)..Len(full) :
          /\ i \in 1..Len(full) /\ i \in (m + 1)..last
          /\ i + 1 \in (m + 1)..last
    BY <1>1
  <2> QED BY <2>1, <2>2, <2>3, <2>4, <2>5, Zenon
<1>9. s[last + 1] = Len(p) + Len(e)
  <2>1. last + 1 \in (m + 1)..(last + 1)
    BY <1>1
  <2> QED BY <1>8, <2>1
<1>10. \A i \in (m + 1)..last :
         s[i] = start[i] /\ i \in (m + 1)..(last + 1)
  <2>1. \A i \in (m + 1)..last : i # last + 1 /\ i \in (m + 1)..(last + 1)
    BY <1>1
  <2> QED BY <2>1
<1>11. s \in [(m + 1)..(last + 1) -> Int]
  <2>1. start[last] + Len(e) \in Int
    BY <1>1, <1>8
  <2> QED BY <1>4, <1>8, <2>1
<1> HIDE DEF s
<1>12. \A i \in (m + 1)..last : start[i] <= Len(p)
  <2> TAKE i \in (m + 1)..last
  <2>1. i <= last
    BY <1>1
  <2> QED BY <1>6, <1>8, <2>1
<1>13. \A i \in 1..Len(full) : full[i] \in Events /\ Len(full[i]) \in Nat
  BY <1>1, FramedText
<1>14. \A i \in (m + 1)..last : s[i + 1] = s[i] + Len(more[i])
  <2> TAKE i \in (m + 1)..last
  <2>1. CASE i = last
    BY <1>2, <1>8, <1>9, <1>10, <2>1, Zenon
  <2>2. CASE i # last
    <3>1. i \in (m + 1)..Len(full) /\ i + 1 \in (m + 1)..last
      BY <1>8, <2>2
    <3>2. /\ s[i] = start[i] /\ s[i + 1] = start[i + 1]
          /\ more[i] = full[i]
      BY <1>2, <1>8, <1>10, <3>1
    <3> QED BY <1>5, <3>1, <3>2
  <2> QED BY <2>1, <2>2
<1>15. \A i, j \in (m + 1)..(last + 1) : i <= j => s[i] <= s[j]
  <2> SUFFICES ASSUME NEW i \in (m + 1)..(last + 1),
                      NEW j \in (m + 1)..(last + 1), i <= j
               PROVE  s[i] <= s[j]
    OBVIOUS
  <2>1. CASE j = last + 1 /\ i = last + 1
    BY <1>1, <1>9, <2>1
  <2>2. CASE j = last + 1 /\ i # last + 1
    <3>1. /\ i \in (m + 1)..last /\ s[i] = start[i]
          /\ start[i] <= Len(p) /\ start[i] \in Int
      BY <1>4, <1>8, <1>10, <1>12, <2>2
    <3>2. s[j] = Len(p) + Len(e)
      BY <1>9, <2>2
    <3> HIDE DEF last
    <3> QED BY <1>1, <3>1, <3>2
  <2>3. CASE j # last + 1
    <3>1. i \in (m + 1)..last /\ j \in (m + 1)..last
      BY <1>1, <2>3
    <3> QED BY <1>6, <1>10, <3>1
  <2> QED BY <2>1, <2>2, <2>3
<1>16. ASSUME NEW i \in (m + 1)..last, NEW j \in 1..Len(more[i]),
              s[i] + j \in 1..Len(q)
       PROVE  q[s[i] + j] = more[i][j]
  <2>1. CASE i = last
    <3>1. s[i] = Len(p) /\ more[i] = e
      BY <1>2, <1>8, <1>10, <2>1
    <3>2. j \in 1..n
      BY <1>1, <1>16, <3>1
    <3> QED BY <3>1, <3>2, Zenon
  <2>2. CASE i # last
    <3>1. /\ i \in (m + 1)..Len(full) /\ i + 1 \in (m + 1)..last
          /\ i \in 1..Len(full)
      BY <1>8, <2>2
    <3>2. s[i] = start[i] /\ more[i] = full[i]
      BY <1>2, <1>10, <3>1, Zenon
    <3>3. start[i] + Len(full[i]) <= Len(p)
      BY <1>5, <1>12, <3>1, Zenon
    <3>4. start[i] \in Int /\ Len(full[i]) \in Nat
      BY <1>4, <1>13, <3>1
    <3>5. /\ j \in 1..Len(full[i]) /\ start[i] + j \in 1..Len(q)
          /\ j \in Nat /\ j <= Len(full[i])
      BY <1>16, <3>2, <3>4
    <3>6. start[i] + j \in 1..Len(p)
      BY <1>1, <3>3, <3>4, <3>5, Within, Zenon
    <3>7. p[start[i] + j] = full[i][j]
      BY <1>7, <3>1, <3>5, <3>6
    <3> QED BY <3>2, <3>6, <3>7
  <2> QED BY <2>1, <2>2
<1>17. Len(q) + (Len(e) - n) = Len(p) + Len(e)
  BY <1>1
<1>18. m <= Len(more) /\ s[m + 1] = 0 - k
  BY <1>1, <1>2, <1>3, <1>8, <1>10
<1>19. Ahead(q, k, m, more, Len(e) - n, s)
  BY <1>1, <1>2, <1>9, <1>11, <1>14, <1>15, <1>16, <1>17, <1>18 DEF Ahead
<1> QED BY <1>19 DEF more

\* In the loop the next character on the pipe is the next one of the text.
LEMMA NextCharacter ==
    ASSUME NEW p, NEW k, NEW m, NEW full, NEW lack, NEW start,
           Ahead(p, k, m, full, lack, start), p # <<>>,
           m < Len(full) => k < Len(full[m + 1]), m = Len(full) => k = 0
    PROVE  /\ m < Len(full) /\ Head(p) = full[m + 1][k + 1]
           /\ \E s : Ahead(Tail(p), k + 1, m, full, lack, s)
<1>1. /\ p \in Seq(Char) /\ k \in Nat /\ m \in Nat /\ full \in Seq(Events)
      /\ m <= Len(full) /\ Len(full) \in Nat /\ Len(p) \in Nat
      /\ Len(p) > 0 /\ lack \in Nat
  BY DEF Ahead
<1> DEFINE last == Len(full) + 1
           s == [i \in (m + 1)..last |-> start[i] - 1]
<1>2. start[m + 1] = 0 - k /\ start[last] = Len(p) + lack
  BY Zenon DEF Ahead
<1>3. \A i \in (m + 1)..last : start[i] \in Int
  BY Zenon DEF Ahead
<1>4. \A i \in (m + 1)..Len(full) : start[i + 1] = start[i] + Len(full[i])
  BY Zenon DEF Ahead
<1>5. \A i, j \in (m + 1)..last : i <= j => start[i] <= start[j]
  BY Zenon DEF Ahead
<1>6. \A i \in (m + 1)..Len(full) : \A j \in 1..Len(full[i]) :
        start[i] + j \in 1..Len(p) => p[start[i] + j] = full[i][j]
  BY Zenon DEF Ahead
<1>7. m < Len(full)
  BY <1>1, <1>2
<1>8. /\ full[m + 1] \in Events /\ Len(full[m + 1]) \in Nat
      /\ m + 1 \in (m + 1)..Len(full)
  BY <1>1, <1>7, ChunkReaderAssumption
<1>9. /\ k + 1 \in 1..Len(full[m + 1]) /\ start[m + 1] + (k + 1) = 1
      /\ 1 \in 1..Len(p)
  BY <1>1, <1>2, <1>7, <1>8
<1>10. Head(p) = full[m + 1][k + 1]
  <2>1. p[start[m + 1] + (k + 1)] = full[m + 1][k + 1]
    BY <1>6, <1>8, <1>9
  <2> QED BY <1>1, <1>9, <2>1
<1>11. /\ Tail(p) \in Seq(Char) /\ Len(Tail(p)) = Len(p) - 1
       /\ \A x \in 1..(Len(p) - 1) : Tail(p)[x] = p[x + 1]
  BY <1>1
<1>12. /\ s \in [(m + 1)..last -> Int]
       /\ \A i \in (m + 1)..last : s[i] = start[i] - 1
  BY <1>3
<1>13. m + 1 \in (m + 1)..last /\ last \in (m + 1)..last
  BY <1>1
<1> HIDE DEF s
<1>14. s[m + 1] = 0 - (k + 1) /\ s[last] = Len(Tail(p)) + lack
  <2>1. s[m + 1] = (0 - k) - 1 /\ s[last] = (Len(p) + lack) - 1
    BY <1>2, <1>12, <1>13, Zenon
  <2> HIDE DEF last
  <2> QED BY <1>1, <1>11, <2>1
<1>15. \A i \in (m + 1)..Len(full) : s[i + 1] = s[i] + Len(full[i])
  <2> TAKE i \in (m + 1)..Len(full)
  <2>1. /\ i \in (m + 1)..last /\ i + 1 \in (m + 1)..last
        /\ start[i] \in Int /\ Len(full[i]) \in Nat
    BY <1>1, <1>3, ChunkReaderAssumption
  <2>2. /\ start[i + 1] = start[i] + Len(full[i])
        /\ s[i] = start[i] - 1 /\ s[i + 1] = start[i + 1] - 1
    BY <1>4, <1>12, <2>1, Zenon
  <2> QED BY <2>1, <2>2, OnwardSum, Zenon
<1>16. \A i, j \in (m + 1)..last : i <= j => s[i] <= s[j]
  <2> SUFFICES ASSUME NEW i \in (m + 1)..last, NEW j \in (m + 1)..last,
                      i <= j
               PROVE  s[i] <= s[j]
    OBVIOUS
  <2>1. /\ start[i] <= start[j] /\ start[i] \in Int /\ start[j] \in Int
        /\ s[i] = start[i] - 1 /\ s[j] = start[j] - 1
    BY <1>3, <1>5, <1>12, Zenon
  <2> HIDE DEF last
  <2> QED BY <2>1
<1>17. ASSUME NEW i \in (m + 1)..Len(full), NEW j \in 1..Len(full[i]),
              s[i] + j \in 1..Len(Tail(p))
       PROVE  Tail(p)[s[i] + j] = full[i][j]
  <2>1. i \in (m + 1)..last
    BY <1>1
  <2>2. s[i] = start[i] - 1 /\ start[i] \in Int /\ j \in Nat
    BY <1>3, <1>12, <2>1
  <2>3. (start[i] - 1) + j \in 1..(Len(p) - 1)
    BY <1>11, <1>17, <2>2, Zenon
  <2>4. start[i] + j \in 1..Len(p) /\ ((start[i] - 1) + j) + 1 = start[i] + j
    BY <1>1, <2>2, <2>3, Onwards, Zenon
  <2>5. p[start[i] + j] = full[i][j]
    BY <1>6, <2>4, Zenon
  <2> QED BY <1>11, <2>2, <2>3, <2>4, <2>5, Zenon
<1>18. Ahead(Tail(p), k + 1, m, full, lack, s)
  BY <1>1, <1>11, <1>12, <1>14, <1>15, <1>16, <1>17 DEF Ahead
<1> QED BY <1>7, <1>10, <1>18

\* A whole text has been read.
LEMMA TextRead ==
    ASSUME NEW p, NEW k, NEW m, NEW full, NEW lack, NEW start,
           Ahead(p, k, m, full, lack, start), m < Len(full),
           k = Len(full[m + 1])
    PROVE  /\ \E s : Ahead(p, 0, m + 1, full, lack, s)
           /\ m + 1 = Len(full) => lack = 0 /\ p = <<>>
<1>1. /\ p \in Seq(Char) /\ k \in Nat /\ m \in Nat /\ full \in Seq(Events)
      /\ Len(full) \in Nat /\ Len(p) \in Nat /\ lack \in Nat
      /\ m + 1 \in Nat /\ m + 1 <= Len(full) /\ 0 \in Nat
  BY DEF Ahead
<1> DEFINE last == Len(full) + 1
           s == [i \in (m + 2)..last |-> start[i]]
<1>2. /\ start[m + 1] = 0 - k /\ start[last] = Len(p) + lack
      /\ \A i \in (m + 1)..last : start[i] \in Int
      /\ \A i \in (m + 1)..Len(full) : start[i + 1] = start[i] + Len(full[i])
      /\ \A i, j \in (m + 1)..last : i <= j => start[i] <= start[j]
      /\ \A i \in (m + 1)..Len(full) : \A j \in 1..Len(full[i]) :
           start[i] + j \in 1..Len(p) => p[start[i] + j] = full[i][j]
  BY <1>1, Zenon DEF Ahead
<1>3. /\ (m + 1) + 1 = m + 2 /\ m + 1 \in (m + 1)..Len(full)
      /\ \A i \in (m + 2)..last : i \in (m + 1)..last
      /\ \A i \in (m + 2)..Len(full) :
           /\ i \in (m + 1)..Len(full)
           /\ i \in (m + 2)..last /\ i + 1 \in (m + 2)..last
      /\ m + 2 \in (m + 2)..last /\ last \in (m + 2)..last
  BY <1>1
<1>4. start[m + 2] = 0
  BY <1>1, <1>2, <1>3
<1>5. /\ s \in [(m + 2)..last -> Int]
      /\ \A i \in (m + 2)..last : s[i] = start[i]
  BY <1>2, <1>3
<1> HIDE DEF s
<1>6. /\ \A i \in (m + 2)..Len(full) : s[i + 1] = s[i] + Len(full[i])
      /\ \A i, j \in (m + 2)..last : i <= j => s[i] <= s[j]
      /\ \A i \in (m + 2)..Len(full) : \A j \in 1..Len(full[i]) :
           s[i] + j \in 1..Len(p) => p[s[i] + j] = full[i][j]
      /\ s[m + 2] = 0 /\ s[last] = Len(p) + lack
  BY <1>2, <1>3, <1>4, <1>5, ZenonT(40)
<1>7. Ahead(p, 0, m + 1, full, lack, s)
  <2>1. 0 - 0 = 0
    OBVIOUS
  <2>2. s[m + 2] = 0 - 0
    BY <1>6, <2>1, Zenon
  <2> QED BY <1>1, <1>3, <1>5, <1>6, <2>2, Zenon DEF Ahead
<1>8. ASSUME m + 1 = Len(full) PROVE lack = 0 /\ p = <<>>
  <2>1. Len(p) + lack = 0
    BY <1>1, <1>2, <1>4, <1>8
  <2> QED BY <1>1, <2>1
<1> QED BY <1>7, <1>8

\* At the end of the pipe all texts have been read, or the last one is cut.
LEMMA EmptyPipe ==
    ASSUME FramedEvents, NEW k, NEW m, NEW full, NEW lack, NEW start,
           Ahead(<<>>, k, m, full, lack, start),
           m < Len(full) => k < Len(full[m + 1])
    PROVE  /\ lack = 0 => m = Len(full)
           /\ m < Len(full) /\ lack < Len(full[Len(full)]) => k > 0
<1>1. /\ k \in Nat /\ m \in Nat /\ full \in Seq(Events) /\ lack \in Nat
      /\ m <= Len(full) /\ Len(full) \in Nat
  BY DEF Ahead
<1> DEFINE last == Len(full) + 1
<1>2. start[m + 1] = 0 - k /\ start[last] = Len(<<>>) + lack
  BY Zenon DEF Ahead
<1>3. \A i \in (m + 1)..last : start[i] \in Int
  BY Zenon DEF Ahead
<1>4. \A i \in (m + 1)..Len(full) : start[i + 1] = start[i] + Len(full[i])
  BY Zenon DEF Ahead
<1>5. \A i, j \in (m + 1)..last : i <= j => start[i] <= start[j]
  BY Zenon DEF Ahead
<1>6. start[last] = lack
  BY <1>1, <1>2
<1>7. ASSUME m < Len(full)
      PROVE  lack > 0 /\ (lack < Len(full[Len(full)]) => k > 0)
  <2>1. /\ m + 1 \in (m + 1)..Len(full) /\ Len(full) \in (m + 1)..Len(full)
        /\ m + 1 \in (m + 1)..last /\ Len(full) \in (m + 1)..last
        /\ (m + 1) + 1 \in (m + 1)..last /\ last \in (m + 1)..last
        /\ (m + 1) + 1 <= last /\ m + 1 <= Len(full)
    BY <1>1, <1>7
  <2>2. full[m + 1] \in Events /\ full[Len(full)] \in Events
    BY <1>1, <2>1
  <2>3. Len(full[m + 1]) \in Nat /\ Len(full[Len(full)]) \in Nat
    BY <2>2, FramedText
  <2>4. start[(m + 1) + 1] = start[m + 1] + Len(full[m + 1])
    BY <1>4, <2>1, Zenon
  <2>5. start[last] = start[Len(full)] + Len(full[Len(full)])
    BY <1>4, <2>1, Zenon
  <2>6. start[(m + 1) + 1] <= start[last] /\ start[m + 1] <= start[Len(full)]
    BY <1>5, <2>1, Zenon
  <2>7. start[Len(full)] \in Int
    BY <1>3, <2>1
  <2>8. (0 - k) + Len(full[m + 1]) <= lack
    BY <1>2, <1>6, <2>4, <2>6, Zenon
  <2>9. /\ lack = start[Len(full)] + Len(full[Len(full)])
        /\ 0 - k <= start[Len(full)]
    BY <1>2, <1>6, <2>5, <2>6, Zenon
  <2>10. lack > 0
    <3>1. k < Len(full[m + 1]) /\ k \in Nat /\ lack \in Nat
      BY <1>1, <1>7, Zenon
    <3> QED BY <2>3, <2>8, <3>1, SomeLeft, Zenon
  <2>11. lack < Len(full[Len(full)]) => k > 0
    BY <1>1, <2>3, <2>7, <2>9
  <2> QED BY <2>10, <2>11
<1> QED BY <1>1, <1>7

-----------------------------------------------------------------------------
(* The invariant. *)

\* The texts that the writer has begun, and what it has not written of them.
Written(full, lack) ==
    /\ writer # "cut" => full = sent /\ lack = 0
    /\ writer = "cut" => \E e \in Events : /\ full = Append(sent, e)
                                           /\ lack \in 1..(Len(e) - 1)

\* The chunk is the beginning of the next of these texts; the loop is left at
\* the end of the text and nowhere before, or when there is no next one.
Cutting(full) ==
    LET d == Len(delivered) + 1
        k == Len(json_chunk)
    IN  /\ d <= Len(full) => /\ k <= Len(full[d])
                             /\ \A j \in 1..k : json_chunk[j] = full[d][j]
        /\ pc = "loop" /\ d <= Len(full) => k < Len(full[d])
        /\ pc = "loop" /\ d > Len(full) => k = 0
        /\ pc = "chunk" /\ k > 0 => /\ fifoOpen /\ d <= Len(full)
                                    /\ k = Len(full[d])
        /\ pc = "chunk" /\ k = 0 => /\ d > Len(full) /\ writer = "closed"
                                    /\ ~fifoOpen
        /\ pc = "done" => delivered = sent /\ writer = "closed" /\ k = 0
        /\ ~fifoOpen => pipe = <<>> /\ writer # "open"

\* What has been handed on is what was written first.
Handed ==
    /\ Len(delivered) <= Len(sent)
    /\ \A i \in 1..Len(delivered) : delivered[i] = sent[i]

\* The layout of the pipe with the texts, the writer and the reader.
OnPipe(full, lack, start) ==
    /\ Ahead(pipe, Len(json_chunk), Len(delivered), full, lack, start)
    /\ Written(full, lack)
    /\ Cutting(full)

\* The inductive invariant behind the refinement.
StreamInv ==
    /\ TypeOK /\ ScanInv /\ Handed
    /\ \E full, lack, start : OnPipe(full, lack, start)

\* fwrite of a whole event adds its text at the end of the pipe, even if the
\* reader is within an earlier one or was waiting.
LEMMA WriteKeeps ==
    ASSUME FramedEvents, StreamInv, TypeOK',
           NEW full, NEW lack, NEW start, OnPipe(full, lack, start),
           NEW e \in Events, Write(e)
    PROVE  Handed' /\ \E f, l, s : OnPipe(f, l, s)'
<1> PICK more : more = Append(sent, e)
  BY Zenon
<1>1. /\ pipe \in Seq(Char) /\ sent \in Seq(Events) /\ e \in Seq(Char)
      /\ json_chunk \in Seq(Char) /\ Len(e) \in Nat /\ Len(e) > 0
      /\ delivered \in Seq(Seq(Char) \ {<<>>})
      /\ pc \in {"loop", "chunk", "done"}
  BY FramedText DEF StreamInv, TypeOK
<1>2. /\ writer = "open" /\ pipe' = pipe \o e /\ sent' = more
      /\ writer' = writer /\ pc' = pc /\ fifoOpen' = fifoOpen
      /\ json_chunk' = json_chunk /\ delivered' = delivered
  BY DEF Write
<1>3. full = sent /\ lack = 0
  BY <1>2 DEF OnPipe, Written
<1>4. Ahead(pipe, Len(json_chunk), Len(delivered), sent, 0, start)
  BY <1>3 DEF OnPipe
<1>5. /\ pipe \o e \in Seq(Char) /\ Len(pipe \o e) = Len(pipe) + Len(e)
      /\ \A x \in 1..Len(pipe) : (pipe \o e)[x] = pipe[x]
      /\ \A x \in 1..Len(e) : (pipe \o e)[Len(pipe) + x] = e[x]
      /\ Len(e) \in 1..Len(e)
  BY <1>1
<1>6. PICK s : Ahead(pipe \o e, Len(json_chunk), Len(delivered),
                     more, Len(e) - Len(e), s)
  BY <1>4, <1>5, TextWritten, Zenon
<1>7. Ahead(pipe, Len(json_chunk), Len(delivered), more, 0, s)'
  <2>1. Len(e) - Len(e) = 0
    BY <1>1
  <2> QED BY <1>2, <1>6, <2>1
<1>8. /\ more \in Seq(Events) /\ more[Len(sent) + 1] = e
      /\ Len(more) = Len(sent) + 1
      /\ \A i \in 1..Len(sent) : more[i] = sent[i]
      /\ Len(sent) \in Nat /\ Len(delivered) \in Nat /\ Len(json_chunk) \in Nat
  BY <1>1
<1>9. Handed'
  <2>1. /\ Len(delivered) <= Len(sent)
        /\ \A i \in 1..Len(delivered) : delivered[i] = sent[i]
    BY DEF StreamInv, Handed
  <2> QED BY <1>2, <1>8, <2>1 DEF Handed
<1>10. Written(more, 0)'
  BY <1>2 DEF Written
<1> DEFINE d == Len(delivered) + 1
           k == Len(json_chunk)
<1>11. /\ d <= Len(sent) => /\ k <= Len(sent[d])
                            /\ \A j \in 1..k : json_chunk[j] = sent[d][j]
       /\ pc = "loop" /\ d <= Len(sent) => k < Len(sent[d])
       /\ pc = "loop" /\ d > Len(sent) => k = 0
       /\ pc = "chunk" /\ k > 0 => fifoOpen /\ d <= Len(sent)
                                   /\ k = Len(sent[d])
       /\ pc # "done" /\ fifoOpen /\ ~(pc = "chunk" /\ k = 0)
  BY <1>2, <1>3 DEF OnPipe, Cutting
<1>12. Cutting(more)'
  <2>1. CASE d <= Len(sent)
    <3>1. more[d] = sent[d] /\ d <= Len(sent) + 1
      BY <1>8, <2>1
    <3> QED BY <1>2, <1>8, <1>11, <2>1, <3>1 DEF Cutting
  <2>2. CASE d > Len(sent)
    <3>1. k = 0 /\ pc = "loop"
      BY <1>1, <1>8, <1>11, <2>2
    <3>2. d = Len(sent) + 1
      <4>1. Len(delivered) <= Len(sent)
        BY DEF StreamInv, Handed
      <4> QED BY <1>8, <2>2, <4>1
    <3> QED BY <1>1, <1>2, <1>8, <1>11, <3>1, <3>2 DEF Cutting
  <2> QED BY <1>8, <2>1, <2>2
<1>13. OnPipe(more, 0, s)'
  BY <1>7, <1>10, <1>12 DEF OnPipe
<1> QED BY <1>9, <1>13

\* A writer that ends between two events leaves the layout as it is.
LEMMA ExitKeeps ==
    ASSUME StreamInv, NEW full, NEW lack, NEW start,
           OnPipe(full, lack, start), Exit
    PROVE  Handed' /\ OnPipe(full, lack, start)'
<1>1. /\ writer = "open" /\ writer' = "closed" /\ pipe' = pipe
      /\ sent' = sent /\ pc' = pc /\ fifoOpen' = fifoOpen
      /\ json_chunk' = json_chunk /\ delivered' = delivered
  BY DEF Exit
<1>2. Handed'
  BY <1>1 DEF StreamInv, Handed
<1>3. Written(full, lack)'
  BY <1>1 DEF OnPipe, Written
<1>4. Cutting(full)'
  BY <1>1 DEF OnPipe, Cutting
<1> QED BY <1>1, <1>2, <1>3, <1>4 DEF OnPipe

\* A writer that is killed within an event leaves a text that lacks its end.
LEMMA CrashKeeps ==
    ASSUME FramedEvents, StreamInv, TypeOK',
           NEW full, NEW lack, NEW start, OnPipe(full, lack, start),
           NEW e \in Events, NEW n \in 1..(Len(e) - 1), CrashWriting(e, n)
    PROVE  Handed' /\ \E f, l, s : OnPipe(f, l, s)'
<1> PICK more : more = Append(sent, e)
  BY Zenon
<1> DEFINE q == pipe \o SubSeq(e, 1, n)
<1>1. /\ pipe \in Seq(Char) /\ sent \in Seq(Events) /\ e \in Seq(Char)
      /\ json_chunk \in Seq(Char) /\ Len(e) \in Nat /\ Len(e) > 0
      /\ delivered \in Seq(Seq(Char) \ {<<>>})
      /\ pc \in {"loop", "chunk", "done"}
  BY FramedText DEF StreamInv, TypeOK
<1>2. /\ writer = "open" /\ pipe' = q /\ sent' = sent
      /\ writer' = "cut" /\ pc' = pc /\ fifoOpen' = fifoOpen
      /\ json_chunk' = json_chunk /\ delivered' = delivered
  BY DEF CrashWriting
<1>3. full = sent /\ lack = 0
  BY <1>2 DEF OnPipe, Written
<1>4. Ahead(pipe, Len(json_chunk), Len(delivered), sent, 0, start)
  BY <1>3 DEF OnPipe
<1>5. /\ q \in Seq(Char) /\ Len(q) = Len(pipe) + n
      /\ \A x \in 1..Len(pipe) : q[x] = pipe[x]
      /\ \A x \in 1..n : q[Len(pipe) + x] = e[x]
      /\ n \in 1..Len(e)
  <2>1. /\ SubSeq(e, 1, n) \in Seq(Char) /\ Len(SubSeq(e, 1, n)) = n
        /\ \A x \in 1..n : SubSeq(e, 1, n)[x] = e[x]
        /\ n \in 1..Len(e)
    BY <1>1
  <2> QED BY <1>1, <2>1
<1> HIDE DEF q
<1>6. PICK s : Ahead(q, Len(json_chunk), Len(delivered), more, Len(e) - n, s)
  BY <1>4, <1>5, TextWritten, Zenon
<1>7. Ahead(pipe, Len(json_chunk), Len(delivered), more, Len(e) - n, s)'
  BY <1>2, <1>6
<1>8. /\ more \in Seq(Events) /\ more[Len(sent) + 1] = e
      /\ Len(more) = Len(sent) + 1
      /\ \A i \in 1..Len(sent) : more[i] = sent[i]
      /\ Len(sent) \in Nat /\ Len(delivered) \in Nat /\ Len(json_chunk) \in Nat
  BY <1>1
<1>9. Handed'
  BY <1>2 DEF StreamInv, Handed
<1>10. Written(more, Len(e) - n)'
  <2>1. Len(e) - n \in 1..(Len(e) - 1)
    BY <1>1
  <2> QED BY <1>2, <2>1 DEF Written
<1> DEFINE d == Len(delivered) + 1
           k == Len(json_chunk)
<1>11. /\ d <= Len(sent) => /\ k <= Len(sent[d])
                            /\ \A j \in 1..k : json_chunk[j] = sent[d][j]
       /\ pc = "loop" /\ d <= Len(sent) => k < Len(sent[d])
       /\ pc = "loop" /\ d > Len(sent) => k = 0
       /\ pc = "chunk" /\ k > 0 => fifoOpen /\ d <= Len(sent)
                                   /\ k = Len(sent[d])
       /\ pc # "done" /\ fifoOpen /\ ~(pc = "chunk" /\ k = 0)
  BY <1>2, <1>3 DEF OnPipe, Cutting
<1>12. Cutting(more)'
  <2>1. CASE d <= Len(sent)
    <3>1. more[d] = sent[d] /\ d <= Len(sent) + 1
      BY <1>8, <2>1
    <3> QED BY <1>2, <1>8, <1>11, <2>1, <3>1 DEF Cutting
  <2>2. CASE d > Len(sent)
    <3>1. k = 0 /\ pc = "loop"
      BY <1>1, <1>8, <1>11, <2>2
    <3>2. d = Len(sent) + 1
      <4>1. Len(delivered) <= Len(sent)
        BY DEF StreamInv, Handed
      <4> QED BY <1>8, <2>2, <4>1
    <3> QED BY <1>1, <1>2, <1>8, <1>11, <3>1, <3>2 DEF Cutting
  <2> QED BY <1>8, <2>1, <2>2
<1>13. OnPipe(more, Len(e) - n, s)'
  BY <1>7, <1>10, <1>12 DEF OnPipe
<1> QED BY <1>9, <1>13

\* One round of the loop: the character read is the next one of the text, and
\* the loop is left exactly at the text's last character.
LEMMA ReadCharKeeps ==
    ASSUME FramedEvents, StreamInv, ScanInv',
           NEW full, NEW lack, NEW start, OnPipe(full, lack, start), ReadChar
    PROVE  Handed' /\ \E s : OnPipe(full, lack, s)'
<1> DEFINE d == Len(delivered) + 1
           k == Len(json_chunk)
           c == Head(pipe)
<1>1. /\ pipe \in Seq(Char) /\ json_chunk \in Seq(Char) /\ k \in Nat
      /\ delivered \in Seq(Seq(Char) \ {<<>>}) /\ Len(delivered) \in Nat
      /\ full \in Seq(Events) /\ Len(full) \in Nat
      /\ Len(delivered) <= Len(full)
  BY DEF StreamInv, TypeOK, OnPipe, Ahead
<1>2. /\ pc = "loop" /\ pipe # <<>> /\ pipe' = Tail(pipe)
      /\ json_chunk' = Append(json_chunk, c) /\ sent' = sent
      /\ writer' = writer /\ fifoOpen' = fifoOpen /\ delivered' = delivered
      /\ pc' = IF unclosed_braces' > 0 THEN "loop" ELSE "chunk"
  BY DEF ReadChar, writerVars
<1>3. /\ Len(delivered) < Len(full) => k < Len(full[d])
      /\ Len(delivered) = Len(full) => k = 0
      /\ fifoOpen \/ pipe = <<>>
  BY <1>1, <1>2 DEF OnPipe, Cutting
<1>4. Ahead(pipe, k, Len(delivered), full, lack, start)
  BY DEF OnPipe
<1>5. /\ Len(delivered) < Len(full) /\ c = full[d][k + 1]
      /\ \E s : Ahead(Tail(pipe), k + 1, Len(delivered), full, lack, s)
  BY <1>2, <1>3, <1>4, NextCharacter
<1>6. PICK s : Ahead(Tail(pipe), k + 1, Len(delivered), full, lack, s)
  BY <1>5
<1>7. /\ Len(json_chunk') = k + 1
      /\ \A j \in 1..k : json_chunk'[j] = json_chunk[j]
      /\ json_chunk'[k + 1] = c
  BY <1>1, <1>2
<1>8. Ahead(pipe, Len(json_chunk), Len(delivered), full, lack, s)'
  BY <1>2, <1>6, <1>7
<1>9. full[d] \in Events /\ d \in 1..Len(full) /\ k < Len(full[d])
  BY <1>1, <1>3, <1>5
<1>10. /\ Len(full[d]) \in Nat /\ k + 1 \in 1..Len(full[d])
       /\ Depth(full[d], k + 1) > 0 <=> k + 1 < Len(full[d])
  <2>1. /\ Len(full[d]) \in Nat
        /\ \A n \in 1..Len(full[d]) :
             Depth(full[d], n) > 0 <=> n < Len(full[d])
    BY <1>9, FramedText, Zenon
  <2>2. k + 1 \in 1..Len(full[d])
    BY <1>1, <1>9, <2>1
  <2> QED BY <2>1, <2>2
<1>11. \A j \in 1..(k + 1) : json_chunk'[j] = full[d][j]
  <2>1. \A j \in 1..k : json_chunk[j] = full[d][j]
    BY <1>9 DEF OnPipe, Cutting
  <2>2. \A j \in 1..(k + 1) : j \in 1..k \/ j = k + 1
    BY <1>1
  <2> QED BY <1>5, <1>7, <2>1, <2>2
<1>12. unclosed_braces' > 0 <=> k + 1 < Len(full[d])
  <2>1. Depth(json_chunk', k + 1) = Depth(full[d], k + 1)
    <3>1. k + 1 \in Nat
      BY <1>1
    <3> QED BY <1>11, <3>1, SameScan, ZenonT(40)
  <2>2. unclosed_braces' = Depth(json_chunk', k + 1)
    BY <1>7 DEF ScanInv
  <2> QED BY <1>10, <2>1, <2>2
<1>13. Handed'
  BY <1>2 DEF StreamInv, Handed
<1>14. Written(full, lack)'
  BY <1>2 DEF OnPipe, Written
<1>15. Cutting(full)'
  <2>1. /\ k + 1 <= Len(full[d]) /\ k + 1 > 0
        /\ d <= Len(full) /\ k + 1 \in Nat
        /\ ~(k + 1 < Len(full[d])) => k + 1 = Len(full[d])
    BY <1>1, <1>9, <1>10
  <2>2. /\ pc' = "loop" => k + 1 < Len(full[d])
        /\ pc' = "chunk" => k + 1 = Len(full[d])
        /\ pc' # "done" /\ fifoOpen'
    BY <1>2, <1>3, <1>12, <2>1
  <2> HIDE DEF d, k
  <2>3. Len(delivered') + 1 = d /\ Len(json_chunk') = k + 1
    BY <1>2, <1>7 DEF d, k
  <2>4. ~(d > Len(full)) /\ k + 1 # 0
    BY <1>1, <2>1 DEF d
  <2> QED BY <1>11, <2>1, <2>2, <2>3, <2>4 DEF Cutting
<1> QED BY <1>8, <1>13, <1>14, <1>15 DEF OnPipe

\* EOF: if the writer has ended, every text has been read and the loop is left
\* with an empty chunk; if it was cut, the open braces keep the loop going.
LEMMA ReadEofKeeps ==
    ASSUME FramedEvents, StreamInv,
           NEW full, NEW lack, NEW start, OnPipe(full, lack, start), ReadEof
    PROVE  Handed' /\ OnPipe(full, lack, start)'
<1> DEFINE d == Len(delivered) + 1
           k == Len(json_chunk)
<1>1. /\ sent \in Seq(Events) /\ json_chunk \in Seq(Char) /\ k \in Nat
      /\ delivered \in Seq(Seq(Char) \ {<<>>}) /\ Len(delivered) \in Nat
      /\ full \in Seq(Events) /\ Len(full) \in Nat /\ Len(sent) \in Nat
      /\ writer \in {"open", "closed", "cut"}
  BY DEF StreamInv, TypeOK, OnPipe, Ahead
<1>2. /\ pc = "loop" /\ pipe = <<>> /\ pipe' = <<>> /\ writer # "open"
      /\ json_chunk' = json_chunk /\ sent' = sent /\ ~fifoOpen'
      /\ writer' = writer /\ delivered' = delivered
      /\ pc' = IF unclosed_braces > 0 THEN "loop" ELSE "chunk"
  BY DEF ReadEof, writerVars
<1>3. /\ Len(delivered) < Len(full) => k < Len(full[d])
      /\ Len(delivered) = Len(full) => k = 0
  BY <1>1, <1>2 DEF OnPipe, Cutting
<1>4. Ahead(<<>>, k, Len(delivered), full, lack, start)
  BY <1>2 DEF OnPipe
<1>5. /\ lack = 0 => Len(delivered) = Len(full)
      /\ Len(delivered) < Len(full) /\ lack < Len(full[Len(full)]) => k > 0
  BY <1>3, <1>4, EmptyPipe
<1>6. CASE writer = "closed"
  <2>1. full = sent /\ lack = 0
    BY <1>6 DEF OnPipe, Written
  <2>2. Len(delivered) = Len(full) /\ k = 0
    BY <1>3, <1>5, <2>1
  <2>3. json_chunk = <<>>
    BY <1>1, <2>2
  <2>4. unclosed_braces = 0
    BY <2>2, <2>3, ScanNothing DEF StreamInv, ScanInv
  <2>5. pc' = "chunk"
    BY <1>2, <2>4
  <2>6. Cutting(full)'
    BY <1>1, <1>2, <1>6, <2>2, <2>5 DEF Cutting
  <2> QED BY <1>2, <1>4, <2>6 DEF OnPipe, Written, StreamInv, Handed
<1>7. CASE writer = "cut"
  <2>1. PICK e \in Events : full = Append(sent, e) /\ lack \in 1..(Len(e) - 1)
    BY <1>7 DEF OnPipe, Written
  <2>2. /\ Len(full) = Len(sent) + 1 /\ full[Len(full)] = e
        /\ Len(e) \in Nat
    BY <1>1, <2>1, FramedText
  <2>3. Len(delivered) <= Len(sent)
    BY DEF StreamInv, Handed
  <2>4. Len(delivered) < Len(full) /\ lack < Len(full[Len(full)])
    BY <1>1, <2>1, <2>2, <2>3
  <2>5. k > 0 /\ k < Len(full[d]) /\ d \in 1..Len(full)
    BY <1>1, <1>3, <1>5, <2>4
  <2>6. full[d] \in Events
    BY <1>1, <2>5
  <2>7. \A j \in 1..k : json_chunk[j] = full[d][j]
    BY <2>5 DEF OnPipe, Cutting
  <2>8. unclosed_braces = Depth(full[d], k)
    <3>1. Depth(json_chunk, k) = Depth(full[d], k)
      BY <1>1, <2>7, SameScan, ZenonT(40)
    <3> QED BY <3>1 DEF StreamInv, ScanInv
  <2>9. Depth(full[d], k) > 0
    <3>1. /\ Len(full[d]) \in Nat
          /\ \A n \in 1..Len(full[d]) :
               Depth(full[d], n) > 0 <=> n < Len(full[d])
      BY <2>6, FramedText, Zenon
    <3>2. k \in 1..Len(full[d])
      BY <1>1, <2>5, <3>1
    <3> QED BY <2>5, <3>1, <3>2
  <2>10. pc' = "loop"
    BY <1>2, <2>8, <2>9
  <2>11. Cutting(full)'
    BY <1>1, <1>2, <1>7, <2>5, <2>7, <2>10 DEF Cutting
  <2> QED BY <1>2, <1>4, <2>11 DEF OnPipe, Written, StreamInv, Handed
<1> QED BY <1>1, <1>2, <1>6, <1>7

\* After the loop the chunk is the next event that was written whole; or it is
\* empty, the writer has ended and all its events have been handed on.
LEMMA EndChunkCuts ==
    ASSUME FramedEvents, StreamInv, NEW full, NEW lack, NEW start,
           OnPipe(full, lack, start), EndChunk
    PROVE  LET d == Len(delivered) + 1 IN
           IF json_chunk = <<>>
           THEN /\ delivered = sent /\ writer = "closed" /\ ~fifoOpen
                /\ full = sent
           ELSE /\ d <= Len(full) /\ d <= Len(sent) /\ fifoOpen
                /\ json_chunk = full[d] /\ full[d] = sent[d]
                /\ \E s : Ahead(pipe, 0, d, full, lack, s)
<1> DEFINE d == Len(delivered) + 1
           k == Len(json_chunk)
<1>1. /\ sent \in Seq(Events) /\ json_chunk \in Seq(Char) /\ k \in Nat
      /\ delivered \in Seq(Seq(Char) \ {<<>>}) /\ Len(delivered) \in Nat
      /\ full \in Seq(Events) /\ Len(full) \in Nat /\ Len(sent) \in Nat
      /\ writer \in {"open", "closed", "cut"} /\ pc = "chunk"
      /\ Len(delivered) <= Len(sent)
  BY DEF StreamInv, TypeOK, OnPipe, Ahead, EndChunk, Handed
<1>2. Events \subseteq Seq(Char)
  BY ChunkReaderAssumption
<1>3. CASE json_chunk = <<>>
  <2>1. d > Len(full) /\ writer = "closed" /\ ~fifoOpen
    BY <1>1, <1>3 DEF OnPipe, Cutting
  <2>2. full = sent
    BY <2>1 DEF OnPipe, Written
  <2>3. Len(delivered) = Len(sent)
    BY <1>1, <2>1, <2>2
  <2>4. \A i \in 1..Len(sent) : delivered[i] = sent[i]
    BY <2>3 DEF StreamInv, Handed
  <2>5. delivered = sent
    BY <1>1, <2>3, <2>4, SeqEqual
  <2> QED BY <1>3, <2>1, <2>2, <2>5
<1>4. CASE json_chunk # <<>>
  <2>1. k > 0
    BY <1>1, <1>4
  <2>2. /\ fifoOpen /\ d <= Len(full) /\ k = Len(full[d])
        /\ \A j \in 1..k : json_chunk[j] = full[d][j]
    BY <1>1, <2>1 DEF OnPipe, Cutting
  <2>3. full[d] \in Seq(Char)
    BY <1>1, <1>2, <2>2
  <2>4. json_chunk = full[d]
    BY <1>1, <2>2, <2>3, SeqEqual
  <2>5. Ahead(pipe, k, Len(delivered), full, lack, start)
    BY DEF OnPipe
  <2>6. Len(delivered) < Len(full)
    BY <1>1, <2>2
  <2>7. /\ \E s : Ahead(pipe, 0, d, full, lack, s)
        /\ d = Len(full) => lack = 0 /\ pipe = <<>>
    BY <2>2, <2>5, <2>6, TextRead
  <2>8. d <= Len(sent) /\ full[d] = sent[d]
    <3>1. CASE writer = "cut"
      <4>1. PICK e \in Events : /\ full = Append(sent, e)
                                /\ lack \in 1..(Len(e) - 1)
        BY <3>1 DEF OnPipe, Written
      <4>2. Len(full) = Len(sent) + 1 /\ d # Len(full)
        BY <1>1, <2>7, <4>1
      <4> QED BY <1>1, <2>2, <4>1, <4>2
    <3>2. CASE writer # "cut"
      BY <2>2, <3>2 DEF OnPipe, Written
    <3> QED BY <3>1, <3>2
  <2> QED BY <1>4, <2>2, <2>4, <2>7, <2>8, Zenon
<1> QED BY <1>3, <1>4, Zenon

\* Handing a chunk on and beginning the next one keeps the layout.
LEMMA EndChunkKeeps ==
    ASSUME FramedEvents, StreamInv, NEW full, NEW lack, NEW start,
           OnPipe(full, lack, start), EndChunk
    PROVE  Handed' /\ \E s : OnPipe(full, lack, s)'
<1> DEFINE d == Len(delivered) + 1
<1>1. /\ sent \in Seq(Events) /\ json_chunk \in Seq(Char)
      /\ delivered \in Seq(Seq(Char) \ {<<>>}) /\ Len(delivered) \in Nat
      /\ full \in Seq(Events) /\ Len(full) \in Nat /\ Len(sent) \in Nat
      /\ Len(delivered) <= Len(sent)
      /\ \A i \in 1..Len(delivered) : delivered[i] = sent[i]
  BY DEF StreamInv, TypeOK, OnPipe, Ahead, Handed
<1>2. /\ pc = "chunk" /\ json_chunk' = <<>> /\ pipe' = pipe /\ sent' = sent
      /\ writer' = writer /\ fifoOpen' = fifoOpen
      /\ pc' = IF fifoOpen THEN "loop" ELSE "done"
      /\ delivered' = IF json_chunk = <<>> THEN delivered
                                           ELSE Append(delivered, json_chunk)
  BY DEF EndChunk, writerVars
<1>3. Written(full, lack)'
  BY <1>2 DEF OnPipe, Written
<1>4. Len(json_chunk') = 0
  BY <1>2
<1>5. ~fifoOpen => pipe = <<>> /\ writer # "open"
  BY DEF OnPipe, Cutting
<1>6. CASE json_chunk = <<>>
  <2>1. delivered = sent /\ writer = "closed" /\ ~fifoOpen /\ full = sent
    BY <1>6, EndChunkCuts
  <2>2. Handed'
    BY <1>2, <1>6 DEF StreamInv, Handed
  <2>3. pc' = "done" /\ delivered' = delivered
    BY <1>2, <1>6, <2>1
  <2>4. ~(d <= Len(full))
    BY <1>1, <2>1
  <2>5. Cutting(full)'
    BY <1>2, <1>4, <1>5, <2>1, <2>3, <2>4 DEF Cutting
  <2>6. Ahead(pipe, Len(json_chunk), Len(delivered), full, lack, start)'
    BY <1>2, <1>6, <2>3 DEF OnPipe
  <2> QED BY <1>3, <2>2, <2>5, <2>6 DEF OnPipe
<1>7. CASE json_chunk # <<>>
  <2>1. /\ d <= Len(full) /\ d <= Len(sent) /\ fifoOpen
        /\ json_chunk = full[d] /\ full[d] = sent[d]
        /\ \E s : Ahead(pipe, 0, d, full, lack, s)
    BY <1>7, EndChunkCuts
  <2>2. PICK s : Ahead(pipe, 0, d, full, lack, s)
    BY <2>1
  <2>3. /\ delivered' = Append(delivered, json_chunk) /\ pc' = "loop"
        /\ fifoOpen'
    BY <1>2, <1>7, <2>1
  <2>4. /\ Len(delivered') = d /\ delivered'[d] = json_chunk
        /\ \A i \in 1..Len(delivered) : delivered'[i] = delivered[i]
    BY <1>1, <2>3
  <2>5. Handed'
    <3>1. \A i \in 1..d : i \in 1..Len(delivered) \/ i = d
      BY <1>1
    <3>2. \A i \in 1..d : delivered'[i] = sent[i]
      BY <1>1, <2>1, <2>4, <3>1
    <3> QED BY <1>2, <2>1, <2>4, <3>2 DEF Handed
  <2>6. d + 1 <= Len(full) => 0 < Len(full[d + 1])
    <3>1. d + 1 <= Len(full) => full[d + 1] \in Events
      BY <1>1
    <3> QED BY <3>1, FramedText
  <2>7. Cutting(full)'
    BY <1>2, <1>4, <2>3, <2>4, <2>6 DEF Cutting
  <2>8. Ahead(pipe, Len(json_chunk), Len(delivered), full, lack, s)'
    BY <1>2, <1>4, <2>2, <2>4
  <2> QED BY <1>3, <2>5, <2>7, <2>8 DEF OnPipe
<1> QED BY <1>6, <1>7

\* Every step of the writer and of the reader keeps the invariant.
LEMMA StreamStep ==
    ASSUME FramedEvents, StreamInv, [Next]_vars
    PROVE  StreamInv'
<1>1. TypeOK' /\ ScanInv'
  BY TypesNext, ScanNext DEF StreamInv
<1> SUFFICES Handed' /\ \E f, l, s : OnPipe(f, l, s)'
  BY <1>1 DEF StreamInv
<1>2. PICK full, lack, start : OnPipe(full, lack, start)
  BY DEF StreamInv
<1>3. ASSUME NEW e \in Events, Write(e)
      PROVE  Handed' /\ \E f, l, s : OnPipe(f, l, s)'
  BY <1>1, <1>2, <1>3, WriteKeeps
<1>4. CASE Exit
  BY <1>2, <1>4, ExitKeeps
<1>5. ASSUME NEW e \in Events, NEW n \in 1..(Len(e) - 1), CrashWriting(e, n)
      PROVE  Handed' /\ \E f, l, s : OnPipe(f, l, s)'
  BY <1>1, <1>2, <1>5, CrashKeeps
<1>6. CASE ReadChar
  BY <1>1, <1>2, <1>6, ReadCharKeeps
<1>7. CASE ReadEof
  BY <1>2, <1>7, ReadEofKeeps
<1>8. CASE EndChunk
  BY <1>2, <1>8, EndChunkKeeps
<1>9. CASE Finished \/ UNCHANGED vars
  <2>1. UNCHANGED vars
    BY <1>9 DEF Finished
  <2>2. Handed'
    BY <2>1 DEF vars, StreamInv, Handed
  <2>3. OnPipe(full, lack, start)'
    BY <1>2, <2>1 DEF vars, OnPipe, Written, Cutting
  <2> QED BY <2>2, <2>3
<1> QED
  BY <1>3, <1>4, <1>5, <1>6, <1>7, <1>8, <1>9
     DEF Next, WriterStep, ReaderStep

\* The invariant holds when the reader thread starts.
LEMMA StreamInit ==
    ASSUME FramedEvents, Init
    PROVE  StreamInv
<1>1. TypeOK
  BY TypesInit
<1>2. ScanInv
  BY ScanNothing DEF Init, ScanInv
<1>3. Handed
  BY DEF Init, Handed
<1> DEFINE start == [i \in 1..1 |-> 0]
<1>4. Ahead(<<>>, 0, 0, <<>>, 0, start)
  <2>1. <<>> \in Seq(Char) /\ <<>> \in Seq(Events) /\ Len(<<>>) = 0
    OBVIOUS
  <2>2. start \in [1..1 -> Int] /\ start[1] = 0
    OBVIOUS
  <2>3. (0 + 1)..(0 + 1) = 1..1 /\ (0 + 1)..0 = {} /\ 0 + 1 = 1
        /\ \A i \in 1..1 : i = 1
    OBVIOUS
  <2> HIDE DEF start
  <2> QED BY <2>1, <2>2, <2>3 DEF Ahead
<1>5. Written(<<>>, 0) /\ Cutting(<<>>)
  BY DEF Init, Written, Cutting
<1>6. OnPipe(<<>>, 0, start)
  <2>1. /\ pipe = <<>> /\ json_chunk = <<>> /\ delivered = <<>>
        /\ Len(<<>>) = 0
    BY DEF Init
  <2> HIDE DEF start
  <2> QED BY <1>4, <1>5, <2>1 DEF OnPipe
<1> QED BY <1>1, <1>2, <1>3, <1>6 DEF StreamInv

-----------------------------------------------------------------------------
(* The reader implements the stream of events. *)

\* Every step of the reader and its writer is a step of the stream of events,
\* or leaves it as it is: EndChunk is Deliver or End, Write is Send, Exit is
\* Close.
LEMMA StepCuts ==
    ASSUME FramedEvents, StreamInv, [Next]_vars
    PROVE  [Stream!Next]_(Stream!vars)
<1> USE DEF Stream!vars
<1>1. ASSUME NEW e \in Events, Write(e)
      PROVE  Stream!Send(e)
  BY <1>1 DEF Write, Stream!Send
<1>2. CASE Exit
  <2>1. /\ writer = "open" /\ writer' = "closed" /\ "open" # "closed"
        /\ sent' = sent /\ delivered' = delivered /\ pc' = pc
    BY <1>2 DEF Exit
  <2>2. Stream!Close
    BY <2>1, Zenon DEF Stream!Close
  <2> QED BY <2>2 DEF Stream!Next
<1>3. ASSUME NEW e \in Events, NEW n \in 1..(Len(e) - 1), CrashWriting(e, n)
      PROVE  UNCHANGED Stream!vars
  BY <1>3 DEF CrashWriting
<1>4. CASE ReadChar
  BY <1>4 DEF ReadChar, writerVars
<1>5. CASE ReadEof
  BY <1>5 DEF ReadEof, writerVars
<1>6. CASE EndChunk
  <2>1. PICK full, lack, start : OnPipe(full, lack, start)
    BY DEF StreamInv
  <2>2. /\ pc = "chunk" /\ sent' = sent /\ writer' = writer
        /\ pc' = IF fifoOpen THEN "loop" ELSE "done"
        /\ delivered' = IF json_chunk = <<>> THEN delivered
                                             ELSE Append(delivered, json_chunk)
    BY <1>6 DEF EndChunk, writerVars
  <2>3. CASE json_chunk = <<>>
    <3>1. delivered = sent /\ writer = "closed" /\ ~fifoOpen
      BY <1>6, <2>1, <2>3, EndChunkCuts
    <3>2. Stream!End
      BY <2>2, <2>3, <3>1 DEF Stream!End
    <3> QED BY <3>2 DEF Stream!Next
  <2>4. CASE json_chunk # <<>>
    <3>1. /\ Len(delivered) + 1 <= Len(sent) /\ fifoOpen
          /\ json_chunk = sent[Len(delivered) + 1]
      BY <1>6, <2>1, <2>4, EndChunkCuts
    <3>2. Len(delivered) < Len(sent)
      BY <3>1 DEF StreamInv, TypeOK
    <3>3. Stream!Deliver
      BY <2>2, <2>4, <3>1, <3>2 DEF Stream!Deliver
    <3> QED BY <3>3 DEF Stream!Next
  <2> QED BY <2>3, <2>4
<1>7. CASE Finished \/ UNCHANGED vars
  BY <1>7 DEF Finished, vars
<1> QED
  BY <1>1, <1>2, <1>3, <1>4, <1>5, <1>6, <1>7
  DEF Next, WriterStep, ReaderStep, Stream!Next

\* Cutting by braces, as doStartDebugger, doStartWizard and doStartTestsuite do
\* it, implements the stream of events that the tools rely on (its safety
\* part): if every event is framed, the chunks handed on are exactly the
\* events, whole and in order, for any number and length of events, any
\* interleaving of writer and reader and a writer that dies anywhere; and the
\* thread ends only after the last of them.
THEOREM CutsAreEvents ==
    ASSUME FramedEvents
    PROVE  Spec => Stream!Safety
<1>1. Init => StreamInv
  BY StreamInit
<1>2. StreamInv /\ [Next]_vars => StreamInv'
  BY StreamStep
<1>3. Init => Stream!Init
  BY DEF Init, Stream!Init
<1>4. StreamInv /\ [Next]_vars => [Stream!Next]_(Stream!vars)
  BY StepCuts
<1> QED BY <1>1, <1>2, <1>3, <1>4, PTL DEF Spec, Stream!Safety
=============================================================================
