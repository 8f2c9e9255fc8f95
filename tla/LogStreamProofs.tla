--------------------------- MODULE LogStreamProofs ---------------------------
(***************************************************************************)
(* Proofs about LogStream, for logs and tails of any size and any number   *)
(* of lines: the reader's positions stay in the file, nothing is jumped    *)
(* over, and what the browser gets is the tail and then the stream.        *)
(***************************************************************************)
EXTENDS LogStream, SequenceTheorems, FiniteSetTheorems, TLAPS

-----------------------------------------------------------------------------
(* Texts                                                                   *)

(* The end of a text.                                                      *)
LEMMA FromFacts ==
    ASSUME NEW t \in Seq(Nat), NEW i \in Nat \ {0}
    PROVE  /\ From(t, i) \in Seq(Nat)
           /\ Len(From(t, i)) = IF i <= Len(t) THEN Len(t) - i + 1 ELSE 0
           /\ \A j \in i .. Len(t) : t[j] \in Pieces(From(t, i))
<1>1. Len(t) \in Nat /\ \A j \in i .. Len(t) : t[j] \in Nat
  BY LenProperties, ElementOfSeq
<1>2. /\ From(t, i) \in Seq(Nat)
      /\ Len(From(t, i)) = IF i <= Len(t) THEN Len(t) - i + 1 ELSE 0
      /\ \A k \in 1 .. Len(t) - i + 1 : From(t, i)[k] = t[i + k - 1]
  BY <1>1, SubSeqProperties DEF From
<1>3. ASSUME NEW j \in i .. Len(t) PROVE t[j] \in Pieces(From(t, i))
  <2>1. /\ j - i + 1 \in 1 .. Len(t) - i + 1
        /\ i + (j - i + 1) - 1 = j /\ i <= Len(t)
    BY <1>1
  <2>2. j - i + 1 \in DOMAIN From(t, i)
    BY <1>2, <2>1, LenProperties
  <2>3. From(t, i)[j - i + 1] = t[j]
    BY <1>2, <2>1
  <2> QED
    BY <2>2, <2>3 DEF Pieces
<1> QED
  BY <1>2, <1>3

(* The pieces of two texts are those of the one and of the other.          *)
LEMMA PiecesOfBoth ==
    ASSUME NEW s \in Seq(Nat), NEW t \in Seq(Nat)
    PROVE  Pieces(s \o t) = Pieces(s) \cup Pieces(t)
<1>1. /\ Len(s) \in Nat /\ Len(t) \in Nat /\ s \o t \in Seq(Nat)
      /\ Len(s \o t) = Len(s) + Len(t)
      /\ DOMAIN s = 1 .. Len(s) /\ DOMAIN t = 1 .. Len(t)
      /\ DOMAIN (s \o t) = 1 .. Len(s) + Len(t)
      /\ \A i \in 1 .. Len(s) + Len(t) :
           (s \o t)[i] = IF i <= Len(s) THEN s[i] ELSE t[i - Len(s)]
  BY ConcatProperties, LenProperties
<1>2. ASSUME NEW i \in 1 .. Len(s) + Len(t)
      PROVE  (s \o t)[i] \in Pieces(s) \cup Pieces(t)
  <2>1. CASE i <= Len(s)
    BY <1>1, <2>1 DEF Pieces
  <2>2. CASE ~(i <= Len(s))
    <3>1. i - Len(s) \in 1 .. Len(t)
      BY <1>1, <2>2
    <3> QED
      BY <1>1, <2>2, <3>1 DEF Pieces
  <2> QED
    BY <2>1, <2>2
<1>3. ASSUME NEW i \in 1 .. Len(s) PROVE s[i] \in Pieces(s \o t)
  <2>1. i \in 1 .. Len(s) + Len(t) /\ i <= Len(s)
    BY <1>1
  <2> QED
    BY <1>1, <2>1 DEF Pieces
<1>4. ASSUME NEW i \in 1 .. Len(t) PROVE t[i] \in Pieces(s \o t)
  <2>1. /\ Len(s) + i \in 1 .. Len(s) + Len(t) /\ ~(Len(s) + i <= Len(s))
        /\ (Len(s) + i) - Len(s) = i
    BY <1>1
  <2> QED
    BY <1>1, <2>1 DEF Pieces
<1>5. Pieces(s \o t) \subseteq Pieces(s) \cup Pieces(t)
  BY <1>1, <1>2 DEF Pieces
<1>6. Pieces(s) \subseteq Pieces(s \o t) /\ Pieces(t) \subseteq Pieces(s \o t)
  BY <1>1, <1>3, <1>4 DEF Pieces
<1> QED
  BY <1>5, <1>6

(* Three texts in a row.                                                   *)
LEMMA Associative ==
    \A s, t, u \in Seq(Nat) : (s \o t) \o u = s \o (t \o u)
<1> TAKE s, t, u \in Seq(Nat)
<1>1. Len(s) \in Nat /\ Len(t) \in Nat /\ Len(u) \in Nat
  BY LenProperties
<1>2. s \o t \in Seq(Nat) /\ t \o u \in Seq(Nat)
  BY ConcatProperties
<1>3. /\ (s \o t) \o u \in Seq(Nat) /\ s \o (t \o u) \in Seq(Nat)
      /\ Len((s \o t) \o u) = Len(s) + Len(t) + Len(u)
      /\ Len(s \o (t \o u)) = Len(s) + Len(t) + Len(u)
  BY <1>1, <1>2, ConcatProperties
<1>4. ASSUME NEW i \in 1 .. Len(s) + Len(t) + Len(u)
      PROVE  ((s \o t) \o u)[i] = (s \o (t \o u))[i]
  BY <1>1, <1>2, <1>4, ConcatProperties
<1> QED
  BY <1>3, <1>4, SeqEqual

(* A line is cut off at a position of the text, and nothing is lost.       *)
LEMMA CutFacts ==
    ASSUME NEW t \in Seq(Nat)
    PROVE  /\ LastEnd(t) \in 0 .. Len(t)
           /\ SubSeq(t, 1, LastEnd(t)) \in Seq(Nat)
           /\ From(t, LastEnd(t) + 1) \in Seq(Nat)
           /\ SubSeq(t, 1, LastEnd(t)) \o From(t, LastEnd(t) + 1) = t
<1> DEFINE S == {i \in DOMAIN t : \E j \in Ends(t) : i <= j}
<1>1. Len(t) \in Nat /\ DOMAIN t = 1 .. Len(t)
  BY LenProperties
<1>2. IsFiniteSet(1 .. Len(t)) /\ Cardinality(1 .. Len(t)) = Len(t)
  BY <1>1, FS_Interval
<1>3. S \in SUBSET (1 .. Len(t))
  BY <1>1
<1>4. IsFiniteSet(S) /\ Cardinality(S) <= Len(t) /\ Cardinality(S) \in Nat
  <2> HIDE DEF S
  <2> QED
    BY <1>2, <1>3, FS_Subset, FS_CardinalityType
<1>5. LastEnd(t) \in 0 .. Len(t)
  <2>1. LastEnd(t) = Cardinality(S)
    BY DEF LastEnd
  <2> HIDE DEF S
  <2> QED
    BY <1>1, <1>4, <2>1
<1>6. \A i \in 1 .. LastEnd(t) : t[i] \in Nat
  BY <1>1, <1>5, ElementOfSeq
<1>7. SubSeq(t, 1, LastEnd(t)) \in Seq(Nat)
  BY <1>1, <1>5, <1>6, SubSeqProperties
<1>8. From(t, LastEnd(t) + 1) \in Seq(Nat)
  BY <1>5, FromFacts
<1>9. SubSeq(t, 1, LastEnd(t)) \o SubSeq(t, LastEnd(t) + 1, Len(t)) = SubSeq(t, 1, Len(t))
  <2>1. /\ 1 \in 1 .. Len(t) + 1 /\ LastEnd(t) \in 1 - 1 .. Len(t)
        /\ Len(t) \in LastEnd(t) .. Len(t)
    BY <1>1, <1>5
  <2> QED
    BY <2>1, ConcatAdjacentSubSeq
<1> QED
  BY <1>5, <1>7, <1>8, <1>9, SubSeqFull DEF From

(* The tail starts in the text or behind it.                               *)
LEMMA TailFacts ==
    ASSUME log \in Seq(Nat)
    PROVE  TailStart \in 1 .. Len(log) + 1
<1> DEFINE S == {i \in DOMAIN log :
                    Cardinality({j \in Ends(log) : j >= i}) >= TailLines}
<1>1. Len(log) \in Nat /\ DOMAIN log = 1 .. Len(log)
  BY LenProperties
<1>2. IsFiniteSet(1 .. Len(log)) /\ Cardinality(1 .. Len(log)) = Len(log)
  BY <1>1, FS_Interval
<1>3. S \in SUBSET (1 .. Len(log))
  BY <1>1
<1>4. Cardinality(S) <= Len(log) /\ Cardinality(S) \in Nat
  <2> HIDE DEF S
  <2> QED
    BY <1>2, <1>3, FS_Subset, FS_CardinalityType
<1>5. TailStart = 1 + Cardinality(S)
  BY DEF TailStart
<1> HIDE DEF S
<1> QED
  BY <1>1, <1>4, <1>5

-----------------------------------------------------------------------------
(* Types and places                                                        *)

(* The writer keeps a line in reserve for the header of a cut log.         *)
Types ==
    /\ log \in Seq(Nat) /\ kept \in Seq(Nat)
    /\ lines \in 0 .. MaxLines /\ rotating \in BOOLEAN
    /\ offset \in Nat /\ size \in Nat /\ base \in Nat /\ tailEnd \in Nat
    /\ buffer \in Seq(Nat) /\ pending \in Seq(Nat) /\ sent \in Seq(Nat)
    /\ rotating => lines < MaxLines

(* While no cut is unnoticed the positions are in the file, and a file     *)
(* that is being rewritten is empty.                                       *)
Places ==
    /\ pc # "tail" /\ ~unseen => base <= offset /\ offset <= Len(log)
    /\ pc = "read" /\ ~unseen => offset < size /\ size <= Len(log)
    /\ rotating => log = <<>>

(* What the reader has not begun is empty, and nothing waits to be sent    *)
(* while it polls.                                                         *)
Begun ==
    /\ pc \in {"tail", "stat", "send", "poll", "read", "gone"}
    /\ unseen \in BOOLEAN /\ clean \in BOOLEAN
    /\ pc \in {"tail", "stat"} =>
         sent = <<>> /\ buffer = <<>> /\ offset = 0 /\ base = 0
    /\ pc \in {"poll", "read"} => pending = <<>>
    /\ clean => ~unseen

LEMMA Sizes == MaxLog \in Nat /\ MaxLines \in Nat
  BY LogAssumption DEF LogAssumption

LEMMA ShortTexts ==
    ASSUME NEW a \in Nat, NEW b \in Nat
    PROVE  <<a>> \in Seq(Nat) /\ <<a, b>> \in Seq(Nat)
  OBVIOUS

(* The header of a session, a line, or half a line goes behind the rest.   *)
LEMMA WriteFacts ==
    ASSUME Types, WriteLine
    PROVE  /\ \E t \in Seq(Nat) : log' = log \o t
           /\ lines' \in 0 .. MaxLines
<1>1. log \in Seq(Nat) /\ lines \in 0 .. MaxLines
  BY DEF Types
<1>2. CASE InLine
  <2>1. log # <<>> /\ log' = Append(log, log[Len(log)] + 1) /\ lines' = lines
    BY <1>2 DEF WriteLine, InLine
  <2>2. log[Len(log)] \in Nat
    <3>1. Len(log) \in 1 .. Len(log)
      BY <1>1, <2>1, EmptySeq
    <3> QED
      BY <1>1, <3>1, ElementOfSeq
  <2>3. <<log[Len(log)] + 1>> \in Seq(Nat)
    BY <2>2
  <2>4. log' = log \o <<log[Len(log)] + 1>>
    BY <1>1, <2>1, <2>2, AppendIsConcat
  <2> QED
    BY <1>1, <2>1, <2>3, <2>4
<1>3. CASE ~InLine
  <2>1. /\ lines < MaxLines /\ lines' = lines + 1
        /\ \/ log' = log \o <<2 * lines' - 1, 2 * lines'>>
           \/ log' = Append(log, 2 * lines' - 1)
    BY <1>3 DEF WriteLine
  <2>2. lines' \in 0 .. MaxLines /\ 2 * lines' - 1 \in Nat /\ 2 * lines' \in Nat
    BY <1>1, <2>1, Sizes
  <2>3. Append(log, 2 * lines' - 1) = log \o <<2 * lines' - 1>>
    BY <1>1, <2>2, AppendIsConcat
  <2>4. <<2 * lines' - 1, 2 * lines'>> \in Seq(Nat) /\ <<2 * lines' - 1>> \in Seq(Nat)
    BY <2>2, ShortTexts
  <2> QED
    BY <2>1, <2>2, <2>3, <2>4
<1> QED
  BY <1>2, <1>3

LEMMA InitTypes == Init => Types
<1> SUFFICES ASSUME Init PROVE Types
  OBVIOUS
<1>1. /\ log = <<>> /\ kept = <<>> /\ buffer = <<>> /\ pending = <<>> /\ sent = <<>>
      /\ lines = 0 /\ rotating = FALSE /\ offset = 0 /\ size = 0 /\ base = 0 /\ tailEnd = 0
  BY DEF Init
<1>2. <<>> \in Seq(Nat) /\ 0 \in 0 .. MaxLines
  BY Sizes
<1> QED
  BY <1>1, <1>2 DEF Types

(* The writer.                                                             *)
LEMMA WriterTypes ==
    ASSUME Types, Write
    PROVE  Types'
<1>1. CASE WriteLine
  <2>1. PICK t \in Seq(Nat) : log' = log \o t
    BY <1>1, WriteFacts
  <2>2. log' \in Seq(Nat)
    BY <2>1, ConcatProperties DEF Types
  <2>3. /\ UNCHANGED <<kept, readerVars>> /\ lines' \in 0 .. MaxLines
        /\ ~rotating /\ rotating' = rotating
    BY <1>1, WriteFacts DEF WriteLine
  <2> QED
    BY <2>2, <2>3 DEF Types, readerVars
<1>2. CASE Truncate
  <2>1. PICK i \in Len(log) - (MaxLog \div 2) + 1 .. Len(log) : kept' = From(log, i)
    BY <1>2 DEF Truncate
  <2>2. i \in Nat \ {0}
    <3>1. Len(log) \in Nat /\ Len(log) > MaxLog
      BY <1>2, LenProperties DEF Types, Truncate
    <3>2. MaxLog \div 2 \in Nat /\ MaxLog \div 2 <= MaxLog
      BY Sizes
    <3> QED
      BY <2>1, <3>1, <3>2, Sizes
  <2>3. kept' \in Seq(Nat)
    BY <2>1, <2>2, FromFacts DEF Types
  <2>4. /\ log' = <<>> /\ rotating' = TRUE /\ lines < MaxLines
        /\ UNCHANGED <<lines, readerVars>>
    BY <1>2 DEF Truncate
  <2> QED
    BY <2>3, <2>4, EmptySeq DEF Types, readerVars
<1>3. CASE Fill
  <2>1. /\ log' = <<2 * lines + 1, 2 * lines + 2>> \o kept
        /\ kept' = <<>> /\ rotating' = FALSE /\ lines' = lines + 1
        /\ UNCHANGED readerVars
    BY <1>3 DEF Fill
  <2>2. <<2 * lines + 1, 2 * lines + 2>> \in Seq(Nat)
    <3>1. 2 * lines + 1 \in Nat /\ 2 * lines + 2 \in Nat
      BY DEF Types
    <3> QED
      BY <3>1, ShortTexts
  <2>4. lines' \in 0 .. MaxLines
    BY <1>3, <2>1, Sizes DEF Types, Fill
  <2>3. log' \in Seq(Nat)
    BY <2>1, <2>2, ConcatProperties DEF Types
  <2> QED
    BY <2>1, <2>3, <2>4, EmptySeq DEF Types, readerVars
<1>4. CASE CrashInRotation
  BY <1>4, EmptySeq DEF CrashInRotation, Types, readerVars
<1> QED
  BY <1>1, <1>2, <1>3, <1>4 DEF Write

(* The reader.                                                             *)
LEMMA ReaderTypes ==
    ASSUME Types, Follow \/ Disconnect
    PROVE  Types'
<1>0. Len(log) \in Nat
  BY LenProperties DEF Types
<1>1. CASE ReadTail
  <2>1. pending' \in Seq(Nat)
    BY <1>1, TailFacts, FromFacts, <1>0 DEF ReadTail, Types
  <2>2. UNCHANGED <<writerVars, offset, size, buffer, sent, base>> /\ tailEnd' = Len(log)
    BY <1>1 DEF ReadTail
  <2> QED
    BY <1>0, <2>1, <2>2 DEF Types, writerVars
<1>2. CASE MeasureOffset
  <2>1. offset' = Len(log) /\ base' = Len(log)
    BY <1>2 DEF MeasureOffset, FollowFrom
  <2>2. UNCHANGED <<writerVars, size, buffer, pending, sent, tailEnd>>
    BY <1>2 DEF MeasureOffset
  <2> QED
    BY <1>0, <2>1, <2>2 DEF Types, writerVars
<1>3. CASE Send
  <2>1. sent' = sent \o pending /\ pending' = <<>>
        /\ UNCHANGED <<writerVars, offset, size, buffer, tailEnd, base>>
    BY <1>3 DEF Send
  <2>2. sent \o pending \in Seq(Nat)
    BY ConcatProperties DEF Types
  <2> QED
    BY <2>1, <2>2, EmptySeq DEF Types, writerVars
<1>4. CASE Restart
  <2>1. /\ offset' = 0 /\ base' = 0 /\ buffer' = <<>> /\ size' = Len(log)
        /\ UNCHANGED <<writerVars, pending, sent, tailEnd>>
    BY <1>4 DEF Restart
  <2> QED
    BY <1>0, <2>1, EmptySeq DEF Types, writerVars
<1>5. CASE MeasureSize
  <2>1. size' = Len(log) /\ UNCHANGED <<writerVars, offset, buffer, pending, sent, tailEnd, base>>
    BY <1>5 DEF MeasureSize
  <2> QED
    BY <1>0, <2>1 DEF Types, writerVars
<1>6. CASE ReadChunk
  <2>1. /\ offset' = size /\ pending' = SubSeq(Text, 1, LastEnd(Text))
        /\ buffer' = From(Text, LastEnd(Text) + 1)
        /\ UNCHANGED <<writerVars, size, sent, tailEnd, base>>
    BY <1>6 DEF ReadChunk
  <2>2. Text \in Seq(Nat)
    <3>1. offset + 1 \in Nat \ {0} /\ log \in Seq(Nat) /\ buffer \in Seq(Nat)
      BY DEF Types
    <3> QED
      BY <3>1, FromFacts, ConcatProperties DEF Text
  <2>3. pending' \in Seq(Nat) /\ buffer' \in Seq(Nat)
    BY <2>1, <2>2, CutFacts
  <2> QED
    BY <2>1, <2>3 DEF Types, writerVars
<1>7. CASE Disconnect
  BY <1>7 DEF Disconnect, Types, writerVars
<1> QED
  BY <1>1, <1>2, <1>3, <1>4, <1>5, <1>6, <1>7 DEF Follow

LEMMA TypesHold == Spec => []Types
<1>1. Types /\ [Next]_vars => Types'
  <2> SUFFICES ASSUME Types, [Next]_vars PROVE Types'
    OBVIOUS
  <2>1. CASE UNCHANGED vars
    BY <2>1 DEF vars, writerVars, readerVars, Types
  <2> QED
    BY <2>1, WriterTypes, ReaderTypes DEF Next
<1> QED
  BY <1>1, InitTypes, PTL DEF Spec

(* How far the reader has got.                                             *)
LEMMA BegunHolds == Spec => []Begun
<1>1. Init => Begun
  BY DEF Init, Begun
<1>2. Begun /\ [Next]_vars => Begun'
  <2> SUFFICES ASSUME Begun, [Next]_vars PROVE Begun'
    OBVIOUS
  <2>1. CASE WriteLine \/ Fill \/ CrashInRotation
    <3>1. UNCHANGED <<readerVars, unseen, clean>>
      BY <2>1 DEF WriteLine, Fill, CrashInRotation
    <3> QED
      BY <3>1 DEF readerVars, Begun
  <2>2. CASE Truncate
    BY <2>2 DEF Truncate, readerVars, Begun
  <2>3. CASE ReadTail
    BY <2>3 DEF ReadTail, Begun
  <2>4. CASE MeasureOffset
    BY <2>4 DEF MeasureOffset, Begun
  <2>5. CASE Send
    BY <2>5 DEF Send, Begun
  <2>6. CASE Restart
    <3>1. /\ pc = "poll" /\ pc' \in {"poll", "read"} /\ unseen' = FALSE
          /\ UNCHANGED <<pending, clean>>
      BY <2>6 DEF Restart
    <3> QED
      BY <3>1 DEF Begun
  <2>7. CASE MeasureSize
    BY <2>7 DEF MeasureSize, Begun
  <2>8. CASE ReadChunk
    <3>1. pc = "read" /\ pc' = "send" /\ unseen' = unseen
          /\ clean' = (clean /\ Len(log) = size)
      BY <2>8 DEF ReadChunk
    <3> QED
      BY <3>1 DEF Begun
  <2>9. CASE Disconnect
    BY <2>9 DEF Disconnect, Begun
  <2>10. CASE UNCHANGED vars
    BY <2>10 DEF vars, readerVars, Begun
  <2> QED
    BY <2>1, <2>2, <2>3, <2>4, <2>5, <2>6, <2>7, <2>8, <2>9, <2>10
       DEF Next, Write, Follow
<1> QED
  BY <1>1, <1>2, PTL DEF Spec

(* A line written behind the rest.                                         *)
LEMMA WriteGrows ==
    ASSUME Types, WriteLine
    PROVE  /\ Len(log) \in Nat /\ Len(log') \in Nat /\ Len(log) <= Len(log')
           /\ \A i \in 1 .. Len(log) : log'[i] = log[i]
<1>1. PICK t \in Seq(Nat) : log' = log \o t
  BY WriteFacts
<1>2. Len(t) \in Nat /\ Len(log) \in Nat /\ log \in Seq(Nat)
  BY LenProperties DEF Types
<1>3. /\ Len(log') = Len(log) + Len(t)
      /\ \A i \in 1 .. Len(log) + Len(t) :
           log'[i] = IF i <= Len(log) THEN log[i] ELSE t[i - Len(log)]
  BY <1>1, <1>2, ConcatProperties
<1> QED
  BY <1>2, <1>3

LEMMA PlacesHold == Spec => [](Types /\ Begun /\ Places)
<1>1. Init => Places
  BY DEF Init, Places
<1>2. Types /\ Begun /\ Places /\ [Next]_vars => Places'
  <2> SUFFICES ASSUME Types, Begun, Places, [Next]_vars PROVE Places'
    OBVIOUS
  <2>0. /\ Len(log) \in Nat /\ offset \in Nat /\ base \in Nat /\ size \in Nat
        /\ (log = <<>> => Len(log) = 0)
    BY LenProperties DEF Types
  <2>1. CASE WriteLine
    <3>1. Len(log') \in Nat /\ Len(log) <= Len(log')
      BY <2>1, WriteGrows
    <3>2. /\ ~rotating /\ UNCHANGED <<rotating, pc, offset, size, base, unseen>>
      BY <2>1 DEF WriteLine, readerVars
    <3> QED
      BY <2>0, <3>1, <3>2 DEF Places
  <2>2. CASE Truncate
    BY <2>2 DEF Truncate, Places
  <2>3. CASE Fill
    <3>1. /\ rotating /\ rotating' = FALSE
          /\ UNCHANGED <<pc, offset, size, base, unseen>>
      BY <2>3 DEF Fill, readerVars
    <3>2. Len(log) = 0
      BY <2>0, <3>1 DEF Places
    <3>3. Len(log') \in Nat
      BY <2>3, WriterTypes, LenProperties DEF Write, Types
    <3>4. pc' # "tail" /\ ~unseen' => base' <= offset' /\ offset' <= Len(log')
      BY <2>0, <3>1, <3>2, <3>3 DEF Places
    <3>5. ~(pc' = "read" /\ ~unseen')
      BY <2>0, <3>1, <3>2 DEF Places
    <3> QED
      BY <3>1, <3>4, <3>5 DEF Places
  <2>4. CASE CrashInRotation
    BY <2>4 DEF CrashInRotation, Places, readerVars
  <2>5. CASE ReadTail
    <3>1. /\ pc' = "stat" /\ offset' = 0 /\ base' = 0
          /\ UNCHANGED <<log, rotating>>
      BY <2>5 DEF ReadTail, Begun, writerVars
    <3> QED
      BY <2>0, <3>1 DEF Places
  <2>6. CASE MeasureOffset
    <3>1. /\ pc' = "send" /\ offset' = Len(log) /\ base' = Len(log)
          /\ UNCHANGED <<log, rotating>>
      BY <2>6 DEF MeasureOffset, FollowFrom, writerVars
    <3> QED
      BY <2>0, <3>1 DEF Places
  <2>7. CASE Send
    BY <2>7 DEF Send, Places, writerVars
  <2>8. CASE Restart
    <3>1. /\ offset' = 0 /\ base' = 0 /\ size' = Len(log)
          /\ (pc' = "read" => Len(log) # 0)
          /\ UNCHANGED <<log, rotating>>
      BY <2>8 DEF Restart, writerVars
    <3> QED
      BY <2>0, <3>1 DEF Places
  <2>9. CASE MeasureSize
    <3>1. /\ pc = "poll" /\ Len(log) > offset /\ size' = Len(log)
          /\ UNCHANGED <<log, rotating, offset, base, unseen>>
      BY <2>9 DEF MeasureSize, writerVars
    <3> QED
      BY <2>0, <3>1 DEF Places
  <2>10. CASE ReadChunk
    <3>1. /\ pc = "read" /\ pc' = "send" /\ offset' = size
          /\ UNCHANGED <<log, rotating, base, unseen>>
      BY <2>10 DEF ReadChunk, writerVars
    <3> QED
      BY <2>0, <3>1 DEF Places
  <2>11. CASE Disconnect
    BY <2>11 DEF Disconnect, Places, writerVars
  <2>12. CASE UNCHANGED vars
    BY <2>12 DEF vars, readerVars, writerVars, Places
  <2> QED
    BY <2>1, <2>2, <2>3, <2>4, <2>5, <2>6, <2>7, <2>8, <2>9, <2>10, <2>11, <2>12
       DEF Next, Write, Follow
<1> QED
  BY <1>1, <1>2, TypesHold, BegunHolds, PTL DEF Spec

(* The reader's positions stay in the file until it is cut, and again from *)
(* the moment the reader has noticed a cut.                                *)
THEOREM TypeCorrect == Spec => []TypeOK
<1>1. Types /\ Begun /\ Places => TypeOK
  BY DEF Types, Begun, Places, TypeOK
<1> QED
  BY <1>1, PlacesHold, PTL

-----------------------------------------------------------------------------
(* Nothing is jumped over                                                  *)

LEMMA PiecesTaken ==
    ASSUME Types
    PROVE  Pieces(Taken) = Pieces(sent) \cup Pieces(pending) \cup Pieces(buffer)
<1>1. /\ sent \in Seq(Nat) /\ pending \in Seq(Nat) /\ buffer \in Seq(Nat)
      /\ sent \o pending \in Seq(Nat)
  BY ConcatProperties DEF Types
<1>2. Pieces((sent \o pending) \o buffer) = Pieces(sent \o pending) \cup Pieces(buffer)
  BY <1>1, PiecesOfBoth
<1>3. Pieces(sent \o pending) = Pieces(sent) \cup Pieces(pending)
  BY <1>1, PiecesOfBoth
<1> QED
  BY <1>2, <1>3 DEF Taken

(* What a read makes of the file and the fragment kept before.             *)
LEMMA ChunkFacts ==
    ASSUME Types, Begun, ReadChunk
    PROVE  /\ pending = <<>> /\ sent' = sent
           /\ From(log, offset + 1) \in Seq(Nat)
           /\ pending' \in Seq(Nat) /\ buffer' \in Seq(Nat)
           /\ pending' \o buffer' = buffer \o From(log, offset + 1)
<1>1. offset + 1 \in Nat \ {0} /\ log \in Seq(Nat) /\ buffer \in Seq(Nat)
  BY DEF Types
<1>2. From(log, offset + 1) \in Seq(Nat) /\ Text \in Seq(Nat)
  BY <1>1, FromFacts, ConcatProperties DEF Text
<1>3. /\ pending' = SubSeq(Text, 1, LastEnd(Text))
      /\ buffer' = From(Text, LastEnd(Text) + 1)
      /\ pc = "read" /\ sent' = sent
  BY DEF ReadChunk
<1>4. /\ pending' \in Seq(Nat) /\ buffer' \in Seq(Nat)
      /\ pending' \o buffer' = Text
  BY <1>2, <1>3, CutFacts
<1> QED
  BY <1>2, <1>3, <1>4 DEF Begun, Text

(* A read covers the file from the old offset on, the new offset included. *)
LEMMA ReadCovers ==
    ASSUME Types, Types', Begun, Places, NothingSkipped, ReadChunk
    PROVE  NothingSkipped'
<1>1. /\ pc = "read" /\ offset' = size /\ UNCHANGED <<log, base, unseen>>
  BY DEF ReadChunk, writerVars
<1>2. Pieces(Taken') = Pieces(sent) \cup Pieces(buffer) \cup Pieces(From(log, offset + 1))
  <2>1. Pieces(Taken') = Pieces(sent') \cup Pieces(pending') \cup Pieces(buffer')
    <3>1. /\ sent' \in Seq(Nat) /\ pending' \in Seq(Nat) /\ buffer' \in Seq(Nat)
          /\ sent' \o pending' \in Seq(Nat)
      BY ConcatProperties DEF Types
    <3>2. Taken' = (sent' \o pending') \o buffer'
      BY DEF Taken
    <3> QED
      BY <3>1, <3>2, PiecesOfBoth
  <2>2. Pieces(pending') \cup Pieces(buffer') = Pieces(buffer \o From(log, offset + 1))
    BY ChunkFacts, PiecesOfBoth
  <2>3. Pieces(buffer \o From(log, offset + 1))
          = Pieces(buffer) \cup Pieces(From(log, offset + 1))
    BY ChunkFacts, PiecesOfBoth DEF Types
  <2> QED
    BY <2>1, <2>2, <2>3, ChunkFacts
<1>3. Pieces(Taken) = Pieces(sent) \cup Pieces(buffer)
  <2>1. Pieces(pending) = {}
    BY ChunkFacts DEF Pieces
  <2> QED
    BY <2>1, PiecesTaken
<1>4. SUFFICES ASSUME ~unseen, NEW i \in base + 1 .. size PROVE log[i] \in Pieces(Taken')
  BY <1>1 DEF NothingSkipped
<1>5. /\ base \in Nat /\ offset \in Nat /\ size \in Nat /\ Len(log) \in Nat
      /\ size <= Len(log)
  BY <1>1, <1>4, LenProperties DEF Types, Places
<1>6. CASE i <= offset
  <2>1. i \in base + 1 .. offset
    BY <1>5, <1>6
  <2> QED
    BY <1>1, <1>2, <1>3, <1>4, <2>1 DEF NothingSkipped
<1>7. CASE ~(i <= offset)
  <2>1. i \in offset + 1 .. Len(log) /\ offset + 1 \in Nat \ {0}
    BY <1>5, <1>7
  <2>2. log[i] \in Pieces(From(log, offset + 1))
    BY <2>1, FromFacts DEF Types
  <2> QED
    BY <1>2, <2>2
<1> QED
  BY <1>6, <1>7

(* Between two rotations it notices the reader passes over nothing, for    *)
(* logs and tails of any size: also what is written while the tail is sent *)
(* is in what it has taken.                                                *)
THEOREM NothingSkippedCorrect == Spec => []NothingSkipped
<1>1. Init => NothingSkipped
  BY DEF Init, NothingSkipped
<1>2. Types /\ Types' /\ Begun /\ Places /\ NothingSkipped /\ [Next]_vars
        => NothingSkipped'
  <2> SUFFICES ASSUME Types, Types', Begun, Places, NothingSkipped, [Next]_vars
               PROVE  NothingSkipped'
    OBVIOUS
  <2>0. base \in Nat /\ offset \in Nat /\ Len(log) \in Nat
    BY LenProperties DEF Types
  <2>1. CASE WriteLine
    <3>1. UNCHANGED <<pc, unseen, base, offset, Taken>>
      BY <2>1 DEF WriteLine, readerVars, Taken
    <3>2. SUFFICES ASSUME pc \in {"send", "poll", "read"}, ~unseen,
                          NEW i \in base + 1 .. offset
                   PROVE  log'[i] \in Pieces(Taken)
      BY <3>1 DEF NothingSkipped
    <3>3. i \in 1 .. Len(log)
      BY <2>0, <3>2 DEF Places
    <3> QED
      BY <2>1, <3>2, <3>3, WriteGrows DEF NothingSkipped
  <2>2. CASE Truncate
    BY <2>2 DEF Truncate, NothingSkipped
  <2>3. CASE Fill
    <3>1. UNCHANGED <<pc, unseen, base, offset>> /\ rotating
      BY <2>3 DEF Fill, readerVars
    <3>2. pc # "tail" /\ ~unseen => base + 1 .. offset = {}
      BY <2>0, <3>1 DEF Places
    <3> QED
      BY <3>1, <3>2 DEF NothingSkipped
  <2>4. CASE CrashInRotation
    BY <2>4 DEF CrashInRotation, readerVars, NothingSkipped, Taken
  <2>5. CASE ReadTail \/ Disconnect
    BY <2>5 DEF ReadTail, Disconnect, NothingSkipped
  <2>6. CASE MeasureOffset
    <3>1. base' = Len(log) /\ offset' = Len(log)
      BY <2>6 DEF MeasureOffset, FollowFrom
    <3> QED
      BY <2>0, <3>1 DEF NothingSkipped
  <2>7. CASE Send
    <3>1. /\ pc \in {"send", "poll", "read"}
          /\ UNCHANGED <<log, base, offset, unseen, buffer>>
          /\ sent' = sent \o pending /\ pending' = <<>>
      BY <2>7 DEF Send, writerVars
    <3>2. Taken' = Taken
      <4>1. (sent \o pending) \o <<>> = sent \o pending
        BY ConcatProperties, ConcatEmptySeq DEF Types
      <4> QED
        BY <3>1, <4>1 DEF Taken
    <3> QED
      BY <3>1, <3>2 DEF NothingSkipped
  <2>8. CASE Restart
    <3>1. base' = 0 /\ offset' = 0
      BY <2>8 DEF Restart
    <3> QED
      BY <3>1 DEF NothingSkipped
  <2>9. CASE MeasureSize
    BY <2>9 DEF MeasureSize, NothingSkipped, Taken, writerVars
  <2>10. CASE UNCHANGED vars
    BY <2>10 DEF vars, readerVars, writerVars, NothingSkipped, Taken
  <2> QED
    BY <2>1, <2>2, <2>3, <2>4, <2>5, <2>6, <2>7, <2>8, <2>9, <2>10, ReadCovers
       DEF Next, Write, Follow
<1> QED
  BY <1>1, <1>2, TypesHold, PlacesHold, PTL DEF Spec

-----------------------------------------------------------------------------
(* The tail, then the stream                                               *)

Part(first, last) == SubSeq(log, first, last)

(* Before the offset is taken, what is being sent is a part of the file.   *)
TailIsPart ==
    clean /\ pc = "stat" =>
        tailEnd <= Len(log) /\ \E first \in 1 .. tailEnd + 1 : pending = Part(first, tailEnd)

(* A part of the file stays what it is when something is written behind    *)
(* it, or when an empty file is filled.                                    *)
LEMMA PartKept ==
    ASSUME Types, Places, WriteLine \/ Fill,
           NEW a \in Nat \ {0}, NEW b \in 0 .. Len(log)
    PROVE  SubSeq(log', a, b) = SubSeq(log, a, b)
<1>0. Len(log) \in Nat /\ log \in Seq(Nat) /\ a \in Int /\ b \in Int
  BY LenProperties DEF Types
<1>1. CASE b < a
  BY <1>0, <1>1, SubSeqEmpty
<1>2. CASE ~(b < a)
  <2>1. a \in 1 .. Len(log) /\ b \in 1 .. Len(log)
    BY <1>0, <1>2
  <2>2. WriteLine
    <3>1. Len(log) # 0
      BY <1>0, <2>1
    <3>2. ~Fill
      BY <3>1 DEF Fill, Places
    <3> QED
      BY <3>2
  <2>3. PICK t \in Seq(Nat) : log' = log \o t
    BY <2>2, WriteFacts
  <2> QED
    BY <1>0, <2>1, <2>3, SubSeqOfConcat1
<1> QED
  BY <1>1, <1>2

(* The writer: the file grows, or it is cut and no longer clean.           *)
LEMMA WriterStreams ==
    ASSUME Types, Begun, Places, TailIsPart, TailThenStream, Write
    PROVE  TailIsPart' /\ TailThenStream'
<1>1. CASE Truncate
  BY <1>1 DEF Truncate, TailIsPart, TailThenStream
<1>2. CASE CrashInRotation
  BY <1>2 DEF CrashInRotation, TailIsPart, TailThenStream, Part, readerVars, Taken
<1>3. CASE WriteLine \/ Fill
  <2>1. UNCHANGED <<pc, clean, tailEnd, base, offset, pending, Taken>>
    BY <1>3 DEF WriteLine, Fill, readerVars, Taken
  <2>2. /\ Len(log) \in Nat /\ Len(log') \in Nat /\ Len(log) <= Len(log')
        /\ base \in Nat /\ offset \in Nat /\ tailEnd \in Nat
    <3>1. CASE WriteLine
      BY <3>1, WriteGrows DEF Types
    <3>2. CASE Fill
      <4>1. log = <<>>
        BY <3>2 DEF Fill, Places
      <4>2. log' \in Seq(Nat)
        BY <3>2, WriterTypes DEF Write, Types
      <4> QED
        BY <4>1, <4>2, LenProperties DEF Types
    <3> QED
      BY <1>3, <3>1, <3>2
  <2>3. ASSUME clean, pc = "stat"
        PROVE  /\ tailEnd <= Len(log')
               /\ \E first \in 1 .. tailEnd + 1 : pending = SubSeq(log', first, tailEnd)
    <3>1. PICK first \in 1 .. tailEnd + 1 : pending = Part(first, tailEnd)
      BY <2>3 DEF TailIsPart
    <3>2. first \in Nat \ {0} /\ tailEnd \in 0 .. Len(log) /\ tailEnd <= Len(log')
      BY <2>2, <2>3, <3>1 DEF TailIsPart
    <3>3. SubSeq(log', first, tailEnd) = SubSeq(log, first, tailEnd)
      BY <1>3, <3>2, PartKept
    <3> QED
      BY <3>1, <3>2, <3>3 DEF Part
  <2>4. ASSUME clean, pc \notin {"tail", "stat"}
        PROVE  /\ tailEnd <= base
               /\ \E first \in 1 .. tailEnd + 1 :
                      Taken = SubSeq(log', first, tailEnd) \o SubSeq(log', base + 1, offset)
    <3>0. tailEnd <= base
      BY <2>4 DEF TailThenStream
    <3>1. PICK first \in 1 .. tailEnd + 1 :
              Taken = SubSeq(log, first, tailEnd) \o SubSeq(log, base + 1, offset)
      BY <2>4 DEF TailThenStream
    <3>2. base <= offset /\ offset <= Len(log)
      BY <2>4 DEF Places, Begun
    <3>3. /\ first \in Nat \ {0} /\ tailEnd \in 0 .. Len(log)
          /\ base + 1 \in Nat \ {0} /\ offset \in 0 .. Len(log)
      BY <2>2, <3>0, <3>1, <3>2
    <3>4. SubSeq(log', first, tailEnd) = SubSeq(log, first, tailEnd)
      BY <1>3, <3>3, PartKept
    <3>5. SubSeq(log', base + 1, offset) = SubSeq(log, base + 1, offset)
      BY <1>3, <3>3, PartKept
    <3> QED
      BY <3>0, <3>1, <3>4, <3>5
  <2> QED
    BY <2>1, <2>3, <2>4 DEF TailIsPart, TailThenStream, Part
<1> QED
  BY <1>1, <1>2, <1>3 DEF Write

(* A chunk continues the stream where the last one ended.                  *)
LEMMA ReadStreams ==
    ASSUME Types, Begun, Places, TailThenStream, ReadChunk
    PROVE  TailThenStream'
<1>1. /\ pc = "read" /\ offset' = size /\ UNCHANGED <<log, tailEnd, base>>
      /\ clean' = (clean /\ Len(log) = size)
  BY DEF ReadChunk, writerVars
<1>2. SUFFICES ASSUME clean, Len(log) = size
               PROVE  \E first \in 1 .. tailEnd + 1 :
                          Taken' = SubSeq(log, first, tailEnd) \o SubSeq(log, base + 1, size)
  BY <1>1 DEF TailThenStream
<1>3. PICK first \in 1 .. tailEnd + 1 :
          Taken = SubSeq(log, first, tailEnd) \o SubSeq(log, base + 1, offset)
  BY <1>1, <1>2 DEF TailThenStream
<1>4. /\ base \in Nat /\ offset \in Nat /\ Len(log) \in Nat /\ log \in Seq(Nat)
      /\ base <= offset /\ offset <= Len(log) /\ tailEnd \in Nat /\ tailEnd <= base
      /\ sent \in Seq(Nat) /\ buffer \in Seq(Nat)
  BY <1>1, <1>2, LenProperties DEF Types, Places, Begun, TailThenStream
<1> DEFINE rest == From(log, offset + 1)
           tail == SubSeq(log, first, tailEnd)
           stream == SubSeq(log, base + 1, offset)
<1>5. /\ rest \in Seq(Nat) /\ tail \in Seq(Nat) /\ stream \in Seq(Nat)
  <2>1. /\ \A i \in first .. tailEnd : log[i] \in Nat
        /\ \A i \in base + 1 .. offset : log[i] \in Nat
    <3>1. ASSUME NEW i \in 1 .. Len(log) PROVE log[i] \in Nat
      BY <1>4, ElementOfSeq
    <3> QED
      BY <1>3, <1>4, <3>1
  <2>2. tail \in Seq(Nat)
    BY <1>3, <1>4, <2>1, SubSeqProperties
  <2>3. stream \in Seq(Nat)
    BY <1>4, <2>1, SubSeqProperties
  <2> QED
    BY <2>2, <2>3, ChunkFacts
<1>6. stream \o rest = SubSeq(log, base + 1, size)
  <2>1. /\ base + 1 \in 1 .. Len(log) + 1 /\ offset \in (base + 1) - 1 .. Len(log)
        /\ Len(log) \in offset .. Len(log)
    BY <1>4
  <2>2. SubSeq(log, base + 1, offset) \o SubSeq(log, offset + 1, Len(log))
          = SubSeq(log, base + 1, Len(log))
    BY <1>4, <2>1, ConcatAdjacentSubSeq
  <2> QED
    BY <1>2, <2>2 DEF From
<1>7. sent \o buffer = tail \o stream
  <2>1. sent \o <<>> = sent /\ pending = <<>>
    BY <1>4, ConcatEmptySeq, ChunkFacts
  <2> QED
    BY <1>3, <2>1 DEF Taken
<1>8. Taken' = (sent \o buffer) \o rest
  <2>1. /\ sent' = sent /\ pending' \in Seq(Nat) /\ buffer' \in Seq(Nat)
        /\ pending' \o buffer' = buffer \o rest
    BY ChunkFacts
  <2>2. (sent \o pending') \o buffer' = sent \o (pending' \o buffer')
    BY <1>4, <2>1, Associative
  <2>3. (sent \o buffer) \o rest = sent \o (buffer \o rest)
    BY <1>4, <1>5, Associative
  <2> QED
    BY <2>1, <2>2, <2>3 DEF Taken
<1>9. (tail \o stream) \o rest = tail \o (stream \o rest)
  <2> HIDE DEF rest, tail, stream
  <2> QED
    BY <1>5, Associative
<1> QED
  BY <1>3, <1>6, <1>7, <1>8, <1>9

(* The other steps of the reader.                                          *)
LEMMA ReaderStreams ==
    ASSUME Types, Begun, Places, TailIsPart, TailThenStream, Follow \/ Disconnect
    PROVE  TailIsPart' /\ TailThenStream'
<1>0. /\ Len(log) \in Nat /\ log \in Seq(Nat) /\ pending \in Seq(Nat)
  BY LenProperties DEF Types
<1>1. CASE ReadTail
  <2>1. /\ pc' = "stat" /\ log' = log /\ tailEnd' = Len(log)
        /\ pending' = SubSeq(log, TailStart, Len(log))
    BY <1>1 DEF ReadTail, writerVars, From
  <2>2. TailStart \in 1 .. Len(log) + 1 /\ Len(log) <= Len(log)
    BY <1>0, TailFacts
  <2> QED
    BY <2>1, <2>2 DEF TailIsPart, TailThenStream, Part
<1>2. CASE MeasureOffset
  <2>1. /\ pc = "stat" /\ pc' = "send" /\ offset' = Len(log) /\ base' = Len(log)
        /\ UNCHANGED <<log, tailEnd, clean, sent, pending, buffer>>
    BY <1>2 DEF MeasureOffset, FollowFrom, writerVars
  <2>2. Taken' = pending
    <3>1. sent = <<>> /\ buffer = <<>>
      BY <2>1 DEF Begun
    <3>2. <<>> \o pending = pending /\ pending \o <<>> = pending
      BY <1>0, ConcatEmptySeq
    <3> QED
      BY <2>1, <3>1, <3>2 DEF Taken
  <2>3. ASSUME clean
        PROVE  /\ tailEnd <= Len(log)
               /\ \E first \in 1 .. tailEnd + 1 :
                      pending = SubSeq(log, first, tailEnd) \o SubSeq(log, Len(log) + 1, Len(log))
    <3>0. tailEnd <= Len(log)
      BY <2>1, <2>3 DEF TailIsPart
    <3>1. PICK first \in 1 .. tailEnd + 1 : pending = Part(first, tailEnd)
      BY <2>1, <2>3 DEF TailIsPart
    <3>2. SubSeq(log, Len(log) + 1, Len(log)) = <<>>
      <4>1. Len(log) + 1 \in Int /\ Len(log) \in Int /\ Len(log) < Len(log) + 1
        BY <1>0
      <4> QED
        BY <4>1, SubSeqEmpty
    <3>3. pending \o <<>> = pending
      BY <1>0, ConcatEmptySeq
    <3> QED
      BY <3>0, <3>1, <3>2, <3>3 DEF Part
  <2> QED
    BY <2>1, <2>2, <2>3 DEF TailIsPart, TailThenStream
<1>3. CASE Send
  <2>1. /\ pc = "send" /\ pc' = "poll" /\ sent' = sent \o pending /\ pending' = <<>>
        /\ UNCHANGED <<log, tailEnd, base, offset, clean, buffer>>
    BY <1>3 DEF Send, writerVars
  <2>2. Taken' = Taken
    <3>1. (sent \o pending) \o <<>> = sent \o pending
      BY ConcatProperties, ConcatEmptySeq DEF Types
    <3> QED
      BY <2>1, <3>1 DEF Taken
  <2> QED
    BY <2>1, <2>2 DEF TailIsPart, TailThenStream
<1>4. CASE Restart
  <2>1. ~clean /\ clean' = clean
    <3>1. pc = "poll" /\ Len(log) < offset /\ clean' = clean
      BY <1>4 DEF Restart, Shrunk
    <3>2. offset \in Nat
      BY DEF Types
    <3> QED
      BY <1>0, <3>1, <3>2 DEF Begun, Places
  <2> QED
    BY <2>1 DEF TailIsPart, TailThenStream
<1>5. CASE MeasureSize
  BY <1>5 DEF MeasureSize, TailIsPart, TailThenStream, Taken, writerVars
<1>6. CASE ReadChunk
  <2>1. pc' = "send"
    BY <1>6 DEF ReadChunk
  <2> QED
    BY <1>6, <2>1, ReadStreams DEF TailIsPart
<1>7. CASE Disconnect
  BY <1>7 DEF Disconnect, TailIsPart, TailThenStream, Taken, writerVars
<1> QED
  BY <1>1, <1>2, <1>3, <1>4, <1>5, <1>6, <1>7 DEF Follow

(* Without a cut, and without a write between a measure and its read, the  *)
(* browser gets the tail and then everything behind the offset, each piece *)
(* once and in order, however the lines are cut in two; between the two it *)
(* misses what was written between the tail and the offset, nothing else.  *)
THEOREM StreamCorrect == Spec => []TailThenStream
<1>1. Init => TailIsPart /\ TailThenStream
  BY DEF Init, TailIsPart, TailThenStream
<1>2. Types /\ Begun /\ Places /\ TailIsPart /\ TailThenStream /\ [Next]_vars
        => TailIsPart' /\ TailThenStream'
  <2> SUFFICES ASSUME Types, Begun, Places, TailIsPart, TailThenStream, [Next]_vars
               PROVE  TailIsPart' /\ TailThenStream'
    OBVIOUS
  <2>1. CASE UNCHANGED vars
    BY <2>1 DEF vars, readerVars, writerVars, TailIsPart, TailThenStream, Part, Taken
  <2> QED
    BY <2>1, WriterStreams, ReaderStreams DEF Next
<1> QED
  BY <1>1, <1>2, PlacesHold, PTL DEF Spec

=============================================================================
