------------------------------ MODULE LogStream ------------------------------
(***************************************************************************)
(* OPENCODE_LOG.txt, written by the loop and streamed to a browser.        *)
(*                                                                         *)
(* The writer appends lines and, before a session, cuts a file that has    *)
(* become too large.  The reader sends the end of the file, then polls it  *)
(* from an offset of its own.  No lock and no message connects the two;    *)
(* each stat, read and write is one step.                                  *)
(*                                                                         *)
(* A line is two pieces, 2n - 1 and 2n, the second one with the newline;   *)
(* the file is a sequence of pieces and a position counts pieces.  A file  *)
(* that does not exist yet reads as an empty one.                          *)
(***************************************************************************)
EXTENDS Naturals, Sequences, FiniteSets

CONSTANTS
    MaxLog,     \* _MAX_LOG_BYTES
    TailLines,  \* _TAIL_LINES
    MaxLines    \* bound of the model: lines ever written

ASSUME LogAssumption ==
    /\ MaxLog \in Nat /\ MaxLines \in Nat
    /\ TailLines \in Nat \ {0}

VARIABLES
    log,       \* the file
    lines,     \* lines begun so far
    rotating,  \* write_text has truncated the file and not yet filled it
    kept,      \* what the rotation is going to write back
    pc,        \* the point _tail_and_follow has reached
    offset, size, buffer,   \* its local variables
    pending,   \* what it has read and is sending
    sent,      \* what the browser has received
    tailEnd,   \* history: how long the file was when the tail was read
    base,      \* history: where the reader began to follow the current file
    unseen,    \* history: the file has been cut and the reader has not noticed
    clean      \* history: no cut and no read past the measured size so far

writerVars == <<log, lines, rotating, kept>>
readerVars == <<pc, offset, size, buffer, pending, sent, tailEnd, base>>
vars == <<writerVars, readerVars, unseen, clean>>

Init ==
    /\ log = <<>> /\ lines = 0 /\ rotating = FALSE /\ kept = <<>>
    /\ pc = "tail" /\ offset = 0 /\ size = 0
    /\ buffer = <<>> /\ pending = <<>> /\ sent = <<>>
    /\ tailEnd = 0 /\ base = 0 /\ unseen = FALSE /\ clean = TRUE

EndsLine(piece) == piece % 2 = 0
Ends(text) == {i \in DOMAIN text : EndsLine(text[i])}
From(text, i) == SubSeq(text, i, Len(text))
Pieces(text) == {text[i] : i \in DOMAIN text}

(* The position of the last newline, 0 if there is none: how many pieces   *)
(* have one at or behind them.                                             *)
LastEnd(text) == Cardinality({i \in DOMAIN text : \E j \in Ends(text) : i <= j})

-----------------------------------------------------------------------------
(* The writer                                                              *)

InLine == log # <<>> /\ ~EndsLine(log[Len(log)])

(* One write and its flush: a line, or the output's last line without its  *)
(* newline, which the header of the next session ends.                     *)
WriteLine ==
    /\ ~rotating
    /\ IF InLine
       THEN log' = Append(log, log[Len(log)] + 1) /\ lines' = lines
       ELSE /\ lines < MaxLines
            /\ lines' = lines + 1
            /\ \/ log' = log \o <<2 * lines' - 1, 2 * lines'>>
               \/ log' = Append(log, 2 * lines' - 1)
    /\ UNCHANGED <<rotating, kept, readerVars, unseen, clean>>

(* _rotate_log_if_large: the last half, cut at the first marker in it if   *)
(* there is one, behind a line of its own.  write_text first truncates.    *)
Truncate ==
    /\ ~rotating
    /\ Len(log) > MaxLog
    /\ lines < MaxLines
    /\ \E i \in Len(log) - (MaxLog \div 2) + 1 .. Len(log) : kept' = From(log, i)
    /\ log' = <<>>
    /\ rotating' = TRUE
    /\ unseen' = TRUE
    /\ clean' = FALSE
    /\ UNCHANGED <<lines, readerVars>>

Fill ==
    /\ rotating
    /\ log' = <<2 * lines + 1, 2 * lines + 2>> \o kept
    /\ lines' = lines + 1
    /\ rotating' = FALSE
    /\ kept' = <<>>
    /\ UNCHANGED <<readerVars, unseen, clean>>

(* The process dies in between: the file stays empty.                      *)
CrashInRotation ==
    /\ rotating
    /\ rotating' = FALSE
    /\ kept' = <<>>
    /\ UNCHANGED <<log, lines, readerVars, unseen, clean>>

-----------------------------------------------------------------------------
(* _tail_and_follow                                                        *)

(* read_log_tail: lines[-n:], the last one being what follows the last     *)
(* newline.                                                                *)
TailStart ==
    1 + Cardinality({i \in DOMAIN log :
                        Cardinality({j \in Ends(log) : j >= i}) >= TailLines})

ReadTail ==
    /\ pc = "tail"
    /\ pending' = From(log, TailStart)
    /\ tailEnd' = Len(log)
    /\ unseen' = FALSE
    /\ clean' = TRUE
    /\ pc' = "stat"
    /\ UNCHANGED <<writerVars, offset, size, buffer, sent, base>>

\* Faults: the stream starts at the beginning of the file, or past its end.
StartOfFile == 0
PastTheEnd == Len(log) + 1

FollowFrom == Len(log)

MeasureOffset ==
    /\ pc = "stat"
    /\ offset' = FollowFrom
    /\ base' = FollowFrom
    /\ unseen' = FALSE
    /\ pc' = "send"
    /\ UNCHANGED <<writerVars, size, buffer, pending, sent, tailEnd, clean>>

(* The lines go out one by one; the file is not looked at meanwhile.       *)
Send ==
    /\ pc = "send"
    /\ sent' = sent \o pending
    /\ pending' = <<>>
    /\ pc' = "poll"
    /\ UNCHANGED <<writerVars, offset, size, buffer, tailEnd, base, unseen, clean>>

\* Fault: a file that has shrunk is taken for one that has not changed.
NeverShrinks == FALSE

Shrunk == Len(log) < offset

(* A smaller file has been rotated: start again from its beginning.        *)
Restart ==
    /\ pc = "poll"
    /\ Shrunk
    /\ offset' = 0
    /\ base' = 0
    /\ buffer' = <<>>
    /\ unseen' = FALSE
    /\ size' = Len(log)
    /\ pc' = IF Len(log) = 0 THEN "poll" ELSE "read"
    /\ UNCHANGED <<writerVars, pending, sent, tailEnd, clean>>

MeasureSize ==
    /\ pc = "poll"
    /\ Len(log) > offset
    /\ size' = Len(log)
    /\ pc' = "read"
    /\ UNCHANGED <<writerVars, offset, buffer, pending, sent, tailEnd, base, unseen,
                   clean>>

\* Fault: the fragment kept from the last read is dropped.
BufferDropped == From(log, offset + 1)

Text == buffer \o From(log, offset + 1)

(* To the end of the file, which may not be where it was a moment ago.     *)
ReadChunk ==
    /\ pc = "read"
    /\ offset' = size
    /\ pending' = SubSeq(Text, 1, LastEnd(Text))
    /\ buffer' = From(Text, LastEnd(Text) + 1)
    /\ clean' = (clean /\ Len(log) = size)
    /\ pc' = "send"
    /\ UNCHANGED <<writerVars, size, sent, tailEnd, base, unseen>>

Disconnect ==
    /\ pc \in {"send", "poll"}
    /\ pc' = "gone"
    /\ UNCHANGED <<writerVars, offset, size, buffer, pending, sent, tailEnd, base, unseen,
                   clean>>

-----------------------------------------------------------------------------

Write == WriteLine \/ Truncate \/ Fill \/ CrashInRotation
Follow == ReadTail \/ MeasureOffset \/ Send \/ Restart \/ MeasureSize \/ ReadChunk

Next == Write \/ Follow \/ Disconnect

Spec == Init /\ [][Next]_vars

(* The server goes on polling; nobody has to write or to disconnect.       *)
FairSpec == Spec /\ WF_vars(Follow)

-----------------------------------------------------------------------------

(* Type correctness; while no cut is unnoticed the positions are in the    *)
(* file.                                                                   *)
TypeOK ==
    /\ log \in Seq(Nat) /\ kept \in Seq(Nat)
    /\ lines \in 0 .. MaxLines /\ rotating \in BOOLEAN
    /\ pc \in {"tail", "stat", "send", "poll", "read", "gone"}
    /\ offset \in Nat /\ size \in Nat /\ base \in Nat /\ tailEnd \in Nat
    /\ buffer \in Seq(Nat) /\ pending \in Seq(Nat) /\ sent \in Seq(Nat)
    /\ unseen \in BOOLEAN /\ clean \in BOOLEAN
    /\ pc # "tail" /\ ~unseen => base <= offset /\ offset <= Len(log)
    /\ pc = "read" /\ ~unseen => offset < size /\ size <= Len(log)

Taken == sent \o pending \o buffer

(* Nothing written since the offset was taken is jumped over, "une ligne   *)
(* ecrite pendant l'emission du tail" included: also when reads overrun    *)
(* the size and repeat lines, and again after each rotation it notices.    *)
NothingSkipped ==
    pc \in {"send", "poll", "read"} /\ ~unseen =>
        \A i \in base + 1 .. offset : log[i] \in Pieces(Taken)

(* The tail, then the stream from the offset: what the browser has got is  *)
(* these two parts of the file, each piece once and in order, through      *)
(* lines cut in two -- as long as the file is not cut and nothing is       *)
(* written between a measure of the size and the read.  Between the two    *)
(* parts is what was written between the read of the tail and the measure  *)
(* of the offset, and nothing else: no line that falls into "l'angle mort" *)
(* later than that.                                                        *)
TailThenStream ==
    clean /\ pc \notin {"tail", "stat"} =>
        /\ tailEnd <= base
        /\ \E first \in 1 .. tailEnd + 1 :
               Taken = SubSeq(log, first, tailEnd) \o SubSeq(log, base + 1, offset)

(* When the log rests, a browser that stays ends up at its end, whatever   *)
(* rotations it has missed.                                                *)
CatchesUp == <>[](pc = "gone" \/ (offset = Len(log) /\ pending = <<>>))

(* "repartir proprement d'un offset zero sans dupliquer" (routes_logs.py): *)
(* no line is sent twice.                                                  *)
NeverTwice ==
    \A i, j \in DOMAIN sent : i # j => sent[i] # sent[j]

=============================================================================
