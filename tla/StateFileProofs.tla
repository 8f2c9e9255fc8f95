--------------------------- MODULE StateFileProofs ---------------------------
(***************************************************************************)
(* Proofs about the state files.  About StateFile: with a lock file that   *)
(* is never removed, any number of readers and writers exclude each other, *)
(* and the file they share is an atomic one in the sense of AtomicFile.    *)
(* About ProgressFile: what the loop does to PROGRESS.md under that lock   *)
(* keeps what it must, in files of any length.                             *)
(***************************************************************************)
EXTENDS StateFile, ProgressFile, TLAPS,
        SequenceTheorems, FiniteSetTheorems, WellFoundedInduction

(* Everybody locks the same inode, and is alone behind it.                 *)
Locked ==
    /\ lockFile = 1 /\ opened \in [Processes -> {1}]
    /\ holder \in [Inodes -> Processes \cup {Nobody}]
    /\ pc \in [Processes -> Inside \cup {"idle", "trying", "dead"}]
    /\ \A p \in Processes : pc[p] \in Inside => holder[1] = p

(* The counters and the texts.                                             *)
CountsOK == calls \in 0 .. MaxCalls /\ waited \in [Processes -> 0 .. Patience]

TextsOK ==
    /\ content \in Seq(Processes) /\ before \in Seq(Processes)
    /\ old \in [Appenders -> Seq(Processes)] /\ seen \in [Readers -> Seq(Processes)]

(* The bounds of the model are numbers; the first inode is there.          *)
LEMMA Bounds == MaxCalls \in Nat /\ Patience \in Nat /\ 1 \in Inodes
<1>1. MaxCalls \in Nat /\ Patience \in Nat
  BY StateFileAssumption DEF StateFileAssumption
<1> QED
  BY <1>1 DEF Inodes

LEMMA SetFacts ==
    /\ Readers \subseteq Processes /\ Appenders \subseteq Processes
    /\ Overwriters \subseteq Processes /\ Journalers \subseteq Processes
    /\ Nobody \notin Processes
  BY StateFileAssumption DEF StateFileAssumption, Processes, Writers

-----------------------------------------------------------------------------
(* The lock                                                                *)

(* What a step that keeps the lock as it is may do.                        *)
LEMMA SameLock ==
    ASSUME Locked, NEW p \in Processes, UNCHANGED lockVars,
           NEW point \in Inside \cup {"idle", "trying", "dead"},
           point \in Inside => pc[p] \in Inside, GoTo(p, point)
    PROVE  Locked'
  BY DEF Locked, lockVars, GoTo

(* The lock excludes: it is given only when it is free, on an inode that   *)
(* is the same for all.                                                    *)
LEMMA LockHolds == Spec => []Locked
<1>1. Init => Locked
  BY Bounds DEF Init, Locked, Inside
<1>2. Locked /\ [Next]_vars => Locked'
  <2> SUFFICES ASSUME Locked, [Next]_vars PROVE Locked'
    OBVIOUS
  <2>1. ASSUME NEW p \in Processes, Open(p) PROVE Locked'
    BY <2>1 DEF Open, Locked, GoTo, Inside
  <2>2. ASSUME NEW p \in Processes, Acquire(p) PROVE Locked'
    <3>1. holder[1] = Nobody /\ holder' = [holder EXCEPT ![1] = p]
      BY <2>2 DEF Acquire, Free, Locked
    <3>2. \A q \in Processes : pc[q] \notin Inside
      BY <3>1, SetFacts DEF Locked
    <3> QED
      BY <2>2, <3>1, <3>2, Bounds DEF Acquire, GoTo, Locked, Inside
  <2>3. ASSUME NEW p \in Processes, Release(p) \/ Crash(p) PROVE Locked'
    <3>1. /\ pc' = [pc EXCEPT ![p] = "idle"] \/ pc' = [pc EXCEPT ![p] = "dead"]
          /\ holder' = Freed(p) /\ opened' = opened /\ lockFile' = lockFile
      BY <2>3 DEF Release, Crash, GoTo, LockFileAfter
    <3>2. holder' \in [Inodes -> Processes \cup {Nobody}]
      BY <3>1 DEF Freed, Locked
    <3>3. \A q \in Processes : q # p /\ holder[1] = q => holder'[1] = q
      BY <3>1, Bounds DEF Freed
    <3> QED
      BY <3>1, <3>2, <3>3 DEF Locked, Inside
  <2>4. ASSUME NEW p \in Processes, Retry(p) PROVE Locked'
    BY <2>4 DEF Retry, lockVars, Locked
  <2>5. ASSUME NEW p \in Processes, GiveUp(p) PROVE Locked'
    BY <2>5, SameLock DEF GiveUp, Inside
  <2>6. ASSUME NEW p \in Processes, Read(p) PROVE Locked'
    BY <2>6, SameLock DEF Read, Inside
  <2>7. ASSUME NEW p \in Processes, AddLine(p) PROVE Locked'
    BY <2>7, SameLock DEF AddLine, Inside
  <2>8. ASSUME NEW p \in Processes, ReadOld(p) PROVE Locked'
    BY <2>8, SameLock DEF ReadOld, Inside
  <2>9. ASSUME NEW p \in Processes, Truncate(p) PROVE Locked'
    BY <2>9, SameLock DEF Truncate, Inside
  <2>10. ASSUME NEW p \in Processes, Write(p) PROVE Locked'
    BY <2>10, SameLock DEF Write, Inside
  <2>11. CASE UNCHANGED vars
    BY <2>11 DEF vars, lockVars, Locked
  <2> QED
    BY <2>1, <2>2, <2>3, <2>4, <2>5, <2>6, <2>7, <2>8, <2>9, <2>10, <2>11 DEF Next, Step
<1> QED
  BY <1>1, <1>2, PTL DEF Spec

(* At most one process is behind the lock.                                 *)
LEMMA Alone ==
    ASSUME Locked, NEW p \in Processes, NEW q \in Processes,
           pc[p] \in Inside, pc[q] \in Inside
    PROVE  p = q
  BY DEF Locked

-----------------------------------------------------------------------------
(* Types                                                                   *)

(* Attempts and calls are counted up to their bounds.                      *)
LEMMA CountsHold == Spec => []CountsOK
<1>1. Init => CountsOK
  BY Bounds DEF Init, CountsOK
<1>2. CountsOK /\ [Next]_vars => CountsOK'
  <2> SUFFICES ASSUME CountsOK, [Next]_vars PROVE CountsOK'
    OBVIOUS
  <2>1. ASSUME NEW p \in Processes, Open(p) PROVE CountsOK'
    <3>1. /\ calls < MaxCalls /\ calls' = calls + 1
          /\ waited' = [waited EXCEPT ![p] = 0]
      BY <2>1 DEF Open
    <3> QED
      BY <3>1, Bounds DEF CountsOK
  <2>2. ASSUME NEW p \in Processes, Retry(p) PROVE CountsOK'
    <3>1. /\ calls' = calls /\ waited[p] < Patience
          /\ waited' = [waited EXCEPT ![p] = waited[p] + 1]
      BY <2>2 DEF Retry
    <3>2. waited[p] + 1 \in 0 .. Patience
      BY <3>1, Bounds DEF CountsOK
    <3> QED
      BY <3>1, <3>2 DEF CountsOK
  <2>3. ASSUME NEW p \in Processes,
               \/ Acquire(p) \/ GiveUp(p) \/ Release(p) \/ Read(p) \/ AddLine(p)
               \/ ReadOld(p) \/ Truncate(p) \/ Write(p) \/ Crash(p)
        PROVE  CountsOK'
    <3>1. UNCHANGED <<calls, waited>>
      BY <2>3 DEF Acquire, GiveUp, Release, Read, AddLine, ReadOld, Truncate, Write, Crash
    <3> QED
      BY <3>1 DEF CountsOK
  <2>4. CASE UNCHANGED vars
    BY <2>4 DEF vars, CountsOK
  <2> QED
    BY <2>1, <2>2, <2>3, <2>4 DEF Next, Step
<1> QED
  BY <1>1, <1>2, PTL DEF Spec

(* What is in the file, and what is read of it, are the names of writers.  *)
LEMMA TextsHold == Spec => []TextsOK
<1>1. Init => TextsOK
  BY DEF Init, TextsOK
<1>2. TextsOK /\ [Next]_vars => TextsOK'
  <2> SUFFICES ASSUME TextsOK, [Next]_vars PROVE TextsOK'
    OBVIOUS
  <2>1. ASSUME NEW p \in Processes, Read(p) PROVE TextsOK'
    BY <2>1 DEF Read, TextsOK
  <2>2. ASSUME NEW p \in Processes, AddLine(p) PROVE TextsOK'
    BY <2>2 DEF AddLine, TextsOK
  <2>3. ASSUME NEW p \in Processes, ReadOld(p) PROVE TextsOK'
    BY <2>3 DEF ReadOld, TextsOK
  <2>4. ASSUME NEW p \in Processes, Truncate(p) PROVE TextsOK'
    BY <2>4 DEF Truncate, TextsOK
  <2>5. ASSUME NEW p \in Processes, Write(p) PROVE TextsOK'
    <3>1. /\ content' = IF p \in Appenders THEN Append(old[p], p) ELSE <<p>>
          /\ UNCHANGED <<before, old, seen>>
      BY <2>5 DEF Write
    <3>2. p \in Appenders => Append(old[p], p) \in Seq(Processes)
      BY DEF TextsOK
    <3>3. <<p>> \in Seq(Processes)
      OBVIOUS
    <3> QED
      BY <3>1, <3>2, <3>3 DEF TextsOK
  <2>6. ASSUME NEW p \in Processes,
               \/ Open(p) \/ Acquire(p) \/ Retry(p) \/ GiveUp(p) \/ Release(p) \/ Crash(p)
        PROVE  TextsOK'
    <3>1. UNCHANGED <<content, old, seen, before>>
      BY <2>6 DEF Open, Acquire, Retry, GiveUp, Release, Crash
    <3> QED
      BY <3>1 DEF TextsOK
  <2>7. CASE UNCHANGED vars
    BY <2>7 DEF vars, TextsOK
  <2> QED
    BY <2>1, <2>2, <2>3, <2>4, <2>5, <2>6, <2>7 DEF Next, Step
<1> QED
  BY <1>1, <1>2, PTL DEF Spec

(* Types, and mutual exclusion: whoever is between its acquire and its     *)
(* release holds the lock.                                                 *)
THEOREM TypeCorrect == Spec => []TypeOK
<1>1. Locked /\ CountsOK /\ TextsOK => TypeOK
  <2> SUFFICES ASSUME Locked, CountsOK, TextsOK PROVE TypeOK
    OBVIOUS
  <2>1. /\ lockFile \in Inodes /\ opened \in [Processes -> Inodes]
        /\ \A p \in Processes : pc[p] \in Inside => holder[opened[p]] = p
    BY Bounds DEF Locked
  <2> QED
    BY <2>1 DEF Locked, CountsOK, TextsOK, TypeOK
<1> QED
  BY <1>1, LockHolds, CountsHold, TextsHold, PTL

-----------------------------------------------------------------------------
(* The refinement                                                          *)

(* What an append has read is still in the file when it truncates it, and  *)
(* the history remembers what the file held.                               *)
TextKept ==
    /\ \A p \in Processes : pc[p] = "ready" => p \in Appenders /\ old[p] = content
    /\ \A p \in Processes :
         pc[p] = "writing" =>
             content = <<>> /\ p \in Writers /\ (p \in Appenders => old[p] = before)

IInv == Locked /\ TextsOK /\ TextKept

(* Steps outside the critical section, and its first, touch no text and    *)
(* write nothing.                                                          *)
Idle(p) == Open(p) \/ Acquire(p) \/ Retry(p) \/ GiveUp(p) \/ Release(p)

LEMMA IdleFacts ==
    ASSUME IInv, NEW p \in Processes, Idle(p)
    PROVE  /\ UNCHANGED <<content, old, seen, before>>
           /\ \A q \in Processes : pc'[q] = "writing" <=> pc[q] = "writing"
           /\ \A q \in Processes : pc'[q] = "ready" <=> pc[q] = "ready"
  BY DEF Idle, Open, Acquire, Retry, GiveUp, Release, GoTo, lockVars, IInv, Locked

(* What a process inside the critical section does there: nobody else is.  *)
LEMMA InsideFacts ==
    ASSUME IInv, NEW p \in Processes, pc[p] \in Inside
    PROVE  \A q \in Processes \ {p} : pc[q] \notin {"ready", "writing"}
  BY Alone DEF IInv, Inside

(* The text an append goes by is not changed under it.                     *)
LEMMA TextKeeps ==
    ASSUME IInv, NEW p \in Processes, Step(p) \/ Open(p) \/ Crash(p)
    PROVE  TextKept'
<1>1. CASE Idle(p)
  BY <1>1, IdleFacts DEF IInv, TextKept
<1>2. CASE Read(p)
  BY <1>2, InsideFacts DEF Read, GoTo, Inside, IInv, Locked, TextKept
<1>3. CASE AddLine(p)
  BY <1>3, InsideFacts DEF AddLine, GoTo, Inside, IInv, Locked, TextKept
<1>4. CASE ReadOld(p)
  BY <1>4, InsideFacts DEF ReadOld, GoTo, Inside, IInv, Locked, TextsOK, TextKept
<1>5. CASE Truncate(p)
  BY <1>5, InsideFacts DEF Truncate, GoTo, Inside, IInv, Locked, TextKept
<1>6. CASE Write(p)
  BY <1>6, InsideFacts DEF Write, GoTo, Inside, IInv, Locked, TextKept
<1>7. CASE Crash(p)
  BY <1>7 DEF Crash, GoTo, IInv, Locked, TextKept
<1> QED
  BY <1>1, <1>2, <1>3, <1>4, <1>5, <1>6, <1>7 DEF Idle, Step

LEMMA TextKeptHolds == Spec => [](Locked /\ TextsOK /\ TextKept)
<1>1. Init => TextKept
  BY DEF Init, TextKept
<1>2. IInv /\ [Next]_vars => TextKept'
  <2> SUFFICES ASSUME IInv, [Next]_vars PROVE TextKept'
    OBVIOUS
  <2>1. CASE UNCHANGED vars
    BY <2>1 DEF vars, IInv, TextKept
  <2> QED
    BY <2>1, TextKeeps DEF Next
<1>3. Locked /\ TextsOK /\ TextKept /\ [Next]_vars => TextKept'
  BY <1>2 DEF IInv
<1> QED
  BY <1>1, <1>3, LockHolds, TextsHold, PTL DEF Spec

(* Every step is a step of the atomic file, or none: an append takes       *)
(* effect when its writing ends, a crash of the writer is the loss.        *)
LEMMA StepAtomic ==
    ASSUME IInv, NEW p \in Processes, Step(p) \/ Open(p) \/ Crash(p)
    PROVE  File!Next \/ UNCHANGED <<Value, seen>>
<1>1. CASE Idle(p)
  BY <1>1, IdleFacts DEF Value
<1>2. CASE Read(p)
  <2>1. ~ \E q \in Processes : pc[q] = "writing" \/ pc'[q] = "writing"
    BY <1>2, InsideFacts DEF Read, GoTo, Inside, IInv, Locked
  <2>2. Value = content /\ Value' = content
    BY <1>2, <2>1 DEF Value, Read
  <2> QED
    BY <1>2, <2>2 DEF Read, File!Next, File!Read
<1>3. CASE AddLine(p)
  <2>1. ~ \E q \in Processes : pc[q] = "writing" \/ pc'[q] = "writing"
    BY <1>3, InsideFacts DEF AddLine, GoTo, Inside, IInv, Locked
  <2>2. Value = content /\ Value' = Append(content, p)
    BY <1>3, <2>1 DEF Value, AddLine
  <2> QED
    BY <1>3, <2>2 DEF AddLine, File!Next, File!AppendEntry
<1>4. CASE ReadOld(p)
  <2>1. \A q \in Processes : pc'[q] = "writing" <=> pc[q] = "writing"
    BY <1>4 DEF ReadOld, GoTo, IInv, Locked
  <2> QED
    BY <1>4, <2>1 DEF Value, ReadOld
<1>5. CASE Truncate(p)
  <2>1. /\ ~ \E q \in Processes : pc[q] = "writing"
        /\ pc'[p] = "writing"
    BY <1>5, InsideFacts DEF Truncate, GoTo, Inside, IInv, Locked
  <2> QED
    BY <1>5, <2>1 DEF Value, Truncate
<1>6. CASE Write(p)
  <2>1. /\ pc[p] = "writing" /\ p \in Writers
        /\ ~ \E q \in Processes : pc'[q] = "writing"
    BY <1>6, InsideFacts DEF Write, GoTo, Inside, IInv, Locked, TextKept
  <2>2. Value = before /\ Value' = content'
    BY <2>1 DEF Value
  <2>3. CASE p \in Appenders
    <3>1. Value' = Append(Value, p)
      BY <1>6, <2>1, <2>2, <2>3 DEF Write, IInv, TextKept
    <3> QED
      BY <1>6, <2>3, <3>1 DEF Write, File!Next, File!AppendEntry
  <2>4. CASE p \notin Appenders
    <3>1. p \in Overwriters /\ Value' = <<p>>
      BY <1>6, <2>1, <2>2, <2>4 DEF Write, Writers
    <3> QED
      BY <1>6, <3>1 DEF Write, File!Next, File!Overwrite
  <2> QED
    BY <2>3, <2>4
<1>7. CASE Crash(p)
  <2>1. CASE pc[p] = "writing"
    <3>1. ~ \E q \in Processes : pc'[q] = "writing"
      BY <1>7, <2>1, InsideFacts DEF Crash, GoTo, Inside, IInv, Locked
    <3>2. Value' = <<>>
      BY <1>7, <2>1, <3>1 DEF Crash, Value, IInv, TextKept
    <3> QED
      BY <1>7, <3>2 DEF Crash, File!Next, File!Lose
  <2>2. CASE pc[p] # "writing"
    <3>1. \A q \in Processes : pc'[q] = "writing" <=> pc[q] = "writing"
      BY <1>7, <2>2 DEF Crash, GoTo, IInv, Locked
    <3> QED
      BY <1>7, <3>1 DEF Value, Crash
  <2> QED
    BY <2>1, <2>2
<1> QED
  BY <1>1, <1>2, <1>3, <1>4, <1>5, <1>6, <1>7 DEF Idle, Step

(* The locked file implements the atomic one, for any sets of processes:   *)
(* no reader sees a truncated file and no appended entry is lost to        *)
(* another writer.                                                         *)
THEOREM AtomicCorrect == Spec => Atomic
<1>1. Init => File!Init
  BY DEF Init, File!Init, Value
<1>2. IInv /\ [Next]_vars => [File!Next]_<<Value, seen>>
  <2> SUFFICES ASSUME IInv, [Next]_vars PROVE [File!Next]_<<Value, seen>>
    OBVIOUS
  <2>1. CASE UNCHANGED vars
    BY <2>1 DEF vars, Value
  <2> QED
    BY <2>1, StepAtomic DEF Next
<1>3. Locked /\ TextsOK /\ TextKept /\ [Next]_vars => [File!Next]_<<Value, seen>>
  BY <1>2 DEF IInv
<1>4. Spec => File!Spec
  BY <1>1, <1>3, TextKeptHolds, PTL DEF Spec, File!Spec
<1> QED
  BY <1>4 DEF Atomic

-----------------------------------------------------------------------------
(* PROGRESS.md                                                             *)

(* A set of numbers that is not empty has a least element.                 *)
LEMMA LeastElement ==
    ASSUME NEW S \in SUBSET Nat, S # {}
    PROVE  Min(S) \in S /\ \A y \in S : Min(S) <= y
<1>1. \E x \in S : \A y \in S : ~ (<<y, x>> \in OpToRel(<, Nat))
  BY NatLessThanWellFounded, WFMin, Zenon
<1>2. PICK x \in S : \A y \in S : ~ (y < x)
  BY <1>1 DEF OpToRel
<1>3. \A y \in S : x =< y
  BY <1>2
<1> QED
  BY <1>3 DEF Min

(* A split: the file is what comes before the first separator that is      *)
(* found, that separator, and what comes after.                            *)
LEMMA SplitAtFirst ==
    ASSUME NEW f \in Seq(Blocks), Found(f) # {}
    PROVE  \E m \in 2 .. Len(f) :
              /\ f[m] \in Separator /\ \A i \in 2 .. m - 1 : f[i] \notin Separator
              /\ Before(f) \in Seq(Blocks) /\ Len(Before(f)) = m - 1
              /\ \A i \in 1 .. m - 1 : Before(f)[i] = f[i]
              /\ After(f) \in Seq(Blocks) /\ Len(After(f)) = Len(f) - m
              /\ \A i \in 1 .. Len(f) - m : After(f)[i] = f[m + i]
<1> DEFINE m == Min(Found(f))
<1>1. Found(f) \in SUBSET Nat
  BY DEF Found, Places
<1>2. m \in Found(f) /\ \A i \in Found(f) : m <= i
  BY <1>1, LeastElement
<1>3. m \in 2 .. Len(f) /\ f[m] \in Separator /\ \A i \in 2 .. m - 1 : f[i] \notin Separator
  <2> HIDE DEF m
  <2>1. DOMAIN f = 1 .. Len(f)
    OBVIOUS
  <2>2. m \in 2 .. Len(f) /\ f[m] \in Separator
    BY <1>2, <2>1 DEF Found, Places
  <2>3. ASSUME NEW i \in 2 .. m - 1, f[i] \in Separator PROVE FALSE
    <3>1. i \in Found(f)
      BY <2>1, <2>2, <2>3 DEF Found, Places
    <3> QED
      BY <1>2, <2>2, <3>1
  <2> QED
    BY <2>2, <2>3
<1>4. Before(f) = SubSeq(f, 1, m - 1) /\ After(f) = SubSeq(f, m + 1, Len(f))
  BY DEF Before, After
<1> HIDE DEF m
<1>5. \A i \in 1 .. Len(f) : f[i] \in Blocks
  OBVIOUS
<1>6. /\ Before(f) \in Seq(Blocks) /\ Len(Before(f)) = m - 1
      /\ \A i \in 1 .. m - 1 : Before(f)[i] = f[i]
  BY <1>3, <1>4, <1>5
<1>7. /\ After(f) \in Seq(Blocks) /\ Len(After(f)) = Len(f) - m
      /\ \A i \in 1 .. Len(f) - m : After(f)[i] = f[m + i]
  BY <1>3, <1>4, <1>5
<1> QED
  BY <1>3, <1>6, <1>7

(* Where none is found, everything is before it.                           *)
LEMMA NothingToSplit ==
    ASSUME NEW f \in Seq(Blocks), Found(f) = {}
    PROVE  /\ Before(f) = f /\ After(f) = <<>>
           /\ \A i \in 2 .. Len(f) : f[i] \notin Separator
<1>1. Before(f) = f /\ After(f) = <<>>
  BY DEF Before, After
<1>2. \A i \in DOMAIN f : i # 1 => f[i] \notin Separator
  BY DEF Found, Places
<1> QED
  BY <1>1, <1>2

(* Both cases: what the two sides are made of.                             *)
LEMMA SidesType ==
    ASSUME NEW f \in Seq(Blocks)
    PROVE  /\ Before(f) \in Seq(Blocks) /\ After(f) \in Seq(Blocks)
           /\ \A i \in 2 .. Len(Before(f)) : Before(f)[i] \notin Separator
<1>1. CASE Found(f) # {}
  BY <1>1, SplitAtFirst
<1>2. CASE Found(f) = {}
  <2>1. Before(f) = f /\ After(f) = <<>> /\ \A i \in 2 .. Len(f) : f[i] \notin Separator
    BY <1>2, NothingToSplit
  <2> QED
    BY <2>1
<1> QED
  BY <1>1, <1>2

(* A file put together around a separator: a separator is found in it, ... *)
LEMMA Joined ==
    ASSUME NEW h \in Seq(Blocks), NEW r \in Seq(Blocks), Len(h) >= 1
    PROVE  LET g == h \o <<"separator">> \o r
           IN  /\ g \in Seq(Blocks) /\ Len(g) = Len(h) + 1 + Len(r)
               /\ \A i \in 1 .. Len(h) : g[i] = h[i]
               /\ g[Len(h) + 1] = "separator"
               /\ \A i \in 1 .. Len(r) : g[Len(h) + 1 + i] = r[i]
               /\ Found(g) # {}
<1> DEFINE g == h \o <<"separator">> \o r
<1>1. /\ g \in Seq(Blocks) /\ Len(g) = Len(h) + 1 + Len(r)
      /\ \A i \in 1 .. Len(h) : g[i] = h[i]
      /\ g[Len(h) + 1] = "separator"
      /\ \A i \in 1 .. Len(r) : g[Len(h) + 1 + i] = r[i]
  BY DEF Blocks, Separator
<1> HIDE DEF g
<1>2. Len(h) + 1 \in DOMAIN g /\ Len(h) + 1 # 1
  BY <1>1
<1>3. Len(h) + 1 \in Found(g)
  BY <1>1, <1>2 DEF Found, Places, Separator
<1> QED
  BY <1>1, <1>3 DEF g

(* ... and it comes apart there, when no other one comes before.           *)
LEMMA SplitOfJoin ==
    ASSUME NEW h \in Seq(Blocks), NEW r \in Seq(Blocks), Len(h) >= 1,
           \A i \in 2 .. Len(h) : h[i] \notin Separator
    PROVE  LET g == h \o <<"separator">> \o r IN Before(g) = h /\ After(g) = r
<1> DEFINE g == h \o <<"separator">> \o r
<1>1. /\ g \in Seq(Blocks) /\ Len(g) = Len(h) + 1 + Len(r)
      /\ \A i \in 1 .. Len(h) : g[i] = h[i]
      /\ g[Len(h) + 1] = "separator"
      /\ \A i \in 1 .. Len(r) : g[Len(h) + 1 + i] = r[i]
      /\ Found(g) # {}
  BY Joined
<1> HIDE DEF g
<1>3. PICK m \in 2 .. Len(g) :
              /\ g[m] \in Separator /\ \A i \in 2 .. m - 1 : g[i] \notin Separator
              /\ Before(g) \in Seq(Blocks) /\ Len(Before(g)) = m - 1
              /\ \A i \in 1 .. m - 1 : Before(g)[i] = g[i]
              /\ After(g) \in Seq(Blocks) /\ Len(After(g)) = Len(g) - m
              /\ \A i \in 1 .. Len(g) - m : After(g)[i] = g[m + i]
  BY <1>1, SplitAtFirst
<1>4. m = Len(h) + 1
  <2>1. ~ (m > Len(h) + 1)
    BY <1>1, <1>3 DEF Separator
  <2>2. ~ (m < Len(h) + 1)
    <3> SUFFICES ASSUME m < Len(h) + 1 PROVE FALSE
      OBVIOUS
    <3>1. m \in 2 .. Len(h)
      BY <1>1
    <3>2. g[m] = h[m] /\ g[m] \in Separator
      BY <1>1, <1>3, <3>1
    <3> QED
      BY <3>1, <3>2
  <2> QED
    BY <2>1, <2>2, <1>3
<1>5. Before(g) = h
  BY <1>1, <1>3, <1>4, SeqEqual
<1>6. After(g) = r
  BY <1>1, <1>3, <1>4, SeqEqual
<1> QED
  BY <1>5, <1>6 DEF g


-----------------------------------------------------------------------------
(* What the agent and the loop write                                       *)

LEMMA ErasedType ==
    ASSUME NEW f \in Seq(Blocks), NEW i \in DOMAIN f
    PROVE  RemoveAt(f, i) \in Seq(Blocks)
<1>1. \A j \in 1 .. Len(f) : f[j] \in Blocks
  OBVIOUS
<1>2. SubSeq(f, 1, i - 1) \in Seq(Blocks) /\ SubSeq(f, i + 1, Len(f)) \in Seq(Blocks)
  BY <1>1
<1> QED
  BY <1>2 DEF RemoveAt

LEMMA InsertedType ==
    ASSUME NEW f \in Seq(Blocks), NEW i \in 1 .. Len(f) + 1, NEW b \in Blocks
    PROVE  InsertAt(f, i, b) \in Seq(Blocks)
<1>1. \A j \in 1 .. Len(f) : f[j] \in Blocks
  OBVIOUS
<1>2. SubSeq(f, 1, i - 1) \in Seq(Blocks) /\ SubSeq(f, i, Len(f)) \in Seq(Blocks)
  BY <1>1
<1> QED
  BY <1>2 DEF InsertAt

LEMMA CompletedFacts ==
    ASSUME NEW rest \in Seq(Blocks)
    PROVE  /\ Completed(rest) \in Seq(Blocks) /\ Len(rest) <= Len(Completed(rest))
           /\ \A i \in 1 .. Len(rest) : Completed(rest)[i] = rest[i]
           /\ \E i \in 1 .. Len(Completed(rest)) : Completed(rest)[i] \in Architecture
<1>1. CASE Has(rest, Architecture)
  BY <1>1 DEF Completed, Has, Places
<1>2. CASE ~Has(rest, Architecture)
  <2>1. Completed(rest) = Append(rest, "placeholder")
    BY <1>2 DEF Completed
  <2>2. "placeholder" \in Blocks /\ "placeholder" \in Architecture
    BY DEF Blocks, Headers, Architecture
  <2>3. Completed(rest)[Len(rest) + 1] = "placeholder" /\ Len(Completed(rest)) = Len(rest) + 1
    BY <2>1, <2>2
  <2> QED
    BY <2>1, <2>2, <2>3
<1> QED
  BY <1>1, <1>2

(* A rebuilt file is valid, and the old one is in it.                      *)
LEMMA RebuiltFacts ==
    ASSUME NEW f \in Seq(Blocks)
    PROVE  Rebuilt(f) \in Seq(Blocks) /\ Valid(Rebuilt(f)) /\ Within(f, Rebuilt(f))
<1> DEFINE header == Before(f)
           rest == After(f)
           shift == IF Titled(header) THEN 0 ELSE 1
           h == IF Titled(header) THEN header ELSE <<"title">> \o header
           r == Completed(rest)
           g == h \o <<"separator">> \o r
<1>1. header \in Seq(Blocks) /\ rest \in Seq(Blocks)
  BY SidesType
<1>2. /\ h \in Seq(Blocks) /\ Len(h) = shift + Len(header) /\ shift \in {0, 1} /\ Len(h) >= 1
      /\ \A i \in 1 .. Len(header) : h[shift + i] = header[i]
  <2> HIDE DEF header
  <2>1. CASE Titled(header)
    BY <1>1, <2>1 DEF Titled
  <2>2. CASE ~Titled(header)
    <3>1. h = <<"title">> \o header /\ shift = 1 /\ "title" \in Blocks
      BY <2>2 DEF Blocks
    <3> QED
      BY <1>1, <3>1
  <2> QED
    BY <2>1, <2>2
<1>3. /\ r \in Seq(Blocks) /\ Len(rest) <= Len(r)
      /\ \A i \in 1 .. Len(rest) : r[i] = rest[i]
      /\ \E i \in 1 .. Len(r) : r[i] \in Architecture
  BY <1>1, CompletedFacts
<1>4. Rebuilt(f) = g
  BY DEF Rebuilt
<1> HIDE DEF header, rest, h, shift, r
<1>5. /\ g \in Seq(Blocks) /\ Len(g) = Len(h) + 1 + Len(r)
      /\ \A i \in 1 .. Len(h) : g[i] = h[i]
      /\ g[Len(h) + 1] = "separator"
      /\ \A i \in 1 .. Len(r) : g[Len(h) + 1 + i] = r[i]
      /\ Found(g) # {}
  BY <1>2, <1>3, Joined
<1> HIDE DEF g
<1>6. Has(g, Architecture)
  <2>1. PICK i \in 1 .. Len(r) : r[i] \in Architecture
    BY <1>3
  <2>2. Len(h) + 1 + i \in DOMAIN g /\ g[Len(h) + 1 + i] \in Architecture
    BY <1>2, <1>3, <1>5, <2>1
  <2> QED
    BY <2>2 DEF Has, Places
<1>7. Within(f, g)
  <2>1. CASE Found(f) # {}
    <3>1. PICK m \in 2 .. Len(f) :
              /\ f[m] \in Separator
              /\ Len(header) = m - 1
              /\ \A i \in 1 .. m - 1 : header[i] = f[i]
              /\ Len(rest) = Len(f) - m
              /\ \A i \in 1 .. Len(f) - m : rest[i] = f[m + i]
      BY <2>1, SplitAtFirst DEF header, rest
    <3>2. Len(g) - Len(f) \in Nat /\ shift <= Len(g) - Len(f) /\ Len(h) = shift + m - 1
      BY <1>1, <1>2, <1>3, <1>5, <3>1
    <3>3. ASSUME NEW i \in 1 .. Len(f) PROVE g[shift + i] = f[i]
      <4>1. CASE i < m
        <5>1. i \in 1 .. Len(header) /\ shift + i \in 1 .. Len(h)
          BY <1>2, <3>1, <3>2, <4>1
        <5> QED
          BY <1>2, <1>5, <3>1, <4>1, <5>1
      <4>2. CASE i = m
        BY <1>2, <1>5, <3>1, <3>2, <4>2 DEF Separator
      <4>3. CASE i > m
        <5>1. i - m \in 1 .. Len(rest) /\ i - m \in 1 .. Len(r) /\ Len(h) + 1 + (i - m) = shift + i
              /\ m + (i - m) = i
          BY <1>1, <1>2, <1>3, <3>1, <3>2, <4>3
        <5>2. g[Len(h) + 1 + (i - m)] = r[i - m] /\ r[i - m] = rest[i - m] /\ rest[i - m] = f[m + (i - m)]
          BY <1>3, <1>5, <3>1, <5>1
        <5> QED
          BY <5>1, <5>2
      <4> QED
        BY <3>1, <4>1, <4>2, <4>3
    <3>4. shift \in 0 .. Len(g) - Len(f) /\ DOMAIN f = 1 .. Len(f)
      BY <1>2, <3>2
    <3> QED
      BY <3>3, <3>4 DEF Within
  <2>2. CASE Found(f) = {}
    <3>1. header = f
      BY <2>2, NothingToSplit DEF header
    <3>2. shift \in 0 .. Len(g) - Len(f) /\ DOMAIN f = 1 .. Len(f)
      BY <1>2, <1>3, <1>5, <3>1
    <3>3. ASSUME NEW i \in 1 .. Len(f) PROVE g[shift + i] = f[i]
      <4>1. shift + i \in 1 .. Len(h)
        BY <1>2, <3>1
      <4> QED
        BY <1>2, <1>5, <3>1, <4>1
    <3> QED
      BY <3>2, <3>3 DEF Within
  <2> QED
    BY <2>1, <2>2
<1> QED
  BY <1>4, <1>5, <1>6, <1>7 DEF Valid

(* The blocks of the first entry: none is a header but the first of them.  *)
LEMMA FirstGroupFacts ==
    ASSUME NEW body \in Seq(Blocks)
    PROVE  /\ FirstGroup(body) \in Seq(Blocks) /\ Len(FirstGroup(body)) <= Len(body)
           /\ \A i \in 1 .. Len(FirstGroup(body)) :
                 FirstGroup(body)[i] = body[i] /\ (i # 1 => body[i] \notin Headers)
<1> DEFINE later == Places(body, Headers) \ {1}
<1>0. DOMAIN body = 1 .. Len(body) /\ \A i \in 1 .. Len(body) : body[i] \in Blocks
  OBVIOUS
<1>9. \A i \in later : i \in 2 .. Len(body)
  BY <1>0 DEF Places
<1>8. \A i \in 2 .. Len(body) : i \notin later => body[i] \notin Headers
  BY <1>0 DEF Places
<1>1. CASE later = {}
  <2>1. FirstGroup(body) = body
    BY <1>1 DEF FirstGroup
  <2>2. \A i \in 1 .. Len(body) : i # 1 => body[i] \notin Headers
    BY <1>1, <1>8
  <2> QED
    BY <2>1, <2>2
<1>2. CASE later # {}
  <2> DEFINE m == Min(later)
  <2>1. FirstGroup(body) = SubSeq(body, 1, m - 1)
    BY <1>2 DEF FirstGroup
  <2> HIDE DEF later
  <2>2. later \in SUBSET Nat
    BY <1>9
  <2>3. m \in later /\ \A i \in later : m <= i
    BY <1>2, <2>2, LeastElement
  <2> HIDE DEF m
  <2>4. m \in 2 .. Len(body)
    BY <1>9, <2>3
  <2>5. /\ FirstGroup(body) \in Seq(Blocks) /\ Len(FirstGroup(body)) = m - 1
        /\ \A i \in 1 .. m - 1 : FirstGroup(body)[i] = body[i]
    BY <1>0, <2>1, <2>4
  <2>6. ASSUME NEW i \in 1 .. m - 1, i # 1 PROVE body[i] \notin Headers
    <3>1. i \notin later /\ i \in 2 .. Len(body)
      BY <2>3, <2>4, <2>6
    <3> QED
      BY <1>8, <3>1
  <2> QED
    BY <2>4, <2>5, <2>6
<1> QED
  BY <1>1, <1>2

(* What an update keeps of the part before the separator.                  *)
LEMMA PreviousFacts ==
    ASSUME NEW f \in Seq(Blocks)
    PROVE  /\ Previous(f) \in Seq(Blocks)
           /\ \A i \in 1 .. Len(Previous(f)) :
                 Previous(f)[i] \notin Separator /\ (i # 1 => Previous(f)[i] \notin Headers)
<1> DEFINE header == Before(f)
           body == IF Titled(header) THEN Tail(header) ELSE header
           group == FirstGroup(body)
<1>1. header \in Seq(Blocks) /\ \A i \in 2 .. Len(header) : header[i] \notin Separator
  BY SidesType
<1>2. body \in Seq(Blocks) /\ \A i \in 2 .. Len(body) : body[i] \notin Separator
  <2> HIDE DEF header
  <2>1. CASE Titled(header)
    <3>1. header # <<>>
      BY <2>1 DEF Titled
    <3>2. /\ body \in Seq(Blocks) /\ Len(body) = Len(header) - 1
          /\ \A i \in 1 .. Len(body) : body[i] = header[i + 1]
      BY <1>1, <2>1, <3>1
    <3> QED
      BY <1>1, <3>2
  <2>2. CASE ~Titled(header)
    BY <1>1, <2>2
  <2> QED
    BY <2>1, <2>2
<1>3. /\ group \in Seq(Blocks) /\ Len(group) <= Len(body)
      /\ \A i \in 1 .. Len(group) : group[i] = body[i] /\ (i # 1 => body[i] \notin Headers)
  BY <1>2, FirstGroupFacts
<1>4. Previous(f) = Relabelled(group)
  BY DEF Previous
<1> HIDE DEF header, body, group
<1>5. \A i \in 2 .. Len(group) : group[i] \notin Separator \cup Headers
  BY <1>2, <1>3
<1>6. "entry" \in Blocks /\ {"entry", "report"} \cap Separator = {} /\ "entry" \notin Separator
  BY DEF Blocks, Headers, Separator
<1>7. CASE group = <<>> \/ group[1] \in {"entry", "report"}
  <2>1. Previous(f) = group
    BY <1>4, <1>7 DEF Relabelled
  <2>2. ASSUME NEW i \in 1 .. Len(group)
        PROVE  group[i] \notin Separator /\ (i # 1 => group[i] \notin Headers)
    <3>1. CASE i = 1
      BY <1>6, <1>7, <2>2, <3>1
    <3>2. CASE i # 1
      BY <1>3, <1>5, <3>2
    <3> QED
      BY <3>1, <3>2
  <2> QED
    BY <1>3, <2>1, <2>2
<1>8. CASE group # <<>> /\ group[1] \notin {"entry", "report"} /\ group[1] \in Headers \cup Separator
  <2>1. Previous(f) = [group EXCEPT ![1] = "entry"]
    BY <1>4, <1>8 DEF Relabelled
  <2>2. /\ Previous(f) \in Seq(Blocks) /\ Len(Previous(f)) = Len(group)
        /\ \A i \in 1 .. Len(group) : Previous(f)[i] = IF i = 1 THEN "entry" ELSE group[i]
    <3>1. DOMAIN group = 1 .. Len(group) /\ Len(group) \in Nat
          /\ \A i \in 1 .. Len(group) : group[i] \in Blocks
      BY <1>3
    <3>2. Previous(f) = [i \in 1 .. Len(group) |-> IF i = 1 THEN "entry" ELSE group[i]]
      BY <2>1, <3>1
    <3> QED
      BY <1>6, <3>1, <3>2
  <2>3. \A i \in 1 .. Len(group) : i # 1 => i \in 2 .. Len(group)
    BY <1>3
  <2> QED
    BY <1>5, <1>6, <2>2, <2>3
<1>9. CASE group # <<>> /\ group[1] \notin Headers \cup Separator
  <2>1. Previous(f) = <<"entry">> \o group
    BY <1>4, <1>9 DEF Relabelled, Headers
  <2>2. /\ Previous(f) \in Seq(Blocks) /\ Len(Previous(f)) = 1 + Len(group)
        /\ Previous(f)[1] = "entry"
        /\ \A i \in 1 .. Len(group) : Previous(f)[1 + i] = group[i]
    BY <1>3, <1>6, <2>1
  <2>3. ASSUME NEW i \in 1 .. Len(group) PROVE group[i] \notin Separator \cup Headers
    <3>1. CASE i = 1
      BY <1>9, <3>1
    <3>2. CASE i # 1
      BY <1>3, <1>5, <3>2
    <3> QED
      BY <3>1, <3>2
  <2>4. ASSUME NEW i \in 1 .. Len(Previous(f))
        PROVE  Previous(f)[i] \notin Separator /\ (i # 1 => Previous(f)[i] \notin Headers)
    <3>1. CASE i = 1
      BY <1>6, <2>2, <3>1
    <3>2. CASE i # 1
      <4>1. i - 1 \in 1 .. Len(group) /\ 1 + (i - 1) = i
        BY <1>3, <2>2, <3>2
      <4>2. Previous(f)[i] = group[i - 1]
        BY <2>2, <4>1
      <4> QED
        BY <2>3, <4>1, <4>2
    <3> QED
      BY <3>1, <3>2
  <2> QED
    BY <2>2, <2>4
<1> QED
  BY <1>7, <1>8, <1>9

(* What follows the separator of a file in order is after a separator.     *)
LEMMA InOrder ==
    ASSUME NEW f \in Seq(Blocks), WellFormed(f)
    PROVE  Found(f) # {}
<1> SUFFICES ASSUME Found(f) = {} PROVE FALSE
  OBVIOUS
<1>1. After(f) = <<>>
  BY NothingToSplit
<1> QED
  BY <1>1 DEF WellFormed, Has, Places

(* An updated file in order: its parts.                                    *)
LEMMA UpdatedFacts ==
    ASSUME NEW f \in Seq(Blocks), Found(f) # {}
    PROVE  /\ Updated(f) \in Seq(Blocks)
           /\ Titled(Updated(f)) /\ Updated(f)[2] = "report"
           /\ After(Updated(f)) = After(f)
           /\ Cardinality(Places(Before(Updated(f)), Headers)) <= 2
<1> DEFINE h == <<"title", "report">> \o Previous(f)
           r == After(f)
           g == h \o <<"separator">> \o r
<1>1. Updated(f) = g
  BY DEF Updated, NextTask
<1>2. r \in Seq(Blocks)
  BY SidesType
<1>3. /\ Previous(f) \in Seq(Blocks)
      /\ \A i \in 1 .. Len(Previous(f)) :
            Previous(f)[i] \notin Separator /\ (i # 1 => Previous(f)[i] \notin Headers)
  BY PreviousFacts
<1>4. /\ h \in Seq(Blocks) /\ Len(h) = 2 + Len(Previous(f)) /\ h[1] = "title" /\ h[2] = "report"
      /\ \A i \in 1 .. Len(Previous(f)) : h[2 + i] = Previous(f)[i]
  BY <1>3 DEF Blocks, Headers
<1>5. ASSUME NEW i \in 1 .. Len(h)
      PROVE  h[i] \notin Separator /\ (i \notin {2, 3} => h[i] \notin Headers)
  <2>1. CASE i \in {1, 2}
    BY <1>4, <2>1 DEF Headers, Architecture, Separator
  <2>2. CASE i \notin {1, 2}
    <3>1. i - 2 \in 1 .. Len(Previous(f)) /\ 2 + (i - 2) = i /\ (i # 3 => i - 2 # 1)
      BY <1>3, <1>4, <2>2
    <3> QED
      BY <1>3, <1>4, <3>1
  <2> QED
    BY <2>1, <2>2
<1> HIDE DEF h, r
<1>6. /\ g \in Seq(Blocks) /\ \A i \in 1 .. Len(h) : g[i] = h[i]
      /\ Len(g) = Len(h) + 1 + Len(r)
      /\ Before(g) = h /\ After(g) = r
  <2>1. Len(h) >= 1 /\ \A i \in 2 .. Len(h) : h[i] \notin Separator
    BY <1>3, <1>4, <1>5
  <2> QED
    BY <1>2, <1>4, <2>1, Joined, SplitOfJoin
<1> HIDE DEF g
<1>7. Titled(g) /\ g[2] = "report"
  BY <1>2, <1>3, <1>4, <1>6 DEF Titled
<1>8. Cardinality(Places(h, Headers)) <= 2
  <2>1. Places(h, Headers) \subseteq 2 .. 3
    BY <1>4, <1>5 DEF Places
  <2>2. IsFiniteSet(2 .. 3) /\ Cardinality(2 .. 3) = 2
    <3>1. \A a, b \in Int : IsFiniteSet(a .. b) /\ (a <= b => Cardinality(a .. b) = b - a + 1)
      BY FS_Interval
    <3>2. PICK a \in Int, b \in Int : a = 2 /\ b = 3
      OBVIOUS
    <3>3. IsFiniteSet(a .. b) /\ Cardinality(a .. b) = b - a + 1
      <4>1. a <= b
        BY <3>2
      <4> QED
        BY <3>1, <4>1, Zenon
    <3> QED
      BY <3>2, <3>3
  <2> QED
    BY <2>1, <2>2, FS_Subset
<1> QED
  BY <1>1, <1>6, <1>7, <1>8 DEF r

LEMMA UpdatedType ==
    ASSUME NEW f \in Seq(Blocks)
    PROVE  Updated(f) \in Seq(Blocks)
<1>1. CASE Found(f) # {}
  BY <1>1, UpdatedFacts
<1>2. CASE Found(f) = {}
  <2>1. After(f) \in Seq(Blocks)
    BY SidesType
  <2>2. Updated(f) = <<"title", "report">> \o <<>> \o <<"separator">> \o After(f)
    BY <1>2 DEF Updated, NextTask
  <2>3. /\ <<"title", "report">> \in Seq(Blocks) /\ <<"separator">> \in Seq(Blocks)
        /\ <<>> \in Seq(Blocks)
    BY DEF Blocks, Headers, Separator
  <2> QED
    BY <2>1, <2>2, <2>3
<1> QED
  BY <1>1, <1>2

(* PROGRESS.md is always a sequence of blocks.                             *)
FileOK == file \in Seq(Blocks)

LEMMA FileType == ProgressSpec => []FileOK
<1>1. ProgressInit => FileOK
  BY DEF FileOK, ProgressInit, Template, Blocks, Headers, Architecture, Separator
<1>2. FileOK /\ [ProgressNext]_file => FileOK'
  BY ErasedType, InsertedType, RebuiltFacts, UpdatedType
     DEF FileOK, ProgressNext, Erase, Insert, Repair, Update
<1> QED
  BY <1>1, <1>2, PTL DEF ProgressSpec

(* repair_progress: whatever the agent made of PROGRESS.md, the repaired   *)
(* file is valid and contains the old one in one piece.                    *)
THEOREM RepairCorrect == ProgressSpec => RepairSound
<1>1. FileOK /\ Repair => Valid(file') /\ Within(file, file')
  <2> SUFFICES ASSUME FileOK, Repair PROVE Valid(file') /\ Within(file, file')
    OBVIOUS
  <2> USE DEF FileOK
  <2>1. CASE Valid(file)
    <3>1. file' = file
      BY <2>1 DEF Repair
    <3>2. Within(file, file)
      <4>1. 0 \in 0 .. Len(file) - Len(file) /\ \A i \in DOMAIN file : file[0 + i] = file[i]
        OBVIOUS
      <4> QED
        BY <4>1 DEF Within
    <3> QED
      BY <2>1, <3>1, <3>2
  <2>2. CASE ~Valid(file)
    BY <2>2, RebuiltFacts DEF Repair
  <2> QED
    BY <2>1, <2>2
<1> QED
  BY <1>1, FileType, PTL DEF ProgressSpec, RepairSound

(* update_progress: of a file in order it keeps all that follows the       *)
(* separator, the new entry and one of the old ones, in order.             *)
THEOREM UpdateCorrect == ProgressSpec => UpdateKeeps
<1>1. FileOK /\ Update /\ WellFormed(file) =>
         /\ WellFormed(file')
         /\ file'[2] = "report"
         /\ Cardinality(Places(Before(file'), Headers)) <= 2
         /\ After(file') = After(file)
  BY InOrder, UpdatedFacts DEF FileOK, Update, WellFormed
<1> QED
  BY <1>1, FileType, PTL DEF ProgressSpec, UpdateKeeps

=============================================================================
