------------------------------ MODULE StateFile ------------------------------
(***************************************************************************)
(* One state file, and processes that read, extend and replace it under    *)
(* file_lock: read_state, append_state, write_state, the journal's         *)
(* append_entry.                                                           *)
(*                                                                         *)
(* The lock is an advisory one, flock on the inode of a file next to the   *)
(* state file; the kernel gives it back when its holder dies.  A write     *)
(* first truncates the file.  What a process does is cut at each system    *)
(* call.                                                                   *)
(***************************************************************************)
EXTENDS Naturals, Sequences

CONSTANTS
    Readers, Appenders, Overwriters,
    Journalers,  \* append_entry: one write at the end, without reading
    Prompt,      \* the process whose progress is considered
    Patience,    \* attempts before TimeoutError (timeout / 0.05 s)
    MaxCalls     \* bound of the model: calls ever made

Writers == Appenders \cup Overwriters
Processes == Readers \cup Writers \cup Journalers
Nobody == "nobody"

ASSUME StateFileAssumption ==
    /\ Nobody \notin Processes
    /\ Prompt \in Processes
    /\ Patience \in Nat /\ MaxCalls \in Nat
    /\ Readers \cap (Writers \cup Journalers) = {}
    /\ Appenders \cap (Overwriters \cup Journalers) = {}
    /\ Overwriters \cap Journalers = {}

VARIABLES
    content,  \* the file: the entries in it, each the name of its author
    lockFile, \* the inode the name of the lock file leads to
    opened,   \* the inode each process has opened
    holder,   \* who has the lock of each inode
    pc,       \* the point each process has reached in its call
    waited,   \* attempts made so far
    old,      \* what an append has read
    seen,     \* what each reader has got
    before,   \* history: what the file held when it was truncated
    calls     \* calls made so far

lockVars == <<lockFile, opened, holder>>
vars == <<content, lockVars, pc, waited, old, seen, before, calls>>

Inodes == 1 .. MaxCalls + 1

Init ==
    /\ content = <<>> /\ before = <<>> /\ calls = 0
    /\ lockFile = 1
    /\ opened = [p \in Processes |-> 1]
    /\ holder = [i \in Inodes |-> Nobody]
    /\ pc = [p \in Processes |-> "idle"]
    /\ waited = [p \in Processes |-> 0]
    /\ old = [p \in Appenders |-> <<>>]
    /\ seen = [p \in Readers |-> <<>>]

GoTo(p, point) == pc' = [pc EXCEPT ![p] = point]

-----------------------------------------------------------------------------
(* acquire_lock and release_lock                                           *)

(* os.open: the lock file is created if it is missing.                     *)
Open(p) ==
    /\ pc[p] = "idle" /\ calls < MaxCalls
    /\ calls' = calls + 1
    /\ opened' = [opened EXCEPT ![p] = lockFile]
    /\ waited' = [waited EXCEPT ![p] = 0]
    /\ GoTo(p, "trying")
    /\ UNCHANGED <<content, lockFile, holder, old, seen, before>>

\* Fault: a lock somebody holds is taken from him.
AlwaysFree(i) == TRUE

Free(i) == holder[i] = Nobody

Acquire(p) ==
    /\ pc[p] = "trying"
    /\ Free(opened[p])
    /\ holder' = [holder EXCEPT ![opened[p]] = p]
    /\ GoTo(p, "locked")
    /\ UNCHANGED <<content, lockFile, opened, waited, old, seen, before, calls>>

\* Fault: the deadline is forgotten.
NeverLate(p) == FALSE

Late(p) == waited[p] >= Patience

Retry(p) ==
    /\ pc[p] = "trying"
    /\ ~Free(opened[p]) /\ waited[p] < Patience
    /\ waited' = [waited EXCEPT ![p] = @ + 1]
    /\ UNCHANGED <<content, lockVars, pc, old, seen, before, calls>>

(* TimeoutError.                                                           *)
GiveUp(p) ==
    /\ pc[p] = "trying"
    /\ ~Free(opened[p]) /\ Late(p)
    /\ GoTo(p, "idle")
    /\ UNCHANGED <<content, lockVars, waited, old, seen, before, calls>>

\* Fault: the lock file is removed after use.
Removed(i) == i + 1

(* "Le fichier de verrou n'est jamais supprime apres usage".               *)
LockFileAfter(i) == i

Freed(p) == [i \in Inodes |-> IF holder[i] = p THEN Nobody ELSE holder[i]]

Release(p) ==
    /\ pc[p] = "release"
    /\ holder' = Freed(p)
    /\ lockFile' = LockFileAfter(lockFile)
    /\ GoTo(p, "idle")
    /\ UNCHANGED <<content, opened, waited, old, seen, before, calls>>

-----------------------------------------------------------------------------
(* What the calls do under the lock                                        *)

Read(p) ==
    /\ pc[p] = "locked" /\ p \in Readers
    /\ seen' = [seen EXCEPT ![p] = content]
    /\ GoTo(p, "release")
    /\ UNCHANGED <<content, lockVars, waited, old, before, calls>>

AddLine(p) ==
    /\ pc[p] = "locked" /\ p \in Journalers
    /\ content' = Append(content, p)
    /\ GoTo(p, "release")
    /\ UNCHANGED <<lockVars, waited, old, seen, before, calls>>

ReadOld(p) ==
    /\ pc[p] = "locked" /\ p \in Appenders
    /\ old' = [old EXCEPT ![p] = content]
    /\ GoTo(p, "ready")
    /\ UNCHANGED <<content, lockVars, waited, seen, before, calls>>

(* write_text opens the file, which empties it, and writes it ...          *)
Truncate(p) ==
    /\ pc[p] = IF p \in Appenders THEN "ready" ELSE "locked"
    /\ p \in Writers
    /\ before' = content
    /\ content' = <<>>
    /\ GoTo(p, "writing")
    /\ UNCHANGED <<lockVars, waited, old, seen, calls>>

(* ... with the entry alone, or after what was there.                      *)
Write(p) ==
    /\ pc[p] = "writing"
    /\ content' = IF p \in Appenders THEN Append(old[p], p) ELSE <<p>>
    /\ GoTo(p, "release")
    /\ UNCHANGED <<lockVars, waited, old, seen, before, calls>>

(* The process dies; the kernel takes its lock back.                       *)
Crash(p) ==
    /\ pc[p] # "dead"
    /\ GoTo(p, "dead")
    /\ holder' = Freed(p)
    /\ UNCHANGED <<content, lockFile, opened, waited, old, seen, before, calls>>

-----------------------------------------------------------------------------

Step(p) ==
    \/ Acquire(p) \/ Retry(p) \/ GiveUp(p) \/ Release(p)
    \/ Read(p) \/ AddLine(p) \/ ReadOld(p) \/ Truncate(p) \/ Write(p)

Next == \E p \in Processes : Open(p) \/ Step(p) \/ Crash(p)

Spec == Init /\ [][Next]_vars

(* One process goes on with its calls; the others may stop anywhere, with  *)
(* the lock or without.                                                    *)
FairSpec == Spec /\ WF_vars(Step(Prompt))

-----------------------------------------------------------------------------

Inside == {"locked", "ready", "writing", "release"}

(* Type correctness; a process in its critical section has the lock.       *)
TypeOK ==
    /\ content \in Seq(Processes) /\ before \in Seq(Processes)
    /\ calls \in 0 .. MaxCalls
    /\ lockFile \in Inodes /\ opened \in [Processes -> Inodes]
    /\ holder \in [Inodes -> Processes \cup {Nobody}]
    /\ pc \in [Processes -> Inside \cup {"idle", "trying", "dead"}]
    /\ waited \in [Processes -> 0 .. Patience]
    /\ old \in [Appenders -> Seq(Processes)] /\ seen \in [Readers -> Seq(Processes)]
    /\ \A p \in Processes : pc[p] \in Inside => holder[opened[p]] = p

(* A truncated file counts as what it held until its writer is through.    *)
Value ==
    IF \E p \in Processes : pc[p] = "writing" THEN before ELSE content

File == INSTANCE AtomicFile WITH
    value <- Value,
    Appenders <- Appenders \cup Journalers

(* Reads, appends and overwrites take effect one by one, whatever the      *)
(* interleaving: no reader sees a truncated file, no entry appended is     *)
(* lost to another writer -- unless a writer dies in its write.            *)
Atomic == File!Spec

(* A call returns, or raises TimeoutError, even if another process stops   *)
(* with the lock in its hands.                                             *)
CallsReturn == pc[Prompt] # "idle" ~> pc[Prompt] \in {"idle", "dead"}

=============================================================================
