------------------------ MODULE CircuitBreakerProofs ------------------------
(***************************************************************************)
(* What CircuitBreaker keeps for every number of loops, threshold, pause   *)
(* and cap.  The inductive invariant says the same four things of the file *)
(* and of every loop's copy: since a loop may write back a copy read long  *)
(* ago, a fact about the file alone would not survive its own steps.       *)
(***************************************************************************)
EXTENDS CircuitBreaker, TLAPS

Proper(data) == data \in BreakerState /\ Sound(data)

ControlOK ==
    /\ fileStatus \in {"missing", "complete", "torn"}
    /\ pc \in [Loops -> {"idle", "pausing", "running"}]
    /\ model \in [Loops -> {"primary", "fallback"}]
    /\ killed \subseteq Loops
    /\ stale \subseteq Loops
    /\ DOMAIN mem = Loops
    /\ mem = [l \in Loops |-> mem[l]]

(* Between two iterations no model is selected: the choice dies with the   *)
(* process that made it.                                                   *)
PrimaryUnlessRunning == \A l \in Loops : pc[l] # "running" => model[l] = "primary"

BreakerInv ==
    /\ ControlOK
    /\ PrimaryUnlessRunning
    /\ Proper(saved)
    /\ \A l \in Loops : Proper(mem[l])
    /\ FallbackOnlyWhileOpen

-----------------------------------------------------------------------------
(* Lemmas about the operations on _data.                                   *)

(* The cap of the pause is a number, at least the base pause.              *)
LEMMA MaxPauseFact == MaxPause \in Nat /\ BasePause <= MaxPause
<1>1. BasePause \in Nat /\ MaxMultiplier \in Nat /\ MaxMultiplier >= 1
  BY BreakerAssumption
<1>2. MaxMultiplier = 1 \/ \E k \in Nat : MaxMultiplier = k + 1
  <2>1. MaxMultiplier - 1 \in Nat /\ MaxMultiplier = (MaxMultiplier - 1) + 1
    BY <1>1
  <2> QED BY <2>1
<1>3. CASE MaxMultiplier = 1
  BY <1>1, <1>3 DEF MaxPause
<1>4. ASSUME NEW k \in Nat, MaxMultiplier = k + 1
      PROVE  MaxPause \in Nat /\ BasePause <= MaxPause
  <2>1. MaxPause = k * BasePause + BasePause
    BY <1>1, <1>4 DEF MaxPause
  <2>2. k * BasePause \in Nat
    BY <1>1, <1>4
  <2> QED BY <1>1, <2>1, <2>2
<1> QED BY <1>2, <1>3, <1>4

(* _defaults is a sound state.                                             *)
LEMMA DefaultsSound == Proper(Defaults)
  BY MaxPauseFact, BreakerAssumption
  DEF Proper, Sound, Defaults, BreakerState, CounterSound, PauseSound, ClosedSound, Smaller

(* _trip, reached with the counter at the threshold, gives a sound state.  *)
LEMMA TripSound ==
    ASSUME NEW l \in Loops, NEW data \in BreakerState, PauseSound(data)
    PROVE  Proper(Trip(data, l))
<1> DEFINE doubled == Smaller(2 * data.pause_seconds, MaxPause)
<1>1. /\ doubled \in BasePause .. MaxPause
      /\ data.pause_seconds <= doubled
      /\ doubled >= Smaller(2 * BasePause, MaxPause)
      /\ doubled \in Nat
  BY MaxPauseFact, BreakerAssumption DEF PauseSound, BreakerState, Smaller
<1> HIDE DEF doubled
<1>2. ASSUME NEW u \in BOOLEAN
      PROVE  [data EXCEPT !.tripped = TRUE, !.remaining = data.pause_seconds,
                          !.pause_seconds = doubled, !.using_fallback = u,
                          !.api_failures = 0] \in BreakerState
  BY <1>1 DEF BreakerState
<1>3. Trip(data, l) \in BreakerState
  <2>1. (l \in FallbackLoops) \in BOOLEAN
    OBVIOUS
  <2>2. [data EXCEPT !.tripped = TRUE, !.remaining = data.pause_seconds,
                     !.pause_seconds = doubled,
                     !.using_fallback = (l \in FallbackLoops),
                     !.api_failures = 0] \in BreakerState
    BY <1>2, <2>1, Zenon
  <2> QED BY <2>2, Zenon DEF Trip, doubled
<1>4. /\ Trip(data, l).tripped
      /\ Trip(data, l).remaining = data.pause_seconds
      /\ Trip(data, l).pause_seconds = doubled
      /\ Trip(data, l).api_failures = 0
  BY DEF Trip, BreakerState, doubled
<1> QED BY <1>1, <1>3, <1>4 DEF Proper, Sound, CounterSound, PauseSound, ClosedSound

(* record_failure("api") preserves soundness.                              *)
LEMMA ApiFailureSound ==
    ASSUME NEW l \in Loops, NEW data, Proper(data)
    PROVE  Proper(RecordApiFailure(data, l))
<1> DEFINE more == data.api_failures + 1
           counted == [data EXCEPT !.api_failures = more, !.last_failure = "api"]
<1>1. data \in BreakerState /\ more \in Nat
  BY DEF Proper, BreakerState
<1> HIDE DEF more
<1>2. counted \in BreakerState
  BY <1>1 DEF BreakerState
<1>3. PauseSound(counted) /\ ClosedSound(counted) /\ counted.api_failures = more
  BY <1>1 DEF Proper, Sound, BreakerState, PauseSound, ClosedSound
<1>4. RecordApiFailure(data, l) =
         IF counted.api_failures >= MaxFailures THEN Trip(counted, l) ELSE counted
  BY DEF RecordApiFailure, more
<1> HIDE DEF counted
<1>5. CASE counted.api_failures >= MaxFailures
  BY <1>2, <1>3, <1>4, <1>5, TripSound
<1>6. CASE ~(counted.api_failures >= MaxFailures)
  <2>1. counted.api_failures < MaxFailures
    BY <1>1, <1>3, <1>6, BreakerAssumption
  <2> QED BY <1>2, <1>3, <1>4, <1>6, <2>1 DEF Proper, Sound, CounterSound
<1> QED BY <1>5, <1>6

(* Whatever an iteration records of a sound state is a sound state.        *)
LEMMA OutcomesSound ==
    ASSUME NEW l \in Loops, NEW data, Proper(data), NEW next \in Outcomes(data, l)
    PROVE  Proper(next)
<1>1. Proper(RecordOtherFailure(data))
  BY DEF Proper, Sound, RecordOtherFailure, BreakerState, CounterSound, PauseSound, ClosedSound
<1> QED BY <1>1, DefaultsSound, ApiFailureSound DEF Outcomes

(* The passing of time preserves soundness.                                *)
LEMMA ElapsedSound ==
    ASSUME NEW data, Proper(data) PROVE Proper(Elapsed(data))
<1>1. PICK r \in Nat : Elapsed(data) = [data EXCEPT !.remaining = r]
                       /\ r <= data.remaining
  BY DEF Proper, BreakerState, Elapsed
<1> QED BY <1>1, MaxPauseFact, BreakerAssumption
        DEF Proper, Sound, BreakerState, CounterSound, PauseSound, ClosedSound

-----------------------------------------------------------------------------

LEMMA LeaveSound ==
    ASSUME BreakerInv, NEW l \in Loops, Leave(l)
    PROVE  /\ pc' \in [Loops -> {"idle", "pausing", "running"}]
           /\ model' \in [Loops -> {"primary", "fallback"}]
           /\ DOMAIN mem' = Loops
           /\ mem' = [k \in Loops |-> mem'[k]]
           /\ \A k \in Loops : Proper(mem'[k])
           /\ FallbackOnlyWhileOpen'
           /\ PrimaryUnlessRunning'
<1>1. \A k \in Loops : mem'[k] = IF k = l THEN Defaults ELSE mem[k]
  BY DEF Leave, BreakerInv, ControlOK
<1>2. \A k \in Loops : model'[k] = IF k = l THEN "primary" ELSE model[k]
  BY DEF Leave, BreakerInv, ControlOK
<1>3. DOMAIN mem' = Loops /\ mem' = [k \in Loops |-> mem'[k]]
  BY DEF Leave, BreakerInv, ControlOK
<1>4. \A k \in Loops : Proper(mem'[k])
  BY <1>1, DefaultsSound DEF BreakerInv
<1>5. FallbackOnlyWhileOpen'
  BY <1>1, <1>2 DEF BreakerInv, FallbackOnlyWhileOpen
<1>6. PrimaryUnlessRunning'
  BY <1>2 DEF Leave, BreakerInv, ControlOK, PrimaryUnlessRunning
<1> QED BY <1>3, <1>4, <1>5, <1>6 DEF Leave, BreakerInv, ControlOK

LEMMA InitInv == Init => BreakerInv
  BY DefaultsSound DEF Init, BreakerInv, ControlOK, FallbackOnlyWhileOpen, PrimaryUnlessRunning

LEMMA NextInv == BreakerInv /\ [Next]_vars => BreakerInv'
<1> SUFFICES ASSUME BreakerInv, [Next]_vars PROVE BreakerInv'
  OBVIOUS
<1>1. CASE Tick
  <2>1. \A l \in Loops : mem'[l] = Elapsed(mem[l])
    BY <1>1 DEF Tick
  <2>2. \A l \in Loops : Proper(mem'[l])
    BY <2>1, ElapsedSound DEF BreakerInv
  <2>3. Proper(saved')
    BY <1>1, ElapsedSound DEF Tick, BreakerInv
  <2>4. \A l \in Loops : Elapsed(mem[l]).tripped = mem[l].tripped
    BY DEF BreakerInv, Proper, BreakerState, Elapsed
  <2>5. FallbackOnlyWhileOpen'
    BY <1>1, <2>1, <2>4 DEF Tick, BreakerInv, FallbackOnlyWhileOpen
  <2>6. ControlOK'
    BY <1>1 DEF Tick, BreakerInv, ControlOK
  <2> QED BY <1>1, <2>2, <2>3, <2>5, <2>6 DEF Tick, BreakerInv, PrimaryUnlessRunning
<1>2. ASSUME NEW l \in Loops, Start(l) PROVE BreakerInv'
  <2>1. Proper(Loaded)
    BY DefaultsSound DEF Loaded, BreakerInv
  <2>2. \A k \in Loops : mem'[k] = mem[k] \/ (k = l /\ mem'[k] = Loaded)
    BY <1>2 DEF Start, BreakerInv, ControlOK
  <2>3. \A k \in Loops : Proper(mem'[k])
    BY <2>1, <2>2 DEF BreakerInv
  <2>4. ControlOK'
    BY <1>2 DEF Start, BreakerInv, ControlOK
  <2>5. FallbackOnlyWhileOpen'
    BY <1>2, <2>2 DEF Start, BreakerInv, FallbackOnlyWhileOpen, PrimaryUnlessRunning
  <2>6. PrimaryUnlessRunning'
    BY <1>2 DEF Start, BreakerInv, ControlOK, PrimaryUnlessRunning
  <2> QED BY <1>2, <2>3, <2>4, <2>5, <2>6 DEF Start, BreakerInv
<1>3. ASSUME NEW l \in Loops, EndPause(l) PROVE BreakerInv'
  <2>1. \A k \in Loops : model'[k] = IF k = l THEN (IF UseFallback(mem[l], l)
                                      THEN "fallback" ELSE "primary") ELSE model[k]
    BY <1>3 DEF EndPause, BreakerInv, ControlOK
  <2>2. UseFallback(mem[l], l) => mem[l].tripped /\ l \in FallbackLoops
    BY DEF UseFallback, BreakerInv, Proper, Sound, ClosedSound
  <2>3. FallbackOnlyWhileOpen'
    BY <1>3, <2>1, <2>2 DEF EndPause, BreakerInv, FallbackOnlyWhileOpen
  <2>4. ControlOK'
    BY <1>3 DEF EndPause, BreakerInv, ControlOK
  <2>5. PrimaryUnlessRunning'
    BY <1>3, <2>1 DEF EndPause, BreakerInv, ControlOK, PrimaryUnlessRunning
  <2> QED BY <1>3, <2>3, <2>4, <2>5 DEF EndPause, BreakerInv
<1>4. ASSUME NEW l \in Loops, Record(l) PROVE BreakerInv'
  <2>1. Proper(saved')
    BY <1>4, OutcomesSound DEF Record, BreakerInv
  <2> QED BY <1>4, <2>1, LeaveSound DEF Record, BreakerInv, ControlOK
<1>5. ASSUME NEW l \in Loops, CrashInSave(l) \/ Crash(l) PROVE BreakerInv'
  BY <1>5, LeaveSound DEF CrashInSave, Crash, BreakerInv, ControlOK
<1>6. ASSUME NEW l \in Loops, Kill(l) \/ Relaunch(l) PROVE BreakerInv'
  BY <1>6 DEF Kill, Relaunch, BreakerInv, ControlOK,
                FallbackOnlyWhileOpen, PrimaryUnlessRunning
<1>7. CASE UNCHANGED vars
  BY <1>7 DEF vars, BreakerInv, ControlOK, FallbackOnlyWhileOpen, PrimaryUnlessRunning
<1> QED BY <1>1, <1>2, <1>3, <1>4, <1>5, <1>6, <1>7 DEF Next

LEMMA InvHolds == Spec => []BreakerInv
  BY InitInv, NextInv, PTL DEF Spec

-----------------------------------------------------------------------------
(* Results.                                                                *)

(* Type correctness, for every set of loops and every setting.             *)
THEOREM TypeCorrect == Spec => []TypeOK
<1>1. BreakerInv => TypeOK
  BY DEF BreakerInv, ControlOK, Proper, TypeOK
<1> QED BY <1>1, InvHolds, PTL

(* Inside the file, and inside every copy, the counter stays below the     *)
(* threshold, the pauses within their bounds and a closed circuit without  *)
(* pause or fallback, through every interleaving and crash.                *)
THEOREM DataCorrect == Spec => []DataSound
<1>1. BreakerInv => DataSound
  BY DEF BreakerInv, Proper, DataSound
<1> QED BY <1>1, InvHolds, PTL

(* Only a loop with a fallback model uses one, and only while it is open.  *)
THEOREM FallbackCorrect == Spec => []FallbackOnlyWhileOpen
  BY InvHolds, PTL DEF BreakerInv

-----------------------------------------------------------------------------
(* The copy of a loop that is not stale equals the file for the whole      *)
(* iteration, whatever the others do: what they save makes it stale.       *)

CopyIsFile ==
    \A l \in Loops \ stale : pc[l] # "idle" /\ fileStatus = "complete" => mem[l] = saved

LEMMA CopyIsFileNext ==
    ASSUME BreakerInv, CopyIsFile, [Next]_vars
    PROVE  CopyIsFile'
<1>1. CASE Tick
  BY <1>1 DEF Tick, CopyIsFile
<1>2. ASSUME NEW l \in Loops, Start(l) PROVE CopyIsFile'
  BY <1>2 DEF Start, CopyIsFile, Loaded, BreakerInv, ControlOK
<1>3. ASSUME NEW l \in Loops, EndPause(l) PROVE CopyIsFile'
  BY <1>3 DEF EndPause, CopyIsFile, BreakerInv, ControlOK
<1>4. ASSUME NEW l \in Loops, Record(l) \/ CrashInSave(l) \/ Crash(l)
      PROVE  CopyIsFile'
  BY <1>4 DEF Record, CrashInSave, Crash, Leave, CopyIsFile, BreakerInv, ControlOK
<1>5. ASSUME NEW l \in Loops, Kill(l) \/ Relaunch(l) PROVE CopyIsFile'
  BY <1>5 DEF Kill, Relaunch, CopyIsFile
<1>6. CASE UNCHANGED vars
  BY <1>6 DEF vars, CopyIsFile
<1> QED BY <1>1, <1>2, <1>3, <1>4, <1>5, <1>6 DEF Next

(* The action of InformedLoopsKeep.                                        *)
KeptKnowingly ==
    fileStatus = "complete" /\ fileStatus' = "complete"
    => \/ Keeps
       \/ saved'.last_failure = "none"
       \/ \E l \in stale : pc[l] = "running" /\ pc'[l] = "idle"

(* Tripping lengthens both the pause and the one after it.                 *)
LEMMA TripKeeps ==
    ASSUME NEW l \in Loops, NEW data \in BreakerState, PauseSound(data)
    PROVE  /\ Trip(data, l).tripped
           /\ Trip(data, l).remaining = data.pause_seconds
           /\ Trip(data, l).pause_seconds >= data.pause_seconds
<1> DEFINE doubled == Smaller(2 * data.pause_seconds, MaxPause)
<1>1. doubled >= data.pause_seconds
  BY MaxPauseFact, BreakerAssumption DEF PauseSound, BreakerState, Smaller
<1> HIDE DEF doubled
<1>2. /\ Trip(data, l).tripped
      /\ Trip(data, l).remaining = data.pause_seconds
      /\ Trip(data, l).pause_seconds = doubled
  BY DEF Trip, BreakerState, doubled
<1> QED BY <1>1, <1>2

LEMMA ApiFailureKeeps ==
    ASSUME NEW l \in Loops, NEW data, Proper(data),
           NEW next, next = RecordApiFailure(data, l)
    PROVE  /\ data.tripped => next.tripped
           /\ next.pause_seconds >= data.pause_seconds
           /\ next.remaining >= data.remaining
           /\ \/ next.api_failures >= data.api_failures
              \/ next.tripped /\ next.remaining = data.pause_seconds
<1> DEFINE more == data.api_failures + 1
           counted == [data EXCEPT !.api_failures = more, !.last_failure = "api"]
<1>1. data \in BreakerState /\ PauseSound(data) /\ more \in Nat /\ more >= data.api_failures
  BY DEF Proper, Sound, BreakerState
<1> HIDE DEF more
<1>2. /\ counted \in BreakerState /\ PauseSound(counted)
      /\ counted.api_failures = more /\ counted.tripped = data.tripped
      /\ counted.pause_seconds = data.pause_seconds /\ counted.remaining = data.remaining
  BY <1>1 DEF BreakerState, PauseSound
<1>3. next = IF counted.api_failures >= MaxFailures THEN Trip(counted, l) ELSE counted
  BY DEF RecordApiFailure, more
<1>4. data.remaining <= data.pause_seconds /\ data.remaining \in Nat /\ data.pause_seconds \in Nat
  BY <1>1 DEF PauseSound, BreakerState
<1> HIDE DEF counted
<1>5. CASE counted.api_failures >= MaxFailures
  <2>1. next = Trip(counted, l)
    BY <1>3, <1>5
  <2> QED BY <1>2, <1>4, <2>1, TripKeeps
<1>6. CASE ~(counted.api_failures >= MaxFailures)
  <2>1. next = counted
    BY <1>3, <1>6
  <2> QED BY <1>1, <1>2, <1>4, <2>1
<1> QED BY <1>5, <1>6

LEMMA OtherFailureKeeps ==
    ASSUME NEW data, Proper(data), NEW next, next = RecordOtherFailure(data)
    PROVE  /\ next.last_failure = "other" /\ next.tripped = data.tripped
           /\ next.pause_seconds >= data.pause_seconds
           /\ next.remaining >= data.remaining
  BY DEF RecordOtherFailure, Proper, BreakerState

LEMMA KeepsKnowingly ==
    ASSUME BreakerInv, CopyIsFile, [Next]_vars
    PROVE  KeptKnowingly
<1>1. ASSUME UNCHANGED saved PROVE Keeps
  <2>1. saved.pause_seconds \in Nat /\ saved.remaining \in Nat /\ saved.api_failures \in Nat
    BY DEF BreakerInv, Proper, BreakerState
  <2> QED BY <1>1, <2>1 DEF Keeps, CountsOn
<1>2. CASE Tick
  <2>1. /\ saved'.tripped = saved.tripped /\ saved'.pause_seconds = saved.pause_seconds
        /\ saved'.api_failures = saved.api_failures /\ UNCHANGED pc
    BY <1>2 DEF Tick, Elapsed, BreakerInv, Proper, BreakerState
  <2>2. saved.pause_seconds \in Nat /\ saved.api_failures \in Nat
    BY DEF BreakerInv, Proper, BreakerState
  <2> QED BY <2>1, <2>2 DEF KeptKnowingly, Keeps, CountsOn
<1>3. ASSUME NEW l \in Loops, Record(l) PROVE KeptKnowingly
  <2>1. CASE l \in stale
    <3>1. pc[l] = "running" /\ pc'[l] = "idle"
      BY <1>3 DEF Record, Leave, BreakerInv, ControlOK
    <3> QED BY <2>1, <3>1 DEF KeptKnowingly
  <2>2. CASE l \notin stale
    <3> SUFFICES ASSUME fileStatus = "complete"
                 PROVE  Keeps \/ saved'.last_failure = "none"
      BY DEF KeptKnowingly
    <3>1. mem[l] = saved /\ Proper(saved)
      BY <1>3, <2>2 DEF Record, CopyIsFile, BreakerInv
    <3>2. CASE saved' = Defaults
      BY <3>2 DEF Defaults
    <3>3. CASE saved' = RecordApiFailure(saved, l)
      <4>1. PICK next : next = saved'
        OBVIOUS
      <4>2. next = RecordApiFailure(saved, l)
        BY <3>3, <4>1
      <4>3. /\ saved.tripped => next.tripped
            /\ next.pause_seconds >= saved.pause_seconds
            /\ next.remaining >= saved.remaining
            /\ \/ next.api_failures >= saved.api_failures
               \/ next.tripped /\ next.remaining = saved.pause_seconds
        BY <3>1, <4>2, ApiFailureKeeps
      <4> QED BY <4>1, <4>3 DEF Keeps, CountsOn
    <3>4. CASE saved' = RecordOtherFailure(saved)
      <4>1. PICK next : next = saved'
        OBVIOUS
      <4>2. next = RecordOtherFailure(saved)
        BY <3>4, <4>1
      <4>3. /\ next.last_failure = "other" /\ next.tripped = saved.tripped
            /\ next.pause_seconds >= saved.pause_seconds
            /\ next.remaining >= saved.remaining
        BY <3>1, <4>2, OtherFailureKeeps
      <4> QED BY <4>1, <4>3 DEF Keeps, CountsOn
    <3> QED BY <1>3, <3>1, <3>2, <3>3, <3>4 DEF Record, Outcomes
  <2> QED BY <2>1, <2>2
<1>4. CASE UNCHANGED saved
  BY <1>1, <1>4 DEF KeptKnowingly
<1> QED BY <1>2, <1>3, <1>4
        DEF Next, vars, Start, EndPause, CrashInSave, Crash, Kill, Relaunch

(* However many loops share the directory, only a success, or a loop whose *)
(* copy is not what the file says, closes the circuit, shortens a pause or *)
(* loses failures.                                                         *)
THEOREM InformedCorrect == Spec => InformedLoopsKeep
<1>1. Init => CopyIsFile
  BY DEF Init, CopyIsFile
<1>2. BreakerInv /\ CopyIsFile /\ [Next]_vars => CopyIsFile'
  BY CopyIsFileNext
<1>3. BreakerInv /\ CopyIsFile /\ [Next]_vars => [KeptKnowingly]_vars
  BY KeepsKnowingly
<1>4. Spec => [][KeptKnowingly]_vars
  BY <1>1, <1>2, <1>3, InvHolds, PTL DEF Spec
<1> QED BY <1>4 DEF InformedLoopsKeep, KeptKnowingly

=============================================================================
