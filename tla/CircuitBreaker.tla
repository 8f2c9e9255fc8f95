--------------------------- MODULE CircuitBreaker ---------------------------
(***************************************************************************)
(* The API circuit breaker of src/core/circuit_breaker.py and its three    *)
(* uses in src/loop/agent.py: pause before an iteration, choice of the     *)
(* model, one outcome recorded at the end.                                 *)
(*                                                                         *)
(* Every autonomous loop of a pod reads and writes the same file,          *)
(* $DEBUILDER_STATE_DIR/circuit_breaker.json.  An iteration loads it once  *)
(* (CircuitBreaker()), works on its own copy and writes the copy back.     *)
(* The file lock covers one read or one write, never the span between.     *)
(*                                                                         *)
(* Time is relative: "remaining" is max(0, pause_until - time.time()), so  *)
(* a Tick lowers it in the file and in every copy at once.                 *)
(***************************************************************************)
EXTENDS Naturals

CONSTANTS
    Loops,          \* the autonomous loops that share the state directory
    FallbackLoops,  \* those whose environment sets DEBUILDER_MODEL_FALLBACK
    MaxFailures,    \* DEBUILDER_CB_MAX_FAILURES
    BasePause,      \* DEBUILDER_CB_PAUSE_SECONDS
    MaxMultiplier   \* _MAX_PAUSE_MULTIPLIER

ASSUME BreakerAssumption ==
    /\ FallbackLoops \subseteq Loops
    /\ MaxFailures \in Nat
    /\ BasePause \in Nat
    /\ MaxMultiplier \in Nat \ {0}

VARIABLES
    fileStatus,  \* the file is missing, complete, or cut short by a crash
    saved,       \* its last complete content
    mem,         \* _data of each loop's CircuitBreaker instance
    pc,          \* where each loop stands in its iteration
    model,       \* the model each loop selected for its sessions
    killed,      \* the loops whose project holds a DONE file
    stale        \* history: the loops whose copy is not, or no longer, the file's

vars == <<fileStatus, saved, mem, pc, model, killed, stale>>

MaxPause == MaxMultiplier * BasePause

BreakerState ==
    [api_failures   : Nat,
     tripped        : BOOLEAN,
     remaining      : Nat,
     pause_seconds  : Nat,
     using_fallback : BOOLEAN,
     last_failure   : {"none", "api", "other"}]

Defaults ==
    [api_failures   |-> 0,
     tripped        |-> FALSE,
     remaining      |-> 0,
     pause_seconds  |-> BasePause,
     using_fallback |-> FALSE,
     last_failure   |-> "none"]

Smaller(a, b) == IF a <= b THEN a ELSE b

-----------------------------------------------------------------------------
(* The operations of the class, as functions from _data to _data.          *)

Loaded == IF fileStatus = "complete" THEN saved ELSE Defaults

(* _trip: open, pause for the current duration, double the next one.       *)
Trip(data, l) ==
    [data EXCEPT !.tripped        = TRUE,
                 !.remaining      = data.pause_seconds,
                 !.pause_seconds  = Smaller(2 * data.pause_seconds, MaxPause),
                 !.using_fallback = l \in FallbackLoops,
                 !.api_failures   = 0]

RecordApiFailure(data, l) ==
    LET counted == [data EXCEPT !.api_failures = data.api_failures + 1,
                                !.last_failure = "api"]
    IN  IF counted.api_failures >= MaxFailures THEN Trip(counted, l) ELSE counted

\* Fault: any end of the series of API failures also closes the circuit.
OtherFailureCloses(data) ==
    [data EXCEPT !.api_failures = 0, !.last_failure = "other", !.tripped = FALSE]

\* Fault: a failure of another kind starts from the defaults, like a success.
OtherFailureStartsOver(data) == [Defaults EXCEPT !.last_failure = "other"]

RecordOtherFailure(data) ==
    [data EXCEPT !.api_failures = 0, !.last_failure = "other"]

Outcomes(data, l) ==
    {Defaults, RecordApiFailure(data, l), RecordOtherFailure(data)}

\* Fault: the stored flag alone decides, without the environment.
UseStoredFallback(data, l) == data.using_fallback

UseFallback(data, l) == data.using_fallback /\ l \in FallbackLoops

\* Fault: the difference of the two clocks is not clamped at zero.
ElapsedUnclamped(data) == [data EXCEPT !.remaining = data.remaining - 1]

Elapsed(data) ==
    [data EXCEPT !.remaining = IF data.remaining = 0 THEN 0 ELSE data.remaining - 1]

-----------------------------------------------------------------------------

Init ==
    /\ fileStatus = "missing"
    /\ saved = Defaults
    /\ mem = [l \in Loops |-> Defaults]
    /\ pc = [l \in Loops |-> "idle"]
    /\ model = [l \in Loops |-> "primary"]
    /\ killed = {}
    /\ stale = {}

(* run_iteration starts: DONE ends it at once, else the breaker is loaded; *)
(* a lock that stays taken is an OSError, hence a missing file.            *)
Start(l) ==
    /\ pc[l] = "idle"
    /\ l \notin killed
    /\ \/ mem' = [mem EXCEPT ![l] = Loaded] /\ stale' = stale \ {l}
       \/ mem' = mem /\ stale' = stale \cup {l}
    /\ pc' = [pc EXCEPT ![l] = "pausing"]
    /\ UNCHANGED <<fileStatus, saved, model, killed>>

\* Fault: the loop waits for the circuit to close, not for the pause to end.
EndPauseWhenClosed(l) ==
    /\ pc[l] = "pausing"
    /\ ~mem[l].tripped \/ l \in killed
    /\ model' = [model EXCEPT ![l] =
                    IF UseFallback(mem[l], l) THEN "fallback" ELSE "primary"]
    /\ pc' = [pc EXCEPT ![l] = "running"]
    /\ UNCHANGED <<fileStatus, saved, mem, killed, stale>>

(* _maybe_pause returns, by the clock or on DONE; _select_model follows.   *)
EndPause(l) ==
    /\ pc[l] = "pausing"
    /\ mem[l].remaining = 0 \/ l \in killed
    /\ model' = [model EXCEPT ![l] =
                    IF UseFallback(mem[l], l) THEN "fallback" ELSE "primary"]
    /\ pc' = [pc EXCEPT ![l] = "running"]
    /\ UNCHANGED <<fileStatus, saved, mem, killed, stale>>

(* The process of the iteration is over: its copy is gone.                 *)
Leave(l) ==
    /\ pc' = [pc EXCEPT ![l] = "idle"]
    /\ mem' = [mem EXCEPT ![l] = Defaults]
    /\ model' = [model EXCEPT ![l] = "primary"]

(* record_success or record_failure, then _save, which replaces the file.  *)
Record(l) ==
    /\ pc[l] = "running"
    /\ saved' \in Outcomes(mem[l], l)
    /\ fileStatus' = "complete"
    /\ Leave(l)
    /\ stale' = Loops \ {l}
    /\ UNCHANGED killed

(* Killed inside _save: write_text has truncated the file, not filled it.  *)
CrashInSave(l) ==
    /\ pc[l] = "running"
    /\ fileStatus' = "torn"
    /\ Leave(l)
    /\ stale' = Loops \ {l}
    /\ UNCHANGED <<saved, killed>>

(* The process dies anywhere else in the iteration, or its save times out  *)
(* on the lock and the exception ends it: nothing is recorded.             *)
Crash(l) ==
    /\ pc[l] # "idle"
    /\ Leave(l)
    /\ UNCHANGED <<fileStatus, saved, killed, stale>>

(* The kill-switch of the interface creates DONE in the loop's project.    *)
Kill(l) ==
    /\ killed' = killed \cup {l}
    /\ UNCHANGED <<fileStatus, saved, mem, pc, model, stale>>

(* A new session on the same pod: a project without DONE, the same file.   *)
Relaunch(l) ==
    /\ l \in killed
    /\ pc[l] = "idle"
    /\ killed' = killed \ {l}
    /\ UNCHANGED <<fileStatus, saved, mem, pc, model, stale>>

(* One second passes.                                                      *)
Tick ==
    /\ saved.remaining > 0 \/ \E l \in Loops : mem[l].remaining > 0
    /\ saved' = Elapsed(saved)
    /\ mem' = [l \in Loops |-> Elapsed(mem[l])]
    /\ UNCHANGED <<fileStatus, pc, model, killed, stale>>

Next ==
    \/ Tick
    \/ \E l \in Loops :
          \/ Start(l) \/ EndPause(l) \/ Record(l)
          \/ CrashInSave(l) \/ Crash(l)
          \/ Kill(l) \/ Relaunch(l)

Spec == Init /\ [][Next]_vars

(* The clock runs and _maybe_pause polls it; nothing else is promised.     *)
FairSpec ==
    Spec /\ WF_vars(Tick) /\ \A l \in Loops : WF_vars(EndPause(l))

-----------------------------------------------------------------------------

(* Type correctness of the shared file and of every loop.                  *)
TypeOK ==
    /\ fileStatus \in {"missing", "complete", "torn"}
    /\ saved \in BreakerState
    /\ mem \in [Loops -> BreakerState]
    /\ pc \in [Loops -> {"idle", "pausing", "running"}]
    /\ model \in [Loops -> {"primary", "fallback"}]
    /\ killed \subseteq Loops
    /\ stale \subseteq Loops

(* The counter never rests at the threshold: reaching it trips the circuit *)
(* and empties it, so K failures never count for two openings.             *)
CounterSound(data) == data.api_failures = 0 \/ data.api_failures < MaxFailures

(* A pause is at most the cap, the next one is never shorter than the      *)
(* current one, and an open circuit has already lengthened it.             *)
PauseSound(data) ==
    /\ data.remaining <= data.pause_seconds
    /\ data.pause_seconds \in BasePause .. MaxPause
    /\ data.tripped => data.pause_seconds >= Smaller(2 * BasePause, MaxPause)

(* A closed circuit neither pauses nor selects the fallback model.         *)
ClosedSound(data) == ~data.tripped => data.remaining = 0 /\ ~data.using_fallback

Sound(data) == CounterSound(data) /\ PauseSound(data) /\ ClosedSound(data)

(* All three hold of the file and of every copy, whatever the loops        *)
(* interleave, overwrite or lose in a crash (record_failure, _trip): the   *)
(* counter is below the threshold, a pause is within the cap and not above *)
(* the one that would follow, and closed means neither pause nor fallback. *)
(* It relates the values inside one record; what a record may become is    *)
(* InformedLoopsKeep.                                                      *)
DataSound == Sound(saved) /\ \A l \in Loops : Sound(mem[l])

(* The fallback model is used only while the loop's circuit is open and    *)
(* only by a loop whose environment defines it (use_fallback).             *)
FallbackOnlyWhileOpen ==
    \A l \in Loops :
        model[l] = "fallback" => mem[l].tripped /\ l \in FallbackLoops

(* The failures so far count on, unless a failure of another kind breaks  *)
(* the series or the last one opens the circuit for the pause announced.   *)
CountsOn ==
    \/ saved'.api_failures >= saved.api_failures
    \/ saved'.last_failure = "other"
    \/ saved'.tripped /\ saved'.remaining = saved.pause_seconds

(* An open circuit stays open, no pause gets shorter except by the clock,  *)
(* and the failures count on.                                              *)
Keeps ==
    /\ saved.tripped => saved'.tripped
    /\ saved'.pause_seconds >= saved.pause_seconds
    /\ saved'.remaining >= saved.remaining \/ UNCHANGED pc
    /\ CountsOn

(* What an intact file says is kept from one write to the next, but for a  *)
(* success (README: "retour au principal apres un succes") and for a loop  *)
(* that does not know what it says: its load failed, or another loop has   *)
(* saved since.  Such a loop puts the counter and the pauses back, up to   *)
(* the defaults, and may close the circuit.                                *)
InformedLoopsKeep ==
    [][ fileStatus = "complete" /\ fileStatus' = "complete"
        => \/ Keeps
           \/ saved'.last_failure = "none"
           \/ \E l \in stale : pc[l] = "running" /\ pc'[l] = "idle" ]_vars

(* A pause ends: the loop goes on by the clock, or its process is gone.    *)
PauseEnds == \A l \in Loops : pc[l] = "pausing" ~> pc[l] # "pausing"

=============================================================================
