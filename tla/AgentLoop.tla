------------------------------ MODULE AgentLoop ------------------------------
(***************************************************************************)
(* The autonomous loop: agent_loop.sh, which launches one Python process   *)
(* per iteration, and run_iteration of agent.py, which runs the sessions   *)
(* Plan, Implement and Review of OpenCode and verifies their work.         *)
(*                                                                         *)
(* The loop is one sequential process; pc is the point it has reached.     *)
(* Around it, at any time, the interface creates DONE (kill-switch) and    *)
(* sets or lifts barriers, the Python process may die, the pod may stop.   *)
(*                                                                         *)
(* Plan and Review are read-only sessions, one step each.  In Implement    *)
(* the agent works on the project until its session ends.  It is assumed   *)
(* to leave alone DONE, GATE_FAILURE.md and the journal, which are the     *)
(* loop's.  Texts are reduced to what the loop tests of them: are the      *)
(* boxes ticked, did PROGRESS.md change.  SUGGESTIONS.md is in             *)
(* SuggestionFlow, the circuit breaker's file in CircuitBreaker.           *)
(***************************************************************************)
EXTENDS Naturals, FiniteSets

CONSTANTS
    Barriers,         \* the barriers the interface offers, in sorted() order
    SessionFailures,  \* the outcomes of _classify_failure the model explores
    MaxIterations,    \* DEBUILDER_MAX_ITERATIONS, 0 for no cap
    HoursCapped,      \* is DEBUILDER_MAX_HOURS set?
    MaxNoops,         \* DEBUILDER_MAX_NOOPS
    BackoffCap        \* DEBUILDER_BACKOFF_CAP_SECONDS

ASSUME LoopAssumption ==
    /\ Barriers \subseteq Nat /\ IsFiniteSet(Barriers)
    /\ SessionFailures \subseteq {"timeout", "api", "empty", "error"}
    /\ MaxIterations \in Nat
    /\ HoursCapped \in BOOLEAN
    /\ MaxNoops \in Nat
    /\ BackoffCap \in Nat

VARIABLES
    \* agent_loop.sh
    pc, iteration, sleep, stopReason,
    \* the files of the project that the interface writes
    doneBy,        \* who created DONE: "nobody" while it does not exist
    barriers,      \* the BARRIER_* files
    \* the files of the project that the loop and the agent write
    boxes,         \* TASK.md has boxes and all are ticked
    claim,         \* FINISHED_REPORT.md has boxes and all are ticked
    gateFile,      \* GATE_FAILURE.md exists
    dirty,         \* code is changed and not committed
    noopRun,       \* the no-op entries that end ITERATIONS.jsonl
    \* the local state of run_iteration
    progressNew,   \* PROGRESS.md differs from progress_before
    failure,       \* result.failure_type
    sessionFailure,\* the first failure in session_failures
    tests,         \* result.tests_passed
    noop,          \* result.no_op
    waiting,       \* what is left of barrier_files
    status,        \* the exit status of the Python process
    \* history, read by no step
    standing,      \* the barriers found by the loop and not lifted since
    lastOutcome,   \* failure_type of the last iteration, or "crash"
    fed            \* what the circuit breaker last recorded

shellVars   == <<iteration, sleep, stopReason>>
userVars    == <<doneBy, barriers, standing>>
projectVars == <<boxes, claim, gateFile, dirty, noopRun>>
localVars   == <<progressNew, failure, sessionFailure, tests, noop, waiting>>
reportVars  == <<status, lastOutcome, fed>>
vars == <<pc, shellVars, userVars, projectVars, localVars, reportVars>>

MinSleep == 2
PythonlessSleep == 300
Smaller(a, b) == IF a <= b THEN a ELSE b
Larger(a, b) == IF a <= b THEN b ELSE a

Shell      == {"top", "shell", "stopped"}
InPython   == {"enter", "pause", "plan", "implement", "glob", "wait", "gates",
               "tests", "claim", "review", "feed", "finish", "commit", "journal"}
Failures   == {"timeout", "api", "empty", "error", "plan", "gate", "tests",
               "review", "noop", "exception"}

IsDone == doneBy # "nobody"

(* The Python process is gone, and its local state with it.                *)
ForgetLocals ==
    /\ progressNew' = FALSE
    /\ failure' = ""
    /\ sessionFailure' = ""
    /\ tests' = "none"
    /\ noop' = FALSE
    /\ waiting' = {}

Init ==
    /\ pc = "top" /\ iteration = 0 /\ sleep = MinSleep /\ stopReason = "none"
    /\ doneBy = "nobody" /\ barriers = {} /\ standing = {}
    /\ boxes = FALSE /\ claim = FALSE /\ gateFile = FALSE
    /\ dirty = FALSE /\ noopRun = 0
    /\ progressNew = FALSE /\ failure = "" /\ sessionFailure = ""
    /\ tests = "none" /\ noop = FALSE /\ waiting = {}
    /\ status = "none" /\ lastOutcome = "none" /\ fed = "none"

-----------------------------------------------------------------------------
(* agent_loop.sh                                                           *)

(* break or exit, then the EXIT trap: _emergency_commit may be refused.    *)
Stop(reason) ==
    /\ pc' = "stopped"
    /\ stopReason' = reason
    /\ dirty' \in {FALSE, dirty}
    /\ standing' = {}
    /\ ForgetLocals
    /\ UNCHANGED <<iteration, sleep, doneBy, barriers,
                   boxes, claim, gateFile, noopRun, reportVars>>

\* Fault: the cap is compared after one iteration too many.
CapPassed == MaxIterations > 0 /\ iteration > MaxIterations

CapReached == MaxIterations > 0 /\ iteration >= MaxIterations

StopAtCap == pc = "top" /\ CapReached /\ Stop("cap")

StopAtHours == pc = "top" /\ ~CapReached /\ HoursCapped /\ Stop("hours")

\* Fault: ITERATION is not incremented.
NotCounted(n) == n

Counted(n) == n + 1

NextIteration ==
    /\ pc = "top"
    /\ ~CapReached
    /\ iteration' = Counted(iteration)
    /\ pc' = "enter"
    /\ UNCHANGED <<sleep, stopReason, userVars, projectVars, localVars, reportVars>>

\* Faults: any unexpected status ends the loop; the wait doubles only once.
StopsOnCrash(code) == code \in {"stop", "crash"}
BackoffFromBase(code) ==
    IF code = "success" THEN MinSleep ELSE Smaller(2 * MinSleep, BackoffCap)

StopRequested(code) == code = "stop"

(* compute_backoff, or 300 when Python cannot even compute it.             *)
Backoff(code) ==
    IF code = "success" THEN MinSleep
    ELSE Smaller(Larger(2 * sleep, MinSleep), BackoffCap)

StopOnDone == pc = "shell" /\ StopRequested(status) /\ Stop("done")

SleepThenRetry ==
    /\ pc = "shell"
    /\ ~StopRequested(status)
    /\ \/ sleep' = Backoff(status)
       \/ status # "success" /\ sleep' = PythonlessSleep
    /\ pc' = "top"
    /\ status' = "none"
    /\ UNCHANGED <<iteration, stopReason, userVars, projectVars, localVars,
                   lastOutcome, fed>>

(* The pod stops: the loop and its process are signalled.                  *)
Terminate == pc # "stopped" /\ Stop("signal")

(* The directory of DeBuilder is gone when the iteration is to be launched.*)
LoseDirectory == pc = "enter" /\ Stop("directory")

-----------------------------------------------------------------------------
(* run_iteration                                                           *)

(* The process ends with a status for the shell.                           *)
Exit(code) ==
    /\ pc' = "shell"
    /\ status' = code
    /\ standing' = {}
    /\ ForgetLocals

(* The no-op entries that end the journal once this iteration is in it,    *)
(* counted up to the threshold.                                            *)
NoopRunAfter == IF noop THEN Smaller(noopRun + 1, MaxNoops) ELSE 0

(* An exception outside the two try blocks, or the process is killed; the  *)
(* last thing it did may be its entry in the journal.                      *)
Crash ==
    /\ pc \in InPython
    /\ \/ UNCHANGED noopRun
       \/ pc = "journal" /\ noopRun' = NoopRunAfter
    /\ Exit("crash")
    /\ lastOutcome' = "crash"
    /\ UNCHANGED <<shellVars, doneBy, barriers, boxes, claim, gateFile,
                   dirty, fed>>

\* Fault: the first check of DONE is dropped.
AlwaysBegin == TRUE

MayBegin == ~IsDone

RefuseToBegin ==
    /\ pc = "enter"
    /\ ~MayBegin
    /\ Exit("stop")
    /\ UNCHANGED <<shellVars, doneBy, barriers, projectVars,
                   lastOutcome, fed>>

Begin ==
    /\ pc = "enter"
    /\ MayBegin
    /\ pc' = "pause"
    /\ UNCHANGED <<shellVars, userVars, projectVars, localVars, reportVars>>

(* _maybe_pause returns: the pause is over, or DONE cut it short.  The     *)
(* iteration goes on in both cases; progress_before is read here.          *)
StartPlan ==
    /\ pc = "pause"
    /\ pc' = "plan"
    /\ UNCHANGED <<shellVars, userVars, projectVars, localVars, reportVars>>

(* A session fails, or an exception is caught: the iteration skips to its  *)
(* end.  PROGRESS.md gets an entry, except if writing it fails too.        *)
SessionFails(kind, fault) ==
    /\ failure' = fault
    /\ sessionFailure' = kind
    /\ progressNew' \in IF fault = "exception" THEN {progressNew, TRUE} ELSE {TRUE}
    /\ pc' = "feed"

(* Session Plan ends in failure: the session itself, or its try block,     *)
(* which may have written TASK.md if the session had answered.             *)
PlanFails ==
    /\ pc = "plan"
    /\ \/ /\ \E kind \in SessionFailures :
                SessionFails(kind, kind) \/ SessionFails(kind, "exception")
          /\ boxes' = boxes
       \/ SessionFails("error", "exception") /\ boxes' \in BOOLEAN
    /\ UNCHANGED <<shellVars, userVars, claim, gateFile, dirty, noopRun, tests, noop,
                   waiting, reportVars>>

(* It answered without a TASK block: no contract, no Implement.            *)
PlanWithoutTask ==
    /\ pc = "plan"
    /\ failure' = "plan"
    /\ progressNew' = TRUE
    /\ pc' = "feed"
    /\ UNCHANGED <<shellVars, userVars, projectVars, sessionFailure, tests,
                   noop, waiting, reportVars>>

(* _materialize_plan_outputs writes TASK.md, whatever boxes it contains;   *)
(* session Implement starts.                                               *)
StartImplement ==
    /\ pc = "plan"
    /\ boxes' \in BOOLEAN
    /\ pc' = "implement"
    /\ UNCHANGED <<shellVars, userVars, claim, gateFile, dirty, noopRun,
                   localVars, reportVars>>

(* What the agent may do during its session, however it ends: tick or      *)
(* untick boxes, write PROGRESS.md and its report, change code, commit.    *)
AgentWorks ==
    /\ pc = "implement"
    /\ boxes' \in BOOLEAN
    /\ claim' \in BOOLEAN
    /\ progressNew' \in BOOLEAN
    /\ dirty' \in BOOLEAN
    /\ UNCHANGED <<pc, shellVars, userVars, gateFile, noopRun, failure,
                   sessionFailure, tests, noop, waiting, reportVars>>

ImplementFails ==
    /\ pc = "implement"
    /\ \/ \E kind \in SessionFailures : SessionFails(kind, kind)
       \/ \E kind \in SessionFailures \cup {"error"} : SessionFails(kind, "exception")
    /\ UNCHANGED <<shellVars, userVars, projectVars, tests, noop, waiting,
                   reportVars>>

EndImplement ==
    /\ pc = "implement"
    /\ pc' = "glob"
    /\ UNCHANGED <<shellVars, userVars, projectVars, localVars, reportVars>>

(* sorted(target_dir.glob("BARRIER_*")): once per iteration.               *)
ListBarriers ==
    /\ pc = "glob"
    /\ waiting' = barriers
    /\ standing' = barriers
    /\ pc' = "wait"
    /\ UNCHANGED <<shellVars, doneBy, barriers, projectVars, progressNew,
                   failure, sessionFailure, tests, noop, reportVars>>

\* Faults: the first barrier lifted releases the loop; DONE does not.
AfterFirst(b) == {}
NeverAborted == FALSE

AfterBarrier(b) == waiting \ {b}
WaitAborted == IsDone

(* _handle_barriers: each in turn, until its file is gone.                 *)
PassBarrier ==
    /\ pc = "wait"
    /\ \E b \in waiting :
          /\ \A other \in waiting : b <= other
          /\ b \notin barriers
          /\ waiting' = AfterBarrier(b)
    /\ UNCHANGED <<pc, shellVars, userVars, projectVars, progressNew, failure,
                   sessionFailure, tests, noop, reportVars>>

(* It returns when none is left, or when DONE appears during a wait.       *)
EndWait ==
    /\ pc = "wait"
    /\ waiting = {} \/ WaitAborted
    /\ waiting' = {}
    /\ pc' = "gates"
    /\ UNCHANGED <<shellVars, userVars, projectVars, progressNew, failure,
                   sessionFailure, tests, noop, reportVars>>

\* Fault: gates that pass leave an old GATE_FAILURE.md in place.
GateFileKept(failed) == gateFile \/ failed

GateFileAfter(failed) == failed

(* _check_task_gates, GATE_FAILURE.md written or removed, then the entry   *)
(* the loop writes when the agent left PROGRESS.md as it was.              *)
CheckGates ==
    /\ pc = "gates"
    /\ LET failed == ~boxes \/ ~progressNew
       IN  /\ failure' = IF failed THEN "gate" ELSE failure
           /\ gateFile' = GateFileAfter(failed)
    /\ progressNew' = TRUE
    /\ pc' = "tests"
    /\ UNCHANGED <<shellVars, userVars, boxes, claim, dirty, noopRun,
                   sessionFailure, tests, noop, waiting, reportVars>>

SkipTests ==
    /\ pc = "tests"
    /\ failure # ""
    /\ pc' = "claim"
    /\ UNCHANGED <<shellVars, userVars, projectVars, localVars, reportVars>>

(* _run_test_gate: "none" when no command is found or it cannot be run.    *)
RunTests ==
    /\ pc = "tests"
    /\ failure = ""
    /\ tests' \in {"none", "green", "red"}
    /\ failure' = IF tests' = "red" THEN "tests" ELSE ""
    /\ gateFile' = (gateFile \/ tests' = "red")
    /\ pc' = "claim"
    /\ UNCHANGED <<shellVars, userVars, boxes, claim, dirty, noopRun, progressNew,
                   sessionFailure, noop, waiting, reportVars>>

\* Fault: the claim alone decides.
ReviewOnClaim == claim

WantsReview == failure = "" /\ claim

DecideReview ==
    /\ pc = "claim"
    /\ pc' = IF WantsReview THEN "review" ELSE "feed"
    /\ UNCHANGED <<shellVars, userVars, projectVars, localVars, reportVars>>

(* An exception in the post steps or around the Review session.            *)
PostStepFails ==
    /\ pc \in {"glob", "gates", "tests", "claim", "review"}
    /\ SessionFails("error", "exception")
    /\ waiting' = {}
    /\ UNCHANGED <<shellVars, userVars, projectVars, tests, noop, reportVars>>

(* Session Review fails: the breaker will hear of it, the journal not.     *)
ReviewFails ==
    /\ pc = "review"
    /\ sessionFailure' \in SessionFailures
    /\ pc' = "feed"
    /\ UNCHANGED <<shellVars, userVars, projectVars, progressNew, failure,
                   tests, noop, waiting, reportVars>>

ReviewRejects ==
    /\ pc = "review"
    /\ failure' = "review"
    /\ pc' = "feed"
    /\ UNCHANGED <<shellVars, userVars, projectVars, progressNew, sessionFailure,
                   tests, noop, waiting, reportVars>>

(* VERDICT ACCEPTE: the loop itself creates DONE, if the user has not.     *)
ReviewAccepts ==
    /\ pc = "review"
    /\ doneBy' = IF IsDone THEN doneBy ELSE "loop"
    /\ pc' = "feed"
    /\ UNCHANGED <<shellVars, barriers, standing, projectVars, localVars, reportVars>>

(* The circuit breaker records the one outcome of the iteration.           *)
FeedBreaker ==
    /\ pc = "feed"
    /\ fed' = sessionFailure
    /\ pc' = "finish"
    /\ UNCHANGED <<shellVars, userVars, projectVars, localVars, status, lastOutcome>>

(* No-op detection: on what is left uncommitted, over the journal's end.   *)
DetectNoop ==
    /\ pc = "finish"
    /\ noop' = ~dirty
    /\ LET exhausted == ~dirty /\ noopRun + 1 >= MaxNoops
       IN  /\ failure' = IF exhausted /\ failure = "" THEN "noop" ELSE failure
           /\ progressNew' = (progressNew \/ exhausted)
    /\ pc' = "commit"
    /\ UNCHANGED <<shellVars, userVars, projectVars, sessionFailure, tests,
                   waiting, reportVars>>

(* stage_and_commit_all: a hook may refuse the commit.                     *)
Commit ==
    /\ pc = "commit"
    /\ dirty' \in {FALSE, dirty}
    /\ pc' = "journal"
    /\ UNCHANGED <<shellVars, userVars, boxes, claim, gateFile, noopRun,
                   localVars, reportVars>>

(* The last check of DONE, the journal entry, whose loss is ignored, and   *)
(* the exit status.                                                        *)
Journal ==
    /\ pc = "journal"
    /\ noopRun' \in {noopRun, NoopRunAfter}
    /\ lastOutcome' = failure
    /\ Exit(IF IsDone THEN "stop" ELSE IF failure = "" THEN "success" ELSE "failure")
    /\ UNCHANGED <<shellVars, doneBy, barriers, boxes, claim, gateFile,
                   dirty, fed>>

-----------------------------------------------------------------------------
(* The interface                                                           *)

Kill ==
    /\ ~IsDone
    /\ doneBy' = "user"
    /\ UNCHANGED <<pc, shellVars, barriers, standing, projectVars, localVars, reportVars>>

SetBarrier(b) ==
    /\ barriers' = barriers \cup {b}
    /\ UNCHANGED <<pc, shellVars, doneBy, standing, projectVars,
                   localVars, reportVars>>

LiftBarrier(b) ==
    /\ b \in barriers
    /\ barriers' = barriers \ {b}
    /\ standing' = standing \ {b}
    /\ UNCHANGED <<pc, shellVars, doneBy, projectVars, localVars, reportVars>>

-----------------------------------------------------------------------------

ShellStep == StopAtCap \/ StopAtHours \/ NextIteration \/ StopOnDone \/ SleepThenRetry

PlanStep == StartPlan \/ PlanFails \/ PlanWithoutTask \/ StartImplement

ImplementStep == ImplementFails \/ EndImplement

PostStep ==
    \/ ListBarriers \/ PassBarrier \/ EndWait \/ CheckGates
    \/ SkipTests \/ RunTests \/ PostStepFails

ReviewStep == DecideReview \/ ReviewFails \/ ReviewRejects \/ ReviewAccepts

FinalStep == FeedBreaker \/ DetectNoop \/ Commit \/ Journal

LoopStep ==
    \/ ShellStep \/ RefuseToBegin \/ Begin \/ PlanStep \/ ImplementStep
    \/ PostStep \/ ReviewStep \/ FinalStep

UserStep == Kill \/ \E b \in Barriers : SetBarrier(b) \/ LiftBarrier(b)

Next == LoopStep \/ AgentWorks \/ Crash \/ Terminate \/ LoseDirectory \/ UserStep

Spec == Init /\ [][Next]_vars

(* The loop's own steps are taken: sessions end (the watchdog), the pause  *)
(* and the backoff are finite.  Nothing obliges the agent or the user, and *)
(* nothing obliges a barrier to be lifted.                                 *)
FairSpec == Spec /\ WF_vars(LoopStep)

-----------------------------------------------------------------------------
(* Properties                                                              *)

Outcomes == {""} \cup Failures

ShellTypes ==
    /\ pc \in Shell \cup InPython
    /\ iteration \in Nat /\ (MaxIterations > 0 => iteration <= MaxIterations)
    /\ sleep \in Nat
    /\ stopReason \in {"none", "cap", "hours", "done", "signal", "directory"}

UserTypes ==
    /\ doneBy \in {"nobody", "user", "loop"}
    /\ barriers \subseteq Barriers /\ standing \subseteq Barriers

ProjectTypes ==
    /\ boxes \in BOOLEAN /\ claim \in BOOLEAN
    /\ gateFile \in BOOLEAN /\ dirty \in BOOLEAN
    /\ noopRun \in 0 .. MaxNoops

LocalTypes ==
    /\ failure \in Outcomes
    /\ sessionFailure \in {"", "error"} \cup SessionFailures
    /\ tests \in {"none", "green", "red"}
    /\ waiting \subseteq Barriers

LocalFlags == progressNew \in BOOLEAN /\ noop \in BOOLEAN

ReportTypes ==
    /\ status \in {"none", "success", "failure", "stop", "crash"}
    /\ lastOutcome \in {"none", "crash"} \cup Outcomes
    /\ fed \in {"none", "", "error"} \cup SessionFailures

(* Type correctness, with the bounds of the counters.                      *)
TypeOK ==
    /\ ShellTypes
    /\ UserTypes
    /\ ProjectTypes
    /\ LocalTypes
    /\ LocalFlags
    /\ ReportTypes

(* GATE_FAILURE.md, which the next Plan reads as the verdict on the        *)
(* previous iteration, agrees with how that iteration ended whenever it    *)
(* was judged and did not die; without a failure its boxes are all ticked. *)
GateFileTruthful ==
    pc \in {"shell", "top", "enter", "pause", "plan"} =>
        /\ lastOutcome \in {"gate", "tests"} => gateFile
        /\ lastOutcome \in {"", "noop", "review"} => ~gateFile /\ boxes

(* A barrier the loop has found and nobody has lifted holds the iteration  *)
(* before its gates, unless DONE exists.                                   *)
BarrierRespected ==
    pc \in InPython \ {"wait"} /\ standing # {} => IsDone

(* The wait chosen before an iteration is the minimum when the previous    *)
(* one ended well; after a failure or a crash, whatever the crash left in  *)
(* the journal, it doubles until the cap is reached, or is that of a shell *)
(* that cannot run Python.                                                 *)
BackoffMatchesOutcome ==
    [][ pc # "top" /\ pc' = "top" /\ BackoffCap > MinSleep =>
            IF lastOutcome' = "" THEN sleep' = MinSleep
            ELSE /\ sleep' >= Smaller(2 * sleep, Smaller(BackoffCap, PythonlessSleep))
                 /\ sleep' <= Larger(BackoffCap, PythonlessSleep) ]_vars

(* The loop keeps the promise of Mission: its phases are those of one      *)
(* iteration once DONE has been looked at, its evidence the three files    *)
(* that the Review relies on, its reasons those of agent_loop.sh.          *)
Promise == INSTANCE Mission WITH
    Limited  <- MaxIterations > 0 \/ HoursCapped,
    phase    <- IF pc = "stopped" THEN "stopped"
                ELSE IF pc \in InPython \ {"enter"} THEN "working" ELSE "between",
    done     <- doneBy,
    evidence <- boxes /\ claim /\ ~gateFile,
    reason   <- IF stopReason \in {"cap", "hours"} THEN "limit"
                ELSE IF stopReason \in {"signal", "directory"} THEN "outside"
                ELSE stopReason

KeepsPromise == Promise!Spec

(* The kill-switch works from every state, whether or not there is a cap:  *)
(* with DONE the loop stops, unless its Python dies on the way.            *)
KillStops == IsDone ~> pc = "stopped" \/ (pc = "shell" /\ status = "crash")

(* With an iteration cap the loop ends by itself, whatever fails, unless   *)
(* it waits forever at a barrier that nobody lifts.                        *)
CapStops == MaxIterations > 0 => <>(pc = "stopped") \/ <>[](pc = "wait")

(* How much of an iteration is to come: the points left, and the barriers  *)
(* that may have to be waited for.                                         *)
PointsLeft ==
    CASE pc = "stopped" -> 0 [] pc = "top" -> 1       [] pc = "shell" -> 2
      [] pc = "journal" -> 3 [] pc = "commit" -> 4    [] pc = "finish" -> 5
      [] pc = "feed" -> 6    [] pc = "review" -> 7    [] pc = "claim" -> 8
      [] pc = "tests" -> 9   [] pc = "gates" -> 10    [] pc = "wait" -> 11
      [] pc = "glob" -> 12   [] pc = "implement" -> 13 [] pc = "plan" -> 14
      [] pc = "pause" -> 15  [] pc = "enter" -> 16

ToCome ==
    IF pc \in {"enter", "pause", "plan", "implement", "glob"}
    THEN PointsLeft + Cardinality(Barriers)
    ELSE PointsLeft + Cardinality(waiting)

(* Every step of the loop, and every death of its Python, brings it to     *)
(* the next iteration or nearer to the end of this one: no failure, refusal *)
(* or barrier sends it back; neither the agent nor the user does.          *)
AlwaysForward ==
    [][/\ iteration' > iteration \/ ToCome' <= ToCome
       /\ LoopStep \/ Crash => iteration' > iteration \/ ToCome' < ToCome
       /\ iteration' >= iteration]_vars

(* The steps left to the loop once DONE is there: it finishes what it is   *)
(* doing, and looks at DONE again before it begins anything.               *)
StepsToStop ==
    IF pc = "stopped" THEN 0
    ELSE IF pc = "shell" /\ status = "stop" THEN 1
    ELSE IF pc = "enter" THEN 2
    ELSE ToCome + 2

(* "L'agent s'arretera a la fin de l'iteration en cours": with DONE every  *)
(* step of the loop brings its end nearer, whatever the sessions, gates    *)
(* and barriers do and wherever it was when DONE appeared; nothing but a   *)
(* death of its Python postpones that end, and no other iteration works.   *)
KillApproaches ==
    [][IsDone => /\ LoopStep => StepsToStop' < StepsToStop
                 /\ ~Crash => StepsToStop' <= StepsToStop]_vars

=============================================================================
