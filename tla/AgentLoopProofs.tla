--------------------------- MODULE AgentLoopProofs ---------------------------
(***************************************************************************)
(* What AgentLoop keeps for every set of barriers, cap and threshold.      *)
(* Each result is carried by an invariant that says, point by point of the *)
(* iteration, what the loop has established so far; LoopInv collects them. *)
(***************************************************************************)
EXTENDS AgentLoop, TLAPS, FiniteSetTheorems

BeforeBarriers == {"enter", "pause", "plan", "implement", "glob"}
AfterBarriers == InPython \ (BeforeBarriers \cup {"wait"})
Conclusion == {"feed", "finish", "commit", "journal"}

(* The loop declares the mission complete only over ticked boxes, a full   *)
(* report, gates that passed and a test command that did not fail.         *)
MissionVerified == doneBy = "loop" => boxes /\ claim /\ ~gateFile

(* "La boucle ne s'arrete que sur fichier DONE ou cap dur", or with the    *)
(* pod: no failure, exception or crash of an iteration stops it.           *)
StopsOnlyForReason ==
    pc = "stopped" =>
        \/ stopReason = "done" /\ IsDone
        \/ stopReason = "cap" /\ CapReached
        \/ stopReason = "hours" /\ HoursCapped
        \/ stopReason \in {"signal", "directory"}

(* A failure is the work of the iteration that reports it, from its gates  *)
(* on or by a jump to its end.                                             *)
FailureInv ==
    /\ pc \in Shell \cup BeforeBarriers \cup {"wait", "gates", "review"} => failure = ""
    /\ pc = "tests" => failure \in {"", "gate"}
    /\ pc = "claim" => failure \in {"", "gate", "tests"}

(* What gateFile says from the gates to the end of the iteration.          *)
GateInv ==
    pc \in {"tests", "claim", "review"} \cup Conclusion =>
        /\ failure \in {"gate", "tests"} => gateFile
        /\ failure \in {"", "noop", "review"} => ~gateFile /\ boxes

(* What leads to touch_done has been checked, in this order.               *)
MissionPath ==
    /\ pc \in {"tests", "claim", "review"} /\ failure = "" => boxes
    /\ pc = "review" => claim

(* After touch_done no session runs: boxes and report stay as they were.   *)
MissionEnd == doneBy = "loop" => pc \in Conclusion \cup Shell \cup {"enter"}

(* The barriers still standing are those the loop is waiting for.          *)
BarrierInv ==
    /\ standing \subseteq barriers
    /\ pc \in Shell \cup BeforeBarriers => standing = {}
    /\ pc = "wait" => standing \subseteq waiting
    /\ pc \in AfterBarriers => standing = {} \/ IsDone

(* The status 10 is given only for a DONE file, which nothing removes.     *)
StopInv ==
    /\ status = "stop" => IsDone
    /\ StopsOnlyForReason

LoopInv ==
    /\ TypeOK
    /\ FailureInv
    /\ GateInv
    /\ GateFileTruthful
    /\ MissionPath
    /\ MissionEnd
    /\ MissionVerified
    /\ BarrierInv
    /\ StopInv

-----------------------------------------------------------------------------
(* The waits between two iterations are natural numbers of seconds.        *)
LEMMA BackoffInNat ==
  ASSUME NEW code, sleep \in Nat PROVE Backoff(code) \in Nat
BY LoopAssumption DEF Backoff, Smaller, Larger, MinSleep

(* Counting a no-op up to the threshold stays within the threshold.        *)
LEMMA NoopBound ==
  ASSUME noopRun \in 0 .. MaxNoops, noop \in BOOLEAN
  PROVE  NoopRunAfter \in 0 .. MaxNoops
BY LoopAssumption DEF NoopRunAfter, Smaller

-----------------------------------------------------------------------------
(* Each part of the loop preserves the invariant, conjunct by conjunct.    *)

(* agent_loop.sh: caps, iteration, backoff, exit.                          *)
LEMMA ShellInv == ASSUME LoopInv, ShellStep PROVE LoopInv'
<1> USE LoopAssumption DEF LoopInv, TypeOK,
        ShellStep, StopAtCap, StopAtHours, NextIteration, StopOnDone,
        SleepThenRetry, Stop, ForgetLocals, CapReached, StopRequested,
        shellVars, userVars, projectVars, localVars, reportVars
<1>1. ShellTypes'
  <2>1. CASE SleepThenRetry
    <3>1. sleep' \in Nat
      BY <2>1, BackoffInNat DEF ShellTypes, PythonlessSleep
    <3> QED BY <2>1, <3>1 DEF ShellTypes, Shell, InPython
  <2>2. CASE NextIteration
    BY <2>2 DEF ShellTypes, InPython, Counted
  <2>3. CASE StopAtCap \/ StopAtHours \/ StopOnDone
    BY <2>3 DEF ShellTypes, Shell
  <2>4. QED BY <2>1, <2>2, <2>3
<1>2. UserTypes'
  BY DEF UserTypes
<1>3. ProjectTypes'
  BY DEF ProjectTypes
<1>4. LocalTypes'
  BY DEF LocalTypes, UserTypes, Outcomes, Failures
<1>5. LocalFlags'
  BY DEF LocalFlags
<1>6. ReportTypes'
  BY DEF ReportTypes, LocalTypes
<1>7. FailureInv'
  BY DEF FailureInv, ShellTypes, Shell, InPython, BeforeBarriers
<1>8. GateInv'
  BY DEF GateInv, GateFileTruthful, FailureInv, Shell, BeforeBarriers, Conclusion
<1>9. GateFileTruthful'
  BY DEF GateFileTruthful, GateInv, FailureInv, Conclusion
<1>10. MissionPath'
  BY DEF MissionPath, FailureInv, Shell, BeforeBarriers
<1>11. MissionEnd'
  BY DEF MissionEnd, IsDone, Shell, Conclusion
<1>12. MissionVerified'
  BY DEF MissionVerified, MissionEnd, MissionPath, GateInv, FailureInv, Conclusion, Shell
<1>13. BarrierInv'
  BY DEF BarrierInv, UserTypes, Shell, InPython, BeforeBarriers, AfterBarriers, IsDone
<1>14. StopInv'
  BY DEF StopInv, StopsOnlyForReason, IsDone, CapReached
<1> QED BY <1>1, <1>2, <1>3, <1>4, <1>5, <1>6, <1>7, <1>8, <1>9, <1>10, <1>11, <1>12, <1>13, <1>14

(* The first check of DONE.                                                *)
LEMMA EnterInv == ASSUME LoopInv, RefuseToBegin \/ Begin PROVE LoopInv'
<1> USE LoopAssumption DEF LoopInv, TypeOK,
        RefuseToBegin, Begin, Exit, ForgetLocals, MayBegin,
        shellVars, userVars, projectVars, localVars, reportVars
<1>1. ShellTypes'
  BY DEF ShellTypes, Shell, InPython
<1>2. UserTypes'
  BY DEF UserTypes
<1>3. ProjectTypes'
  BY DEF ProjectTypes
<1>4. LocalTypes'
  BY DEF LocalTypes, UserTypes, Outcomes, Failures
<1>5. LocalFlags'
  BY DEF LocalFlags
<1>6. ReportTypes'
  BY DEF ReportTypes, LocalTypes
<1>7. FailureInv'
  BY DEF FailureInv, ShellTypes, Shell, InPython, BeforeBarriers
<1>8. GateInv'
  BY DEF GateInv, GateFileTruthful, FailureInv, Shell, BeforeBarriers, Conclusion
<1>9. GateFileTruthful'
  BY DEF GateFileTruthful, GateInv, FailureInv, Conclusion
<1>10. MissionPath'
  BY DEF MissionPath, FailureInv, Shell, BeforeBarriers
<1>11. MissionEnd'
  BY DEF MissionEnd, IsDone, Shell, Conclusion
<1>12. MissionVerified'
  BY DEF MissionVerified, MissionEnd, MissionPath, GateInv, FailureInv, Conclusion, Shell
<1>13. BarrierInv'
  BY DEF BarrierInv, UserTypes, Shell, InPython, BeforeBarriers, AfterBarriers, IsDone
<1>14. StopInv'
  BY DEF StopInv, StopsOnlyForReason, IsDone, CapReached
<1> QED BY <1>1, <1>2, <1>3, <1>4, <1>5, <1>6, <1>7, <1>8, <1>9, <1>10, <1>11, <1>12, <1>13, <1>14

(* Session Plan and what it leaves.                                        *)
LEMMA PlanInv == ASSUME LoopInv, PlanStep PROVE LoopInv'
<1> USE LoopAssumption DEF LoopInv, TypeOK,
        PlanStep, StartPlan, PlanFails, PlanWithoutTask, StartImplement,
        SessionFails,
        shellVars, userVars, projectVars, localVars, reportVars
<1>1. ShellTypes'
  BY DEF ShellTypes, Shell, InPython
<1>2. UserTypes'
  BY DEF UserTypes
<1>3. ProjectTypes'
  BY DEF ProjectTypes
<1>4. LocalTypes'
  BY DEF LocalTypes, UserTypes, Outcomes, Failures
<1>5. LocalFlags'
  BY DEF LocalFlags
<1>6. ReportTypes'
  BY DEF ReportTypes, LocalTypes
<1>7. FailureInv'
  BY DEF FailureInv, ShellTypes, Shell, InPython, BeforeBarriers
<1>8. GateInv'
  BY DEF GateInv, GateFileTruthful, FailureInv, Shell, BeforeBarriers, Conclusion
<1>9. GateFileTruthful'
  BY DEF GateFileTruthful, GateInv, FailureInv, Conclusion
<1>10. MissionPath'
  BY DEF MissionPath, FailureInv, Shell, BeforeBarriers
<1>11. MissionEnd'
  BY DEF MissionEnd, IsDone, Shell, Conclusion
<1>12. MissionVerified'
  BY DEF MissionVerified, MissionEnd, MissionPath, GateInv, FailureInv, Conclusion, Shell
<1>13. BarrierInv'
  BY DEF BarrierInv, UserTypes, Shell, InPython, BeforeBarriers, AfterBarriers, IsDone
<1>14. StopInv'
  BY DEF StopInv, StopsOnlyForReason, IsDone, CapReached
<1> QED BY <1>1, <1>2, <1>3, <1>4, <1>5, <1>6, <1>7, <1>8, <1>9, <1>10, <1>11, <1>12, <1>13, <1>14

(* Session Implement and what it leaves.                                   *)
LEMMA ImplementInv == ASSUME LoopInv, ImplementStep \/ AgentWorks PROVE LoopInv'
<1> USE LoopAssumption DEF LoopInv, TypeOK,
        ImplementStep, ImplementFails, EndImplement, AgentWorks, SessionFails,
        shellVars, userVars, projectVars, localVars, reportVars
<1>1. ShellTypes'
  BY DEF ShellTypes, Shell, InPython
<1>2. UserTypes'
  BY DEF UserTypes
<1>3. ProjectTypes'
  BY DEF ProjectTypes
<1>4. LocalTypes'
  BY DEF LocalTypes, UserTypes, Outcomes, Failures
<1>5. LocalFlags'
  BY DEF LocalFlags
<1>6. ReportTypes'
  BY DEF ReportTypes, LocalTypes
<1>7. FailureInv'
  BY DEF FailureInv, ShellTypes, Shell, InPython, BeforeBarriers
<1>8. GateInv'
  BY DEF GateInv, GateFileTruthful, FailureInv, Shell, BeforeBarriers, Conclusion
<1>9. GateFileTruthful'
  BY DEF GateFileTruthful, GateInv, FailureInv, Conclusion
<1>10. MissionPath'
  BY DEF MissionPath, FailureInv, Shell, BeforeBarriers
<1>11. MissionEnd'
  BY DEF MissionEnd, IsDone, Shell, Conclusion
<1>12. MissionVerified'
  BY DEF MissionVerified, MissionEnd, MissionPath, GateInv, FailureInv, Conclusion, Shell
<1>13. BarrierInv'
  BY DEF BarrierInv, UserTypes, Shell, InPython, BeforeBarriers, AfterBarriers, IsDone
<1>14. StopInv'
  BY DEF StopInv, StopsOnlyForReason, IsDone, CapReached
<1> QED BY <1>1, <1>2, <1>3, <1>4, <1>5, <1>6, <1>7, <1>8, <1>9, <1>10, <1>11, <1>12, <1>13, <1>14

(* Barriers, gates and tests.                                              *)
LEMMA PostInv == ASSUME LoopInv, PostStep PROVE LoopInv'
<1> USE LoopAssumption DEF LoopInv, TypeOK,
        PostStep, ListBarriers, PassBarrier, EndWait, CheckGates, SkipTests,
        RunTests, PostStepFails, SessionFails, AfterBarrier, WaitAborted, GateFileAfter,
        shellVars, userVars, projectVars, localVars, reportVars
<1>1. ShellTypes'
  BY DEF ShellTypes, Shell, InPython
<1>2. UserTypes'
  BY DEF UserTypes
<1>3. ProjectTypes'
  BY DEF ProjectTypes
<1>4. LocalTypes'
  BY DEF LocalTypes, UserTypes, Outcomes, Failures
<1>5. LocalFlags'
  BY DEF LocalFlags
<1>6. ReportTypes'
  BY DEF ReportTypes, LocalTypes
<1>7. FailureInv'
  BY DEF FailureInv, ShellTypes, Shell, InPython, BeforeBarriers
<1>8. GateInv'
  BY DEF GateInv, GateFileTruthful, FailureInv, Shell, BeforeBarriers, Conclusion
<1>9. GateFileTruthful'
  BY DEF GateFileTruthful, GateInv, FailureInv, Conclusion
<1>10. MissionPath'
  BY DEF MissionPath, FailureInv, Shell, BeforeBarriers
<1>11. MissionEnd'
  BY DEF MissionEnd, IsDone, Shell, Conclusion
<1>12. MissionVerified'
  BY DEF MissionVerified, MissionEnd, MissionPath, GateInv, FailureInv, Conclusion, Shell
<1>13. BarrierInv'
  BY DEF BarrierInv, UserTypes, Shell, InPython, BeforeBarriers, AfterBarriers, IsDone
<1>14. StopInv'
  BY DEF StopInv, StopsOnlyForReason, IsDone, CapReached
<1> QED BY <1>1, <1>2, <1>3, <1>4, <1>5, <1>6, <1>7, <1>8, <1>9, <1>10, <1>11, <1>12, <1>13, <1>14

(* Session Review and its verdict.                                         *)
LEMMA ReviewInv == ASSUME LoopInv, ReviewStep PROVE LoopInv'
<1> USE LoopAssumption DEF LoopInv, TypeOK,
        ReviewStep, DecideReview, ReviewFails, ReviewRejects, ReviewAccepts,
        WantsReview,
        shellVars, userVars, projectVars, localVars, reportVars
<1>1. ShellTypes'
  BY DEF ShellTypes, Shell, InPython
<1>2. UserTypes'
  BY DEF UserTypes, ShellTypes, IsDone
<1>3. ProjectTypes'
  BY DEF ProjectTypes
<1>4. LocalTypes'
  BY DEF LocalTypes, UserTypes, Outcomes, Failures
<1>5. LocalFlags'
  BY DEF LocalFlags
<1>6. ReportTypes'
  BY DEF ReportTypes, LocalTypes
<1>7. FailureInv'
  BY DEF FailureInv, ShellTypes, Shell, InPython, BeforeBarriers
<1>8. GateInv'
  BY DEF GateInv, GateFileTruthful, FailureInv, Shell, BeforeBarriers, Conclusion
<1>9. GateFileTruthful'
  BY DEF GateFileTruthful, GateInv, FailureInv, Conclusion
<1>10. MissionPath'
  BY DEF MissionPath, FailureInv, Shell, BeforeBarriers
<1>11. MissionEnd'
  BY DEF MissionEnd, IsDone, Shell, Conclusion
<1>12. MissionVerified'
  BY DEF MissionVerified, MissionEnd, MissionPath, GateInv, FailureInv, Conclusion, Shell
<1>13. BarrierInv'
  BY DEF BarrierInv, UserTypes, Shell, InPython, BeforeBarriers, AfterBarriers, IsDone
<1>14. StopInv'
  BY DEF StopInv, StopsOnlyForReason, IsDone, CapReached
<1> QED BY <1>1, <1>2, <1>3, <1>4, <1>5, <1>6, <1>7, <1>8, <1>9, <1>10, <1>11, <1>12, <1>13, <1>14

(* Breaker, no-op detection, commit and journal.                           *)
LEMMA FinalInv == ASSUME LoopInv, FinalStep PROVE LoopInv'
<1> USE LoopAssumption DEF LoopInv, TypeOK,
        FinalStep, FeedBreaker, DetectNoop, Commit, Journal, Exit, ForgetLocals,
        shellVars, userVars, projectVars, localVars, reportVars
<1>1. ShellTypes'
  BY DEF ShellTypes, Shell, InPython
<1>2. UserTypes'
  BY DEF UserTypes
<1>3. ProjectTypes'
  <2>1. CASE Journal
    <3>1. NoopRunAfter \in 0 .. MaxNoops
      BY NoopBound DEF ProjectTypes, LocalFlags
    <3> QED BY <2>1, <3>1 DEF ProjectTypes
  <2>2. CASE FeedBreaker \/ DetectNoop \/ Commit
    BY <2>2 DEF ProjectTypes
  <2>3. QED BY <2>1, <2>2
<1>4. LocalTypes'
  BY DEF LocalTypes, UserTypes, Outcomes, Failures
<1>5. LocalFlags'
  BY DEF LocalFlags
<1>6. ReportTypes'
  BY DEF ReportTypes, LocalTypes
<1>7. FailureInv'
  BY DEF FailureInv, ShellTypes, Shell, InPython, BeforeBarriers
<1>8. GateInv'
  BY DEF GateInv, GateFileTruthful, FailureInv, Shell, BeforeBarriers, Conclusion
<1>9. GateFileTruthful'
  BY DEF GateFileTruthful, GateInv, FailureInv, Conclusion
<1>10. MissionPath'
  BY DEF MissionPath, FailureInv, Shell, BeforeBarriers
<1>11. MissionEnd'
  BY DEF MissionEnd, IsDone, Shell, Conclusion
<1>12. MissionVerified'
  BY DEF MissionVerified, MissionEnd, MissionPath, GateInv, FailureInv, Conclusion, Shell
<1>13. BarrierInv'
  BY DEF BarrierInv, UserTypes, Shell, InPython, BeforeBarriers, AfterBarriers, IsDone
<1>14. StopInv'
  BY DEF StopInv, StopsOnlyForReason, IsDone, CapReached
<1> QED BY <1>1, <1>2, <1>3, <1>4, <1>5, <1>6, <1>7, <1>8, <1>9, <1>10, <1>11, <1>12, <1>13, <1>14

(* The death of the process, and of the pod.                               *)
LEMMA AbruptInv == ASSUME LoopInv, Crash \/ Terminate \/ LoseDirectory PROVE LoopInv'
<1> USE LoopAssumption DEF LoopInv, TypeOK,
        Crash, Terminate, LoseDirectory, Exit, Stop, ForgetLocals,
        shellVars, userVars, projectVars, localVars, reportVars
<1>1. ShellTypes'
  BY DEF ShellTypes, Shell, InPython
<1>2. UserTypes'
  BY DEF UserTypes
<1>3. ProjectTypes'
  <2>1. NoopRunAfter \in 0 .. MaxNoops
    BY NoopBound DEF ProjectTypes, LocalFlags
  <2> QED BY <2>1 DEF ProjectTypes
<1>4. LocalTypes'
  BY DEF LocalTypes, UserTypes, Outcomes, Failures
<1>5. LocalFlags'
  BY DEF LocalFlags
<1>6. ReportTypes'
  BY DEF ReportTypes, LocalTypes
<1>7. FailureInv'
  BY DEF FailureInv, ShellTypes, Shell, InPython, BeforeBarriers
<1>8. GateInv'
  BY DEF GateInv, GateFileTruthful, FailureInv, Shell, BeforeBarriers, Conclusion
<1>9. GateFileTruthful'
  BY DEF GateFileTruthful, GateInv, FailureInv, Conclusion
<1>10. MissionPath'
  BY DEF MissionPath, FailureInv, Shell, BeforeBarriers
<1>11. MissionEnd'
  BY DEF MissionEnd, IsDone, Shell, Conclusion
<1>12. MissionVerified'
  BY DEF MissionVerified, MissionEnd, MissionPath, GateInv, FailureInv, Conclusion, Shell
<1>13. BarrierInv'
  BY DEF BarrierInv, UserTypes, Shell, InPython, BeforeBarriers, AfterBarriers, IsDone
<1>14. StopInv'
  BY DEF StopInv, StopsOnlyForReason, IsDone, CapReached
<1> QED BY <1>1, <1>2, <1>3, <1>4, <1>5, <1>6, <1>7, <1>8, <1>9, <1>10, <1>11, <1>12, <1>13, <1>14

(* The interface.                                                          *)
LEMMA UserInv == ASSUME LoopInv, UserStep PROVE LoopInv'
<1> USE LoopAssumption DEF LoopInv, TypeOK,
        UserStep, Kill, SetBarrier, LiftBarrier,
        shellVars, userVars, projectVars, localVars, reportVars
<1>1. ShellTypes'
  BY DEF ShellTypes, Shell, InPython
<1>2. UserTypes'
  BY DEF UserTypes, ShellTypes, IsDone
<1>3. ProjectTypes'
  BY DEF ProjectTypes
<1>4. LocalTypes'
  BY DEF LocalTypes, UserTypes, Outcomes, Failures
<1>5. LocalFlags'
  BY DEF LocalFlags
<1>6. ReportTypes'
  BY DEF ReportTypes, LocalTypes
<1>7. FailureInv'
  BY DEF FailureInv, ShellTypes, Shell, InPython, BeforeBarriers
<1>8. GateInv'
  BY DEF GateInv, GateFileTruthful, FailureInv, Shell, BeforeBarriers, Conclusion
<1>9. GateFileTruthful'
  BY DEF GateFileTruthful, GateInv, FailureInv, Conclusion
<1>10. MissionPath'
  BY DEF MissionPath, FailureInv, Shell, BeforeBarriers
<1>11. MissionEnd'
  BY DEF MissionEnd, IsDone, Shell, Conclusion
<1>12. MissionVerified'
  BY DEF MissionVerified, MissionEnd, MissionPath, GateInv, FailureInv, Conclusion, Shell
<1>13. BarrierInv'
  BY DEF BarrierInv, UserTypes, Shell, InPython, BeforeBarriers, AfterBarriers, IsDone
<1>14. StopInv'
  BY DEF StopInv, StopsOnlyForReason, IsDone, CapReached
<1> QED BY <1>1, <1>2, <1>3, <1>4, <1>5, <1>6, <1>7, <1>8, <1>9, <1>10, <1>11, <1>12, <1>13, <1>14

-----------------------------------------------------------------------------
(* The invariant holds of a fresh project, before the first iteration.     *)
LEMMA InitInv == Init => LoopInv
<1> SUFFICES ASSUME Init PROVE LoopInv
  OBVIOUS
<1>1. TypeOK
  <2>1. pc \in Shell /\ iteration = 0 /\ sleep = 2 /\ stopReason = "none"
        /\ noopRun = 0
    BY DEF Init, Shell, MinSleep
  <2>2. (MaxIterations > 0 => iteration <= MaxIterations) /\ noopRun \in 0 .. MaxNoops
    BY <2>1, LoopAssumption
  <2>3. ShellTypes
    BY <2>1, <2>2 DEF ShellTypes
  <2>4. UserTypes
    BY DEF Init, UserTypes
  <2>5. ProjectTypes
    BY <2>2 DEF Init, ProjectTypes
  <2>6. LocalTypes
    BY DEF Init, LocalTypes, Outcomes
  <2>7. LocalFlags
    BY DEF Init, LocalFlags
  <2>8. ReportTypes
    BY DEF Init, ReportTypes, Outcomes
  <2> QED BY <2>3, <2>4, <2>5, <2>6, <2>7, <2>8 DEF TypeOK
<1>2. FailureInv /\ GateInv /\ GateFileTruthful
  BY DEF Init, FailureInv, GateInv, GateFileTruthful, Conclusion
<1>3. MissionPath /\ MissionEnd /\ MissionVerified
  BY DEF Init, MissionPath, MissionEnd, MissionVerified
<1>4. BarrierInv /\ StopInv
  BY DEF Init, BarrierInv, StopInv, StopsOnlyForReason, IsDone
<1> QED BY <1>1, <1>2, <1>3, <1>4 DEF LoopInv

(* Every step preserves it, and so does a stutter.                         *)
LEMMA NextInv == LoopInv /\ [Next]_vars => LoopInv'
<1> SUFFICES ASSUME LoopInv, [Next]_vars PROVE LoopInv'
  OBVIOUS
<1>1. CASE ShellStep
  BY <1>1, ShellInv
<1>2. CASE RefuseToBegin \/ Begin
  BY <1>2, EnterInv
<1>3. CASE PlanStep
  BY <1>3, PlanInv
<1>4. CASE ImplementStep \/ AgentWorks
  BY <1>4, ImplementInv
<1>5. CASE PostStep
  BY <1>5, PostInv
<1>6. CASE ReviewStep
  BY <1>6, ReviewInv
<1>7. CASE FinalStep
  BY <1>7, FinalInv
<1>8. CASE Crash \/ Terminate \/ LoseDirectory
  BY <1>8, AbruptInv
<1>9. CASE UserStep
  BY <1>9, UserInv
<1>10. CASE UNCHANGED vars
  <2> USE <1>10 DEF LoopInv, vars, shellVars, userVars, projectVars, localVars, reportVars
  <2>1. TypeOK'
    <3>1. ShellTypes' /\ UserTypes' /\ ProjectTypes'
      BY DEF TypeOK, ShellTypes, UserTypes, ProjectTypes
    <3>2. LocalTypes' /\ LocalFlags' /\ ReportTypes'
      BY DEF TypeOK, LocalTypes, LocalFlags, ReportTypes
    <3> QED BY <3>1, <3>2 DEF TypeOK
  <2>2. FailureInv' /\ GateInv' /\ GateFileTruthful'
    BY DEF FailureInv, GateInv, GateFileTruthful
  <2>3. MissionPath' /\ MissionEnd' /\ MissionVerified'
    BY DEF MissionPath, MissionEnd, MissionVerified
  <2>4. BarrierInv' /\ StopInv'
    BY DEF BarrierInv, StopInv, StopsOnlyForReason, CapReached, IsDone
  <2> QED BY <2>1, <2>2, <2>3, <2>4
<1> QED
  BY <1>1, <1>2, <1>3, <1>4, <1>5, <1>6, <1>7, <1>8, <1>9, <1>10 DEF Next, LoopStep

(* LoopInv is an invariant of the loop.                                    *)
LEMMA InvHolds == Spec => []LoopInv
BY InitInv, NextInv, PTL DEF Spec

-----------------------------------------------------------------------------

(* The loop's state keeps its types, its iteration counter its cap and its *)
(* count of no-ops its threshold.                                          *)
THEOREM TypeCorrect == Spec => []TypeOK
<1>1. LoopInv => TypeOK
  BY DEF LoopInv
<1> QED BY <1>1, InvHolds, PTL

(* When the loop itself has created DONE, the boxes of TASK.md and of the  *)
(* report are ticked and no gate or test has failed.                       *)
THEOREM MissionCorrect == Spec => []MissionVerified
<1>1. LoopInv => MissionVerified
  BY DEF LoopInv
<1> QED BY <1>1, InvHolds, PTL

(* Between two iterations GATE_FAILURE.md says how the last one ended.     *)
THEOREM GateFileCorrect == Spec => []GateFileTruthful
<1>1. LoopInv => GateFileTruthful
  BY DEF LoopInv
<1> QED BY <1>1, InvHolds, PTL

(* agent_loop.sh ends for DONE, a cap or a signal only, however its        *)
(* iterations end.                                                         *)
THEOREM StopCorrect == Spec => []StopsOnlyForReason
<1>1. LoopInv => StopsOnlyForReason
  BY DEF LoopInv, StopInv
<1> QED BY <1>1, InvHolds, PTL

(* No iteration goes past a barrier it has found before it is lifted or    *)
(* DONE exists, with any set of barriers lifted and set in any order.      *)
THEOREM BarrierCorrect == Spec => []BarrierRespected
<1>1. LoopInv => BarrierRespected
  BY DEF LoopInv, BarrierInv, BarrierRespected, TypeOK, ShellTypes,
         AfterBarriers, InPython
<1> QED BY <1>1, InvHolds, PTL

-----------------------------------------------------------------------------

(* The wait is never below the minimum, and the status the shell works on  *)
(* is the one the last outcome gave the process.                           *)
BackoffInv ==
    /\ BackoffCap > MinSleep => sleep >= MinSleep
    /\ pc = "shell" /\ status # "stop" => (status = "success" <=> lastOutcome = "")

(* The action of BackoffMatchesOutcome.                                    *)
BackoffStep ==
    pc # "top" /\ pc' = "top" /\ BackoffCap > MinSleep =>
        IF lastOutcome' = "" THEN sleep' = MinSleep
        ELSE /\ sleep' >= Smaller(2 * sleep, Smaller(BackoffCap, PythonlessSleep))
             /\ sleep' <= Larger(BackoffCap, PythonlessSleep)

LEMMA BackoffInit == Init => BackoffInv
<1> SUFFICES ASSUME Init PROVE BackoffInv
  OBVIOUS
<1>1. pc = "top" /\ sleep = MinSleep
  BY DEF Init
<1>2. sleep >= MinSleep
  BY <1>1 DEF MinSleep
<1> QED BY <1>1, <1>2 DEF BackoffInv

(* After anything but a success the wait doubles, up to the cap.           *)
LEMMA BackoffGrows ==
  ASSUME NEW code, code # "success", NEW now \in Nat, now = sleep, BackoffCap \in Nat,
         BackoffCap > MinSleep, now >= MinSleep
  PROVE  /\ Backoff(code) \in Nat /\ Backoff(code) > MinSleep
         /\ Backoff(code) >= Smaller(2 * now, Smaller(BackoffCap, PythonlessSleep))
         /\ Backoff(code) <= BackoffCap
<1>1. 2 * now \in Nat /\ 2 * now >= 4 /\ BackoffCap > 2
  BY DEF MinSleep
<1>2. Larger(2 * now, MinSleep) = 2 * now
  BY <1>1 DEF Larger, MinSleep
<1>3. Backoff(code) = Smaller(2 * now, BackoffCap)
  BY <1>2 DEF Backoff
<1> QED BY <1>1, <1>3 DEF MinSleep, Smaller, PythonlessSleep

(* The wait that follows, and when it is the minimum.                      *)
LEMMA SleepAfter ==
  ASSUME sleep \in Nat, BackoffCap \in Nat, BackoffCap > MinSleep, sleep >= MinSleep,
         SleepThenRetry
  PROVE  /\ sleep' >= MinSleep
         /\ status = "success" => sleep' = MinSleep
         /\ status # "success" =>
               /\ sleep' >= Smaller(2 * sleep, Smaller(BackoffCap, PythonlessSleep))
               /\ sleep' <= Larger(BackoffCap, PythonlessSleep)
<1>a. PICK now \in Nat : now = sleep
  OBVIOUS
<1>b. PICK after : after = sleep'
  OBVIOUS
<1>c. now >= MinSleep
  BY <1>a
<1>d. SUFFICES /\ after >= MinSleep
               /\ status = "success" => after = MinSleep
               /\ status # "success" =>
                     /\ after >= Smaller(2 * now, Smaller(BackoffCap, PythonlessSleep))
                     /\ after <= Larger(BackoffCap, PythonlessSleep)
  BY <1>a, <1>b, Zenon
<1>1. after = Backoff(status) \/ (status # "success" /\ after = 300)
  BY <1>b DEF SleepThenRetry, PythonlessSleep
<1>2. CASE status = "success"
  <2>1. after = 2
    BY <1>1, <1>2 DEF Backoff, MinSleep
  <2> QED BY <2>1, <1>2 DEF MinSleep
<1>3. CASE status # "success" /\ after = 300
  <2>1. Smaller(2 * now, Smaller(BackoffCap, PythonlessSleep)) <= 300
    BY DEF Smaller, PythonlessSleep
  <2>2. Larger(BackoffCap, PythonlessSleep) >= 300
    BY DEF Larger, PythonlessSleep
  <2> QED BY <1>3, <2>1, <2>2 DEF MinSleep
<1>4. CASE status # "success" /\ after = Backoff(status)
  <2>1. /\ after \in Nat /\ after > MinSleep
        /\ after >= Smaller(2 * now, Smaller(BackoffCap, PythonlessSleep))
        /\ after <= BackoffCap
    BY <1>a, <1>c, <1>4, BackoffGrows
  <2>2. Larger(BackoffCap, PythonlessSleep) >= BackoffCap
    BY DEF Larger, PythonlessSleep
  <2>3. Larger(BackoffCap, PythonlessSleep) \in Nat
    BY DEF Larger, PythonlessSleep
  <2> QED BY <1>4, <2>1, <2>2, <2>3 DEF MinSleep
<1> QED BY <1>1, <1>2, <1>3, <1>4

LEMMA BackoffNext ==
  TypeOK /\ BackoffInv /\ [Next]_vars => BackoffInv' /\ BackoffStep
<1> SUFFICES ASSUME TypeOK, BackoffInv, [Next]_vars PROVE BackoffInv' /\ BackoffStep
  OBVIOUS
<1> USE DEF BackoffInv, BackoffStep
<1>1. sleep \in Nat /\ BackoffCap \in Nat
  BY LoopAssumption DEF TypeOK, ShellTypes
<1>2. CASE SleepThenRetry
  <2>1. pc = "shell" /\ status # "stop" /\ pc' = "top" /\ lastOutcome' = lastOutcome
    BY <1>2 DEF SleepThenRetry, StopRequested
  <2>2. BackoffCap > MinSleep =>
          /\ sleep' >= MinSleep
          /\ status = "success" => sleep' = MinSleep
          /\ status # "success" =>
                /\ sleep' >= Smaller(2 * sleep, Smaller(BackoffCap, PythonlessSleep))
                /\ sleep' <= Larger(BackoffCap, PythonlessSleep)
    BY <1>1, <1>2, SleepAfter
  <2> QED BY <2>1, <2>2
<1>3. CASE StopAtCap \/ StopAtHours \/ NextIteration \/ StopOnDone \/ Terminate \/ LoseDirectory
  <2>1. sleep' = sleep /\ pc' \in {"stopped", "enter"}
    BY <1>3 DEF StopAtCap, StopAtHours, NextIteration, StopOnDone, Terminate,
                LoseDirectory, Stop
  <2> QED BY <2>1
<1>4. CASE Crash \/ RefuseToBegin \/ Journal
  <2>1. sleep' = sleep /\ pc' = "shell"
    BY <1>4 DEF Crash, RefuseToBegin, Journal, Exit, shellVars
  <2>2. \/ status' = "stop"
        \/ status' = "crash" /\ lastOutcome' = "crash"
        \/ status' = "success" /\ lastOutcome' = ""
        \/ status' = "failure" /\ lastOutcome' = failure /\ failure # ""
    BY <1>4 DEF Crash, RefuseToBegin, Journal, Exit
  <2>3. failure # "none"
    BY DEF TypeOK, LocalTypes, Outcomes, Failures
  <2> QED BY <2>1, <2>2, <2>3
<1>5. CASE Begin \/ PlanStep \/ ImplementStep \/ AgentWorks \/ PostStep \/ ReviewStep
           \/ FeedBreaker \/ DetectNoop \/ Commit
  <2>1. sleep' = sleep /\ pc' \notin {"top", "shell"}
    BY <1>5 DEF Begin, PlanStep, StartPlan, PlanFails, PlanWithoutTask, StartImplement,
                ImplementStep, ImplementFails, EndImplement, AgentWorks, SessionFails,
                PostStep, ListBarriers, PassBarrier, EndWait, CheckGates, SkipTests,
                RunTests, PostStepFails, ReviewStep, DecideReview, ReviewFails,
                ReviewRejects, ReviewAccepts, FeedBreaker, DetectNoop, Commit, shellVars
  <2> QED BY <2>1
<1>6. CASE UserStep \/ UNCHANGED vars
  <2>1. UNCHANGED <<pc, sleep, status, lastOutcome>>
    BY <1>6 DEF UserStep, Kill, SetBarrier, LiftBarrier, vars, shellVars, reportVars
  <2> QED BY <2>1
<1> QED
  BY <1>2, <1>3, <1>4, <1>5, <1>6 DEF Next, LoopStep, ShellStep, FinalStep

(* After a failure, an exception or a crash the wait doubles up to the     *)
(* cap, after a success it is the minimum, for every cap.                  *)
THEOREM BackoffCorrect == Spec => BackoffMatchesOutcome
<1>1. Spec => []TypeOK
  BY TypeCorrect
<1>2. TypeOK /\ BackoffInv /\ [Next]_vars => BackoffInv'
  BY BackoffNext
<1>3. TypeOK /\ BackoffInv /\ [Next]_vars => [BackoffStep]_vars
  BY BackoffNext
<1>4. Spec => [][BackoffStep]_vars
  BY <1>1, <1>2, <1>3, BackoffInit, PTL DEF Spec
<1> QED BY <1>4 DEF BackoffMatchesOutcome, BackoffStep

-----------------------------------------------------------------------------
(* The steps of the loop are steps of Mission, or are not seen by it.      *)

LEMMA PromiseInit == Init => Promise!Init
BY DEF Init, Promise!Init, InPython

(* agent_loop.sh stops between two iterations, for a reason.               *)
LEMMA ShellKeeps ==
  ASSUME LoopInv, ShellStep \/ Terminate \/ LoseDirectory PROVE [Promise!Next]_Promise!vars
<1>1. CASE NextIteration \/ SleepThenRetry
  <2>1. UNCHANGED Promise!vars
    BY <1>1 DEF NextIteration, SleepThenRetry, Promise!vars, InPython, userVars,
                projectVars, shellVars
  <2> QED BY <2>1
<1>2. ASSUME NEW r, Stop(r), pc # "stopped"
      PROVE  /\ UNCHANGED <<doneBy, boxes, claim, gateFile>>
             /\ pc' = "stopped" /\ stopReason' = r
  BY <1>2 DEF Stop
<1>3. CASE StopOnDone
  <2>1. pc = "shell" /\ IsDone /\ Stop("done")
    BY <1>3 DEF StopOnDone, StopRequested, LoopInv, StopInv
  <2>2. Promise!StopOnDone
    BY <2>1, <1>2 DEF Promise!StopOnDone, Promise!Stop, InPython, IsDone
  <2> QED BY <2>2 DEF Promise!Next
<1>4. CASE StopAtCap \/ StopAtHours
  <2>1. /\ pc = "top" /\ (MaxIterations > 0 \/ HoursCapped)
        /\ Stop("cap") \/ Stop("hours")
    BY <1>4 DEF StopAtCap, StopAtHours, CapReached
  <2>2. Promise!StopAtLimit
    BY <2>1, <1>2 DEF Promise!StopAtLimit, Promise!Stop, InPython
  <2> QED BY <2>2 DEF Promise!Next
<1>5. CASE Terminate \/ LoseDirectory
  <2>1. pc # "stopped" /\ (Stop("signal") \/ Stop("directory"))
    BY <1>5 DEF Terminate, LoseDirectory
  <2>2. Promise!StopFromOutside
    BY <2>1, <1>2 DEF Promise!StopFromOutside, Promise!Stop, InPython
  <2> QED BY <2>2 DEF Promise!Next
<1> QED BY <1>1, <1>3, <1>4, <1>5 DEF ShellStep

(* An iteration begins while nobody has created DONE, ends in any way.     *)
LEMMA EdgesKeep ==
  ASSUME LoopInv, RefuseToBegin \/ Begin \/ Crash \/ Journal PROVE [Promise!Next]_Promise!vars
<1> USE DEF InPython
<1>1. CASE Begin
  <2>1. Promise!Start
    BY <1>1 DEF Begin, MayBegin, IsDone, Promise!Start, shellVars, userVars, projectVars
  <2> QED BY <2>1 DEF Promise!Next
<1>2. ASSUME RefuseToBegin \/ Crash \/ Journal
      PROVE  /\ UNCHANGED <<doneBy, boxes, claim, gateFile, stopReason>>
             /\ pc \in InPython /\ pc' = "shell"
  BY <1>2 DEF RefuseToBegin, Crash, Journal, Exit, shellVars, projectVars
<1>3. CASE (RefuseToBegin \/ Crash \/ Journal) /\ pc = "enter"
  <2>1. UNCHANGED Promise!vars
    BY <1>2, <1>3 DEF Promise!vars
  <2> QED BY <2>1
<1>4. CASE (RefuseToBegin \/ Crash \/ Journal) /\ pc # "enter"
  <2>1. Promise!Leave
    BY <1>2, <1>4 DEF Promise!Leave
  <2> QED BY <2>1 DEF Promise!Next
<1> QED BY <1>1, <1>3, <1>4

(* What an iteration in progress leaves as it is.                          *)
StaysAtWork ==
    /\ pc \in InPython \ {"enter"} /\ pc' \in InPython \ {"enter"}
    /\ UNCHANGED <<stopReason, doneBy>>

(* Work changes the evidence only while the loop has not declared the end. *)
LEMMA WorkKeeps ==
  ASSUME LoopInv, PlanStep \/ ImplementStep \/ AgentWorks \/ PostStep
  PROVE  [Promise!Next]_Promise!vars
<1>1. StaysAtWork
  BY DEF PlanStep, StartPlan, PlanFails, PlanWithoutTask, StartImplement,
         ImplementStep, ImplementFails, EndImplement, AgentWorks, SessionFails,
         PostStep, ListBarriers, PassBarrier, EndWait, CheckGates, SkipTests,
         RunTests, PostStepFails, StaysAtWork, InPython, shellVars, userVars
<1>2. /\ boxes' \in BOOLEAN /\ claim' \in BOOLEAN /\ gateFile' \in BOOLEAN
  <2>1. LoopInv'
    BY PlanInv, ImplementInv, PostInv
  <2> QED BY <2>1 DEF LoopInv, TypeOK, ProjectTypes
<1>3. CASE doneBy # "loop"
  <2>1. Promise!Work
    BY <1>1, <1>2, <1>3 DEF StaysAtWork, InPython, Promise!Work
  <2> QED BY <2>1 DEF Promise!Next
<1>4. CASE doneBy = "loop"
  <2>1. pc \in Conclusion
    BY <1>1, <1>4 DEF StaysAtWork, LoopInv, MissionEnd, InPython, Shell
  <2>2. FALSE
    BY <2>1 DEF Conclusion, PlanStep, StartPlan, PlanFails, PlanWithoutTask,
         StartImplement, ImplementStep, ImplementFails, EndImplement, AgentWorks,
         PostStep, ListBarriers, PassBarrier, EndWait, CheckGates, SkipTests,
         RunTests, PostStepFails
  <2> QED BY <2>2
<1> QED BY <1>3, <1>4

(* The Review may declare the end, over the evidence; the last steps of    *)
(* the iteration and those of the user leave the evidence alone.           *)
LEMMA EndKeeps ==
  ASSUME LoopInv, ReviewStep \/ FeedBreaker \/ DetectNoop \/ Commit \/ UserStep
  PROVE  [Promise!Next]_Promise!vars
<1> USE DEF InPython
<1>1. CASE ReviewAccepts /\ ~IsDone
  <2>1. boxes /\ claim /\ ~gateFile
    BY <1>1 DEF ReviewAccepts, LoopInv, MissionPath, GateInv, FailureInv
  <2>2. Promise!Complete
    BY <1>1, <2>1 DEF ReviewAccepts, IsDone, Promise!Complete, shellVars, projectVars
  <2> QED BY <2>2 DEF Promise!Next
<1>2. CASE \/ ReviewAccepts /\ IsDone
           \/ DecideReview \/ ReviewFails \/ ReviewRejects
           \/ FeedBreaker \/ DetectNoop \/ Commit
  <2>1. StaysAtWork /\ UNCHANGED <<boxes, claim, gateFile>>
    BY <1>2 DEF ReviewAccepts, DecideReview, ReviewFails, ReviewRejects, FeedBreaker,
                DetectNoop, Commit, StaysAtWork, shellVars, userVars, projectVars
  <2>2. UNCHANGED Promise!vars
    BY <2>1 DEF StaysAtWork, Promise!vars
  <2> QED BY <2>2
<1>3. CASE Kill
  <2>1. Promise!Kill
    BY <1>3 DEF Kill, IsDone, Promise!Kill, shellVars, projectVars
  <2> QED BY <2>1 DEF Promise!Next
<1>4. CASE \E b \in Barriers : SetBarrier(b) \/ LiftBarrier(b)
  <2>1. UNCHANGED Promise!vars
    BY <1>4 DEF SetBarrier, LiftBarrier, Promise!vars, shellVars, projectVars
  <2> QED BY <2>1
<1> QED BY <1>1, <1>2, <1>3, <1>4 DEF ReviewStep, UserStep

(* The loop, its sessions, barriers, gates and crashes included, does what *)
(* Mission promises, for every cap, threshold and set of barriers.         *)
THEOREM PromiseKept == Spec => KeepsPromise
<1>1. LoopInv /\ [Next]_vars => [Promise!Next]_Promise!vars
  <2> SUFFICES ASSUME LoopInv, [Next]_vars PROVE [Promise!Next]_Promise!vars
    OBVIOUS
  <2>1. CASE UNCHANGED vars
    BY <2>1 DEF vars, shellVars, userVars, projectVars, Promise!vars
  <2> QED
    BY <2>1, ShellKeeps, EdgesKeep, WorkKeeps, EndKeeps DEF Next, LoopStep, FinalStep
<1> QED BY <1>1, PromiseInit, InvHolds, PTL DEF Spec, KeepsPromise, Promise!Spec

-----------------------------------------------------------------------------
(* The way through an iteration                                            *)

(* The barriers to wait for are counted, before and after a step.          *)
LEMMA WaitingCounted ==
    ASSUME LoopInv, LoopInv'
    PROVE  /\ Cardinality(Barriers) \in Nat
           /\ Cardinality(waiting) \in 0 .. Cardinality(Barriers)
           /\ Cardinality(waiting') \in 0 .. Cardinality(Barriers)
<1>1. IsFiniteSet(Barriers) /\ Cardinality(Barriers) \in Nat
  BY LoopAssumption, FS_CardinalityType
<1>2. waiting \subseteq Barriers /\ waiting' \subseteq Barriers
  BY DEF LoopInv, TypeOK, LocalTypes
<1>3. ASSUME NEW w \in SUBSET Barriers
      PROVE  Cardinality(w) \in 0 .. Cardinality(Barriers)
  <2>1. IsFiniteSet(w) /\ Cardinality(w) <= Cardinality(Barriers)
    BY <1>1, FS_Subset
  <2>2. Cardinality(w) \in Nat
    BY <2>1, FS_CardinalityType
  <2> QED
    BY <1>1, <2>1, <2>2
<1> QED
  BY <1>1, <1>2, <1>3

(* Inside an iteration the loop only moves towards its end.                *)
Moves == iteration' = iteration /\ ToCome \in Nat /\ ToCome' \in Nat /\ ToCome' < ToCome

(* The points that lead to the shell, or to the end, in one step.          *)
LEMMA Leaving ==
    ASSUME LoopInv, LoopInv', iteration' = iteration, waiting' = {},
           \/ pc \in {"top", "shell"} /\ pc' = "stopped"
           \/ pc \in InPython /\ pc' = "shell"
           \/ pc \in {"glob", "gates", "tests", "claim", "review"} /\ pc' = "feed"
           \/ pc = "wait" /\ pc' = "gates"
    PROVE  Moves
<1>1. Cardinality(waiting') = 0
  BY FS_EmptySet
<1> QED
  BY <1>1, WaitingCounted DEF Moves, ToCome, PointsLeft, InPython

(* The points that lead to another, the barriers as they were.             *)
LEMMA Passing ==
    ASSUME LoopInv, LoopInv', iteration' = iteration, waiting' = waiting,
           \/ pc = "shell" /\ pc' = "top"
           \/ pc = "enter" /\ pc' = "pause"
           \/ pc = "pause" /\ pc' = "plan"
           \/ pc = "plan" /\ pc' \in {"implement", "feed"}
           \/ pc = "implement" /\ pc' \in {"glob", "feed"}
           \/ pc = "gates" /\ pc' = "tests"
           \/ pc = "tests" /\ pc' = "claim"
           \/ pc = "claim" /\ pc' \in {"review", "feed"}
           \/ pc = "review" /\ pc' = "feed"
           \/ pc = "feed" /\ pc' = "finish"
           \/ pc = "finish" /\ pc' = "commit"
           \/ pc = "commit" /\ pc' = "journal"
    PROVE  Moves
  BY WaitingCounted DEF Moves, ToCome, PointsLeft

LEMMA ShellMoves ==
    ASSUME LoopInv, LoopInv', ShellStep
    PROVE  \/ NextIteration /\ iteration' = iteration + 1
           \/ ~NextIteration /\ Moves
<1>1. CASE NextIteration
  BY <1>1 DEF NextIteration, Counted
<1>2. CASE StopAtCap \/ StopAtHours \/ StopOnDone
  <2>1. /\ iteration' = iteration /\ waiting' = {}
        /\ pc \in {"top", "shell"} /\ pc' = "stopped"
    BY <1>2 DEF StopAtCap, StopAtHours, StopOnDone, Stop, ForgetLocals
  <2> QED
    BY <2>1, Leaving DEF NextIteration
<1>3. CASE SleepThenRetry
  <2>1. iteration' = iteration /\ waiting' = waiting /\ pc = "shell" /\ pc' = "top"
    BY <1>3 DEF SleepThenRetry, localVars
  <2> QED
    BY <2>1, Passing DEF NextIteration
<1> QED
  BY <1>1, <1>2, <1>3 DEF ShellStep

LEMMA EarlyMoves ==
    ASSUME LoopInv, LoopInv', RefuseToBegin \/ Begin \/ PlanStep \/ ImplementStep
    PROVE  Moves
<1>1. CASE RefuseToBegin
  <2>1. iteration' = iteration /\ waiting' = {} /\ pc \in InPython /\ pc' = "shell"
    BY <1>1 DEF RefuseToBegin, Exit, ForgetLocals, shellVars, InPython
  <2> QED
    BY <2>1, Leaving
<1>2. CASE Begin \/ PlanStep \/ ImplementStep
  <2>1. iteration' = iteration /\ waiting' = waiting
    BY <1>2 DEF Begin, PlanStep, StartPlan, PlanFails, PlanWithoutTask, StartImplement,
                ImplementStep, ImplementFails, EndImplement, shellVars, localVars
  <2>2. \/ pc = "enter" /\ pc' = "pause"
        \/ pc = "pause" /\ pc' = "plan"
        \/ pc = "plan" /\ pc' \in {"implement", "feed"}
        \/ pc = "implement" /\ pc' \in {"glob", "feed"}
    BY <1>2 DEF Begin, PlanStep, StartPlan, PlanFails, PlanWithoutTask, StartImplement,
                ImplementStep, ImplementFails, EndImplement, SessionFails
  <2> QED
    BY <2>1, <2>2, Passing
<1> QED
  BY <1>1, <1>2

LEMMA PostMoves ==
    ASSUME LoopInv, LoopInv', PostStep
    PROVE  Moves
<1>1. CASE ListBarriers
  BY <1>1, WaitingCounted DEF ListBarriers, shellVars, Moves, ToCome, PointsLeft
<1>2. CASE PassBarrier
  <2>1. PICK b \in waiting : waiting' = waiting \ {b}
    BY <1>2 DEF PassBarrier, AfterBarrier
  <2>2. IsFiniteSet(waiting)
    BY LoopAssumption, FS_Subset DEF LoopInv, TypeOK, LocalTypes
  <2>3. Cardinality(waiting') = Cardinality(waiting) - 1
    BY <2>1, <2>2, FS_RemoveElement
  <2>4. iteration' = iteration /\ pc = "wait" /\ pc' = "wait"
    BY <1>2 DEF PassBarrier, shellVars
  <2> QED
    BY <2>3, <2>4, WaitingCounted DEF Moves, ToCome, PointsLeft
<1>3. CASE EndWait \/ PostStepFails
  <2>1. iteration' = iteration /\ waiting' = {}
    BY <1>3 DEF EndWait, PostStepFails, shellVars
  <2>2. \/ pc \in {"glob", "gates", "tests", "claim", "review"} /\ pc' = "feed"
        \/ pc = "wait" /\ pc' = "gates"
    BY <1>3 DEF EndWait, PostStepFails, SessionFails
  <2> QED
    BY <2>1, <2>2, Leaving
<1>4. CASE CheckGates \/ SkipTests \/ RunTests
  <2>1. iteration' = iteration /\ waiting' = waiting
    BY <1>4 DEF CheckGates, SkipTests, RunTests, shellVars, localVars
  <2>2. CheckGates => pc = "gates" /\ pc' = "tests"
    BY DEF CheckGates
  <2>3. SkipTests => pc = "tests" /\ pc' = "claim"
    BY DEF SkipTests
  <2>4. RunTests => pc = "tests" /\ pc' = "claim"
    BY DEF RunTests
  <2> QED
    BY <1>4, <2>1, <2>2, <2>3, <2>4, Passing
<1> QED
  BY <1>1, <1>2, <1>3, <1>4 DEF PostStep

LEMMA LateMoves ==
    ASSUME LoopInv, LoopInv', ReviewStep \/ FinalStep \/ Crash
    PROVE  Moves
<1>1. CASE ReviewStep \/ FeedBreaker \/ DetectNoop \/ Commit
  <2>1. iteration' = iteration /\ waiting' = waiting
    BY <1>1 DEF ReviewStep, DecideReview, ReviewFails, ReviewRejects, ReviewAccepts,
                FeedBreaker, DetectNoop, Commit, shellVars, localVars
  <2>2. \/ pc = "claim" /\ pc' \in {"review", "feed"}
        \/ pc = "review" /\ pc' = "feed"
        \/ pc = "feed" /\ pc' = "finish"
        \/ pc = "finish" /\ pc' = "commit"
        \/ pc = "commit" /\ pc' = "journal"
    BY <1>1 DEF ReviewStep, DecideReview, ReviewFails, ReviewRejects, ReviewAccepts,
                FeedBreaker, DetectNoop, Commit
  <2> QED
    BY <2>1, <2>2, Passing
<1>2. CASE Journal \/ Crash
  <2>1. iteration' = iteration /\ waiting' = {} /\ pc \in InPython /\ pc' = "shell"
    BY <1>2 DEF Journal, Crash, Exit, ForgetLocals, shellVars, InPython
  <2> QED
    BY <2>1, Leaving
<1> QED
  BY <1>1, <1>2 DEF FinalStep

(* The two kinds of steps of the loop.                                     *)
LEMMA LoopMoves ==
    ASSUME LoopInv, LoopInv', LoopStep \/ Crash
    PROVE  \/ NextIteration /\ iteration' = iteration + 1
           \/ Moves
  BY ShellMoves, EarlyMoves, PostMoves, LateMoves DEF LoopStep

(* The agent and the user leave the loop where it is; a signal and a lost  *)
(* directory end it.                                                       *)
LEMMA OthersStay ==
    ASSUME LoopInv, LoopInv', AgentWorks \/ Terminate \/ LoseDirectory \/ UserStep
    PROVE  /\ iteration' = iteration
           /\ \/ pc' = pc /\ status' = status /\ ToCome' = ToCome
              \/ pc' = "stopped" /\ ToCome \in Nat /\ ToCome' = 0
<1>1. CASE AgentWorks \/ UserStep
  <2>1. iteration' = iteration /\ pc' = pc /\ status' = status /\ waiting' = waiting
    BY <1>1 DEF AgentWorks, UserStep, Kill, SetBarrier, LiftBarrier,
                shellVars, localVars, reportVars
  <2> QED
    BY <2>1 DEF ToCome, PointsLeft
<1>2. CASE Terminate \/ LoseDirectory
  <2>1. iteration' = iteration /\ pc' = "stopped" /\ waiting' = {}
    BY <1>2 DEF Terminate, LoseDirectory, Stop, ForgetLocals
  <2>2. ToCome' = 0
    BY <2>1, FS_EmptySet DEF ToCome, PointsLeft
  <2>3. ToCome \in Nat
    <3>1. pc \in Shell \cup InPython
      BY DEF LoopInv, TypeOK, ShellTypes
    <3> QED
      BY <3>1, WaitingCounted DEF ToCome, PointsLeft, Shell, InPython
  <2> QED
    BY <2>1, <2>2, <2>3
<1> QED
  BY <1>1, <1>2

(* What is to come is a number of steps, at most two of them outside       *)
(* an iteration.                                                           *)
LEMMA LoopInNat ==
    ASSUME LoopInv, LoopInv'
    PROVE  /\ pc \in Shell \cup InPython /\ ToCome \in Nat /\ ToCome' \in Nat
           /\ pc \in {"top", "shell"} => ToCome >= 1
<1>1. pc \in Shell \cup InPython /\ pc' \in Shell \cup InPython
  BY DEF LoopInv, TypeOK, ShellTypes
<1>2. ToCome \in Nat /\ (pc \in {"top", "shell"} => ToCome >= 1)
  BY <1>1, WaitingCounted DEF ToCome, PointsLeft, Shell, InPython
<1>3. ToCome' \in Nat
  BY <1>1, WaitingCounted DEF ToCome, PointsLeft, Shell, InPython
<1> QED
  BY <1>1, <1>2, <1>3

(* The points a step of the loop leads to, when DONE exists.               *)
LEMMA LoopFrom ==
    ASSUME LoopInv, IsDone, LoopStep
    PROVE  /\ pc # "stopped"
           /\ pc = "top" => pc' \in {"enter", "stopped"}
           /\ pc = "shell" => IF status = "stop" THEN pc' = "stopped" ELSE pc' = "top"
           /\ pc = "enter" => pc' = "shell" /\ status' = "stop"
           /\ pc \in InPython \ {"enter"} =>
                 (pc' = "shell" /\ status' = "stop") \/ pc' \in InPython \ {"enter"}
<1>1. CASE ShellStep
  BY <1>1 DEF ShellStep, StopAtCap, StopAtHours, NextIteration, StopOnDone,
              SleepThenRetry, Stop, StopRequested, InPython
<1>2. CASE RefuseToBegin \/ Begin
  BY <1>2 DEF RefuseToBegin, Begin, MayBegin, Exit, InPython
<1>3. CASE PlanStep
  BY <1>3 DEF PlanStep, StartPlan, PlanFails, PlanWithoutTask, StartImplement,
              SessionFails, InPython
<1>4. CASE ImplementStep
  BY <1>4 DEF ImplementStep, ImplementFails, EndImplement, SessionFails, InPython
<1>5. CASE ListBarriers \/ PassBarrier \/ EndWait \/ PostStepFails
  BY <1>5 DEF ListBarriers, PassBarrier, EndWait, PostStepFails, SessionFails, InPython
<1>6. CASE CheckGates
  BY <1>6 DEF CheckGates, InPython
<1>7. CASE SkipTests
  BY <1>7 DEF SkipTests, InPython
<1>8. CASE RunTests
  BY <1>8 DEF RunTests, InPython
<1>9. CASE ReviewStep
  BY <1>9 DEF ReviewStep, DecideReview, ReviewFails, ReviewRejects, ReviewAccepts, InPython
<1>10. CASE FinalStep
  BY <1>10 DEF FinalStep, FeedBreaker, DetectNoop, Commit, Journal, Exit, IsDone, InPython
<1> QED
  BY <1>1, <1>2, <1>3, <1>4, <1>5, <1>6, <1>7, <1>8, <1>9, <1>10 DEF LoopStep, PostStep

(* The counter of iterations and the distance to the end of the iteration  *)
(* go one way, whatever the sessions, the gates, the barriers, the agent   *)
(* and the user do: an iteration is left after a bounded number of steps.  *)
THEOREM ForwardCorrect == Spec => AlwaysForward
<1>1. LoopInv /\ LoopInv' /\ [Next]_vars =>
         [/\ iteration' > iteration \/ ToCome' <= ToCome
          /\ LoopStep \/ Crash => iteration' > iteration \/ ToCome' < ToCome
          /\ iteration' >= iteration]_vars
  <2> SUFFICES ASSUME LoopInv, LoopInv', Next
               PROVE  /\ iteration' > iteration \/ ToCome' <= ToCome
                      /\ LoopStep \/ Crash => iteration' > iteration \/ ToCome' < ToCome
                      /\ iteration' >= iteration
    OBVIOUS
  <2>1. iteration \in Nat
    BY DEF LoopInv, TypeOK, ShellTypes
  <2>2. CASE LoopStep \/ Crash
    BY <2>1, <2>2, LoopMoves DEF Moves
  <2>3. CASE ~(LoopStep \/ Crash)
    BY <2>1, <2>3, OthersStay, LoopInNat DEF Next
  <2> QED
    BY <2>2, <2>3
<1> QED
  BY <1>1, InvHolds, NextInv, PTL DEF Spec, AlwaysForward

(* What DONE changes in the shell and at the start of an iteration.        *)
LEMMA StopMoves ==
    ASSUME LoopInv, LoopInv', IsDone, LoopStep
    PROVE  StepsToStop' < StepsToStop
<1>1. /\ pc \in Shell \cup InPython /\ ToCome \in Nat /\ ToCome' \in Nat
      /\ pc \in {"top", "shell"} => ToCome >= 1
  BY LoopInNat
<1>0. PICK before \in Nat, after \in Nat : before = ToCome /\ after = ToCome'
  BY <1>1
<1>2. NextIteration \/ after < before
  BY <1>0, LoopMoves DEF Moves
<1>3. CASE pc = "top"
  <2>1. pc' \in {"enter", "stopped"}
    BY <1>3, LoopFrom
  <2>2. StepsToStop = ToCome + 2
    BY <1>3 DEF StepsToStop
  <2>3. StepsToStop' \in {0, 2}
    BY <2>1 DEF StepsToStop
  <2> QED
    BY <1>1, <1>3, <2>2, <2>3
<1>4. CASE pc = "shell"
  <2>1. IF status = "stop" THEN pc' = "stopped" ELSE pc' = "top"
    BY <1>4, LoopFrom
  <2>2. CASE status = "stop"
    BY <1>4, <2>1, <2>2 DEF StepsToStop
  <2>3. CASE status # "stop"
    <3>1. after < before
      BY <1>2, <1>4 DEF NextIteration
    <3>2. StepsToStop = before + 2 /\ StepsToStop' = after + 2
      BY <1>4, <1>0, <2>1, <2>3 DEF StepsToStop
    <3>3. after + 2 < before + 2
      BY <3>1
    <3> QED
      BY <3>2, <3>3, Zenon
  <2> QED
    BY <2>2, <2>3
<1>5. CASE pc = "enter"
  <2>1. pc' = "shell" /\ status' = "stop"
    BY <1>5, LoopFrom
  <2> QED
    BY <1>1, <1>5, <2>1 DEF StepsToStop
<1>6. CASE pc \in InPython \ {"enter"}
  <2>1. (pc' = "shell" /\ status' = "stop") \/ pc' \in InPython \ {"enter"}
    BY <1>6, LoopFrom
  <2>2. after < before
    BY <1>2, <1>6 DEF NextIteration, InPython
  <2>3. StepsToStop = before + 2
    BY <1>6, <1>0 DEF StepsToStop, InPython
  <2>4. StepsToStop' \in {1, after + 2}
    BY <1>0, <2>1 DEF StepsToStop, InPython
  <2>5. 1 < before + 2 /\ after + 2 < before + 2
    BY <2>2
  <2> QED
    BY <2>3, <2>4, <2>5, Zenon
<1>7. pc # "stopped"
  BY LoopFrom
<1> QED
  BY <1>1, <1>3, <1>4, <1>5, <1>6, <1>7 DEF Shell

(* The kill-switch: with DONE the loop comes nearer to its end with every  *)
(* step it takes, and only a death of its Python puts that end off.        *)
THEOREM KillCorrect == Spec => KillApproaches
<1>1. LoopInv /\ LoopInv' /\ [Next]_vars =>
         [IsDone => /\ LoopStep => StepsToStop' < StepsToStop
                    /\ ~Crash => StepsToStop' <= StepsToStop]_vars
  <2> SUFFICES ASSUME LoopInv, LoopInv', Next, IsDone
               PROVE  /\ LoopStep => StepsToStop' < StepsToStop
                      /\ ~Crash => StepsToStop' <= StepsToStop
    OBVIOUS
  <2>1. StepsToStop \in Nat /\ StepsToStop' \in Nat
    BY LoopInNat DEF StepsToStop
  <2>2. CASE LoopStep
    BY <2>1, <2>2, StopMoves
  <2>3. CASE AgentWorks \/ Terminate \/ LoseDirectory \/ UserStep
    <3>1. StepsToStop' <= StepsToStop
      BY <2>1, <2>3, OthersStay DEF StepsToStop
    <3>2. LoopStep => StepsToStop' < StepsToStop
      BY StopMoves
    <3> QED
      BY <3>1, <3>2
  <2>4. CASE Crash
    BY <2>4, StopMoves
  <2> QED
    BY <2>2, <2>3, <2>4 DEF Next
<1> QED
  BY <1>1, InvHolds, NextInv, PTL DEF Spec, KillApproaches

=============================================================================
