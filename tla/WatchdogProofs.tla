--------------------------- MODULE WatchdogProofs ---------------------------
(***************************************************************************)
(* Proofs about Watchdog: its types, and that a session the watchdog has   *)
(* killed is reported as a timeout, for all limits.                        *)
(***************************************************************************)
EXTENDS Watchdog, TLAPS

(* The types in two halves: the clock, and everything else.                *)
ClockOK == idle \in 0 .. IdleLimit /\ elapsed \in 0 .. TotalLimit

StateOK ==
    /\ holders \subseteq alive /\ alive \subseteq Processes
    /\ code \in {"running", "zero", "nonzero", "hup", "killed"}
    /\ pipe \in BOOLEAN /\ output \in {"nothing", "text", "api"}
    /\ reader \in Over \cup {"reading", "waiting", "reaped", "classify"}
    /\ watchdog \in {"watching", "awake", "killing", "done"}
    /\ timedOut \in BOOLEAN /\ stopped \in BOOLEAN
    /\ result \in {"none", "", "timeout", "api", "empty", "error"}
    /\ "agent" \in alive <=> code = "running"
    /\ reader \in {"reaped", "classify", "returned"} => "agent" \notin alive

(* The flag is set before the kill; a result exists only once the reader   *)
(* has returned, and it returns only after it has reaped the agent.        *)
FlagFirst ==
    /\ watchdog = "killing" => timedOut
    /\ code = "killed" => timedOut /\ alive \cap Group = {}
    /\ result # "none" => reader = "returned"
    /\ code = "killed" => result \in {"none", "timeout"}

IInv == StateOK /\ FlagFirst

-----------------------------------------------------------------------------
(* The clock                                                               *)

(* Tick counts up to the limits, a line resets the silence.                *)
LEMMA ClockInv == Spec => []ClockOK
<1>1. IdleLimit \in Nat /\ TotalLimit \in Nat
  BY WatchdogAssumption DEF WatchdogAssumption
<1>2. Init => ClockOK
  BY <1>1 DEF Init, ClockOK
<1>3. ClockOK /\ [Next]_vars => ClockOK'
  <2> SUFFICES ASSUME ClockOK, [Next]_vars PROVE ClockOK'
    OBVIOUS
  <2>1. CASE ReadLine
    <3>1. idle' = 0 /\ elapsed' = elapsed
      BY <2>1 DEF ReadLine
    <3> QED
      BY <1>1, <3>1 DEF ClockOK
  <2>2. CASE Tick
    <3>1. /\ idle' = IF idle < IdleLimit THEN idle + 1 ELSE idle
          /\ elapsed' = IF elapsed < TotalLimit THEN elapsed + 1 ELSE elapsed
      BY <2>2 DEF Tick
    <3> QED
      BY <1>1, <3>1 DEF ClockOK
  <2>3. CASE Opencode
    <3>1. UNCHANGED clockVars
      BY <2>3 DEF Opencode, Spawn, PrintLine, CloseOutput, Exit
    <3> QED
      BY <3>1 DEF ClockOK, clockVars
  <2>4. CASE Watch
    <3>1. UNCHANGED clockVars
      BY <2>4 DEF Watch, Wake, WaitAgain, Expire, KillGroup, Quit
    <3> QED
      BY <3>1 DEF ClockOK, clockVars
  <2>5. CASE ReadFails \/ EndOfFile \/ Reap \/ StopWatchdog \/ Return
    <3>1. UNCHANGED clockVars
      BY <2>5 DEF ReadFails, EndOfFile, Reap, StopWatchdog, Return
    <3> QED
      BY <3>1 DEF ClockOK, clockVars
  <2>6. CASE UNCHANGED vars
    BY <2>6 DEF ClockOK, vars, clockVars
  <2> QED
    BY <2>1, <2>2, <2>3, <2>4, <2>5, <2>6 DEF Next, Read
<1> QED
  BY <1>2, <1>3, PTL DEF Spec

-----------------------------------------------------------------------------
(* Everything else                                                         *)

(* Init establishes the invariant.                                         *)
LEMMA InitInv == Init => IInv
  BY DEF Init, IInv, StateOK, FlagFirst, Group, Processes, Over

(* OpenCode and its descendants cannot undo a kill: only a living agent    *)
(* spawns, and it ends once.                                               *)
LEMMA OpencodeKeeps == ASSUME IInv, Opencode PROVE IInv'
<1>1. ASSUME NEW p \in {"child", "daemon"}, Spawn(p) PROVE IInv'
  BY <1>1 DEF IInv, StateOK, FlagFirst, Group, Processes, Over, Spawn, eventVars
<1>2. ASSUME NEW p \in Processes, PrintLine(p) PROVE IInv'
  BY <1>2 DEF IInv, StateOK, FlagFirst, Group, Processes, Over,
              PrintLine, processVars, eventVars
<1>3. ASSUME NEW p \in Processes, CloseOutput(p) PROVE IInv'
  BY <1>3 DEF IInv, StateOK, FlagFirst, Group, Processes, Over, CloseOutput, eventVars
<1>4. ASSUME NEW p \in Processes, Exit(p) PROVE IInv'
  <2>1. CASE p = "agent"
    <3>1. /\ code' \in {"zero", "nonzero", "hup"} /\ "agent" \notin alive'
          /\ code # "killed"
      BY <1>4, <2>1 DEF IInv, StateOK, Exit
    <3>2. StateOK'
      BY <1>4, <3>1 DEF IInv, StateOK, Processes, Over, Exit, eventVars
    <3>3. FlagFirst'
      BY <1>4, <3>1 DEF IInv, FlagFirst, Exit, eventVars
    <3> QED
      BY <3>2, <3>3 DEF IInv
  <2>2. CASE p # "agent"
    <3>1. code' = code /\ ("agent" \in alive <=> "agent" \in alive')
      <4>1. code' \in {code} /\ alive' = alive \ {p}
        BY <1>4, <2>2, Zenon DEF Exit
      <4> QED
        BY <2>2, <4>1
    <3>2. StateOK'
      <4>1. /\ alive' = alive \ {p} /\ holders' = holders \ {p}
            /\ UNCHANGED <<pipe, output, reader, watchdog, timedOut, stopped, result>>
        BY <1>4, Zenon DEF Exit, eventVars
      <4>2. alive' \subseteq Processes /\ holders' \subseteq alive'
        BY <4>1 DEF IInv, StateOK
      <4>3. "agent" \in alive' <=> code' = "running"
        BY <3>1 DEF IInv, StateOK
      <4>4. reader' \in {"reaped", "classify", "returned"} => "agent" \notin alive'
        BY <3>1, <4>1 DEF IInv, StateOK
      <4>5. /\ code' = code
            /\ UNCHANGED <<pipe, output, reader, watchdog, timedOut, stopped, result>>
        BY <3>1, <4>1
      <4>6. pipe' \in BOOLEAN /\ timedOut' \in BOOLEAN /\ stopped' \in BOOLEAN
        BY <4>5 DEF IInv, StateOK
      <4>7. reader' \in Over \cup {"reading", "waiting", "reaped", "classify"}
        BY <4>5 DEF IInv, StateOK
      <4>8. code' \in {"running", "zero", "nonzero", "hup", "killed"}
        BY <4>5 DEF IInv, StateOK
      <4>9. /\ output' \in {"nothing", "text", "api"}
            /\ result' \in {"none", "", "timeout", "api", "empty", "error"}
            /\ watchdog' \in {"watching", "awake", "killing", "done"}
        BY <4>5 DEF IInv, StateOK
      <4> QED
        BY <4>2, <4>3, <4>4, <4>6, <4>7, <4>8, <4>9 DEF StateOK, Over
    <3>3. FlagFirst'
      BY <1>4, <3>1 DEF IInv, FlagFirst, Exit, eventVars
    <3> QED
      BY <3>2, <3>3 DEF IInv
  <2> QED
    BY <2>1, <2>2
<1>5. CASE \E p \in {"child", "daemon"} : Spawn(p)
  BY <1>1, <1>5
<1>6. CASE \E p \in Processes : PrintLine(p) \/ CloseOutput(p) \/ Exit(p)
  BY <1>2, <1>3, <1>4, <1>6
<1> QED
  BY <1>5, <1>6 DEF Opencode

(* The reader: it classifies with the flag that was set before the kill.   *)
LEMMA ReadKeeps == ASSUME IInv, Read PROVE IInv'
<1> USE DEF IInv, StateOK, FlagFirst, Group, Processes, Over
<1>1. CASE ReadLine
  BY <1>1 DEF ReadLine, processVars, eventVars
<1>2. CASE ReadFails
  BY <1>2 DEF ReadFails, processVars
<1>3. CASE EndOfFile
  BY <1>3 DEF EndOfFile, processVars, eventVars
<1>4. CASE Reap
  BY <1>4 DEF Reap, AgentGone, processVars, eventVars
<1>5. CASE StopWatchdog
  BY <1>5 DEF StopWatchdog, processVars
<1>6. CASE Return
  BY <1>6 DEF Return, Classified, processVars, eventVars
<1> QED
  BY <1>1, <1>2, <1>3, <1>4, <1>5, <1>6 DEF Read

(* The watchdog: it kills only while the reader has not reaped the agent.  *)
LEMMA WatchKeeps == ASSUME IInv, Watch PROVE IInv'
<1> USE DEF IInv, StateOK, FlagFirst, Group, Processes, Over
<1>1. CASE Wake
  BY <1>1 DEF Wake, processVars, eventVars
<1>2. CASE WaitAgain
  BY <1>2 DEF WaitAgain, processVars, eventVars
<1>3. CASE Expire
  BY <1>3 DEF Expire, processVars
<1>4. CASE KillGroup
  BY <1>4 DEF KillGroup, Targets, processVars, eventVars
<1>5. CASE Quit
  BY <1>5 DEF Quit, processVars, eventVars
<1> QED
  BY <1>1, <1>2, <1>3, <1>4, <1>5 DEF Watch

(* The invariant of every behaviour.                                       *)
LEMMA SpecInv == Spec => []IInv
<1>1. IInv /\ [Next]_vars => IInv'
  <2> SUFFICES ASSUME IInv, [Next]_vars PROVE IInv'
    OBVIOUS
  <2>1. CASE Tick
    BY <2>1 DEF IInv, StateOK, FlagFirst, Tick, processVars, eventVars
  <2>2. CASE UNCHANGED vars
    BY <2>2 DEF IInv, StateOK, FlagFirst, vars, processVars, eventVars
  <2> QED
    BY <2>1, <2>2, OpencodeKeeps, ReadKeeps, WatchKeeps DEF Next
<1> QED
  BY <1>1, InitInv, PTL DEF Spec

-----------------------------------------------------------------------------

(* A dead process holds no pipe, the agent is dead once it is reaped and   *)
(* the counters stay within the limits.                                    *)
THEOREM TypeCorrect == Spec => []TypeOK
<1>1. IInv /\ ClockOK => TypeOK
  BY DEF IInv, StateOK, ClockOK, TypeOK
<1> QED
  BY <1>1, SpecInv, ClockInv, PTL

(* Whatever the limits and however the kill, the output and the exit race, *)
(* a killed session is reported as a timeout and its group is dead.        *)
THEOREM KillReported == Spec => []KilledIsReported
<1>1. IInv => KilledIsReported
  BY DEF IInv, FlagFirst, KilledIsReported
<1> QED
  BY <1>1, SpecInv, PTL

=============================================================================
