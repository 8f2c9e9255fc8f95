----------------------------- MODULE LoopStatus -----------------------------
(***************************************************************************)
(* What the dashboard says of the loop: requests that launch loops, the    *)
(* loops themselves, and one browser that polls compute_loop_status.       *)
(*                                                                         *)
(* Nothing but files connects them: the PID and the session written by the *)
(* interface, the heartbeat written by every loop into the same file, DONE *)
(* and the journal of the project.  A loop carries the number of the       *)
(* request that launched it, and that number stands for its PID.           *)
(***************************************************************************)
EXTENDS Naturals, FiniteSets

CONSTANTS
    Requests,  \* POST /api/session/start
    Projects,  \* working directories
    Shown      \* the project the dashboard shows

NoRequest == 0
NoProject == "no project"

ASSUME LoopStatusAssumption ==
    /\ NoRequest \notin Requests
    /\ NoProject \notin Projects /\ Shown \in Projects

VARIABLES
    step,       \* the point each request has reached
    target,     \* its target_dir
    filled,     \* directories that are not empty
    proc,       \* what each loop's number stands for: the loop or another program
    pidFile,    \* loop_pid.txt, NoRequest when absent or torn
    session,    \* last_session.txt
    heartbeat,  \* heartbeat.json
    done,       \* the project shown has a DONE file
    stage,      \* where each loop stands in its iteration
    lastEntry,  \* the last line of its journal
    pc, seenDone, seenAlive,   \* compute_loop_status, one call
    pid,        \* the PID it probes
    steady,     \* history: what the loop on file has been since the call began
    beside      \* history: requests that were served at the same time

startVars == <<step, target, filled, pidFile, session, beside>>
loopVars == <<heartbeat, done, stage, lastEntry>>
callVars == <<pc, seenDone, seenAlive, pid>>
pollVars == <<callVars, steady>>
vars == <<startVars, proc, loopVars, pollVars>>

Init ==
    /\ step = [r \in Requests |-> "idle"]
    /\ target = [r \in Requests |-> NoProject]
    /\ filled = {} /\ session = NoProject /\ pidFile = NoRequest /\ beside = {}
    /\ proc = [r \in Requests |-> "none"]
    /\ heartbeat = "none" /\ done = FALSE /\ lastEntry = "none"
    /\ stage = [r \in Requests |-> "working"]
    /\ pc = "idle" /\ seenDone = FALSE /\ seenAlive = FALSE
    /\ pid = NoRequest /\ steady = "no"

Served == {r \in Requests : step[r] \notin {"idle", "answered", "failed"}}

-----------------------------------------------------------------------------
(* start_session                                                           *)

GoTo(r, point) == step' = [step EXCEPT ![r] = point]

\* Fault: a directory that holds something is used all the same.
AlwaysUsable(p) == TRUE

Usable(p) == p \notin filled

(* A directory that holds something is refused.                            *)
CheckDirectory(r, p) ==
    /\ step[r] = "idle"
    /\ IF Usable(p)
       THEN GoTo(r, "checked") /\ target' = [target EXCEPT ![r] = p]
       ELSE GoTo(r, "failed") /\ target' = target
    /\ beside' = beside \cup {{r, q} : q \in Served}
    /\ UNCHANGED <<filled, pidFile, session, proc, loopVars, pollVars>>

(* Clone or init, .gitignore, state files.                                 *)
FillDirectory(r) ==
    /\ step[r] = "checked"
    /\ filled' = filled \cup {target[r]}
    /\ GoTo(r, "filled")
    /\ UNCHANGED <<target, pidFile, session, beside, proc, loopVars, pollVars>>

(* Popen first waits for the children that have ended.                     *)
Launch(r) ==
    /\ step[r] = "filled"
    /\ proc' = [l \in Requests |-> IF l = r THEN "running"
                                   ELSE IF proc[l] = "zombie" THEN "gone" ELSE proc[l]]
    /\ GoTo(r, "launched")
    /\ UNCHANGED <<target, filled, pidFile, session, beside, loopVars, pollVars>>

(* save_loop_pid: write_text truncates, then writes.                       *)
TearPid(r) ==
    /\ step[r] = "launched"
    /\ pidFile' = NoRequest
    /\ GoTo(r, "torn")
    /\ steady' = "no"
    /\ UNCHANGED <<target, filled, session, beside, proc, loopVars, callVars>>

WritePid(r) ==
    /\ step[r] = "torn"
    /\ pidFile' = r
    /\ GoTo(r, "recorded")
    /\ steady' = "no"
    /\ UNCHANGED <<target, filled, session, beside, proc, loopVars, callVars>>

\* Fault: the session is saved as soon as the directory is ready.
BeforeLaunch == "filled"

SessionSavedAfter == "recorded"

SaveSession(r) ==
    /\ step[r] = SessionSavedAfter
    /\ session' = target[r]
    /\ GoTo(r, "answered")
    /\ UNCHANGED <<target, filled, pidFile, beside, proc, loopVars, pollVars>>

(* Any step may fail, or the interface die in it; nothing is undone, and a *)
(* directory may be left half filled.                                      *)
Fail(r) ==
    /\ r \in Served
    /\ filled' \in {filled, IF step[r] = "checked" THEN filled \cup {target[r]} ELSE filled}
    /\ GoTo(r, "failed")
    /\ UNCHANGED <<target, pidFile, session, beside, proc, loopVars, pollVars>>

ClearSession ==
    /\ session' = NoProject
    /\ UNCHANGED <<step, target, filled, pidFile, beside, proc, loopVars, pollVars>>

-----------------------------------------------------------------------------
(* The loops                                                               *)

Running(l) == proc[l] = "running"

(* _heartbeat: the redirection truncates the file, printf fills it.        *)
TearBeat(l) ==
    /\ Running(l)
    /\ heartbeat' = "torn"
    /\ UNCHANGED <<startVars, proc, done, stage, lastEntry, pollVars>>

WriteBeat(l) ==
    /\ Running(l) /\ heartbeat = "torn"
    /\ heartbeat' = "whole"
    /\ UNCHANGED <<startVars, proc, done, stage, lastEntry, pollVars>>

(* Review accepts and the loop creates DONE; the journal follows later.    *)
Accept(l) ==
    /\ Running(l) /\ target[l] = Shown /\ stage[l] = "working"
    /\ stage' = [stage EXCEPT ![l] = "accepted"]
    /\ done' = TRUE
    /\ UNCHANGED <<startVars, proc, heartbeat, lastEntry, pollVars>>

JournalIteration(l) ==
    /\ Running(l) /\ target[l] = Shown /\ stage[l] # "leaving"
    /\ lastEntry' = IF stage[l] = "accepted" THEN "mission" ELSE "iteration"
    /\ stage' = [stage EXCEPT ![l] = IF done THEN "leaving" ELSE "working"]
    /\ UNCHANGED <<startVars, proc, heartbeat, done, pollVars>>

(* The loop ends, by its own decision or by a signal; it stays a zombie if *)
(* the interface that launched it is still there.                          *)
End(l) ==
    /\ Running(l)
    /\ proc' \in {[proc EXCEPT ![l] = left] : left \in {"zombie", "gone"}}
    /\ steady' = IF l = pidFile THEN "no" ELSE steady
    /\ UNCHANGED <<startVars, loopVars, callVars>>

(* Another Popen of the interface, or its end.                             *)
Reap(l) ==
    /\ proc[l] = "zombie"
    /\ proc' = [proc EXCEPT ![l] = "gone"]
    /\ UNCHANGED <<startVars, loopVars, pollVars>>

(* The system gives the number to another program.  It may be another      *)
(* user's, which refuses the signal ("refused"); or take the signal and    *)
(* have a command line that is empty, cannot be read or names agent_loop   *)
(* ("silent"), or a readable one that does not ("other").                  *)
Taken == {"other", "refused", "silent"}

Reuse(l) ==
    /\ proc[l] = "gone"
    /\ \E taken \in Taken :
         /\ proc' = [proc EXCEPT ![l] = taken]
         /\ steady' = IF l = pidFile /\ taken # "other" THEN "no" ELSE steady
    /\ UNCHANGED <<startVars, loopVars, callVars>>

(* That program ends.                                                      *)
Quit(l) ==
    /\ proc[l] \in Taken
    /\ proc' = [proc EXCEPT ![l] = "gone"]
    /\ steady' = IF l = pidFile THEN "no" ELSE steady
    /\ UNCHANGED <<startVars, loopVars, callVars>>

(* The kill-switch.                                                        *)
PostDone ==
    /\ Shown \in filled
    /\ done' = TRUE
    /\ UNCHANGED <<startVars, proc, heartbeat, stage, lastEntry, pollVars>>

-----------------------------------------------------------------------------
(* compute_loop_status: one step for each thing it looks at                *)

ProcessOf(l) == IF l = NoRequest THEN "none" ELSE proc[l]

ReadDone ==
    /\ pc = "idle"
    /\ seenDone' = done
    /\ steady' = IF ProcessOf(pidFile) \in {"running", "gone", "other"}
                  THEN "yes" ELSE "no"
    /\ pc' = "probe"
    /\ UNCHANGED <<startVars, proc, loopVars, seenAlive, pid>>

(* kill(pid, 0): no such process is the answer, and so is a refusal; it    *)
(* succeeds for a zombie as for any process.                               *)
Probe ==
    /\ pc = "probe"
    /\ \/ /\ ProcessOf(pidFile) \in {"none", "gone"}
          /\ pc' = "answer" /\ UNCHANGED <<seenAlive, pid>>
       \/ /\ ProcessOf(pidFile) = "refused"
          /\ pc' = "answer" /\ seenAlive' = TRUE /\ pid' = pid
       \/ /\ ProcessOf(pidFile) \in {"running", "zombie", "other", "silent"}
          /\ pc' = "cmdline" /\ pid' = pidFile /\ seenAlive' = seenAlive
    /\ UNCHANGED <<startVars, proc, loopVars, seenDone, steady>>

\* Fault: the number of the process is enough.
AnyCommand(l) == TRUE

(* The command line names agent_loop, is empty (a zombie) or cannot be     *)
(* read (the process has just gone, or forbids it): all of them count as   *)
(* the loop, and only a command line that names something else does not.   *)
CommandFits(l) == proc[l] # "other"

ReadCommand ==
    /\ pc = "cmdline"
    /\ seenAlive' = CommandFits(pid)
    /\ pid' = NoRequest
    /\ pc' = "answer"
    /\ UNCHANGED <<startVars, proc, loopVars, seenDone, steady>>

\* Fault: DONE is enough to mean the end.
DoneFirst ==
    IF seenDone THEN IF lastEntry = "mission" THEN "completed" ELSE "stopped"
    ELSE IF seenAlive THEN "active" ELSE IF heartbeat = "whole" THEN "dead" ELSE "unknown"

ForgetLocals ==
    /\ seenDone' = FALSE /\ seenAlive' = FALSE
    /\ pid' = NoRequest /\ steady' = "no"

(* The journal is read now, and only for a project that is done; the       *)
(* heartbeat, read just before, matters only for one that is not.          *)
State ==
    IF seenAlive THEN IF seenDone THEN "stopping" ELSE "active"
    ELSE IF seenDone THEN IF lastEntry = "mission" THEN "completed" ELSE "stopped"
    ELSE IF heartbeat = "whole" THEN "dead" ELSE "unknown"

Answer ==
    /\ pc = "answer"
    /\ pc' = "idle"
    /\ ForgetLocals
    /\ UNCHANGED <<startVars, proc, loopVars>>

-----------------------------------------------------------------------------

Request(r) ==
    \/ \E p \in Projects : CheckDirectory(r, p)
    \/ FillDirectory(r) \/ Launch(r) \/ TearPid(r) \/ WritePid(r) \/ SaveSession(r)
    \/ Fail(r)

Loop(l) == TearBeat(l) \/ WriteBeat(l) \/ Accept(l) \/ JournalIteration(l)

Poll == ReadDone \/ Probe \/ ReadCommand \/ Answer

Next ==
    \/ \E r \in Requests : Request(r) \/ Loop(r) \/ End(r) \/ Reap(r) \/ Reuse(r)
                         \/ Quit(r)
    \/ ClearSession \/ PostDone
    \/ Poll

Spec == Init /\ [][Next]_vars

(* The browser goes on polling.                                            *)
FairSpec == Spec /\ WF_vars(Poll)

-----------------------------------------------------------------------------

Over == {"completed", "stopped", "dead", "unknown"}

(* Type correctness; a loop exists once its request has launched it, and   *)
(* the files name only requests and projects that got that far.            *)
TypeOK ==
    /\ step \in [Requests -> {"idle", "checked", "filled", "launched", "torn",
                              "recorded", "answered", "failed"}]
    /\ target \in [Requests -> Projects \cup {NoProject}]
    /\ filled \subseteq Projects
    /\ done \in BOOLEAN /\ (done => Shown \in filled)
    /\ proc \in [Requests -> {"none", "running", "zombie", "gone"} \cup Taken]
    /\ pidFile \in Requests \cup {NoRequest} /\ pid \in Requests \cup {NoRequest}
    /\ session \in filled \cup {NoProject}
    /\ heartbeat \in {"none", "torn", "whole"}
    /\ stage \in [Requests -> {"working", "accepted", "leaving"}]
    /\ lastEntry \in {"none", "iteration", "mission"}
    /\ pc \in {"idle", "probe", "cmdline", "answer"}
    /\ seenDone \in BOOLEAN /\ seenAlive \in BOOLEAN
    /\ \A r \in Requests :
         /\ step[r] \in {"launched", "torn", "recorded", "answered"} => proc[r] # "none"
         /\ proc[r] # "none" => target[r] \in filled
    /\ pidFile # NoRequest => proc[pidFile] # "none"

(* A loop the PID file names during the whole call is reported as running  *)
(* if it runs all that time, and as over if all that time its number is    *)
(* free or held by a program whose command line shows it is another,       *)
(* whatever happens to DONE, the journal and the heartbeat meanwhile.      *)
(* Nothing is said of a number held by another user's program or by one    *)
(* whose command line tells nothing: the code answers that the loop runs.  *)
SteadyTruth ==
    pc = "answer" /\ steady = "yes" => (Running(pidFile) <=> State \notin Over)

(* The reads are not atomic and an answer may be wrong; when nothing is    *)
(* launched or running any more, and the loops' numbers are free for good  *)
(* or held by programs that are seen to be others, the next answers are    *)
(* right and stay so.                                                      *)
Settled ==
    Served = {} /\ \A l \in Requests : proc[l] \in {"none", "gone", "other"}

RightAnswer ==
    CASE done /\ lastEntry = "mission" -> "completed"
      [] done /\ lastEntry # "mission" -> "stopped"
      [] ~done /\ heartbeat = "whole" -> "dead"
      [] OTHER -> "unknown"

StatusSettles ==
    <>[]Settled /\ <>[][UNCHANGED proc]_proc
        => <>[](pc = "answer" => State = RightAnswer)

(* Two loops are launched in the same directory only by requests that      *)
(* overlap: the check for an empty directory orders all others.            *)
OneLoopPerDirectory ==
    \A r, q \in Requests :
        r # q /\ proc[r] # "none" /\ proc[q] # "none" /\ target[r] = target[q]
            => {r, q} \in beside

(* The session the interface reattaches to is the one whose PID is on      *)
(* file, unless requests overlapped or one failed after its launch.        *)
SessionMatchesPid ==
    \/ Served # {} \/ beside # {} \/ session = NoProject
    \/ \E r \in Requests : step[r] = "failed" /\ proc[r] # "none"
    \/ pidFile # NoRequest /\ target[pidFile] = session

=============================================================================
