-------------------------- MODULE LoopStatusProofs --------------------------
(***************************************************************************)
(* Proofs about LoopStatus, for any number of requests, loops and          *)
(* directories: its types, what an answer says of a loop that is on file   *)
(* during the whole call, one loop per directory, and that the session     *)
(* saved is the one whose PID is saved.                                    *)
(***************************************************************************)
EXTENDS LoopStatus, TLAPS

(* A request's directory, and its loop, exist from a point of it on.       *)
RequestSound(r) ==
    /\ step[r] = "idle" => target[r] = NoProject
    /\ step[r] \notin {"idle", "failed"} => target[r] \in Projects
    /\ step[r] \in {"filled", "launched", "torn", "recorded", "answered"}
         => target[r] \in filled
    /\ step[r] \in {"idle", "checked", "filled"} => proc[r] = "none"

TypeInv == TypeOK /\ \A r \in Requests : RequestSound(r)

-----------------------------------------------------------------------------
(* Types                                                                   *)

(* Init establishes the type invariant.                                    *)
LEMMA TypeInit == Init => TypeInv
  BY LoopStatusAssumption
     DEF LoopStatusAssumption, Init, TypeInv, TypeOK, RequestSound

(* The request: it fills its directory before it launches its loop.        *)
LEMMA RequestTypes ==
    ASSUME TypeInv, NEW r \in Requests, Request(r)
    PROVE  TypeInv'
<1> USE LoopStatusAssumption DEF LoopStatusAssumption, TypeInv, TypeOK, RequestSound
<1>1. ASSUME NEW p \in Projects, CheckDirectory(r, p) PROVE TypeInv'
  BY <1>1 DEF CheckDirectory, GoTo, loopVars, pollVars, callVars
<1>2. CASE FillDirectory(r)
  BY <1>2 DEF FillDirectory, GoTo, loopVars, pollVars, callVars
<1>3. CASE Launch(r)
  BY <1>3 DEF Launch, GoTo, loopVars, pollVars, callVars
<1>4. CASE TearPid(r)
  BY <1>4 DEF TearPid, GoTo, loopVars, callVars
<1>5. CASE WritePid(r)
  BY <1>5 DEF WritePid, GoTo, loopVars, callVars
<1>6. CASE SaveSession(r)
  BY <1>6 DEF SaveSession, SessionSavedAfter, GoTo, loopVars, pollVars, callVars
<1>7. CASE Fail(r)
  BY <1>7 DEF Fail, Served, GoTo, loopVars, pollVars, callVars
<1> QED
  BY <1>1, <1>2, <1>3, <1>4, <1>5, <1>6, <1>7 DEF Request

(* The loops, their end, and the life of their numbers.                    *)
LEMMA LoopTypes ==
    ASSUME TypeInv, NEW l \in Requests, Loop(l) \/ End(l) \/ Reap(l) \/ Reuse(l) \/ Quit(l)
    PROVE  TypeInv'
<1> USE DEF TypeInv, TypeOK, RequestSound, startVars
<1>1. CASE TearBeat(l)
  BY <1>1 DEF TearBeat, pollVars, callVars
<1>2. CASE WriteBeat(l)
  BY <1>2 DEF WriteBeat, pollVars, callVars
<1>3. CASE Accept(l)
  BY <1>3 DEF Accept, Running, pollVars, callVars
<1>4. CASE JournalIteration(l)
  BY <1>4 DEF JournalIteration, Running, pollVars, callVars
<1>5. CASE End(l)
  BY <1>5 DEF End, Running, loopVars, callVars
<1>6. CASE Reap(l)
  BY <1>6 DEF Reap, loopVars, pollVars, callVars
<1>7. CASE Reuse(l)
  BY <1>7 DEF Reuse, Taken, loopVars, callVars
<1>8. CASE Quit(l)
  BY <1>8 DEF Quit, Taken, loopVars, callVars
<1> QED
  BY <1>1, <1>2, <1>3, <1>4, <1>5, <1>6, <1>7, <1>8 DEF Loop

(* The browser and the kill-switch.                                        *)
LEMMA PollTypes ==
    ASSUME TypeInv, Poll \/ ClearSession \/ PostDone
    PROVE  TypeInv'
<1> USE DEF TypeInv, TypeOK, RequestSound, loopVars, startVars
<1>1. CASE ReadDone
  BY <1>1 DEF ReadDone
<1>2. CASE Probe
  BY <1>2 DEF Probe
<1>3. CASE ReadCommand
  BY <1>3 DEF ReadCommand, CommandFits
<1>4. CASE Answer
  BY <1>4 DEF Answer, ForgetLocals
<1>5. CASE ClearSession
  BY <1>5 DEF ClearSession, pollVars, callVars
<1>6. CASE PostDone
  BY <1>6 DEF PostDone, pollVars, callVars
<1> QED
  BY <1>1, <1>2, <1>3, <1>4, <1>5, <1>6 DEF Poll

(* The type invariant of every behaviour.                                  *)
LEMMA TypesHold == Spec => []TypeInv
<1>1. TypeInv /\ [Next]_vars => TypeInv'
  <2> SUFFICES ASSUME TypeInv, [Next]_vars PROVE TypeInv'
    OBVIOUS
  <2>1. CASE UNCHANGED vars
    BY <2>1 DEF TypeInv, TypeOK, RequestSound, vars, startVars, loopVars, pollVars,
                callVars
  <2> QED
    BY <2>1, RequestTypes, LoopTypes, PollTypes DEF Next
<1> QED
  BY <1>1, TypeInit, PTL DEF Spec

(* Every loop was launched by its request in a directory that was filled,  *)
(* and the files name only what exists.                                    *)
THEOREM TypeCorrect == Spec => []TypeOK
<1>1. TypeInv => TypeOK
  BY DEF TypeInv
<1> QED
  BY <1>1, TypesHold, PTL

-----------------------------------------------------------------------------
(* What an answer says of the loop on file                                 *)

(* While the loop on file is steady it is no zombie and the file is not    *)
(* rewritten; what the call has found out so far is still so, but for a    *)
(* number that a program seen to be another has been given since.          *)
PollSound ==
    /\ steady = "yes" =>
         /\ pidFile # NoRequest /\ pc # "idle"
         /\ proc[pidFile] \in {"running", "gone", "other"}
         /\ pc = "cmdline" => pid = pidFile /\ proc[pid] \in {"running", "other"}
         /\ pc = "answer" => (proc[pidFile] = "running" <=> seenAlive)
    /\ pc # "answer" => ~seenAlive

(* Requests: a launch reaps zombies, a rewrite of the file ends the        *)
(* steadiness.                                                             *)
LEMMA RequestPolls ==
    ASSUME TypeInv, PollSound, NEW r \in Requests, Request(r)
    PROVE  PollSound'
<1> USE DEF PollSound
<1>1. CASE Launch(r)
  <2>1. proc[r] = "none" /\ pidFile # r
    BY <1>1, LoopStatusAssumption
       DEF LoopStatusAssumption, Launch, TypeInv, TypeOK, RequestSound
  <2>2. UNCHANGED <<pidFile, pc, pid, steady, seenAlive>>
    BY <1>1 DEF Launch, pollVars, callVars
  <2>3. ASSUME pidFile \in Requests, proc[pidFile] # "zombie"
        PROVE  proc'[pidFile] = proc[pidFile]
    BY <1>1, <2>1, <2>3 DEF Launch
  <2> QED
    BY <2>2, <2>3 DEF TypeInv, TypeOK
<1>2. CASE TearPid(r) \/ WritePid(r)
  BY <1>2 DEF TearPid, WritePid, callVars
<1>3. CASE (\E p \in Projects : CheckDirectory(r, p)) \/ FillDirectory(r)
             \/ SaveSession(r) \/ Fail(r)
  <2>1. UNCHANGED <<pidFile, proc, pollVars>>
    BY <1>3 DEF CheckDirectory, FillDirectory, SaveSession, Fail
  <2> QED
    BY <2>1 DEF pollVars, callVars
<1> QED
  BY <1>1, <1>2, <1>3 DEF Request

(* Loops: a loop on file that ends is steady no more.                      *)
LEMMA LoopPolls ==
    ASSUME TypeInv, PollSound, NEW l \in Requests,
           Loop(l) \/ End(l) \/ Reap(l) \/ Reuse(l) \/ Quit(l)
    PROVE  PollSound'
<1> USE DEF PollSound
<1>1. CASE Loop(l)
  <2>1. UNCHANGED <<pidFile, proc, pollVars>>
    BY <1>1 DEF Loop, TearBeat, WriteBeat, Accept, JournalIteration, startVars
  <2> QED
    BY <2>1 DEF pollVars, callVars
<1>2. CASE End(l)
  BY <1>2 DEF End, callVars, startVars, TypeInv, TypeOK
<1>3. CASE Reap(l)
  BY <1>3 DEF Reap, pollVars, callVars, startVars, TypeInv, TypeOK
<1>4. CASE Reuse(l)
  BY <1>4 DEF Reuse, Taken, callVars, startVars, TypeInv, TypeOK
<1>5. CASE Quit(l)
  BY <1>5 DEF Quit, Taken, callVars, startVars, TypeInv, TypeOK
<1> QED
  BY <1>1, <1>2, <1>3, <1>4, <1>5

(* The call itself.                                                        *)
LEMMA CallPolls ==
    ASSUME TypeInv, PollSound, Poll
    PROVE  PollSound'
<1> USE DEF PollSound, startVars
<1>1. CASE ReadDone
  BY <1>1 DEF ReadDone, ProcessOf, TypeInv, TypeOK
<1>2. CASE Probe
  BY <1>2 DEF Probe, ProcessOf
<1>3. CASE ReadCommand
  BY <1>3 DEF ReadCommand, CommandFits
<1>4. CASE Answer
  BY <1>4 DEF Answer, ForgetLocals
<1> QED
  BY <1>1, <1>2, <1>3, <1>4 DEF Poll

(* The answer follows from what has been found out.                        *)
LEMMA AnswerTells == (State \notin Over) <=> seenAlive
  BY DEF State, Over

(* Whatever the other requests and loops do meanwhile, an answer is right  *)
(* about a loop that runs during the whole call, or whose number is free   *)
(* or held by a program seen to be another during the whole call.          *)
THEOREM SteadyCorrect == Spec => []SteadyTruth
<1>1. Init => PollSound
  BY DEF Init, PollSound
<1>2. TypeInv /\ PollSound /\ [Next]_vars => PollSound'
  <2> SUFFICES ASSUME TypeInv, PollSound, [Next]_vars PROVE PollSound'
    OBVIOUS
  <2>1. CASE ClearSession \/ PostDone \/ UNCHANGED vars
    <3>1. UNCHANGED <<pidFile, proc, pollVars>>
      BY <2>1 DEF ClearSession, PostDone, vars, startVars
    <3> QED
      BY <3>1 DEF PollSound, pollVars, callVars
  <2> QED
    BY <2>1, RequestPolls, LoopPolls, CallPolls DEF Next
<1>3. PollSound => SteadyTruth
  BY AnswerTells DEF PollSound, SteadyTruth, Running
<1> QED
  BY <1>1, <1>2, <1>3, TypesHold, PTL DEF Spec

-----------------------------------------------------------------------------
(* One loop per directory                                                  *)

(* Two requests that got past the check with the same directory were       *)
(* served together, or one of them failed before its launch.               *)
Without(r) == step[r] = "failed" /\ proc[r] = "none"

DirectorySound ==
    \A r, q \in Requests :
        r # q /\ target[r] = target[q] /\ target[r] # NoProject
            => {r, q} \in beside \/ Without(r) \/ Without(q)

(* A request passes the check only if the directory is not filled, and     *)
(* every request that is no longer served, or has a loop, has filled its.  *)
LEMMA CheckDirectories ==
    ASSUME TypeInv, DirectorySound, NEW r \in Requests, NEW p \in Projects,
           CheckDirectory(r, p)
    PROVE  DirectorySound'
<1>1. ASSUME NEW q \in Requests, NEW o \in Requests, q # o,
             target'[q] = target'[o], target'[q] # NoProject
      PROVE  {q, o} \in beside' \/ Without(q)' \/ Without(o)'
  <2>1. /\ beside' = beside \cup {{r, x} : x \in Served}
        /\ proc' = proc /\ step[r] = "idle"
    BY DEF CheckDirectory
  <2>2. \A x \in Requests : Without(x) => Without(x)'
    BY <2>1 DEF CheckDirectory, GoTo, Without, TypeInv, TypeOK
  <2>3. CASE target' = target
    BY <1>1, <2>1, <2>2, <2>3 DEF DirectorySound
  <2>4. CASE target' = [target EXCEPT ![r] = p] /\ p \notin filled
    <3>1. ASSUME NEW x \in Requests, x # r, target[x] = p
          PROVE  {r, x} \in beside' \/ Without(x)'
      <4>1. step[x] \notin {"filled", "launched", "torn", "recorded", "answered", "idle"}
        BY <2>4, <3>1, LoopStatusAssumption
           DEF TypeInv, RequestSound, LoopStatusAssumption
      <4>2. proc[x] = "none"
        BY <2>4, <3>1 DEF TypeInv, TypeOK
      <4>3. CASE step[x] = "failed"
        BY <2>2, <4>2, <4>3 DEF Without
      <4>4. CASE step[x] = "checked"
        BY <2>1, <4>4 DEF Served
      <4> QED
        BY <4>1, <4>3, <4>4 DEF TypeInv, TypeOK
    <3>2. CASE q = r
      BY <1>1, <2>4, <3>1, <3>2 DEF TypeInv, TypeOK
    <3>3. CASE o = r
      <4>1. {r, q} = {q, o}
        BY <3>3
      <4> QED
        BY <1>1, <2>4, <3>1, <3>3, <4>1 DEF TypeInv, TypeOK
    <3>4. CASE q # r /\ o # r
      BY <1>1, <2>1, <2>2, <2>4, <3>4 DEF DirectorySound, TypeInv, TypeOK
    <3> QED
      BY <3>2, <3>3, <3>4
  <2> QED
    BY <2>3, <2>4 DEF CheckDirectory, Usable
<1> QED
  BY <1>1 DEF DirectorySound, Without

(* The rest of a request: a request without a loop that has failed stays   *)
(* so.                                                                     *)
LEMMA OtherDirectories ==
    ASSUME DirectorySound, UNCHANGED <<target, beside>>,
           \A r \in Requests : Without(r) => Without(r)'
    PROVE  DirectorySound'
  BY DEF DirectorySound, Without

LEMMA RequestDirectories ==
    ASSUME TypeInv, DirectorySound, NEW r \in Requests, Request(r)
    PROVE  DirectorySound'
<1>1. CASE \E p \in Projects : CheckDirectory(r, p)
  BY <1>1, CheckDirectories
<1>2. CASE Launch(r)
  BY <1>2, OtherDirectories DEF Launch, GoTo, Without, TypeInv, TypeOK
<1>3. CASE FillDirectory(r) \/ TearPid(r) \/ WritePid(r) \/ SaveSession(r)
  BY <1>3, OtherDirectories
     DEF FillDirectory, TearPid, WritePid, SaveSession, SessionSavedAfter, GoTo, Without,
         TypeInv, TypeOK
<1>4. CASE Fail(r)
  BY <1>4, OtherDirectories DEF Fail, GoTo, Without, TypeInv, TypeOK
<1> QED
  BY <1>1, <1>2, <1>3, <1>4 DEF Request

(* However many requests there are, two loops run in one directory only if *)
(* their requests overlapped.                                              *)
THEOREM DirectoriesCorrect == Spec => []OneLoopPerDirectory
<1>1. Init => DirectorySound
  BY DEF Init, DirectorySound
<1>2. TypeInv /\ DirectorySound /\ [Next]_vars => DirectorySound'
  <2> SUFFICES ASSUME TypeInv, DirectorySound, [Next]_vars PROVE DirectorySound'
    OBVIOUS
  <2>1. CASE \E l \in Requests : End(l) \/ Reap(l) \/ Reuse(l) \/ Quit(l)
    BY <2>1, OtherDirectories DEF End, Running, Reap, Reuse, Quit, Taken, startVars, Without, TypeInv,
         TypeOK
  <2>2. CASE \/ \E l \in Requests : Loop(l)
             \/ Poll \/ ClearSession \/ PostDone \/ UNCHANGED vars
    <3>1. UNCHANGED <<step, target, beside, proc>>
      BY <2>2 DEF Loop, TearBeat, WriteBeat, Accept, JournalIteration, Poll, ReadDone, Probe,
                  ReadCommand, Answer, ClearSession, PostDone, vars, startVars
    <3> QED
      BY <3>1, OtherDirectories DEF Without
  <2> QED
    BY <2>1, <2>2, RequestDirectories DEF Next
<1>3. TypeInv /\ DirectorySound => OneLoopPerDirectory
  BY LoopStatusAssumption
     DEF LoopStatusAssumption, DirectorySound, OneLoopPerDirectory, Without, TypeInv, TypeOK
<1> QED
  BY <1>1, <1>2, <1>3, TypesHold, PTL DEF Spec

-----------------------------------------------------------------------------
(* The session and the PID on file                                         *)

(* A request that failed after its launch leaves a loop and files that     *)
(* nobody completes.                                                       *)
LeftBehind == \E r \in Requests : step[r] = "failed" /\ proc[r] # "none"

(* As long as requests follow one another, at most one is under way, and   *)
(* only between its two writes can the files disagree.                     *)
SessionSound ==
    beside = {} =>
        /\ \A r, q \in Served : r = q
        /\ \A r \in Requests : step[r] = "recorded" => pidFile = r
        /\ \/ LeftBehind \/ session = NoProject
           \/ \E r \in Requests : step[r] \in {"torn", "recorded"}
           \/ pidFile # NoRequest /\ target[pidFile] = session

(* A request that arrives while another is served is beside it.            *)
LEMMA CheckSession ==
    ASSUME TypeInv, SessionSound, NEW r \in Requests, NEW p \in Projects,
           CheckDirectory(r, p)
    PROVE  SessionSound'
<1>1. SUFFICES ASSUME beside' = {} PROVE SessionSound'
  BY DEF SessionSound
<1>2. beside = {} /\ Served = {}
  BY <1>1 DEF CheckDirectory
<1>3. /\ step[r] = "idle" /\ proc[r] = "none"
      /\ step' \in {[step EXCEPT ![r] = "checked"], [step EXCEPT ![r] = "failed"]}
      /\ \A x \in Requests \ {r} : target'[x] = target[x]
      /\ UNCHANGED <<pidFile, proc, session>>
  BY DEF CheckDirectory, GoTo, TypeInv, TypeOK, RequestSound
<1>4. Served' \subseteq {r}
  BY <1>2, <1>3 DEF Served, TypeInv, TypeOK
<1>5. \A x \in Requests : step'[x] = "recorded" => pidFile' = x
  BY <1>2, <1>3 DEF Served, TypeInv, TypeOK
<1>6. LeftBehind => LeftBehind'
  BY <1>3 DEF LeftBehind, TypeInv, TypeOK
<1>7. ~ \E x \in Requests : step[x] \in {"torn", "recorded"}
  BY <1>2 DEF Served
<1>8. pidFile # NoRequest => pidFile # r /\ pidFile \in Requests
  BY <1>3 DEF TypeInv, TypeOK
<1> QED
  BY <1>2, <1>3, <1>4, <1>5, <1>6, <1>7, <1>8 DEF SessionSound

(* The other steps of a request: TearPid opens the gap, SaveSession closes *)
(* it, and a failure in it leaves a loop behind.                           *)
LEMMA RequestSession ==
    ASSUME TypeInv, SessionSound, NEW r \in Requests, Request(r)
    PROVE  SessionSound'
<1>1. CASE \E p \in Projects : CheckDirectory(r, p)
  BY <1>1, CheckSession
<1>2. CASE FillDirectory(r)
  BY <1>2 DEF FillDirectory, GoTo, SessionSound, Served, LeftBehind, TypeInv, TypeOK
<1>3. CASE Launch(r)
  BY <1>3 DEF Launch, GoTo, SessionSound, Served, LeftBehind, TypeInv, TypeOK
<1>4. CASE TearPid(r)
  BY <1>4 DEF TearPid, GoTo, SessionSound, Served, LeftBehind, TypeInv, TypeOK
<1>5. CASE WritePid(r)
  BY <1>5 DEF WritePid, GoTo, SessionSound, Served, LeftBehind, TypeInv, TypeOK
<1>6. CASE SaveSession(r)
  BY <1>6, LoopStatusAssumption
     DEF SaveSession, SessionSavedAfter, GoTo, SessionSound, Served, LeftBehind, TypeInv,
         TypeOK, LoopStatusAssumption
<1>7. CASE Fail(r)
  BY <1>7 DEF Fail, GoTo, SessionSound, Served, LeftBehind, TypeInv, TypeOK, RequestSound
<1> QED
  BY <1>1, <1>2, <1>3, <1>4, <1>5, <1>6, <1>7 DEF Request

(* Unless requests overlap or one fails after its launch, the session that *)
(* is reattached to is the one whose loop is on file.                      *)
THEOREM SessionCorrect == Spec => []SessionMatchesPid
<1>1. Init => SessionSound
  BY DEF Init, SessionSound, Served
<1>2. TypeInv /\ SessionSound /\ [Next]_vars => SessionSound'
  <2> SUFFICES ASSUME TypeInv, SessionSound, [Next]_vars PROVE SessionSound'
    OBVIOUS
  <2>1. CASE ClearSession
    BY <2>1 DEF ClearSession, SessionSound, Served, LeftBehind
  <2>2. CASE \E l \in Requests : End(l) \/ Reap(l) \/ Reuse(l) \/ Quit(l)
    <3>1. /\ UNCHANGED startVars
          /\ \A x \in Requests : proc[x] # "none" => proc'[x] # "none"
      BY <2>2 DEF End, Reap, Reuse, Quit, Taken, TypeInv, TypeOK
    <3>2. LeftBehind => LeftBehind'
      BY <3>1 DEF LeftBehind, startVars
    <3> QED
      BY <3>1, <3>2 DEF SessionSound, Served, startVars
  <2>3. CASE \/ \E l \in Requests : Loop(l)
             \/ Poll \/ PostDone \/ UNCHANGED vars
    <3>1. UNCHANGED <<startVars, proc>>
      BY <2>3 DEF Loop, TearBeat, WriteBeat, Accept, JournalIteration, Poll, ReadDone, Probe,
                  ReadCommand, Answer, PostDone, vars
    <3> QED
      BY <3>1 DEF SessionSound, Served, LeftBehind, startVars
  <2> QED
    BY <2>1, <2>2, <2>3, RequestSession DEF Next
<1>3. SessionSound => SessionMatchesPid
  BY DEF SessionSound, SessionMatchesPid, LeftBehind, Served
<1> QED
  BY <1>1, <1>2, <1>3, TypesHold, PTL DEF Spec

=============================================================================
