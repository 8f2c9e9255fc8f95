--------------------------- MODULE GitHistoryProofs ---------------------------
(***************************************************************************)
(* What the tags of GitHistory keep for every bound on iterations and      *)
(* commits, with or without a remote, whatever fails and whatever the user *)
(* rolls back.                                                             *)
(***************************************************************************)
EXTENDS GitHistory, TLAPS

(* A commit is among its ancestors, with all the ancestors of each.        *)
HistoryInv ==
    \A c \in 1 .. count :
        c \in history[c] /\ \A d \in history[c] : history[d] \subseteq history[c]

TypeInv == TypeOK /\ HistoryInv

(* The remote has every tag, and the head once its push has succeeded.     *)
PushedInv ==
    online =>
        /\ \A n \in Iterations : tags[n] # 0 => tags[n] \in Reachable(remote)
        /\ pc \in {"compare", "tag"} /\ committed => head \in Reachable(remote)

-----------------------------------------------------------------------------
(* Types                                                                   *)

(* What a commit adds to the history, and leaves alone in it.              *)
Added(n) ==
    /\ count + 1 \in Commits /\ count' = count + 1
    /\ head' = count + 1 /\ dirty' = FALSE
    /\ history'[count + 1] = Reachable(head) \cup {count + 1}
    /\ madeIn'[count + 1] = n
    /\ \A c \in 0 .. count : c # count + 1 /\ Reachable(c)' = Reachable(c)
    /\ \A c \in 1 .. count : history'[c] = history[c] /\ madeIn'[c] = madeIn[c]
    /\ Reachable(head) \subseteq 1 .. count
    /\ head # 0 => head \in Reachable(head)
    /\ history' \in [Commits -> SUBSET (1 .. count + 1)]
    /\ madeIn' \in [Commits -> 0 .. MaxIterations]

LEMMA CommitAdds ==
  ASSUME TypeInv, NEW n \in 0 .. MaxIterations, NewCommit(n)
  PROVE  Added(n)
<1>1. count + 1 \in Commits /\ 1 .. count \subseteq Commits
  BY GitAssumption DEF NewCommit, TypeInv, TypeOK, RepoTypes, Commits
<1>2. Reachable(head) \subseteq 1 .. count /\ (head # 0 => head \in Reachable(head))
  BY <1>1 DEF TypeInv, TypeOK, RepoTypes, Reachable, HistoryInv
<1>3. /\ history'[count + 1] = Reachable(head) \cup {count + 1}
      /\ madeIn'[count + 1] = n
  BY <1>1 DEF NewCommit, Ancestors, TypeInv, TypeOK, RepoTypes
<1>4. \A c \in 1 .. count :
         c # count + 1 /\ history'[c] = history[c] /\ madeIn'[c] = madeIn[c]
  BY <1>1 DEF NewCommit, TypeInv, TypeOK, RepoTypes
<1>5. \A c \in 0 .. count : c # count + 1 /\ Reachable(c)' = Reachable(c)
  BY <1>4 DEF Reachable, TypeInv, TypeOK, RepoTypes
<1>6. history' \in [Commits -> SUBSET (1 .. count + 1)]
  BY <1>1, <1>2 DEF NewCommit, Ancestors, TypeInv, TypeOK, RepoTypes
<1>7. madeIn' \in [Commits -> 0 .. MaxIterations]
  BY DEF NewCommit, TypeInv, TypeOK, RepoTypes
<1> QED
  BY <1>1, <1>2, <1>3, <1>4, <1>5, <1>6, <1>7 DEF NewCommit, Added

LEMMA CommitKeepsHistory ==
  ASSUME TypeInv, NEW n \in 0 .. MaxIterations, NewCommit(n),
         UNCHANGED <<online, remote, tags, rolled>>
  PROVE  RepoTypes' /\ HistoryInv'
<1>0. Added(n)
  BY CommitAdds
<1>1. RepoTypes'
  <2>1. count' \in 0 .. MaxCommits /\ count' = count + 1 /\ count \in Nat
    BY <1>0, GitAssumption DEF Added, TypeInv, TypeOK, RepoTypes, Commits
  <2>2. history' \in [Commits -> SUBSET (1 .. count')]
    BY <1>0, <2>1 DEF Added
  <2>3. /\ head' \in 0 .. count' /\ remote' \in 0 .. count'
        /\ tags' \in [Iterations -> 0 .. count']
    BY <1>0, <2>1 DEF Added, TypeInv, TypeOK, RepoTypes
  <2>4. dirty' \in BOOLEAN /\ online' \in BOOLEAN /\ rolled' \subseteq Moments
    BY <1>0 DEF Added, TypeInv, TypeOK, RepoTypes
  <2>5. madeIn' \in [Commits -> 0 .. MaxIterations]
    BY <1>0 DEF Added
  <2> QED
    BY <2>1, <2>2, <2>3, <2>4, <2>5 DEF RepoTypes
<1>2. ASSUME NEW c \in 1 .. count + 1
      PROVE  c \in history'[c] /\ \A d \in history'[c] : history'[d] \subseteq history'[c]
  <2>1. CASE c = count + 1
    <3>1. history'[c] = Reachable(head) \cup {c}
      BY <1>0, <2>1 DEF Added
    <3>2. ASSUME NEW d \in Reachable(head) PROVE history'[d] \subseteq history'[c]
      <4>1. head \in 1 .. count /\ d \in 1 .. count /\ d \in history[head]
        BY <1>0, <3>2 DEF Added, Reachable, TypeInv, TypeOK, RepoTypes
      <4>2. history[d] \subseteq history[head]
        BY <4>1 DEF TypeInv, HistoryInv
      <4> QED
        BY <1>0, <3>1, <4>1, <4>2 DEF Added, Reachable
    <3> QED
      BY <3>1, <3>2
  <2>2. CASE c \in 1 .. count
    <3>1. history'[c] = history[c] /\ history[c] \subseteq 1 .. count
      BY <1>0, <2>2, GitAssumption DEF Added, TypeInv, TypeOK, RepoTypes, Commits
    <3> QED
      BY <1>0, <2>2, <3>1 DEF Added, TypeInv, HistoryInv
  <2> QED
    BY <1>2, <2>1, <2>2 DEF TypeInv, TypeOK, RepoTypes
<1> QED
  BY <1>0, <1>1, <1>2 DEF Added, HistoryInv

(* A reset leads to a commit that exists and that something names.         *)
LEMMA RollbackTarget ==
  ASSUME TypeInv, RollbackLast \/ RollbackToTag
  PROVE  \E c \in 1 .. count : ResetTo(c) /\ c \in Named
<1>1. Named \subseteq 1 .. count
  BY GitAssumption DEF Named, Reachable, TypeInv, TypeOK, RepoTypes, Commits
<1>2. CASE RollbackLast
  <2>1. PICK p \in ParentOf(head) : head # 0 /\ ResetTo(p)
    BY <1>2 DEF RollbackLast
  <2>2. p \in Named
    BY <2>1 DEF ParentOf, Named, Reachable
  <2> QED
    BY <1>1, <2>1, <2>2
<1>3. CASE RollbackToTag
  BY <1>1, <1>3 DEF RollbackToTag
<1> QED
  BY <1>2, <1>3

LEMMA InitTypes == Init => TypeInv
<1> SUFFICES ASSUME Init PROVE TypeInv
  OBVIOUS
<1>1. head \in 0 .. 1 /\ head <= MaxCommits /\ count = head
  BY GitAssumption DEF Init
<1>2. history \in [Commits -> SUBSET (1 .. count)]
  BY <1>1 DEF Init, Commits
<1>3. LoopTypes
  <2>1. 0 \in 0 .. count /\ 0 \in 0 .. MaxIterations
    BY <1>1, GitAssumption
  <2> QED
    BY <2>1 DEF Init, LoopTypes
<1>4. RepoTypes
  BY <1>1, <1>2, GitAssumption DEF Init, RepoTypes, Commits, Iterations, Moments
<1>5. HistoryInv
  BY <1>1 DEF Init, HistoryInv, Commits
<1> QED
  BY <1>3, <1>4, <1>5 DEF TypeInv, TypeOK

LEMMA StepTypes == TypeInv /\ [Next]_vars => TypeInv'
<1> SUFFICES ASSUME TypeInv, [Next]_vars PROVE TypeInv'
  OBVIOUS
<1> USE GitAssumption DEF TypeInv, TypeOK
<1> DEFINE Same == UNCHANGED <<repoVars, online, remote, tags, rolled>>
<1>1. Same => RepoTypes' /\ HistoryInv'
  BY DEF repoVars, RepoTypes, HistoryInv
<1>2. number \in 0 .. MaxIterations /\ 0 \in 0 .. MaxIterations
  BY DEF LoopTypes
<1>3. ASSUME NEW n \in {0, number}, NewCommit(n), UNCHANGED <<online, remote, tags, rolled>>
      PROVE  RepoTypes' /\ HistoryInv' /\ count' = count + 1
  BY <1>2, <1>3, CommitKeepsHistory, CommitAdds DEF Added
<1>4. count \in Nat
  BY DEF RepoTypes
<1>5. CASE BeginIteration
  BY <1>1, <1>5 DEF BeginIteration, MayBegin, LoopTypes, repoVars
<1>6. CASE Work
  BY <1>6 DEF Work, loopVars, LoopTypes, RepoTypes, HistoryInv
<1>7. CASE AgentCommits
  BY <1>3, <1>4, <1>7 DEF AgentCommits, loopVars, LoopTypes
<1>8. CASE ReadBefore
  BY <1>1, <1>8 DEF ReadBefore, LoopTypes, RepoTypes, repoVars
<1>9. CASE CommitAll
  <2>1. CASE NewCommit(number)
    <3>1. RepoTypes' /\ HistoryInv' /\ count' = count + 1
      BY <1>3, <1>9, <2>1 DEF CommitAll
    <3>2. pc' \in {"push", "compare"} /\ committed' \in BOOLEAN
      BY <1>9 DEF CommitAll, LoopTypes
    <3>3. UNCHANGED <<number, before, after>>
      BY <1>9 DEF CommitAll
    <3> QED
      BY <1>4, <3>1, <3>2, <3>3 DEF LoopTypes
  <2>2. CASE UNCHANGED repoVars
    BY <1>1, <1>9, <2>2 DEF CommitAll, LoopTypes, repoVars
  <2> QED
    BY <1>9, <2>1, <2>2 DEF CommitAll
<1>10. CASE Push
  <2>1. LoopTypes'
    BY <1>10 DEF Push, LoopTypes, repoVars
  <2>2. RepoTypes' /\ HistoryInv'
    BY <1>10 DEF Push, RepoTypes, HistoryInv, repoVars
  <2> QED
    BY <2>1, <2>2
<1>11. CASE ReadAfter
  BY <1>1, <1>11 DEF ReadAfter, LoopTypes, RepoTypes, repoVars
<1>12. CASE TagIteration
  <2>1. LoopTypes'
    BY <1>12 DEF TagIteration, LoopTypes, repoVars
  <2>2. RepoTypes' /\ HistoryInv'
    BY <1>12 DEF TagIteration, Tagged, RepoTypes, HistoryInv, repoVars
  <2> QED
    BY <2>1, <2>2
<1>13. CASE Crash
  BY <1>1, <1>13 DEF Crash, LoopTypes, repoVars
<1>14. CASE Stop
  BY <1>1, <1>14 DEF Stop, LoopTypes, repoVars
<1>15. CASE EmergencyCommit
  <2>1. CASE NewCommit(0)
    BY <1>3, <1>4, <1>15, <2>1 DEF EmergencyCommit, LoopTypes
  <2>2. CASE UNCHANGED repoVars
    BY <1>1, <1>15, <2>2 DEF EmergencyCommit, LoopTypes, repoVars
  <2> QED
    BY <1>15, <2>1, <2>2 DEF EmergencyCommit
<1>16. CASE EmergencyPush
  <2>1. LoopTypes'
    BY <1>16 DEF EmergencyPush, LoopTypes, repoVars
  <2>2. RepoTypes' /\ HistoryInv'
    BY <1>16 DEF EmergencyPush, RepoTypes, HistoryInv, repoVars
  <2> QED
    BY <2>1, <2>2
<1>17. CASE RollbackLast \/ RollbackToTag
  <2>1. PICK c \in 1 .. count : ResetTo(c)
    BY <1>17, RollbackTarget
  <2>2. LoopTypes' /\ Moment \in Moments
    BY <2>1 DEF ResetTo, LoopTypes, loopVars, Moment, Moments
  <2>3. RepoTypes' /\ HistoryInv'
    <3>1. dirty' \in BOOLEAN
      BY <2>1 DEF ResetTo, RepoTypes
    <3>2. head' \in 0 .. count
      BY <2>1, <1>4 DEF ResetTo
    <3>3. rolled' \subseteq Moments
      BY <2>1, <2>2 DEF ResetTo, RepoTypes
    <3>4. UNCHANGED <<count, history, madeIn, online, remote, tags>>
      BY <2>1 DEF ResetTo
    <3> QED
      BY <3>1, <3>2, <3>3, <3>4 DEF RepoTypes, HistoryInv
  <2> QED
    BY <2>2, <2>3
<1>18. CASE UNCHANGED vars
  BY <1>1, <1>18 DEF vars, loopVars, LoopTypes, repoVars
<1> QED
  BY <1>5, <1>6, <1>7, <1>8, <1>9, <1>10, <1>11, <1>12, <1>13, <1>14, <1>15,
     <1>16, <1>17, <1>18 DEF Next

(* The types, and a history that is closed under ancestors.                *)
THEOREM TypeInvariant == Spec => []TypeInv
<1> QED BY InitTypes, StepTypes, PTL DEF Spec

(* The types hold for every bound.                                         *)
THEOREM TypeCorrect == Spec => []TypeOK
<1>1. TypeInv => TypeOK
  BY DEF TypeInv
<1> QED BY <1>1, TypeInvariant, PTL

-----------------------------------------------------------------------------
(* Tags and the remote                                                     *)

(* Commits, and whatever moves no commit, keep what the remote has.        *)
LEMMA RemoteKept ==
  ASSUME TypeInv, PushedInv, UNCHANGED <<online, remote, tags>>,
         \/ UNCHANGED history
         \/ \E n \in 0 .. MaxIterations : NewCommit(n),
         \/ pc' \notin {"compare", "tag"} \/ committed' = FALSE
         \/ pc \in {"compare", "tag"} /\ UNCHANGED <<committed, head, history>>
  PROVE  PushedInv'
<1>1. \A c \in 0 .. count : Reachable(c)' = Reachable(c)
  BY CommitAdds DEF Added, Reachable
<1>2. remote \in 0 .. count /\ head \in 0 .. count
  BY DEF TypeInv, TypeOK, RepoTypes
<1>3. Reachable(remote)' = Reachable(remote)
  BY <1>1, <1>2 DEF Reachable
<1> QED
  BY <1>3 DEF PushedInv

LEMMA PushedStep == TypeInv /\ PushedInv /\ [Next]_vars => PushedInv'
<1> SUFFICES ASSUME TypeInv, PushedInv, [Next]_vars PROVE PushedInv'
  OBVIOUS
<1>1. number \in 0 .. MaxIterations /\ 0 \in 0 .. MaxIterations
  BY GitAssumption DEF TypeInv, TypeOK, LoopTypes
<1>2. ASSUME NEW c \in 1 .. count, NEW d \in history[c], c \in Reachable(remote)
      PROVE  d \in Reachable(remote)
  BY <1>2 DEF Reachable, TypeInv, TypeOK, RepoTypes, HistoryInv
<1>3. head # 0 => head \in Reachable(head)
  BY DEF TypeInv, TypeOK, RepoTypes, HistoryInv, Reachable
<1>4. CASE BeginIteration \/ Work \/ ReadBefore \/ Crash \/ Stop
  BY <1>4, RemoteKept
     DEF BeginIteration, Work, ReadBefore, Crash, Stop, repoVars, loopVars
<1>5. CASE AgentCommits
  BY <1>1, <1>5, RemoteKept DEF AgentCommits, loopVars
<1>6. CASE CommitAll
  BY <1>1, <1>6, RemoteKept DEF CommitAll, repoVars
<1>7. CASE ReadAfter \/ UNCHANGED vars
  BY <1>7 DEF ReadAfter, vars, repoVars, loopVars, PushedInv, Reachable
<1>8. CASE Push
  BY <1>3, <1>8 DEF Push, FastForward, PushedInv, Reachable, repoVars
<1>9. CASE TagIteration
  <2>1. \A n \in Iterations : tags'[n] = tags[n] \/ (MayTag /\ tags'[n] = head)
    BY <1>9 DEF TagIteration, Tagged, TypeInv, TypeOK, RepoTypes
  <2> QED
    BY <1>9, <2>1 DEF TagIteration, MayTag, PushedInv, Reachable, repoVars
<1>10. CASE EmergencyCommit
  BY <1>1, <1>10, RemoteKept DEF EmergencyCommit, repoVars
<1>11. CASE EmergencyPush
  BY <1>11 DEF EmergencyPush, FastForward, PushedInv, Reachable, repoVars
<1>12. CASE RollbackLast \/ RollbackToTag
  <2>1. PICK c \in 1 .. count : ResetTo(c) /\ c \in Named
    BY <1>12, RollbackTarget
  <2>2. head \in 0 .. count /\ tags \in [Iterations -> 0 .. count]
    BY DEF TypeInv, TypeOK, RepoTypes
  <2>3. online /\ pc \in {"compare", "tag"} /\ committed => c \in Reachable(remote)
    <3> SUFFICES ASSUME online, pc \in {"compare", "tag"}, committed
                 PROVE  c \in Reachable(remote)
      OBVIOUS
    <3>1. CASE c \in Reachable(head)
      <4>1. head \in 1 .. count /\ head \in Reachable(remote) /\ c \in history[head]
        BY <2>2, <3>1 DEF PushedInv, Reachable
      <4> QED
        BY <1>2, <4>1
    <3>2. ASSUME NEW n \in Iterations, c \in Reachable(tags[n])
          PROVE  c \in Reachable(remote)
      <4>1. tags[n] \in 1 .. count /\ tags[n] \in Reachable(remote) /\ c \in history[tags[n]]
        BY <2>2, <3>2 DEF PushedInv, Reachable
      <4> QED
        BY <1>2, <4>1
    <3> QED
      BY <2>1, <3>1, <3>2 DEF Named
  <2> QED
    BY <2>1, <2>3 DEF ResetTo, PushedInv, Reachable, loopVars
<1> QED
  BY <1>4, <1>5, <1>6, <1>7, <1>8, <1>9, <1>10, <1>11, <1>12 DEF Next

(* No tag is ever put on a commit the remote does not have.                *)
THEOREM TagsArePushed == Spec => []TaggedIsPushed
<1>1. Init => PushedInv
  BY DEF Init, PushedInv
<1>2. PushedInv => TaggedIsPushed
  BY DEF PushedInv, TaggedIsPushed
<1> QED BY <1>1, <1>2, PushedStep, TypeInvariant, PTL DEF Spec

-----------------------------------------------------------------------------
(* Tags and the history                                                    *)

(* No commit and no tag is of an iteration to come, nor a tag of the one   *)
(* that runs.                                                              *)
DatedInv ==
    /\ \A c \in 1 .. count : madeIn[c] <= number
    /\ \A n \in Iterations :
          tags[n] # 0 => n < number \/ (n = number /\ ~Running)

(* The head of an iteration that is not rolled back has all its commits    *)
(* behind it, and is one of them unless it has made none.                  *)
RunInv ==
    Running /\ 2 * number \notin rolled =>
        /\ \A c \in 1 .. count : madeIn[c] = number => c \in Reachable(head)
        /\ pc = "commit" => head = before
        /\ pc \in {"push", "compare", "tag"} =>
              head = before \/ (head # 0 /\ madeIn[head] = number)
        /\ pc = "tag" => head = after

WholeInv == DatedInv /\ RunInv /\ TagIsWholeIteration

(* Without a rollback since the tag of m, the head has that tag behind it. *)
Quiet(first, last) == rolled \cap (first .. last) = {}
FollowInv ==
    /\ TagsFollow
    /\ \A m \in Iterations :
          tags[m] # 0 /\ Quiet(2 * m + 1, Moment) => tags[m] \in Reachable(head)

LEMMA InitWhole == Init => WholeInv /\ FollowInv
<1> SUFFICES ASSUME Init PROVE WholeInv /\ FollowInv
  OBVIOUS
<1>1. count \in 0 .. 1 /\ count <= MaxCommits /\ ~Running
  BY GitAssumption DEF Init, Running
<1>2. \A n \in Iterations : tags[n] = 0
  BY DEF Init
<1>3. \A c \in 1 .. count : madeIn[c] = 0 /\ number = 0
  BY <1>1, GitAssumption DEF Init, Commits
<1> QED
  BY <1>1, <1>2, <1>3
     DEF WholeInv, DatedInv, RunInv, TagIsWholeIteration, FollowInv, TagsFollow

(* A commit of the iteration that runs, or of none, leaves what the tags   *)
(* have behind them as it was.                                             *)
LEMMA CommitKeepsTags ==
  ASSUME TypeInv, DatedInv, NEW n \in 0 .. MaxIterations, NewCommit(n),
         n = 0 \/ (n = number /\ Running), UNCHANGED <<number, tags, rolled>>
  PROVE  /\ TagIsWholeIteration => TagIsWholeIteration'
         /\ TagsFollow => TagsFollow'
         /\ \A c \in 1 .. count' : madeIn'[c] <= number
<1>1. Added(n) /\ count \in Nat /\ number \in Nat
  BY CommitAdds DEF TypeInv, TypeOK, RepoTypes, LoopTypes
<1>2. ASSUME NEW m \in Iterations, tags[m] # 0
      PROVE  /\ tags[m] \in 1 .. count /\ m # n
             /\ history'[tags[m]] = history[tags[m]]
             /\ madeIn'[tags[m]] = madeIn[tags[m]]
  <2>1. tags[m] \in 1 .. count
    BY <1>2, <1>1 DEF TypeInv, TypeOK, RepoTypes
  <2>2. m # n
    BY <1>2, <1>1 DEF DatedInv, Iterations
  <2> QED
    BY <1>1, <2>1, <2>2 DEF Added
<1>3. ASSUME NEW c \in 1 .. count'
      PROVE  (c = count + 1 /\ madeIn'[c] = n) \/ (c \in 1 .. count /\ madeIn'[c] = madeIn[c])
  BY <1>1, <1>3 DEF Added
<1>4. TagIsWholeIteration => TagIsWholeIteration'
  BY <1>2, <1>3 DEF TagIsWholeIteration
<1>5. TagsFollow => TagsFollow'
  BY <1>2 DEF TagsFollow
<1>6. \A c \in 1 .. count' : madeIn'[c] <= number
  BY <1>1, <1>3 DEF DatedInv
<1> QED
  BY <1>4, <1>5, <1>6

LEMMA WholeStep == TypeInv /\ WholeInv /\ [Next]_vars => WholeInv'
<1> SUFFICES ASSUME TypeInv, WholeInv, [Next]_vars PROVE WholeInv'
  OBVIOUS
<1>1. number \in 0 .. MaxIterations /\ 0 \in 0 .. MaxIterations /\ count \in Nat
      /\ head \in 0 .. count
  BY GitAssumption DEF TypeInv, TypeOK, LoopTypes, RepoTypes
<1>2. ASSUME UNCHANGED <<number, tags, rolled, count, history, head, madeIn>>,
             Running' => Running
      PROVE  DatedInv' /\ TagIsWholeIteration'
  BY <1>2 DEF WholeInv, DatedInv, TagIsWholeIteration
<1>3. ASSUME NEW n \in 0 .. MaxIterations, NewCommit(n),
             n = 0 \/ (n = number /\ Running), UNCHANGED <<number, tags, rolled>>,
             Running' => Running
      PROVE  /\ DatedInv' /\ TagIsWholeIteration'
             /\ head' # 0 /\ madeIn'[head'] = n
             /\ Running /\ n = number /\ 2 * number \notin rolled =>
                   \A c \in 1 .. count' : madeIn'[c] = number => c \in Reachable(head)'
  <2>1. Added(n)
    BY <1>3, CommitAdds
  <2>2. DatedInv' /\ TagIsWholeIteration'
    BY <1>3, CommitKeepsTags DEF WholeInv, DatedInv
  <2>3. head' = count + 1 /\ head' # 0 /\ madeIn'[head'] = n
    BY <1>1, <2>1 DEF Added
  <2>4. Reachable(head)' = Reachable(head) \cup {count + 1}
    BY <1>1, <2>1, <2>3 DEF Added, Reachable
  <2>5. ASSUME Running, n = number, 2 * number \notin rolled, NEW c \in 1 .. count',
               madeIn'[c] = number
        PROVE  c \in Reachable(head)'
    <3>1. CASE c = count + 1
      BY <2>4, <3>1
    <3>2. CASE c \in 1 .. count
      <4>1. madeIn[c] = number
        BY <2>1, <2>5, <3>2 DEF Added
      <4> QED
        BY <2>4, <2>5, <3>2, <4>1 DEF WholeInv, RunInv
    <3> QED
      BY <1>1, <2>1, <3>1, <3>2 DEF Added
  <2> QED
    BY <2>2, <2>3, <2>5
<1>4. CASE BeginIteration
  <2>1. number' = number + 1 /\ UNCHANGED <<tags, rolled, count, history, head, madeIn>>
        /\ pc' = "work"
    BY <1>4 DEF BeginIteration, repoVars
  <2>2. TagIsWholeIteration'
    BY <2>1 DEF WholeInv, TagIsWholeIteration
  <2>3. \A n \in Iterations : tags[n] # 0 => n < number + 1
    BY <1>1 DEF WholeInv, DatedInv, Iterations
  <2>4. \A c \in 1 .. count : madeIn[c] \in Nat /\ madeIn[c] < number + 1
    BY <1>1, GitAssumption DEF WholeInv, DatedInv, TypeInv, TypeOK, RepoTypes, Commits
  <2>5. DatedInv'
    BY <1>1, <2>1, <2>3, <2>4 DEF DatedInv
  <2> QED
    BY <1>1, <2>1, <2>2, <2>4, <2>5 DEF WholeInv, RunInv
<1>5. CASE Work
  <2>1. RunInv'
    BY <1>5 DEF Work, loopVars, WholeInv, RunInv, Running, Reachable
  <2> QED
    BY <1>2, <1>5, <2>1 DEF Work, loopVars, WholeInv, Running
<1>6. CASE AgentCommits
  <2>1. pc = "work" /\ NewCommit(number) /\ UNCHANGED <<loopVars, tags, rolled>>
    BY <1>6 DEF AgentCommits
  <2>2. Running /\ Running'
    BY <2>1 DEF Running, loopVars
  <2> QED
    BY <1>1, <1>3, <2>1, <2>2 DEF loopVars, WholeInv, RunInv
<1>7. CASE ReadBefore
  <2>1. RunInv'
    BY <1>7 DEF ReadBefore, repoVars, WholeInv, RunInv, Running, Reachable
  <2> QED
    BY <1>2, <1>7, <2>1 DEF ReadBefore, repoVars, WholeInv, Running
<1>8. CASE CommitAll
  <2>1. /\ pc = "commit" /\ pc' \in {"push", "compare"} /\ Running /\ Running'
        /\ UNCHANGED <<number, before, after, tags, rolled>>
    BY <1>8 DEF CommitAll, Running
  <2>2. CASE NewCommit(number)
    BY <1>1, <1>3, <2>1, <2>2 DEF WholeInv, RunInv
  <2>3. CASE UNCHANGED repoVars
    <3>1. RunInv'
      BY <2>1, <2>3 DEF repoVars, WholeInv, RunInv, Reachable
    <3> QED
      BY <1>2, <2>1, <2>3, <3>1 DEF repoVars, WholeInv
  <2> QED
    BY <1>8, <2>2, <2>3 DEF CommitAll
<1>9. CASE Push
  <2>1. RunInv'
    BY <1>9 DEF Push, repoVars, WholeInv, RunInv, Running, Reachable
  <2> QED
    BY <1>2, <1>9, <2>1 DEF Push, repoVars, WholeInv, Running
<1>10. CASE ReadAfter
  <2>1. RunInv'
    BY <1>10 DEF ReadAfter, repoVars, WholeInv, RunInv, Running, Reachable
  <2> QED
    BY <1>2, <1>10, <2>1 DEF ReadAfter, repoVars, WholeInv, Running
<1>11. CASE TagIteration
  <2>1. /\ pc = "tag" /\ Running /\ ~Running'
        /\ UNCHANGED <<number, rolled, count, history, head, madeIn>>
    BY <1>11 DEF TagIteration, Running, repoVars
  <2>2. \A n \in Iterations :
           tags'[n] = tags[n] \/ (n = number /\ MayTag /\ tags'[n] = head)
    BY <1>11 DEF TagIteration, Tagged, TypeInv, TypeOK, RepoTypes
  <2>3. MayTag /\ 2 * number \notin rolled =>
           /\ head # 0 /\ madeIn[head] = number
           /\ \A c \in 1 .. count : madeIn[c] = number => c \in history[head]
    BY <2>1 DEF MayTag, WholeInv, RunInv, Reachable
  <2>4. DatedInv'
    BY <2>1, <2>2 DEF WholeInv, DatedInv
  <2>5. TagIsWholeIteration'
    BY <2>1, <2>2, <2>3 DEF WholeInv, TagIsWholeIteration
  <2> QED
    BY <2>1, <2>4, <2>5 DEF WholeInv, RunInv
<1>12. CASE Crash \/ Stop
  <2>1. ~Running' /\ UNCHANGED <<number, tags, rolled, count, history, head, madeIn>>
    BY <1>12 DEF Crash, Stop, Running, repoVars
  <2> QED
    BY <1>2, <2>1 DEF WholeInv, RunInv
<1>13. CASE EmergencyCommit
  <2>1. ~Running' /\ UNCHANGED <<number, tags, rolled>>
    BY <1>13 DEF EmergencyCommit, Running
  <2>2. CASE NewCommit(0)
    BY <1>1, <1>3, <2>1, <2>2 DEF WholeInv, RunInv
  <2>3. CASE UNCHANGED repoVars
    BY <1>2, <2>1, <2>3 DEF repoVars, WholeInv, RunInv
  <2> QED
    BY <1>13, <2>2, <2>3 DEF EmergencyCommit
<1>14. CASE EmergencyPush
  <2>1. ~Running' /\ UNCHANGED <<number, tags, rolled, count, history, head, madeIn>>
    BY <1>14 DEF EmergencyPush, Running, repoVars
  <2> QED
    BY <1>2, <2>1 DEF WholeInv, RunInv
<1>15. CASE RollbackLast \/ RollbackToTag
  <2>1. PICK c \in 1 .. count : ResetTo(c)
    BY <1>15, RollbackTarget
  <2>2. /\ UNCHANGED <<pc, number, tags, count, history, madeIn>>
        /\ rolled \subseteq rolled' /\ Moment \in rolled'
    BY <2>1 DEF ResetTo, loopVars
  <2>3. Running => 2 * number \in rolled'
    BY <2>2 DEF Moment
  <2>4. DatedInv'
    BY <2>2 DEF WholeInv, DatedInv, Running
  <2>5. TagIsWholeIteration'
    BY <2>2 DEF WholeInv, TagIsWholeIteration
  <2> QED
    BY <2>2, <2>3, <2>4, <2>5 DEF WholeInv, RunInv, Running
<1>16. CASE UNCHANGED vars
  <2>1. RunInv'
    BY <1>16 DEF vars, loopVars, repoVars, WholeInv, RunInv, Running, Reachable
  <2> QED
    BY <1>2, <1>16, <2>1 DEF vars, loopVars, repoVars, WholeInv, Running
<1> QED
  BY <1>4, <1>5, <1>6, <1>7, <1>8, <1>9, <1>10, <1>11, <1>12, <1>13, <1>14,
     <1>15, <1>16 DEF Next

(* A rollback to the tag of an iteration during which none was asked       *)
(* restores the whole of it, and nothing after it.                         *)
THEOREM TagsAreWhole == Spec => []TagIsWholeIteration
<1>1. Init => WholeInv
  BY InitWhole
<1>2. WholeInv => TagIsWholeIteration
  BY DEF WholeInv
<1> QED BY <1>1, <1>2, WholeStep, TypeInvariant, PTL DEF Spec

LEMMA FollowStep ==
  TypeInv /\ WholeInv /\ FollowInv /\ [Next]_vars => FollowInv'
<1> SUFFICES ASSUME TypeInv, WholeInv, FollowInv, [Next]_vars PROVE FollowInv'
  OBVIOUS
<1>1. number \in 0 .. MaxIterations /\ 0 \in 0 .. MaxIterations /\ count \in Nat
      /\ head \in 0 .. count
  BY GitAssumption DEF TypeInv, TypeOK, LoopTypes, RepoTypes
<1>2. \A m \in Iterations : m \in Nat
  BY DEF Iterations
<1>3. Moment \in Nat
  BY <1>1 DEF Moment
<1>4. ASSUME UNCHANGED <<tags, rolled, count, history, head>>,
             Moment' \in Nat, Moment <= Moment'
      PROVE  FollowInv'
  <2>1. TagsFollow'
    BY <1>4 DEF FollowInv, TagsFollow
  <2>2. \A m \in Iterations : Quiet(2 * m + 1, Moment)' => Quiet(2 * m + 1, Moment)
    BY <1>2, <1>3, <1>4 DEF Quiet
  <2> QED
    BY <1>4, <2>1, <2>2 DEF FollowInv, Reachable
<1>5. ASSUME NEW n \in 0 .. MaxIterations, NewCommit(n),
             n = 0 \/ (n = number /\ Running), UNCHANGED <<number, tags, rolled>>,
             Moment' = Moment
      PROVE  FollowInv'
  <2>1. Added(n)
    BY <1>5, CommitAdds
  <2>2. TagsFollow'
    BY <1>5, CommitKeepsTags DEF WholeInv, FollowInv
  <2>3. Reachable(head)' = Reachable(head) \cup {count + 1}
    BY <1>1, <2>1 DEF Added, Reachable
  <2> QED
    BY <1>5, <2>2, <2>3 DEF FollowInv, Quiet
<1>6. CASE BeginIteration
  BY <1>1, <1>3, <1>4, <1>6 DEF BeginIteration, repoVars, Moment, Running
<1>7. CASE Work
  BY <1>3, <1>4, <1>7 DEF Work, loopVars, Moment, Running
<1>8. CASE AgentCommits
  BY <1>1, <1>5, <1>8 DEF AgentCommits, loopVars, Moment, Running
<1>9. CASE ReadBefore \/ Push \/ ReadAfter
  BY <1>3, <1>4, <1>9 DEF ReadBefore, Push, ReadAfter, repoVars, Moment, Running
<1>10. CASE CommitAll
  <2>1. Running /\ UNCHANGED <<number, tags, rolled>> /\ Moment' = Moment
    BY <1>10 DEF CommitAll, Running, Moment
  <2>2. CASE NewCommit(number)
    BY <1>1, <1>5, <2>1, <2>2
  <2>3. CASE UNCHANGED repoVars
    BY <1>3, <1>4, <2>1, <2>3 DEF repoVars
  <2> QED
    BY <1>10, <2>2, <2>3 DEF CommitAll
<1>11. CASE TagIteration
  <2>1. /\ UNCHANGED <<number, rolled, count, history, head>>
        /\ Moment = 2 * number /\ Moment' = 2 * number + 1
    BY <1>11 DEF TagIteration, repoVars, Moment, Running
  <2>2. \A n \in Iterations :
           tags'[n] = tags[n] \/ (n = number /\ MayTag /\ tags'[n] = head)
    BY <1>11 DEF TagIteration, Tagged, TypeInv, TypeOK, RepoTypes
  <2>3. \A n \in Iterations : tags[n] # 0 => n < number
    BY <1>11 DEF TagIteration, WholeInv, DatedInv, Running
  <2>4. head # 0 => head \in history[head]
    BY <1>1 DEF TypeInv, HistoryInv
  <2>5. ASSUME NEW m \in Iterations, NEW n \in Iterations, m < n,
               tags'[m] # 0, tags'[n] # 0, Quiet(2 * m + 1, 2 * n)
        PROVE  tags'[m] \in history[tags'[n]]
    <3>1. m \in Nat /\ n \in Nat
      BY <1>2
    <3>2. CASE tags'[n] = tags[n]
      <4>1. n < number
        BY <2>3, <2>5, <3>2
      <4>2. tags'[m] = tags[m]
        BY <1>1, <2>2, <2>5, <3>1, <4>1
      <4> QED
        BY <2>5, <3>2, <4>2 DEF FollowInv, TagsFollow, Quiet
    <3>3. CASE n = number /\ tags'[n] = head
      <4>1. tags'[m] = tags[m]
        BY <1>1, <2>2, <2>5, <3>1, <3>3
      <4> QED
        BY <2>1, <2>5, <3>3, <4>1 DEF FollowInv, Reachable
    <3> QED
      BY <2>2, <3>2, <3>3
  <2>6. ASSUME NEW m \in Iterations, tags'[m] # 0, Quiet(2 * m + 1, 2 * number + 1)
        PROVE  tags'[m] \in Reachable(head)
    <3>1. CASE tags'[m] = head
      BY <2>4, <2>6, <3>1 DEF Reachable
    <3>2. CASE tags'[m] = tags[m]
      <4>1. Quiet(2 * m + 1, Moment)
        BY <1>1, <1>2, <2>1, <2>6 DEF Quiet
      <4> QED
        BY <2>6, <3>2, <4>1 DEF FollowInv
    <3> QED
      BY <2>2, <3>1, <3>2
  <2>7. TagsFollow'
    BY <2>1, <2>5 DEF TagsFollow, Quiet
  <2> QED
    BY <2>1, <2>6, <2>7 DEF FollowInv, Quiet, Reachable
<1>12. CASE Crash \/ Stop
  BY <1>1, <1>3, <1>4, <1>12 DEF Crash, Stop, repoVars, Moment, Running
<1>13. CASE EmergencyCommit
  <2>1. UNCHANGED <<number, tags, rolled>> /\ Moment' = Moment
    BY <1>13 DEF EmergencyCommit, Running, Moment
  <2>2. CASE NewCommit(0)
    BY <1>1, <1>5, <2>1, <2>2
  <2>3. CASE UNCHANGED repoVars
    BY <1>3, <1>4, <2>1, <2>3 DEF repoVars
  <2> QED
    BY <1>13, <2>2, <2>3 DEF EmergencyCommit
<1>14. CASE EmergencyPush
  BY <1>3, <1>4, <1>14 DEF EmergencyPush, repoVars, Moment, Running
<1>15. CASE RollbackLast \/ RollbackToTag
  <2>1. PICK c \in 1 .. count : ResetTo(c)
    BY <1>15, RollbackTarget
  <2>2. /\ UNCHANGED <<pc, number, tags, count, history>>
        /\ rolled \subseteq rolled' /\ Moment \in rolled' /\ Moment' = Moment
    BY <2>1 DEF ResetTo, loopVars, Moment, Running
  <2>3. TagsFollow'
    BY <2>2 DEF FollowInv, TagsFollow
  <2>4. ASSUME NEW m \in Iterations, tags[m] # 0
        PROVE  2 * m + 1 <= Moment
    BY <1>1, <1>2, <2>4 DEF WholeInv, DatedInv, Moment
  <2>5. \A m \in Iterations : tags[m] # 0 => ~Quiet(2 * m + 1, Moment)'
    BY <1>2, <1>3, <2>2, <2>4 DEF Quiet
  <2> QED
    BY <2>2, <2>3, <2>5 DEF FollowInv
<1>16. CASE UNCHANGED vars
  BY <1>3, <1>4, <1>16 DEF vars, loopVars, repoVars, Moment, Running
<1> QED
  BY <1>6, <1>7, <1>8, <1>9, <1>10, <1>11, <1>12, <1>13, <1>14, <1>15, <1>16
     DEF Next

(* The tags are in the order of the history between two rollbacks.         *)
THEOREM TagsAreOrdered == Spec => []TagsFollow
<1>1. Init => WholeInv /\ FollowInv
  BY InitWhole
<1>2. FollowInv => TagsFollow
  BY DEF FollowInv
<1> QED BY <1>1, <1>2, WholeStep, FollowStep, TypeInvariant, PTL DEF Spec

-----------------------------------------------------------------------------
(* The steps of the loop and of the interface are steps of Publication, or *)
(* are not seen by it.                                                     *)

LEMMA PublicInit == Init => Public!Init
<1> SUFFICES ASSUME Init PROVE Public!Init
  OBVIOUS
<1>1. TypeInv
  BY InitTypes
<1>2. Reachable(remote) \in SUBSET Commits /\ (~online => Reachable(remote) = {})
  BY <1>1, GitAssumption DEF Init, Reachable, TypeInv, TypeOK, RepoTypes, Commits
<1> QED
  BY <1>2 DEF Init, Public!Init

(* Before a push and after it.                                             *)
LEMMA PushPublishes ==
  ASSUME TypeInv, Push \/ EmergencyPush PROVE [Public!Next]_Public!vars
<1>1. UNCHANGED <<online, tags, history>>
  BY DEF Push, EmergencyPush, repoVars
<1>2. CASE remote' = remote
  BY <1>1, <1>2 DEF Public!vars, Reachable
<1>3. CASE online /\ FastForward /\ remote' = head
  <2>1. Reachable(remote)' = Reachable(head)
    BY <1>1, <1>3 DEF Reachable
  <2>2. Reachable(head) \in SUBSET Commits
    BY <1>3, GitAssumption DEF FastForward, Reachable, TypeInv, TypeOK, RepoTypes, Commits
  <2> QED
    BY <1>1, <1>3, <2>1, <2>2 DEF FastForward, Public!Publish, Public!Next
<1> QED
  BY <1>2, <1>3 DEF Push, EmergencyPush

LEMMA TagIsPublic ==
  ASSUME TypeInv, PushedInv, WholeInv, TagIteration PROVE [Public!Next]_Public!vars
<1>1. UNCHANGED <<online, remote, history>> /\ Reachable(remote)' = Reachable(remote)
  BY DEF TagIteration, repoVars, Reachable
<1>2. CASE UNCHANGED tags
  BY <1>1, <1>2 DEF Public!vars
<1>3. CASE MayTag /\ tags' = [tags EXCEPT ![number] = Tagged]
  <2>1. number \in 0 .. MaxIterations /\ head \in 0 .. MaxCommits
    BY GitAssumption DEF TypeInv, TypeOK, LoopTypes, RepoTypes
  <2>2. \A m \in Iterations : tags[m] # 0 => m < number
    BY DEF TagIteration, Running, WholeInv, DatedInv
  <2>3. online => head \in Reachable(remote)
    BY <1>3 DEF TagIteration, MayTag, PushedInv
  <2>4. CASE number = 0 \/ head = 0
    <3>1. number \in Iterations => tags[number] = 0
      BY <2>2, GitAssumption DEF TypeInv, TypeOK, LoopTypes, Iterations
    <3>2. UNCHANGED tags
      BY <1>3, <2>4, <3>1 DEF Tagged, TypeInv, TypeOK, RepoTypes, Iterations
    <3> QED
      BY <1>1, <3>2 DEF Public!vars
  <2>5. CASE number # 0 /\ head # 0
    <3>1. number \in Iterations /\ head \in Commits
      BY <2>1, <2>5 DEF Iterations, Commits
    <3> QED
      BY <1>1, <1>3, <2>2, <2>3, <3>1 DEF Tagged, Public!Tag, Public!Next
  <2> QED
    BY <2>4, <2>5
<1> QED
  BY <1>2, <1>3 DEF TagIteration

(* A commit, a rollback, the loop's own moves: nothing of it is public.    *)
LEMMA OthersArePrivate ==
  ASSUME TypeInv, [Next]_vars, ~Push, ~EmergencyPush, ~TagIteration
  PROVE  UNCHANGED Public!vars
<1>1. UNCHANGED <<online, remote, tags>>
  BY DEF Next, vars, BeginIteration, Work, AgentCommits, ReadBefore, CommitAll, ReadAfter,
         Crash, Stop, EmergencyCommit, RollbackLast, RollbackToTag, ResetTo
<1>2. UNCHANGED history \/ \E n \in 0 .. MaxIterations : NewCommit(n)
  <2>1. number \in 0 .. MaxIterations /\ 0 \in 0 .. MaxIterations
    BY GitAssumption DEF TypeInv, TypeOK, LoopTypes
  <2> QED
    BY <2>1
       DEF Next, vars, BeginIteration, Work, AgentCommits, ReadBefore, CommitAll, ReadAfter,
           Crash, Stop, EmergencyCommit, RollbackLast, RollbackToTag, ResetTo, repoVars
<1>3. \A c \in 0 .. count : Reachable(c)' = Reachable(c)
  BY <1>2, CommitAdds DEF Added, Reachable
<1>4. Reachable(remote)' = Reachable(remote)
  BY <1>1, <1>3 DEF Reachable, TypeInv, TypeOK, RepoTypes
<1> QED
  BY <1>1, <1>4 DEF Public!vars

(* For any number of iterations and commits, whatever fails or dies and    *)
(* whatever is rolled back, GitHistory does what Publication promises.     *)
THEOREM PublishesCorrect == Spec => Publishes
<1>1. TypeInv /\ PushedInv /\ WholeInv /\ [Next]_vars => [Public!Next]_Public!vars
  BY PushPublishes, TagIsPublic, OthersArePrivate
<1>2. Init => PushedInv /\ WholeInv
  BY InitWhole DEF Init, PushedInv
<1> QED
  BY <1>1, <1>2, PublicInit, PushedStep, WholeStep, TypeInvariant, PTL
     DEF Spec, Publishes, Public!Spec

=============================================================================
