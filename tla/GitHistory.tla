------------------------------ MODULE GitHistory ------------------------------
(***************************************************************************)
(* The history of the project's repository: the commits of the agent, the  *)
(* commit, push and tag that end an iteration, the emergency commit that   *)
(* ends the loop, and the rollbacks of the interface, which wait for none  *)
(* of them.                                                                *)
(*                                                                         *)
(* A commit is a number, larger than those of its ancestors, and history   *)
(* gives the set of commits reachable from it.  The history is linear: the *)
(* agent is assumed to commit on the branch and to do nothing else to it.  *)
(***************************************************************************)
EXTENDS Naturals

CONSTANTS
    MaxIterations,  \* bound on the iterations of the loop
    MaxCommits,     \* bound on the commits, for TLC
    Unreliable      \* may a push or a tag fail for a reason of its own?

ASSUME GitAssumption ==
    MaxIterations \in Nat /\ MaxCommits \in Nat /\ Unreliable \in BOOLEAN

VARIABLES
    pc,       \* where the loop is
    number,   \* ITERATION
    before,   \* head_before
    after,    \* head_after
    committed,\* what stage_and_commit_all returned
    count,    \* the commits made so far are 1 .. count
    history,  \* the ancestors of each commit, itself included
    head,     \* the commit of the branch, 0 when there is none
    dirty,    \* the working tree has changes
    online,   \* there is a remote and a token to push to it
    remote,   \* the commit of the branch on the remote
    tags,     \* the commit of each debuilder/iter-<number>, 0 for none
    \* history variables, read by no step
    madeIn,   \* the iteration that made each commit, 0 for none
    rolled    \* the moments at which a rollback took place

loopVars == <<pc, number, before, after, committed>>
repoVars == <<count, history, head, dirty, madeIn>>
vars == <<loopVars, repoVars, online, remote, tags, rolled>>

Commits == 1 .. MaxCommits
Iterations == 1 .. MaxIterations

(* Iteration n runs at the moment 2n, and is over at 2n + 1.               *)
Moments == 0 .. 2 * MaxIterations + 1
Running == pc \in {"work", "commit", "push", "compare", "tag"}
Moment == IF Running THEN 2 * number ELSE 2 * number + 1

Reachable(c) == IF c = 0 THEN {} ELSE history[c]

(* A clone of a repository, empty or not, or a repository just created.    *)
Init ==
    /\ pc = "idle" /\ number = 0 /\ before = 0 /\ after = 0 /\ committed = FALSE
    /\ head \in {0, 1} \cap (0 .. MaxCommits)
    /\ count = head
    /\ history = [c \in Commits |-> IF c <= head THEN {1} ELSE {}]
    /\ dirty = TRUE
    /\ online \in BOOLEAN
    /\ remote = IF online THEN head ELSE 0
    /\ tags = [n \in Iterations |-> 0]
    /\ madeIn = [c \in Commits |-> 0]
    /\ rolled = {}

-----------------------------------------------------------------------------
(* git                                                                     *)

\* Fault: the commit amends the last one.
Amended(c) == Reachable(c) \ {c}

Ancestors(c) == Reachable(c)

(* git commit, on the branch.                                              *)
NewCommit(n) ==
    /\ dirty
    /\ count < MaxCommits
    /\ count' = count + 1
    /\ history' = [history EXCEPT ![count + 1] = Ancestors(head) \cup {count + 1}]
    /\ head' = count + 1
    /\ dirty' = FALSE
    /\ madeIn' = [madeIn EXCEPT ![count + 1] = n]

\* Fault: the push is forced.
Forced == head # 0

(* git push -u origin: the remote accepts nothing but a fast-forward.      *)
FastForward == head # 0 /\ Reachable(remote) \subseteq Reachable(head)

-----------------------------------------------------------------------------
(* The loop                                                                *)

\* Fault: one iteration too many.
MayBeginAtCap == number <= MaxIterations

MayBegin == number < MaxIterations

BeginIteration ==
    /\ pc = "idle"
    /\ MayBegin
    /\ number' = number + 1
    /\ pc' = "work"
    /\ UNCHANGED <<before, after, committed, repoVars, online, remote, tags, rolled>>

(* The sessions and the loop write the project's files.                    *)
Work ==
    /\ pc = "work"
    /\ dirty' = TRUE
    /\ UNCHANGED <<loopVars, count, history, head, madeIn, online, remote, tags, rolled>>

(* The agent commits what it has done, as its prompt asks.                 *)
AgentCommits ==
    /\ pc = "work"
    /\ NewCommit(number)
    /\ UNCHANGED <<loopVars, online, remote, tags, rolled>>

ReadBefore ==
    /\ pc = "work"
    /\ before' = head
    /\ pc' = "commit"
    /\ UNCHANGED <<number, after, committed, repoVars, online, remote, tags, rolled>>

(* stage_and_commit_all, up to its push.  A commit that a hook or a lock   *)
(* of git refuses is not followed by a push.                               *)
CommitAll ==
    /\ pc = "commit"
    /\ \/ /\ NewCommit(number) \/ (~dirty /\ UNCHANGED repoVars)
          /\ pc' = "push"
          /\ UNCHANGED committed
       \/ /\ committed' = FALSE
          /\ pc' = "compare"
          /\ UNCHANGED repoVars
    /\ UNCHANGED <<number, before, after, online, remote, tags, rolled>>

(* Its push, without which it reports a failure, or none to do.            *)
Push ==
    /\ pc = "push"
    /\ \/ ~online /\ committed' = TRUE /\ UNCHANGED remote
       \/ online /\ FastForward /\ remote' = head /\ committed' = TRUE
       \/ /\ online
          /\ FastForward => Unreliable
          /\ committed' = FALSE
          /\ UNCHANGED remote
    /\ pc' = "compare"
    /\ UNCHANGED <<number, before, after, repoVars, online, tags, rolled>>

ReadAfter ==
    /\ pc = "compare"
    /\ after' = head
    /\ pc' = "tag"
    /\ UNCHANGED <<number, before, committed, repoVars, online, remote, tags, rolled>>

\* Faults: the result of the push is ignored; the start is tagged.
TagsAnyCommit == after # 0 /\ after # before
TaggedStart == before

MayTag == committed /\ after # 0 /\ after # before

(* git tag puts the tag on HEAD, wherever it is by now.                    *)
Tagged == head

TagIteration ==
    /\ pc = "tag"
    /\ \/ MayTag /\ tags' = [tags EXCEPT ![number] = Tagged]
       \/ (MayTag => Unreliable) /\ UNCHANGED tags
    /\ pc' = "idle"
    /\ UNCHANGED <<number, before, after, committed, repoVars, online, remote, rolled>>

(* The iteration's process dies; the loop goes on with the next one.       *)
Crash ==
    /\ Running
    /\ pc' = "idle"
    /\ UNCHANGED <<number, before, after, committed, repoVars, online, remote, tags, rolled>>

(* A cap, DONE or a signal: the EXIT trap commits, then pushes.            *)
Stop ==
    /\ pc \notin {"closing", "closingPush", "stopped"}
    /\ pc' = "closing"
    /\ UNCHANGED <<number, before, after, committed, repoVars, online, remote, tags, rolled>>

EmergencyCommit ==
    /\ pc = "closing"
    /\ \/ /\ NewCommit(0) \/ (~dirty /\ UNCHANGED repoVars)
          /\ pc' = "closingPush"
       \/ pc' = "stopped" /\ UNCHANGED repoVars
    /\ UNCHANGED <<number, before, after, committed, online, remote, tags, rolled>>

EmergencyPush ==
    /\ pc = "closingPush"
    /\ \/ online /\ FastForward /\ remote' = head
       \/ (online /\ FastForward => Unreliable) /\ UNCHANGED remote
    /\ pc' = "stopped"
    /\ UNCHANGED <<number, before, after, committed, repoVars, online, tags, rolled>>

-----------------------------------------------------------------------------
(* The interface: git reset --hard, which leaves untracked files behind.   *)

ResetTo(c) ==
    /\ head' = c
    /\ dirty' \in {FALSE, dirty}
    /\ rolled' = rolled \cup {Moment}
    /\ UNCHANGED <<loopVars, count, history, madeIn, online, remote, tags>>

(* HEAD~1, unless the commit has no parent.                                *)
ParentOf(c) == {p \in history[c] \ {c} : \A q \in history[c] \ {c} : q <= p}

RollbackLast == head # 0 /\ \E p \in ParentOf(head) : ResetTo(p)

(* A tag, or any other ref: HEAD, the branch of the remote, an ancestor.   *)
(* A commit that none of them reaches has no name but its hash, and is not *)
(* a target here.                                                          *)
Named ==
    Reachable(head) \cup Reachable(remote)
        \cup UNION {Reachable(tags[n]) : n \in Iterations}

RollbackToTag == \E c \in Named : ResetTo(c)

Next ==
    \/ BeginIteration \/ Work \/ AgentCommits \/ ReadBefore \/ CommitAll \/ Push
    \/ ReadAfter \/ TagIteration \/ Crash
    \/ Stop \/ EmergencyCommit \/ EmergencyPush
    \/ RollbackLast \/ RollbackToTag

Spec == Init /\ [][Next]_vars

-----------------------------------------------------------------------------
(* Properties                                                              *)

(* Type correctness of the loop, the repository and the remote.            *)
LoopTypes ==
    /\ pc \in {"idle", "work", "commit", "push", "compare", "tag",
               "closing", "closingPush", "stopped"}
    /\ number \in 0 .. MaxIterations
    /\ before \in 0 .. count /\ after \in 0 .. count
    /\ committed \in BOOLEAN

RepoTypes ==
    /\ count \in 0 .. MaxCommits
    /\ history \in [Commits -> SUBSET (1 .. count)]
    /\ head \in 0 .. count /\ remote \in 0 .. count
    /\ dirty \in BOOLEAN /\ online \in BOOLEAN
    /\ tags \in [Iterations -> 0 .. count]
    /\ madeIn \in [Commits -> 0 .. MaxIterations]
    /\ rolled \subseteq Moments

TypeOK == LoopTypes /\ RepoTypes

(* What a tag of the interface's list points to is on the remote, when     *)
(* there is one: the tag is put after the push, whatever is rolled back in *)
(* between, and the remote loses nothing.                                  *)
TaggedIsPushed ==
    online => \A n \in Iterations : tags[n] # 0 => tags[n] \in Reachable(remote)

(* The tag of an iteration points to its last commit, with all its other   *)
(* commits behind, unless the user rolled back while it was running: a     *)
(* rollback to the tag restores the whole iteration and nothing after it.  *)
TagIsWholeIteration ==
    \A n \in Iterations :
        tags[n] # 0 /\ 2 * n \notin rolled =>
            /\ madeIn[tags[n]] = n
            /\ \A c \in 1 .. count : madeIn[c] = n => c \in history[tags[n]]

(* "Le rollback de l'interface et le bisect s'appuient sur ces tags": the  *)
(* tag of a later iteration has those of the earlier ones behind it,       *)
(* unless the user rolled back between the two.                            *)
TagsFollow ==
    \A m, n \in Iterations :
        /\ m < n /\ tags[m] # 0 /\ tags[n] # 0
        /\ rolled \cap (2 * m + 1 .. 2 * n) = {}
        => tags[m] \in history[tags[n]]

(* The loop and the interface together, rollbacks, refused pushes and      *)
(* deaths included, do to the remote and to the tags what Publication says *)
(* and nothing else: a push loses no commit that was pushed before it.     *)
Public == INSTANCE Publication WITH published <- Reachable(remote)

Publishes == Public!Spec

=============================================================================
