# DeBuilder: a verification project

DeBuilder runs an autonomous coding agent: a shell loop launches one Python
process per iteration, each iteration runs up to three OpenCode sessions (Plan,
Implement, Review), verifies what they did, commits it and goes on until a file
`DONE` appears or a cap is reached. A FastAPI interface, on the same machine,
watches and steers the loop through the files of the project. Nothing but the
file system connects the two.

This directory holds TLA+ modules that model that system, the TLC
configurations that check them on small instances, and theorems about them,
proved with TLAPS for every value of their constants. Paths below are relative
to `src/`, which holds the repository: the program's code is in `src/src/`.

To check one configuration: `tlc -config AgentLoop_loop.cfg AgentLoop.tla`.
To check the proofs of one component: `tlapm AgentLoopProofs.tla`.

## 1. The system

### Components

| Component | Code | State it keeps | Operations |
|---|---|---|---|
| Autonomous loop | `loop/agent_loop.sh`, `run_iteration` and its helpers in `loop/agent.py` | shell: iteration counter, backoff; files: TASK.md, PROGRESS.md, FINISHED_REPORT.md, GATE_FAILURE.md, DONE; local: the result of the iteration | check caps, launch, pause, three sessions, barriers, gates, test gate, review, no-op detection, commit, journal, backoff |
| Circuit breaker | `core/circuit_breaker.py` | one JSON file per state directory, shared by all loops of a pod; one copy per iteration | load, record success / API failure / other failure, trip, pause, choose the model |
| Suggestions | `web/routes_control.py`, `web/routes_requests.py`, `loop/agent.py` | SUGGESTIONS.md and the window of PROGRESS.md | send, answer a request, read, prompt, purge |
| State files | `core/state.py` | the Markdown files of the project | atomic write, append, progress update and repair, compaction, DONE |
| File locks | `core/filelock.py` | lock files | exclusive and shared locks with a timeout |
| Git operations | `core/git.py` | the repository | commit, push, tag, rollback, .gitignore |
| Iteration journal | `core/iterations.py` | ITERATIONS.jsonl | append, read, count consecutive no-ops and failures |
| Loop status | `core/loop_status.py` | pid file, heartbeat | heartbeat, liveness of the process, status |
| Session tracking | `core/session.py`, `web/routes_session.py` | session.json, the launched process | start, resume, forget |
| Log stream | `web/routes_logs.py` | offset and buffer per client | tail, follow, rotation |
| Session watchdog | `_exec_opencode` in `loop/agent.py` | the OpenCode process, its pipe, a thread | read, kill on silence or deadline |
| Control routes | `web/routes_control.py` | none of their own | kill-switch, barriers, suggestions, rollback |
| Parsers | `utils/task_parser.py`, `utils/test_results.py`, `templates/pre-commit.tmpl` | none | boxes, test command, test results |
| Views | `web/routes_dashboard.py`, `web/static/`, `utils/markdown_parser.py`, `core/log_summarizer.py`, `utils/hw_audit.py` | caches | reading and display |
| Secrets | `core/secrets.py` | the environment | masking |

### How they interact

    interface --- DONE, BARRIER_*, SUGGESTIONS.md, rollback --> project files
    agent_loop.sh --- one process per iteration, exit status --> run_iteration
    run_iteration --- OpenCode sessions --> project files, git
    run_iteration --- load at the start, save at the end --> circuit_breaker.json
    run_iteration --- heartbeat, journal, log --> interface (polling)

There is no message and no acknowledgement: every interaction is one party
writing a file that another reads later, at a point of its own choosing.

### What is hard

* **State read and used much later.** An iteration lasts minutes to hours.
  It reads SUGGESTIONS.md, the circuit breaker and the list of barriers once and
  acts on them long after the interface or another loop has changed them.
* **Order of steps that may each fail.** Between the end of Implement and the
  journal entry there are a dozen steps in three functions, inside two `try`
  blocks; what a failure leaves behind depends on the point it strikes.
* **Crashes and signals.** The Python process may die at any instruction; the
  shell takes it for a failed iteration and goes on. SIGTERM ends the loop.
* **Waiting.** A pause of the breaker, a barrier and the backoff must not
  defeat the kill-switch or the caps.
* **Files shared between pods' loops** without a lock over read-modify-write.

### What makes each component correct

* *Loop*: the kill-switch stops it within the iteration during which it appears;
  the mission is declared complete only over verified work; a failure never
  stops the loop; GATE_FAILURE.md, the input of the next Plan, agrees with the
  iteration it reports on; a barrier holds; the backoff follows the outcome.
* *Circuit breaker*: K failures open it once; pauses are bounded and end; closed
  means neither pause nor fallback; among loops that know what the file says,
  only a success closes it, shortens a pause or forgets failures.
* *Suggestions*: what is erased has been shown to the agent and decided on;
  what a failed iteration has read stays.
* *Git*: what is committed reaches the remote; a tag leads to a whole iteration,
  on the remote, in the order of the history; state files are never committed.
* *Loop status*: a loop that runs is reported as running, and one that has gone
  as gone where its PID can be told from a loop's; what races make wrong is put
  right by a later answer.
* *Session tracking*: one loop per directory; the session and the PID on file
  belong together.
* *Log stream*: a client gets the tail and then, in order, all that lies behind
  the offset where the stream begins, and catches up with the end of the file.
* *Watchdog*: a session ends, and one that was killed is reported as a timeout.
* *File locks*: whoever reads, extends or replaces a state file under its lock
  does so in one step; a lost lock holder blocks nobody for ever.
* *State files*: a repaired file is valid and has lost nothing; an update keeps
  what follows the separator.

The hazards of the code, each at its line and with the properties that cover
it, or the reason none does yet, are listed in `PROJECT.json`.

## 2. The modules

### AgentLoop: the loop and one iteration

One sequential process whose `pc` goes through the points below, and around it
the actions of the interface (`Kill`, `SetBarrier`, `LiftBarrier`) and of the
environment (`Crash`, `Terminate`, `LoseDirectory`), possible at any time.

    top -> enter -> pause -> plan -> implement -> glob -> wait -> gates
        -> tests -> claim -> review -> feed -> finish -> commit -> journal
        -> shell -> top

| `pc` | Code | Actions |
|---|---|---|
| top, shell | `agent_loop.sh` 86-153 | `StopAtCap`, `StopAtHours`, `NextIteration`, `StopOnDone`, `SleepThenRetry` |
| enter, pause | `agent.py` 230-247 | `RefuseToBegin`, `Begin`, `StartPlan` |
| plan | first `try`, session Plan | `PlanFails`, `PlanWithoutTask`, `StartImplement` |
| implement | session Implement | `AgentWorks`, `ImplementFails`, `EndImplement` |
| glob, wait | `_handle_barriers` | `ListBarriers`, `PassBarrier`, `EndWait` |
| gates, tests | `_check_task_gates`, `_run_test_gate` | `CheckGates`, `SkipTests`, `RunTests` |
| claim, review | session Review | `DecideReview`, `ReviewFails`, `ReviewRejects`, `ReviewAccepts` |
| feed .. journal | end of `run_iteration` | `FeedBreaker`, `DetectNoop`, `Commit`, `Journal` |

Plan and Review are read-only, one step each; a Plan that raises after its session
has answered may have written TASK.md or not (`PlanFails`). During Implement the agent works on
the project step by step (`AgentWorks`): boxes, report, PROGRESS.md, code changed,
committed by itself or not, until the session ends, fails, or the process dies.
The agent is assumed to leave DONE, GATE_FAILURE.md and the journal to the loop, as
its prompt demands. TASK.md is reduced to
"has boxes and all are ticked", PROGRESS.md to "differs from what it was".
The last variables (`standing`, `lastOutcome`, `fed`) are history: no step reads
them. `PointsLeft`, `ToCome` and `StepsToStop` measure what the loop has still to do.

### Mission: what the loop promises

The abstract loop: it is between two iterations, working, or stopped; DONE is
created by the user or, in the middle of the work and over evidence, by the
loop itself. `KeepsPromise` in AgentLoop is the refinement: the phases are
groups of points, the evidence is ticked boxes, a full report and no gate
failure on record, and the reason to stop is the one of `agent_loop.sh`.

### CircuitBreaker: one file, several loops

`saved` and `fileStatus` are the JSON file, `mem[l]` the copy of loop `l`, loaded
by `Start` and written back by `Record`, with no lock in between, as in the code.
`Outcomes` is the set of values `record_success` and `record_failure` may leave.
`CrashInSave` is a process that dies between the truncation and the write of
`write_text`; `Crash` one that dies elsewhere. A load that cannot get its lock
starts from a fresh breaker, as if the file were missing. `stale` is history:
the loops that do not know what the file says, because their load found
nothing usable or another loop has saved since. `DataSound` is about each record by
itself; `InformedLoopsKeep` compares the file before and after a write, and says
that what it holds (an open circuit, the failures, the length of the pause and what
is left of it) is only lost by a success or by a `stale` loop. Dates are differences:
`remaining` is `max(0, pause_until - now)`, and `Tick` lowers it everywhere.

### SuggestionFlow: SUGGESTIONS.md and PROGRESS.md

The iteration reduced to the points that touch the two files. PROGRESS.md is
its window of entries, newest first (`Pushed` is `update_progress`); an entry is
the set of suggestions it decides on. The loop does not see which: it looks for
a word anywhere in the file (`Justified`). The agent writes the file during its
session (`AgentWrites`), also in one that fails afterwards; it may drop the previous
entries, or the separator (`intact`), without which `update_progress` finds no entry
and which `repair_progress` restores at the next iteration. A writer that dies between
the truncation and the write of `write_text` empties its file: the interface SUGGESTIONS.md
(`Send`, which tells the loss in the history variable `lost`), the loop PROGRESS.md
(`Crash`). The agent is assumed to decide only on suggestions it was shown and to keep
the window.

### GitHistory: commits, pushes, tags and rollbacks

The end of an iteration cut into the git commands it runs, because the interface
may run `git reset --hard` between any two of them (`RollbackLast`,
`RollbackToTag`, whose target the route does not restrict to tags: it is any commit a tag,
the head or the remote leads to, hence any that a branch or a tag can name; a commit none
of them reaches, which only a hash or the reflog still names, is no target here): `ReadBefore` (`head_before`), `CommitAll` and `Push`
(`stage_and_commit_all`), `ReadAfter` (`head_after`), `TagIteration`. Before it the agent
commits by itself (`AgentCommits`); after the last iteration the exit trap of
`agent_loop.sh` commits and pushes (`EmergencyCommit`, `EmergencyPush`). A commit
is a number and `history` maps it to its ancestors; the remote is the one commit its branch
points to and accepts a fast-forward only, as `git push` without `--force` does.
Commits, pushes and tags may fail. `madeIn` and `rolled` are history variables:
the iteration of each commit and the moments of the rollbacks (`2n` while iteration `n`
runs, `2n + 1` between it and the next). A session is assumed to end with its
iteration, crashed or not: an agent left behind could commit after the push.

### Publication: what the remote and the tags promise

The abstract repository, as the interface's list of tags and a bisection see
it: the set of commits the remote has, which only grows, and the tags, put once
and in the order of the iterations, on commits the remote has.
`Publishes` in GitHistory is the refinement; what the remote has are the
commits reachable from its branch. A forced push breaks it, a rollback does not.

### StateFile and AtomicFile: a state file under its lock

StateFile cuts `read_state`, `append_state`, `write_state` and `append_entry`
at their system calls: `Open` creates or opens the lock file, `Acquire`,
`Retry` and `GiveUp` are the loop of `acquire_lock` around `flock`, `Truncate`
and `Write` are `write_text`, `Crash` is a process that dies anywhere, whose
lock the kernel gives back. `flock` locks an inode, so the inode each
process has opened is part of the state. AtomicFile is what the callers rely
on: reads, appends and overwrites of one step, and the loss of the text when a
writer dies between truncation and write. `Atomic` is the refinement: while a
writer is between its truncation and its write the file counts as what it
held before.

### ProgressFile: PROGRESS.md between the agent and the loop

A file is a sequence of blocks: title, entries, separator, the section of the
architecture, text. The code looks for the separator with a line end before it,
so one that is the first block is not found (`Found`). The agent (`Erase`, `Insert`) makes any file of up to
`MaxBlocks` blocks out of it; `Repair` is `repair_progress` and `Update` is
`update_progress`, each one step because both are done under the lock
(StateFile shows what that rests on). Its specification is called `ProgressSpec`,
so that one module can prove about it and about StateFile.

### LoopStatus: requests, loops and the answer of the dashboard

`Request(r)` is `start_session` cut where another request or a failure may
come in between: the check of the directory, its filling, `Popen`, the PID
file (truncated, then written), the session. `Loop(l)` is what the loop writes
and the dashboard reads: heartbeat (truncated, then written), DONE, the
journal. A loop that ends is a zombie until the interface starts another
child or ends (`Reap`), and its number may then go to another program
(`Reuse`) and become free again (`Quit`). What `loop_process_alive` makes of such a
program depends on it: one that refuses the signal, being another user's, is taken
for the loop at once; so is one whose command line is empty or cannot be read, and
only a command line that can be read and does not name `agent_loop` tells it apart
(`Probe`, `CommandFits`). `ReadDone`, `Probe`, `ReadCommand` and `Answer` are
`compute_loop_status`, which reads all this one after the other. `steady` and
`beside` are history: was the loop on file the same during the call, running or
gone with its number free or with a program that can be told apart, and
which requests overlapped.

### LogStream: OPENCODE_LOG.txt and its reader

A line is two pieces, so that reads can end in the middle of one. The writer
appends (`WriteLine`), rotates (`Truncate`, `Fill`) and may die in the
rotation. `ReadTail`, `MeasureOffset`, `Send`, `Restart`, `MeasureSize` and
`ReadChunk` are the steps of `_tail_and_follow`; there is no lock and every
stat and read is a step of its own. `tailEnd`, `base`, `unseen` and `clean` are history:
how long the file was when the tail was read, where the current file was entered, whether it has been cut since the reader
last looked, and whether a read has overrun the size.

### Watchdog: one session of OpenCode

The reading thread of `_exec_opencode`, the watchdog thread and the processes:
the agent, a child of its group and a daemon that has left it. Whoever holds
the write end of the pipe keeps the reader waiting. The watchdog's wake-up,
its look at the clock, the flag and the kill are separate steps, since the
reader may end the session between any two of them. `Classified` is
`_classify_failure` with the exit code the flag imposes.

### How they compose

AgentLoop implements Mission, StateFile implements AtomicFile and GitHistory
implements Publication; the three refinements are checked by TLC and proved. The other modules meet at named
points. AgentLoop has the point at which the breaker is fed (`FeedBreaker`, and the value
in `fed`) and the pause as one step that ends (`StartPlan`); CircuitBreaker shows
that the pause does end (`PauseEnds`). A session is one step of AgentLoop that
ends with one of the results of `Classified`; Watchdog shows when it does end
(`SessionEnds`). SuggestionFlow has AgentLoop's `pc` with
the points that do not touch its files merged, and takes the operations of
the interface on SUGGESTIONS.md, like ProgressFile those of the loop on
PROGRESS.md, as the single steps StateFile justifies. GitHistory refines the single step
`Commit` of AgentLoop; its result only decides on the push and the tag, which
AgentLoop does not see. LoopStatus has of an iteration what the dashboard
sees: heartbeat, DONE and journal in the order of AgentLoop.

## 3. The runs

| Run | Instance | What it shows |
|---|---|---|
| `loop` | 3 iterations, 2 barriers, no-op threshold 2, backoff up to 6, both caps | `KeepsPromise` (refinement of Mission), `KillApproaches`, `AlwaysForward`, `GateFileTruthful`, `BarrierRespected`, `BackoffMatchesOutcome`; fair: `KillStops`, `CapStops` |
| `breaker_shared` | 2 loops, one with a fallback model, threshold 2, pause 1 up to 4 | `DataSound`, `FallbackOnlyWhileOpen`, `InformedLoopsKeep`; fair: `PauseEnds` |
| `suggestion_keep` | 3 suggestions, window 2 | `FailedIterationKeeps`, `DecisionEmpties`, `ReadIsShown` |
| `git_tags` | 2 iterations, 4 commits, unreliable pushes, rollbacks | `TaggedIsPushed`, `TagIsWholeIteration`, `TagsFollow`, `Publishes` (refinement of Publication) |
| `state_file` | a reader, an appender, an overwriter, a journaler; 2 attempts, 4 calls | `Atomic` (refinement of AtomicFile); fair: `CallsReturn` |
| `progress_file` | every file of up to 6 blocks | `RepairSound`, `UpdateKeeps` |
| `loop_status` | 2 requests, 2 directories, 1 browser | `SteadyTruth`, `OneLoopPerDirectory`, `SessionMatchesPid`; fair: `StatusSettles` |
| `log_stream` | 5 lines, log cut beyond 2 lines, tail of 1 line and a fragment | `NothingSkipped`, `TailThenStream`; fair: `CatchesUp` |
| `watchdog` | silence limit 2, total limit 4; agent, child and daemon | `KilledIsReported`; fair: `SessionEnds` |

Each but `progress_file`, where every block sequence is a legal file, also checks
the `TypeOK` of its module. Three statements of the
documentation do not hold; `suggestion_unread`, `log_twice` and `progress_window`
show how (section 5).

**Why the bounds are enough.** *loop*: three iterations are the fewest that contain a
no-op, a second one that fails by it (threshold 2), and a third that reads what
the second left; the cap itself is reached. Two barriers are needed for one to be
set while the loop waits for the other. `BackoffCap = 6` is reached, and cut
short, after two failures from the minimum of 2. *breaker_shared*: two loops give every
interleaving of two read-modify-writes; the threshold 2 and the
multiplier 4 let the counter approach the threshold, trip, double twice and
meet the cap. *suggestion_keep*: a window of 2 is the program's own default (`update_progress`),
and three suggestions make one decided, one postponed and one
unread. *git_tags*: two iterations give two tags to compare; four commits are enough for a commit of the
agent and one of the loop in each, or for a rollback and a commit of its own
branch. *state_file*: a reader, an appender, an overwriter and a journaler give every pair of
operations; four calls let each of them meet the other three. *progress_file*: six blocks are one more than the
template has, so a section can be doubled, moved or lost with everything else in
place. *loop_status*: two requests overlap or follow one another, in one
directory or two, and the second launch reaps the first loop. *log_stream*: five
lines fill the log past its limit, rotate it and write on, and a tail of two
elements is shorter than the log. *watchdog*: with limits of 2 and 4
either can be exceeded first, and a session can talk once and then be too quiet.

Only the counters the code itself does not bound are cut: `MaxCommits`,
`MaxCalls`, `MaxLines`, `MaxBlocks` and, where the program's cap is off, nothing
(`iteration` is bounded by `MaxIterations`, the program's own cap); `noopRun`
counts up to the threshold and the clocks of the watchdog up to their limits,
beyond which the code makes no difference. The theorems
of section 4 do not depend on any of these values.

**Deadlock** is checked for AgentLoop, CircuitBreaker, SuggestionFlow and
ProgressFile. Elsewhere the system may really stop: nothing left to roll back, a browser
gone, every call made, every session over.

**Fairness.** AgentLoop: weak fairness of the loop's own steps
taken together (not the agent's): sessions are bounded by the watchdog, the test command
by its timeout, the pause and the backoff by their caps. Two things are assumed, not
justified: that the git commands return, which have no timeout (a push may hang on the
network), and that no daemon keeps the pipe of a session (`SessionEnds`, section 5). Nothing is assumed of the user:
a barrier may stay for ever, and `CapStops` says so. Nothing obliges a crash, a
failure or a success. CircuitBreaker: the clock runs and a
pause that is over is noticed (`_maybe_pause` polls it). StateFile: only the process
`Prompt` goes on with its call; the others may stop for ever, with the lock in hand.
LoopStatus: the browser goes on polling; no loop has to end and no zombie has to be
reaped, so `StatusSettles` speaks of behaviours in which they are. LogStream: the
server goes on polling; nobody has to write. Watchdog: its two threads run and time passes; no
process has to print, to close the pipe or to end.

## 4. What is proved

Every invariant, refinement and action property that a passing run checks is a theorem
for all values of the constants that satisfy the modules' assumptions. What the
assumptions ask of the constants is what the code gives: numbers where it has
numbers, a finite set of barriers, loops with a fallback among the loops.

| Module | Theorems |
|---|---|
| `AgentLoopProofs` | `TypeCorrect`, `GateFileCorrect`, `BarrierCorrect`, `BackoffCorrect`, `MissionCorrect`, `StopCorrect`, `PromiseKept`, `ForwardCorrect`, `KillCorrect` |
| `CircuitBreakerProofs` | `TypeCorrect`, `DataCorrect`, `FallbackCorrect`, `InformedCorrect` |
| `SuggestionFlowProofs` | `TypeCorrect`, `FailureKeeps`, `DecisionCorrect`, `ReadShown` |
| `GitHistoryProofs` | `TypeCorrect`, `TagsArePushed`, `TagsAreWhole`, `TagsAreOrdered`, `PublishesCorrect` |
| `StateFileProofs` | `TypeCorrect`, `AtomicCorrect`; of ProgressFile `RepairCorrect`, `UpdateCorrect` |
| `LoopStatusProofs` | `TypeCorrect`, `SteadyCorrect`, `DirectoriesCorrect`, `SessionCorrect` |
| `LogStreamProofs` | `TypeCorrect`, `NothingSkippedCorrect`, `StreamCorrect` |
| `WatchdogProofs` | `TypeCorrect`, `KillReported` |

*The loop.* None of the properties is inductive. That the mission is declared over
verified work (`MissionCorrect`) speaks of DONE, created at the review: it needs that the files the review relies
on cannot change afterwards, hence that no session starts again, a consequence of the
check at the start of an iteration. The invariant of the proof adds what each point of the
iteration implies of `failure`, `boxes` and `gateFile`. With it every step maps to a
step of Mission or to a stutter (`PromiseKept`). `BackoffCorrect` adds that the wait lies
between the minimum and the caps, so that doubling it either doubles it or reaches one,
and that the exit status agrees with the outcome of the iteration.

Termination itself is liveness and stays with TLC, but the measure it rests on is
proved. `ToCome` is the number of points up to the end of the iteration, plus
the barriers that may have to be waited for: every step of the loop and every crash lowers
it or begins the next iteration, and neither the agent nor the user raises it
(`ForwardCorrect`; the cardinality of `waiting` is why the barriers are
finite). `StepsToStop` is what is left once DONE exists: every step of the loop
lowers it, and nothing but a crash raises it (`KillCorrect`), because after the current
iteration the loop looks at DONE before it begins anything. A number cannot fall for
ever, so by the fairness of section 3 the loop stops, or its Python dies; TLC
confirms that conclusion as `KillStops`.

*The breaker.* The same facts hold of the file and of each copy, because every
operation maps sound data to sound data (a lemma per operation) and data only
moves between the file and the copies; so no interleaving can break them, even
those that lose an update. What a lost update does to the file from one write to the
next is the subject of `InformedCorrect`. It rests on one more invariant, that a loop
that is not `stale` has in its copy what the file says, and on a lemma per operation:
none but a success makes a record close, shorten its pause or lose failures.

*Suggestions.* What was read stays in the file up to the purge, since the
interface only appends, or loses it as told in `lost`; the decision written by the agent is still in the
text at the purge because an iteration that pushes another entry between
them is one that has failed, and a failed one erases nothing.

*Git.* The history is closed under ancestors (`HistoryInv`), so a rollback, to
`HEAD~1` or to any ref, stays within the history, and the push within what the remote
had. `PushedInv` adds that between a successful push and the tag the head is on the
remote, rolled back or not. `RunInv` says that the head of an iteration in progress has all its
commits behind it until a rollback; the comparison of `head_before` and `head_after`
then shows that the tagged head is one of them. `FollowInv` follows a tag from when it is put
to the next rollback. For `PublishesCorrect` each push is a step that publishes (a
fast-forward is exactly what makes the set of published commits grow), the tag is a
step by `PushedInv`, and everything else, rollbacks included, a stutter, because the
history of a commit never changes.

*The state file.* Since the lock file is never removed everybody locks the same
inode (`Locked`), so at most one process is behind the lock (`Alone`); hence what an
append has read is still in the file when it truncates it (`TextKept`), and each
step is one of AtomicFile or a stutter (`StepAtomic`).

*PROGRESS.md.* `FileOK` says that a file is a sequence of blocks, and each operator
of the module gets a lemma: a separator, if one is found, cuts the file into what is
before and after the first one (`LeastElement`, `SplitAtFirst`, `SidesType`), and
putting two sides together gives a file that comes apart there (`Joined`, `SplitOfJoin`). `RepairCorrect` then
adds up the pieces `repair_progress` may insert at either end; `UpdateCorrect`
follows the section after the separator through the cut of the window. The module
finds positions with `Min` of a set, a `CHOOSE`: that there is one to choose is the
well-foundedness of the numbers, and everything else is said position by position.

*The status.* `PollSound` follows a call from one read to the next: while the loop
on file is steady, what the call has found is still so. `DirectorySound` says that
of two requests with the same directory that did not overlap one has failed before
its launch; `SessionSound` that requests that do not overlap have at most one of them between
the write of the PID and that of the session.

*The log.* `Places` keeps the offset in the file until it is cut, `Begun` keeps what is
waiting to be sent apart from the polls; a chunk then covers the file from the old
offset to the new one (`ReadCovers`) and continues the stream (`ReadStreams`), which
is arithmetic on subsequences.

*The watchdog.* The flag is set before the kill, and after the reader has reaped
the agent no kill reaches anything (`FlagFirst`); so whoever was killed is
classified with the flag set.

Model-checked only: liveness (`KillStops`, `CapStops`, `PauseEnds`, `CallsReturn`,
`StatusSettles`, `CatchesUp`, `SessionEnds`), which these provers do not handle
under fairness. The three runs of section 5 end in a counterexample, so there is
nothing to prove of them.

## 5. Where the code and its documentation differ

| Run | Statement | What the code does |
|---|---|---|
| `suggestion_unread` | a suggestion sent will be read at the next iteration (`routes_control.py`) | one sent during an iteration is erased by the purge of that iteration |
| `log_twice` | after a rotation the stream starts again without duplicates (`routes_logs.py`) | the kept half of the file is sent again; so is what is written between a measure of the size and the read |
| `progress_window` | the section of the architecture is never cut by the window (`PROGRESS.md.tmpl`, `state.py`) | it is lost when the separator is, and when it stands before the separator, where `repair_progress` leaves it when it restores one |

More consequences can be read off the models, without a run:

* *Loop.* The shell never looks at DONE: an iteration whose Python dies before it
  does (a failing import, no memory) is retried for ever although the user has
  stopped the loop. `KillStops` and `KillApproaches` say so by their exception.
  A barrier set while the loop waits for
  another is not in its list and is passed (`ListBarriers`). Code the agent has
  committed itself, as its prompt asks, is not seen by the no-op detection
  (`DetectNoop`). A Review session that fails leaves no failure on record: the
  iteration counts as a success for the backoff. A timeout of a file lock, like any
  exception, leaves what the iteration had written before it. A gate without a test command, or whose command cannot be run, passes
  (`tests = "none"`).
* *Suggestions.* The justification of
  an earlier decision, still in the window of PROGRESS.md, lets a newer
  suggestion be purged (`Justified`). The purge comes before Review and no-op detection,
  which may still fail the iteration. The interface killed while it appends a
  suggestion loses all that were in the file (`lost`).
* *Breaker.* With two loops the failure of one can close the circuit the other has
  opened, if it loaded the file before (`stale`). A process killed in the write, or a lock that
  times out, makes the next load start from the defaults: the save that follows puts the
  counter and the length of the pause back to their base. So pauses do shrink without a
  success; `InformedLoopsKeep` says by whose save.
* *Git.* After a rollback of a pushed commit every push is refused and no iteration
  is tagged any more. An
  iteration whose agent has committed everything before `head_before` is read has no tag
  (`MayTag`).
* *Status.* A loop that has ended is shown as active or stopping until the
  interface reaps its zombie, and again when its PID goes to another user's process
  (`loop_status.py` 116) or to one whose command line is empty or cannot be read (119),
  for as long as that process lives. The docstring (98-100) says that the check of
  `/proc` keeps a reused PID from being taken for the loop;
  `tests/test_loop_status.py` (87-90) expects the second case to count as alive.
  `SteadyTruth` and `StatusSettles` claim nothing of either. An answer may say "dead" of a loop that has ended by
  DONE between two of its reads. Requests that overlap may launch two loops in one directory,
  and a request that fails after the launch leaves a loop nobody knows. A directory half
  filled by a failed request is refused when it is tried again.
* *Log.* A line written between the reading of the tail and the `stat` that sets the
  offset (`routes_logs.py` 56 and 61) is neither in the tail nor in the stream;
  `NothingSkipped` counts from that offset; `TailThenStream` shows that such lines are
  all that is missing between tail and stream.
* *Watchdog.* A line that cannot be decoded or logged ends the reading and the watchdog
  and leaves the agent running (`ReadFails`). A daemon that keeps the pipe makes the reader wait
  for ever. A SIGHUP is reported as a timeout, and so is a session that ends by itself
  just as the flag is set. What the agent has launched survives a session that ends normally.
* *PROGRESS.md.* The agent edits it without the lock.

## 6. What is not modelled, and what is left

Not modelled in the components above, and worth knowing when reading their results:

* the effect of a rollback on the files of a running iteration (GitHistory has its
  effect on the commits);
* loops launched by hand on a directory that has tags already, whose numbers start
  again at 1; commits of others on the remote, which a failed push stands for;
* the exit trap of the shell racing a Python process that is still writing;
* the entry that `record_cap_stop` adds to PROGRESS.md at a cap;
* words of justification in texts other than decisions (the loop's own entries);
* jumps of the wall clock;
* torn lines of the journal, which swallow the next entry;
* webhooks, formatting, colours, masking of secrets, wording of prompts.

Left out because text, not state, decides: the compaction of ARCHITECTURE.md (sizes in
characters; a second compaction cuts the history left by the first to 200 of them), the
patterns of `.gitignore` (searched as substrings), the resolution of the
test command by `task_parser.py` and `pre-commit.tmpl` (which look at their sources in a
different order). Left out for good: views, hardware audit, log summaries, masking, the web
client, the launcher: they read, display or call external programs, and nothing
in the loop depends on their state.

What would come next: the composition of AgentLoop with CircuitBreaker (the outcome
recorded is the one of the iteration; pauses and kill-switch together), the journal
with its torn lines, the exit trap as a concurrent process, the precedence of the
test command as a pure function, and measures like `StepsToStop` for the calls of
StateFile and the session of Watchdog.
