------------------------------- MODULE Watchdog -------------------------------
(***************************************************************************)
(* One session of OpenCode, from its launch to its classification:         *)
(* _exec_opencode reads the output line by line while a thread watches the *)
(* clock and kills the process group.                                      *)
(*                                                                         *)
(* Around the agent live a child of its group and a daemon that has made   *)
(* itself a session of its own.  Whoever holds the write end of the pipe   *)
(* keeps the reader waiting.  The two threads and the processes interleave *)
(* freely; nothing but the end of the file, the flag and the exit code     *)
(* connects them.                                                          *)
(***************************************************************************)
EXTENDS Naturals

CONSTANTS
    IdleLimit,   \* _OPENCODE_INACTIVITY_TIMEOUT_SECONDS
    TotalLimit   \* _OPENCODE_MAX_SECONDS

ASSUME WatchdogAssumption == IdleLimit \in Nat \ {0} /\ TotalLimit \in Nat \ {0}

Group == {"agent", "child"}
Processes == Group \cup {"daemon"}

VARIABLES
    alive,     \* the processes that run
    holders,   \* those that hold the write end of the pipe
    code,      \* how the agent ended: "running", then its exit
    pipe,      \* a line is waiting in the pipe
    output,    \* stdout_lines: "nothing", "text" or an error of the provider
    reader,    \* the point the reading thread has reached
    watchdog,  \* the point the watchdog has reached
    timedOut, stopped,   \* the two events they share
    idle, elapsed,       \* seconds since the last line, since the start
    result     \* what _classify_failure makes of it, "none" until then

processVars == <<alive, holders, code>>
clockVars == <<idle, elapsed>>
eventVars == <<timedOut, stopped>>
vars == <<processVars, pipe, output, reader, watchdog, eventVars, clockVars, result>>

Init ==
    /\ alive = {"agent"} /\ holders = {"agent"} /\ code = "running"
    /\ pipe = FALSE /\ output = "nothing"
    /\ reader = "reading" /\ watchdog = "watching"
    /\ timedOut = FALSE /\ stopped = FALSE
    /\ idle = 0 /\ elapsed = 0 /\ result = "none"

Over == {"returned", "raised"}

-----------------------------------------------------------------------------
(* OpenCode and what it launches                                           *)

Spawn(p) ==
    /\ "agent" \in alive /\ p \notin alive
    /\ alive' = alive \cup {p}
    /\ \/ "agent" \in holders /\ holders' = holders \cup {p}
       \/ holders' = holders
    /\ UNCHANGED <<code, pipe, output, reader, watchdog, eventVars, clockVars, result>>

PrintLine(p) ==
    /\ p \in holders
    /\ pipe' = TRUE
    /\ UNCHANGED <<processVars, output, reader, watchdog, eventVars, clockVars, result>>

CloseOutput(p) ==
    /\ p \in holders
    /\ holders' = holders \ {p}
    /\ UNCHANGED <<alive, code, pipe, output, reader, watchdog, eventVars, clockVars, result>>

(* By itself, or by a signal of somebody else: SIGHUP gives the code -1.   *)
Exit(p) ==
    /\ p \in alive
    /\ alive' = alive \ {p}
    /\ holders' = holders \ {p}
    /\ code' \in IF p = "agent" THEN {"zero", "nonzero", "hup"} ELSE {code}
    /\ UNCHANGED <<pipe, output, reader, watchdog, eventVars, clockVars, result>>

-----------------------------------------------------------------------------
(* The reading thread                                                      *)

ReadLine ==
    /\ reader = "reading" /\ pipe
    /\ pipe' = FALSE
    /\ idle' = 0
    /\ output' \in {"text", "api"}
    /\ UNCHANGED <<processVars, reader, watchdog, eventVars, elapsed, result>>

(* A line that is not UTF-8, a log that cannot be written: the exception   *)
(* leaves the agent as it is and the finally clause stops the watchdog.    *)
ReadFails ==
    /\ reader = "reading" /\ pipe
    /\ reader' = "raised"
    /\ stopped' = TRUE
    /\ UNCHANGED <<processVars, pipe, output, watchdog, timedOut, clockVars, result>>

EndOfFile ==
    /\ reader = "reading" /\ ~pipe /\ holders = {}
    /\ reader' = "waiting"
    /\ UNCHANGED <<processVars, pipe, output, watchdog, eventVars, clockVars, result>>

\* Fault: the exit code is polled, not waited for.
NotWaited == TRUE

AgentGone == "agent" \notin alive

(* proc.wait(), after which the number of the process means nothing.       *)
Reap ==
    /\ reader = "waiting" /\ AgentGone
    /\ reader' = "reaped"
    /\ UNCHANGED <<processVars, pipe, output, watchdog, eventVars, clockVars, result>>

StopWatchdog ==
    /\ reader = "reaped"
    /\ stopped' = TRUE
    /\ reader' = "classify"
    /\ UNCHANGED <<processVars, pipe, output, watchdog, timedOut, clockVars, result>>

\* Fault: the exit code alone decides; a killed session looks like an error.
ByExitCode ==
    IF code = "zero" THEN IF output = "nothing" THEN "empty" ELSE ""
    ELSE IF code = "hup" THEN "timeout"
    ELSE IF output = "api" THEN "api" ELSE "error"

(* The flag replaces the exit code by -1, the code a SIGHUP gives too.     *)
Classified ==
    IF timedOut \/ code = "hup" THEN "timeout"
    ELSE IF code = "zero" THEN IF output = "nothing" THEN "empty" ELSE ""
    ELSE IF output = "api" THEN "api" ELSE "error"

Return ==
    /\ reader = "classify"
    /\ result' = Classified
    /\ reader' = "returned"
    /\ UNCHANGED <<processVars, pipe, output, watchdog, eventVars, clockVars>>

-----------------------------------------------------------------------------
(* The watchdog                                                            *)

\* Faults: a session that talks is never too long; only the agent is killed.
TooQuiet == idle >= IdleLimit
AgentOnly == {"agent"}

Due == idle >= IdleLimit \/ elapsed >= TotalLimit
Targets == Group

(* stopped.wait(1) has timed out; the reader may set the event from now on. *)
Wake ==
    /\ watchdog = "watching" /\ ~stopped
    /\ watchdog' = "awake"
    /\ UNCHANGED <<processVars, pipe, output, reader, eventVars, clockVars, result>>

WaitAgain ==
    /\ watchdog = "awake" /\ ~Due
    /\ watchdog' = "watching"
    /\ UNCHANGED <<processVars, pipe, output, reader, eventVars, clockVars, result>>

Expire ==
    /\ watchdog = "awake" /\ Due
    /\ timedOut' = TRUE
    /\ watchdog' = "killing"
    /\ UNCHANGED <<processVars, pipe, output, reader, stopped, clockVars, result>>

(* getpgid fails once the agent has been reaped.                           *)
KillGroup ==
    /\ watchdog = "killing"
    /\ watchdog' = "done"
    /\ IF reader \in {"reading", "waiting", "raised"}
       THEN /\ alive' = alive \ Targets
            /\ holders' = holders \ Targets
            /\ code' = IF "agent" \in alive THEN "killed" ELSE code
       ELSE UNCHANGED processVars
    /\ UNCHANGED <<pipe, output, reader, eventVars, clockVars, result>>

Quit ==
    /\ watchdog = "watching" /\ stopped
    /\ watchdog' = "done"
    /\ UNCHANGED <<processVars, pipe, output, reader, eventVars, clockVars, result>>

(* A second passes; beyond its limit a counter no longer matters.          *)
Tick ==
    /\ reader \notin Over
    /\ idle < IdleLimit \/ elapsed < TotalLimit
    /\ idle' = IF idle < IdleLimit THEN idle + 1 ELSE idle
    /\ elapsed' = IF elapsed < TotalLimit THEN elapsed + 1 ELSE elapsed
    /\ UNCHANGED <<processVars, pipe, output, reader, watchdog, eventVars, result>>

-----------------------------------------------------------------------------

Opencode ==
    \/ \E p \in {"child", "daemon"} : Spawn(p)
    \/ \E p \in Processes : PrintLine(p) \/ CloseOutput(p) \/ Exit(p)

Read == ReadLine \/ ReadFails \/ EndOfFile \/ Reap \/ StopWatchdog \/ Return
Watch == Wake \/ WaitAgain \/ Expire \/ KillGroup \/ Quit

Next == Opencode \/ Read \/ Watch \/ Tick

Spec == Init /\ [][Next]_vars

(* The two threads run and time passes; the processes owe nothing.         *)
FairSpec == Spec /\ WF_vars(Read) /\ WF_vars(Watch) /\ WF_vars(Tick)

-----------------------------------------------------------------------------

(* Type correctness; a dead process holds nothing, and past the wait the   *)
(* agent is dead.                                                          *)
TypeOK ==
    /\ holders \subseteq alive /\ alive \subseteq Processes
    /\ code \in {"running", "zero", "nonzero", "hup", "killed"}
    /\ pipe \in BOOLEAN /\ output \in {"nothing", "text", "api"}
    /\ reader \in Over \cup {"reading", "waiting", "reaped", "classify"}
    /\ watchdog \in {"watching", "awake", "killing", "done"}
    /\ timedOut \in BOOLEAN /\ stopped \in BOOLEAN
    /\ idle \in 0 .. IdleLimit /\ elapsed \in 0 .. TotalLimit
    /\ result \in {"none", "", "timeout", "api", "empty", "error"}
    /\ "agent" \in alive <=> code = "running"
    /\ reader \in {"reaped", "classify", "returned"} => "agent" \notin alive

(* A session the watchdog has killed leaves nothing of its group behind    *)
(* and is reported as a timeout, never as an error or an answer, however   *)
(* the kill and the end of the output race ("timeout : watchdog").         *)
KilledIsReported ==
    code = "killed" =>
        /\ alive \cap Group = {}
        /\ result \in {"none", "timeout"}

(* A session ends and its watchdog with it, silent, talkative or stuck,    *)
(* unless a process outside the group never lets go of the pipe.           *)
SessionEnds ==
    \/ <>(reader \in Over /\ watchdog = "done")
    \/ <>[]("daemon" \in holders)

=============================================================================
