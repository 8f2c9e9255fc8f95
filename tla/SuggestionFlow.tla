---------------------------- MODULE SuggestionFlow ----------------------------
(***************************************************************************)
(* The user's suggestions: appended to SUGGESTIONS.md by the interface,    *)
(* read once by the iteration, shown to its Implement session, erased when *)
(* the iteration is a success so far and PROGRESS.md justifies a decision. *)
(*                                                                         *)
(* The iteration is the one of AgentLoop, reduced to the points that touch *)
(* the two files.  PROGRESS.md is its window of entries, newest first; an  *)
(* entry is the set of suggestions it accepts, rejects or postpones, and   *)
(* the word the loop looks for is in it when that set is not empty.  The   *)
(* entry of a cap, after which the loop stops, is left out.                *)
(***************************************************************************)
EXTENDS Naturals, Sequences

CONSTANTS
    Suggestions,  \* the messages the user may send, each of them once
    Window        \* max_iterations of update_progress

ASSUME FlowAssumption == Window \in Nat \ {0}

VARIABLES
    file,      \* SUGGESTIONS.md
    progress,  \* the entries of PROGRESS.md
    intact,    \* its separator is there: the loop can find the entries
    pc,        \* the point the iteration has reached
    read,      \* suggestions_md, what the iteration read at its start
    wrote,     \* PROGRESS.md differs from progress_before
    failure,   \* result.failure_type, of the last iteration when pc = "idle"
    \* history, read by no step except that a message is sent once
    sent,      \* the suggestions sent so far
    lost,      \* those the interface lost by dying in the middle of a write
    shown,     \* those an Implement session was given
    decided    \* those decided on in an entry of this iteration

historyVars == <<sent, lost, shown, decided>>
journalVars == <<progress, intact>>
vars == <<file, journalVars, pc, read, wrote, failure, historyVars>>

Entries == SUBSET Suggestions
Failures == {"session", "plan", "gate", "tests", "review", "noop", "exception", "crash"}

Smaller(a, b) == IF a <= b THEN a ELSE b

\* Fault: the window does not slide.
PushedWhole(entry, old) == <<entry>> \o old

(* The new entry first, the oldest one out.                                *)
Pushed(entry, old) == SubSeq(<<entry>> \o old, 1, Smaller(Window, Len(old) + 1))

(* update_progress: a file without its separator counts as having no entry *)
(* and gets the separator back.                                            *)
Readable == IF intact THEN progress ELSE <<>>
UpdateProgress(entry) == progress' = Pushed(entry, Readable) /\ intact' = TRUE

\* Faults: the journal as it was before the session; a failure counts too.
JustifiedBefore(entries) == \E i \in 2 .. Len(entries) : entries[i] # {}
AnyOutcome(fault) == TRUE

(* _maybe_clear_suggestions: one of the words anywhere in PROGRESS.md.     *)
Justified(entries) == \E i \in 1 .. Len(entries) : entries[i] # {}
Success(fault) == fault = ""

\* Fault: a journal that holds a decision already is taken for an answer.
PromptedOnce == IF Justified(progress) THEN {} ELSE read

(* The suggestions in the prompt of session Implement.                     *)
Prompted == read

Init ==
    /\ file = {} /\ progress = <<>> /\ intact = TRUE /\ pc = "idle"
    /\ read = {} /\ wrote = FALSE /\ failure = ""
    /\ sent = {} /\ lost = {} /\ shown = {} /\ decided = {}

-----------------------------------------------------------------------------

(* /api/suggestions and /api/requests/respond: append_state, under a lock, *)
(* writes the old text and the new; dying after the truncation it leaves   *)
(* neither.                                                                *)
Send(s) ==
    /\ s \notin sent
    /\ sent' = sent \cup {s}
    /\ \/ file' = file \cup {s} /\ lost' = lost
       \/ file' = {} /\ lost' = lost \cup file \cup {s}
    /\ UNCHANGED <<journalVars, pc, read, wrote, failure, shown, decided>>

(* repair_progress keeps the text and restores the separator; then the     *)
(* iteration reads SUGGESTIONS.md, before its Plan session.                *)
Begin ==
    /\ pc = "idle"
    /\ intact' = TRUE
    /\ read' = file
    /\ wrote' = FALSE
    /\ failure' = ""
    /\ decided' = {}
    /\ pc' = "plan"
    /\ UNCHANGED <<file, progress, sent, lost, shown>>

(* The iteration fails and skips to its end, with an entry that decides    *)
(* nothing; after an exception, writing this entry may fail too.           *)
Fails(fault) ==
    /\ failure' = fault
    /\ UpdateProgress({}) \/ (fault = "exception" /\ UNCHANGED journalVars)
    /\ pc' = "finish"
    /\ UNCHANGED <<file, read, wrote, historyVars>>

PlanFails == pc = "plan" /\ \E fault \in {"session", "plan", "exception"} : Fails(fault)

StartImplement ==
    /\ pc = "plan"
    /\ shown' = shown \cup Prompted
    /\ pc' = "implement"
    /\ UNCHANGED <<file, journalVars, read, wrote, failure, sent, lost, decided>>

(* The agent rewrites PROGRESS.md, with a decision on some of what it was  *)
(* shown, keeping the previous entries and the structure or not.  It may   *)
(* do so in a session that fails afterwards.                               *)
AgentWrites(entry) ==
    /\ pc = "implement"
    /\ ~wrote
    /\ wrote' = TRUE
    /\ \E old \in {progress, <<>>} : progress' = Pushed(entry, old)
    /\ intact' \in BOOLEAN
    /\ decided' = decided \cup entry
    /\ UNCHANGED <<file, pc, read, failure, sent, lost, shown>>

(* The session ends well.                                                  *)
EndImplement ==
    /\ pc = "implement"
    /\ pc' = "judge"
    /\ UNCHANGED <<file, journalVars, read, wrote, failure, historyVars>>

(* Timeout, API, empty answer, error, or an exception around the session.  *)
ImplementFails ==
    pc = "implement" /\ \E fault \in {"session", "exception"} : Fails(fault)

(* An exception in the post steps, before or instead of the purge.         *)
PostStepFails == pc \in {"judge", "purge"} /\ Fails("exception")

(* The gates refuse a PROGRESS.md left alone, and an entry is written in   *)
(* the agent's place: the LLM may find decisions in the transcript.        *)
JudgeUnwritten ==
    /\ pc = "judge"
    /\ ~wrote
    /\ failure' = "gate"
    /\ \E entry \in SUBSET read : UpdateProgress(entry) /\ decided' = decided \cup entry
    /\ pc' = "purge"
    /\ UNCHANGED <<file, read, wrote, sent, lost, shown>>

(* Otherwise the boxes decide, then the test gate, which writes an entry   *)
(* when it fails.                                                          *)
Judge ==
    /\ pc = "judge"
    /\ wrote
    /\ \/ failure' \in {"", "gate"} /\ UNCHANGED journalVars
       \/ failure' = "tests" /\ UpdateProgress({})
    /\ pc' = "purge"
    /\ UNCHANGED <<file, read, wrote, historyVars>>

(* _maybe_clear_suggestions, at the end of the post steps.                 *)
Purge ==
    /\ pc = "purge"
    /\ file' = IF read # {} /\ Success(failure) /\ Justified(progress)
               THEN {} ELSE file
    /\ pc' = "review"
    /\ UNCHANGED <<journalVars, read, wrote, failure, historyVars>>

(* No claim of the end, or a Review that accepts or fails: no change.      *)
PassReview ==
    /\ pc = "review"
    /\ pc' = "finish"
    /\ UNCHANGED <<file, journalVars, read, wrote, failure, historyVars>>

(* A Review that rejects the report, which only a success may claim.       *)
ReviewRejects ==
    /\ pc = "review"
    /\ failure = ""
    /\ failure' = "review"
    /\ pc' = "finish"
    /\ UNCHANGED <<file, journalVars, read, wrote, historyVars>>

ReviewRaises == pc = "review" /\ failure = "" /\ Fails("exception")

(* The no-op detection, with its entry; commit and journal follow.         *)
Finish ==
    /\ pc = "finish"
    /\ \/ UNCHANGED <<journalVars, failure>>
       \/ /\ UpdateProgress({})
          /\ failure' = IF failure = "" THEN "noop" ELSE failure
    /\ pc' = "idle"
    /\ UNCHANGED <<file, read, wrote, historyVars>>

(* The process dies, maybe in update_progress between the truncation and   *)
(* the write; agent_loop.sh starts the next iteration.                     *)
Crash ==
    /\ pc # "idle"
    /\ pc' = "idle"
    /\ failure' = "crash"
    /\ UNCHANGED journalVars \/ (progress' = <<>> /\ intact' = FALSE)
    /\ UNCHANGED <<file, read, wrote, historyVars>>

Next ==
    \/ \E s \in Suggestions : Send(s)
    \/ \E entry \in SUBSET read : AgentWrites(entry)
    \/ Begin \/ PlanFails \/ StartImplement \/ EndImplement \/ ImplementFails
    \/ JudgeUnwritten \/ Judge \/ PostStepFails \/ Purge
    \/ PassReview \/ ReviewRejects \/ ReviewRaises \/ Finish \/ Crash

Spec == Init /\ [][Next]_vars

-----------------------------------------------------------------------------
(* Properties                                                              *)

(* Type correctness; the journal never outgrows its window.                *)
TypeOK ==
    /\ file \subseteq Suggestions /\ read \subseteq Suggestions
    /\ progress \in Seq(Entries) /\ Len(progress) <= Window
    /\ pc \in {"idle", "plan", "implement", "judge", "purge", "review", "finish"}
    /\ failure \in Failures \cup {""}
    /\ wrote \in BOOLEAN /\ intact \in BOOLEAN
    /\ sent \subseteq Suggestions /\ lost \subseteq sent /\ shown \subseteq Suggestions
    /\ decided \subseteq Suggestions

(* What was in SUGGESTIONS.md when an iteration began is never erased by   *)
(* the loop without an Implement session having been given it.             *)
ReadIsShown == [][ read \cap (file \ file') \subseteq shown \cup lost' ]_vars

(* An iteration that fails before its purge leaves in SUGGESTIONS.md all   *)
(* it has read there, for the next one to read again, but for what the     *)
(* interface itself has lost.                                              *)
FailedIterationKeeps ==
    pc = "idle" /\ failure \in {"session", "plan", "gate", "tests"}
        => read \subseteq file \cup lost

(* An iteration that succeeds, and whose agent decided on something it was *)
(* shown, leaves nothing of what it read: the agent is not asked again.    *)
DecisionEmpties ==
    pc = "idle" /\ failure = "" /\ decided # {} => read \cap file = {}

(* "L'agent la lira a la prochaine iteration" (send_suggestion): the loop  *)
(* erases no suggestion before a session was given it.                     *)
ErasedAfterShown == [][ file \ file' \subseteq shown \cup lost' ]_vars

=============================================================================
