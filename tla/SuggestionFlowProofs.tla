------------------------- MODULE SuggestionFlowProofs -------------------------
(***************************************************************************)
(* What SuggestionFlow keeps for every set of suggestions and every window *)
(* of PROGRESS.md.  FlowInv says, point by point of the iteration, where   *)
(* the suggestions it has read are.                                        *)
(***************************************************************************)
EXTENDS SuggestionFlow, TLAPS

BeforePurge == {"plan", "implement", "judge", "purge"}
AfterPurge == {"review", "finish", "idle"}

(* The types, without the length of the journal.                           *)
FileTypes ==
    /\ file \subseteq Suggestions /\ read \subseteq Suggestions
    /\ sent \subseteq Suggestions /\ lost \subseteq sent /\ shown \subseteq Suggestions
    /\ decided \subseteq Suggestions

JournalTypes ==
    progress \in Seq(Entries) /\ Len(progress) <= Window /\ intact \in BOOLEAN

ControlTypes ==
    /\ pc \in BeforePurge \cup AfterPurge
    /\ failure \in Failures \cup {""}
    /\ wrote \in BOOLEAN

(* Nothing is in a file or a prompt that has not been sent.                *)
SentInv == file \subseteq sent /\ read \subseteq sent /\ decided \subseteq read

(* Until the purge what was read is still in the file, unless the          *)
(* interface lost it; after the purge, if the iteration had failed by then.*)
KeptInv ==
    /\ pc \in BeforePurge => read \subseteq file \cup lost
    /\ pc \in AfterPurge /\ failure \in {"session", "plan", "gate", "tests"}
          => read \subseteq file \cup lost

(* What was read is in the prompt of Implement, which precedes the purge.  *)
ShownInv == pc \in {"implement", "judge", "purge"} => read \subseteq shown

(* A decision of a successful iteration is in PROGRESS.md at the purge,    *)
(* and what was read is out of the file after it.                          *)
DecisionInv ==
    /\ pc \in {"plan", "implement"} /\ ~wrote => decided = {}
    /\ pc = "plan" => ~wrote
    /\ pc \in {"plan", "implement", "judge"} =>
          failure = "" /\ (decided # {} => Justified(progress))
    /\ pc = "purge" /\ failure = "" /\ decided # {} => Justified(progress)
    /\ pc \in AfterPurge /\ failure = "" /\ decided # {} => read \cap file = {}

FlowInv ==
    /\ FileTypes
    /\ JournalTypes
    /\ ControlTypes
    /\ SentInv
    /\ KeptInv
    /\ ShownInv
    /\ DecisionInv

-----------------------------------------------------------------------------

(* An entry pushed is the first of a journal that stays in its window.     *)
LEMMA PushedBound ==
  ASSUME NEW entry \in Entries, NEW old \in Seq(Entries)
  PROVE  /\ Pushed(entry, old) \in Seq(Entries)
         /\ Len(Pushed(entry, old)) \in 1 .. Window
         /\ Pushed(entry, old)[1] = entry
<1> DEFINE full == <<entry>> \o old
           n == Smaller(Window, Len(old) + 1)
<1>1. full \in Seq(Entries) /\ Len(full) = Len(old) + 1 /\ full[1] = entry
  OBVIOUS
<1>2. n \in 1 .. Len(full) /\ n <= Window
  BY <1>1, FlowAssumption DEF Smaller
<1> HIDE DEF full, n
<1>3. SubSeq(full, 1, n) \in Seq(Entries) /\ Len(SubSeq(full, 1, n)) = n
      /\ SubSeq(full, 1, n)[1] = full[1]
  BY <1>1, <1>2
<1> QED BY <1>1, <1>2, <1>3, FlowAssumption DEF Pushed, full, n

(* So is the entry the loop writes,                                        *)
LEMMA UpdateBound ==
  ASSUME JournalTypes, NEW entry \in Entries, UpdateProgress(entry)
  PROVE  JournalTypes'
<1>1. <<>> \in Seq(Entries)
  OBVIOUS
<1>2. Readable \in Seq(Entries)
  BY <1>1 DEF Readable, JournalTypes
<1> QED BY <1>2, PushedBound, FlowAssumption DEF UpdateProgress, JournalTypes

(* and the one the agent writes, where its decision is found.              *)
LEMMA AgentBound ==
  ASSUME JournalTypes, NEW entry \in Entries, AgentWrites(entry)
  PROVE  JournalTypes' /\ (entry # {} => Justified(progress'))
<1>1. PICK old \in {progress, <<>>} : progress' = Pushed(entry, old)
  BY DEF AgentWrites
<1>2. old \in Seq(Entries)
  <2>1. <<>> \in Seq(Entries)
    OBVIOUS
  <2> QED BY <2>1 DEF JournalTypes
<1>3. intact' \in BOOLEAN
  BY DEF AgentWrites
<1> QED BY <1>1, <1>2, <1>3, PushedBound, FlowAssumption DEF JournalTypes, Justified

(* No suggestion has been sent when the project is created.                *)
LEMMA InitInv == Init => FlowInv
<1> SUFFICES ASSUME Init PROVE FlowInv
  OBVIOUS
<1>1. FileTypes /\ ControlTypes
  BY DEF Init, FileTypes, ControlTypes, AfterPurge
<1>2. JournalTypes
  <2>1. <<>> \in Seq(Entries) /\ Len(<<>>) = 0
    OBVIOUS
  <2>2. progress = <<>> /\ intact = TRUE
    BY DEF Init
  <2> QED BY ONLY <2>1, <2>2, FlowAssumption DEF JournalTypes
<1>3. SentInv /\ KeptInv /\ ShownInv /\ DecisionInv
  BY DEF Init, SentInv, KeptInv, ShownInv, DecisionInv, BeforePurge
<1> QED BY <1>1, <1>2, <1>3 DEF FlowInv

(* Every step preserves the invariant, conjunct by conjunct.               *)
LEMMA NextInv == FlowInv /\ [Next]_vars => FlowInv'
<1> SUFFICES ASSUME FlowInv, [Next]_vars PROVE FlowInv'
  OBVIOUS
<1> USE DEF FlowInv
<1>1. ASSUME NEW s \in Suggestions, Send(s) PROVE FlowInv'
  BY <1>1 DEF Send, journalVars, FileTypes, JournalTypes, ControlTypes, SentInv, KeptInv,
     ShownInv, DecisionInv
<1>2. CASE Begin
  BY <1>2 DEF Begin, FileTypes, JournalTypes, ControlTypes, SentInv, KeptInv,
     ShownInv, DecisionInv, BeforePurge, AfterPurge
<1>3. ASSUME NEW fault \in {"session", "plan", "exception"}, Fails(fault),
             pc \in BeforePurge \/ (pc = "review" /\ fault = "exception")
      PROVE  FlowInv'
  <2>1. JournalTypes'
    BY <1>3, UpdateBound DEF Fails, journalVars, Entries, JournalTypes
  <2> QED BY <1>3, <2>1 DEF Fails, journalVars, historyVars, FileTypes, ControlTypes, Failures,
     SentInv, KeptInv, ShownInv, DecisionInv, BeforePurge, AfterPurge
<1>4. CASE PlanFails \/ ImplementFails \/ PostStepFails \/ ReviewRaises
  BY <1>3, <1>4 DEF PlanFails, ImplementFails, PostStepFails, ReviewRaises, BeforePurge
<1>5. CASE StartImplement
  BY <1>5 DEF StartImplement, Prompted, journalVars, FileTypes, JournalTypes, ControlTypes,
     SentInv, KeptInv, ShownInv, DecisionInv, BeforePurge, AfterPurge
<1>6. ASSUME NEW entry \in SUBSET read, AgentWrites(entry) PROVE FlowInv'
  <2>1. JournalTypes' /\ (entry # {} => Justified(progress'))
    BY <1>6, AgentBound DEF FileTypes, Entries
  <2>2. decided' = entry
    BY <1>6 DEF AgentWrites, DecisionInv
  <2> QED BY <1>6, <2>1, <2>2 DEF AgentWrites, FileTypes, ControlTypes,
     SentInv, KeptInv, ShownInv, DecisionInv, BeforePurge, AfterPurge
<1>7. CASE EndImplement
  BY <1>7 DEF EndImplement, journalVars, historyVars, FileTypes, JournalTypes,
     ControlTypes, SentInv, KeptInv, ShownInv, DecisionInv, BeforePurge, AfterPurge
<1>8. CASE JudgeUnwritten
  <2>1. JournalTypes' /\ decided' \subseteq read
    BY <1>8, UpdateBound DEF JudgeUnwritten, FileTypes, Entries, SentInv
  <2> QED BY <1>8, <2>1 DEF JudgeUnwritten, FileTypes, ControlTypes, Failures,
     SentInv, KeptInv, ShownInv, DecisionInv, BeforePurge, AfterPurge
<1>9. CASE Judge
  <2>1. JournalTypes'
    BY <1>9, UpdateBound DEF Judge, journalVars, Entries, JournalTypes
  <2> QED BY <1>9, <2>1 DEF Judge, journalVars, historyVars, FileTypes, ControlTypes, Failures,
     SentInv, KeptInv, ShownInv, DecisionInv, BeforePurge, AfterPurge
<1>10. CASE Purge
  BY <1>10 DEF Purge, Success, journalVars, historyVars, FileTypes, JournalTypes, ControlTypes,
     SentInv, KeptInv, ShownInv, DecisionInv, BeforePurge, AfterPurge
<1>11. CASE PassReview \/ ReviewRejects
  BY <1>11 DEF PassReview, ReviewRejects, journalVars, historyVars, FileTypes, JournalTypes,
     ControlTypes, Failures, SentInv, KeptInv, ShownInv, DecisionInv, BeforePurge, AfterPurge
<1>12. CASE Finish
  <2>1. JournalTypes'
    BY <1>12, UpdateBound DEF Finish, journalVars, Entries, JournalTypes
  <2> QED BY <1>12, <2>1 DEF Finish, journalVars, historyVars, FileTypes, ControlTypes, Failures,
     SentInv, KeptInv, ShownInv, DecisionInv, BeforePurge, AfterPurge
<1>13. CASE Crash
  <2>1. JournalTypes'
    <3>1. <<>> \in Seq(Entries) /\ Len(<<>>) = 0
      OBVIOUS
    <3>2. \/ UNCHANGED <<progress, intact>>
          \/ progress' = <<>> /\ intact' = FALSE
      BY <1>13 DEF Crash, journalVars
    <3>3. CASE UNCHANGED <<progress, intact>>
      BY <3>3 DEF JournalTypes
    <3>4. CASE progress' = <<>> /\ intact' = FALSE
      <4>1. 0 <= Window
        BY FlowAssumption
      <4> QED BY ONLY <3>1, <3>4, <4>1 DEF JournalTypes
    <3> QED BY <3>2, <3>3, <3>4
  <2> QED BY <1>13, <2>1 DEF Crash, historyVars, FileTypes, ControlTypes, Failures,
     SentInv, KeptInv, ShownInv, DecisionInv, BeforePurge, AfterPurge
<1>14. CASE UNCHANGED vars
  BY <1>14 DEF vars, journalVars, historyVars, FileTypes, JournalTypes, ControlTypes,
     SentInv, KeptInv, ShownInv, DecisionInv, Justified
<1> QED
  BY <1>1, <1>2, <1>4, <1>5, <1>6, <1>7, <1>8, <1>9, <1>10, <1>11, <1>12, <1>13,
     <1>14 DEF Next

(* FlowInv is an invariant of the flow.                                    *)
LEMMA InvHolds == Spec => []FlowInv
BY InitInv, NextInv, PTL DEF Spec

-----------------------------------------------------------------------------

(* The two files keep their types, and PROGRESS.md its window.             *)
THEOREM TypeCorrect == Spec => []TypeOK
<1>1. FlowInv => TypeOK
  BY DEF FlowInv, FileTypes, JournalTypes, ControlTypes, TypeOK, BeforePurge, AfterPurge
<1> QED BY <1>1, InvHolds, PTL

(* An iteration that fails before its purge erases nothing it has read,    *)
(* whatever the user sends meanwhile.                                      *)
THEOREM FailureKeeps == Spec => []FailedIterationKeeps
<1>1. FlowInv => FailedIterationKeeps
  BY DEF FlowInv, KeptInv, AfterPurge, FailedIterationKeeps
<1> QED BY <1>1, InvHolds, PTL

(* A successful iteration with a decision erases all it has read.          *)
THEOREM DecisionCorrect == Spec => []DecisionEmpties
<1>1. FlowInv => DecisionEmpties
  BY DEF FlowInv, DecisionInv, AfterPurge, DecisionEmpties
<1> QED BY <1>1, InvHolds, PTL

(* What an iteration has read is not erased before a session was given it. *)
THEOREM ReadShown == Spec => ReadIsShown
<1>1. FlowInv /\ [Next]_vars => [read \cap (file \ file') \subseteq shown \cup lost']_vars
  <2> SUFFICES ASSUME FlowInv, Next PROVE read \cap (file \ file') \subseteq shown \cup lost'
    OBVIOUS
  <2>1. CASE Purge
    BY <2>1 DEF FlowInv, ShownInv, Purge
  <2>2. ASSUME NEW s \in Suggestions, Send(s) PROVE file \ file' \subseteq lost'
    BY <2>2 DEF Send
  <2>3. \/ file \subseteq file' \/ Purge
        \/ \E s \in Suggestions : Send(s)
    BY DEF Next, Begin, PlanFails, StartImplement, AgentWrites, EndImplement, ImplementFails,
       JudgeUnwritten, Judge, PostStepFails, PassReview, ReviewRejects, ReviewRaises,
       Finish, Crash, Fails
  <2> QED BY <2>1, <2>2, <2>3
<1> QED BY <1>1, InvHolds, PTL DEF Spec, ReadIsShown

=============================================================================
