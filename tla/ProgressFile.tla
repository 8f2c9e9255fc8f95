----------------------------- MODULE ProgressFile -----------------------------
(***************************************************************************)
(* PROGRESS.md, the memory of the agent: the agent edits it freely, the    *)
(* loop repairs it (repair_progress) and pushes entries into its sliding   *)
(* window (update_progress).  Both are read and written under the lock of  *)
(* the file, so each is one step (see StateFile).                          *)
(*                                                                         *)
(* A file is a sequence of blocks.  A header starts with "## "; a block of *)
(* text belongs to the header before it.  "entry" and "report" are the     *)
(* iterations told by the agent and by the loop, "decisions" the section   *)
(* of the architecture, "placeholder" that section as the template has it. *)
(***************************************************************************)
EXTENDS Naturals, Sequences, FiniteSets, FiniteSetsExt, SequencesExt

CONSTANT MaxBlocks   \* bound of the model: blocks of a file still inserted to or updated

ASSUME ProgressAssumption == MaxBlocks \in Nat

Architecture == {"decisions", "placeholder"}
Headers == {"entry", "report"} \cup Architecture
Separator == {"separator"}
Blocks == Headers \cup Separator \cup {"title", "text"}

VARIABLE file

Template == <<"title", "entry", "entry", "separator", "placeholder">>

ProgressInit == file = Template

Places(f, kinds) == {i \in DOMAIN f : f[i] \in kinds}
Has(f, kinds) == Places(f, kinds) # {}

(* The separator is looked for with the end of a line in front of it: one  *)
(* on the first line of the file is not found.                             *)
Found(f) == Places(f, Separator) \ {1}
Before(f) == IF Found(f) = {} THEN f ELSE SubSeq(f, 1, Min(Found(f)) - 1)
After(f) == IF Found(f) = {} THEN <<>> ELSE SubSeq(f, Min(Found(f)) + 1, Len(f))

Titled(f) == f # <<>> /\ Head(f) = "title"

-----------------------------------------------------------------------------
(* The agent: any block may go, any block may come, anywhere               *)

Erase == \E i \in DOMAIN file : file' = RemoveAt(file, i)

Insert ==
    /\ Len(file) < MaxBlocks
    /\ \E i \in 1 .. Len(file) + 1, b \in Blocks : file' = InsertAt(file, i, b)

-----------------------------------------------------------------------------
(* repair_progress                                                         *)

(* The section counts wherever it is.                                      *)
Valid(f) == Found(f) # {} /\ Has(f, Architecture)

\* Fault: what followed the separator is replaced by the template's section.
FreshSection(rest) == <<"placeholder">>

Completed(rest) == IF Has(rest, Architecture) THEN rest ELSE Append(rest, "placeholder")

Rebuilt(f) ==
    LET header == Before(f)
    IN  (IF Titled(header) THEN header ELSE <<"title">> \o header)
            \o <<"separator">> \o Completed(After(f))

Repair ==
    /\ Len(file) <= MaxBlocks
    /\ file' = IF Valid(file) THEN file ELSE Rebuilt(file)

-----------------------------------------------------------------------------
(* update_progress, whose window is of two entries                         *)

(* The blocks up to the next header.                                       *)
FirstGroup(body) ==
    LET later == Places(body, Headers) \ {1}
    IN  IF later = {} THEN body ELSE SubSeq(body, 1, Min(later) - 1)

(* Whatever it was, it is now "## Iteration Precedente (N-1)": its heading *)
(* is replaced, or that line is put in front of a text without a heading.  *)
Relabelled(group) ==
    IF group = <<>> \/ group[1] \in {"entry", "report"} THEN group
    ELSE IF group[1] \in Headers \cup Separator THEN [group EXCEPT ![1] = "entry"]
    ELSE <<"entry">> \o group

Previous(f) ==
    LET header == Before(f)
    IN  Relabelled(FirstGroup(IF Titled(header) THEN Tail(header) ELSE header))

\* Fault: the next task is the first block after the separator.
OneBlock(f) ==
    LET rest == After(f) IN IF rest = <<>> THEN rest ELSE <<rest[1]>>

NextTask(f) == After(f)

(* Without a separator nothing of the file is kept.                        *)
Updated(f) ==
    <<"title", "report">>
        \o (IF Found(f) # {} THEN Previous(f) ELSE <<>>)
        \o <<"separator">> \o NextTask(f)

Update ==
    /\ Len(file) <= MaxBlocks
    /\ file' = Updated(file)

-----------------------------------------------------------------------------

ProgressNext == Erase \/ Insert \/ Repair \/ Update

ProgressSpec == ProgressInit /\ [][ProgressNext]_file

-----------------------------------------------------------------------------

(* The blocks of f stand together, in their order, somewhere in g.         *)
Within(f, g) ==
    \E shift \in 0 .. Len(g) - Len(f) : \A i \in DOMAIN f : g[shift + i] = f[i]

(* A repair makes the file valid, so that it is not repaired again, and    *)
(* keeps all of it in one piece, whatever the agent has made of it: it     *)
(* adds in front and behind ("seule la structure manquante est             *)
(* restauree").                                                            *)
RepairSound ==
    [][Repair => Valid(file') /\ Within(file, file')]_file

(* In order: the section of the architecture comes after the separator.    *)
WellFormed(f) == Titled(f) /\ Has(After(f), Architecture)

(* An update of a file in order leaves it in order, with the new entry in  *)
(* front of the one that was the last, and with all that followed the      *)
(* separator: the next task, the decisions and whatever the agent added.   *)
UpdateKeeps ==
    [][Update /\ WellFormed(file) =>
         /\ WellFormed(file')
         /\ file'[2] = "report"
         /\ Cardinality(Places(Before(file'), Headers)) <= 2
         /\ After(file') = After(file)]_file

(* "Cette section n'est jamais tronquee par la fenetre glissante"          *)
(* (templates/PROGRESS.md.tmpl): the loop never removes the decisions.     *)
DecisionsPersist ==
    [][Update /\ Has(file, {"decisions"}) => Has(file', {"decisions"})]_file

=============================================================================
