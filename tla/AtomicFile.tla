----------------------------- MODULE AtomicFile -----------------------------
(***************************************************************************)
(* What the locks of filelock.py promise about a state file: to those who  *)
(* use them, each call looks like one step ("Empeche les race conditions   *)
(* entre les ecritures de l'agent et le polling de l'interface GUI").      *)
(* There is one exception, the crash of a writer.                          *)
(***************************************************************************)
EXTENDS Sequences

CONSTANTS
    Readers,      \* processes that read the file
    Appenders,    \* that add an entry to what it holds
    Overwriters   \* that replace what it holds by an entry of theirs

VARIABLES
    value,  \* the entries of the file, each the name of its author
    seen    \* what each reader has read last

Init ==
    /\ value = <<>>
    /\ seen = [p \in Readers |-> <<>>]

Read(p) ==
    /\ seen' = [seen EXCEPT ![p] = value]
    /\ UNCHANGED value

AppendEntry(p) ==
    /\ value' = Append(value, p)
    /\ UNCHANGED seen

Overwrite(p) ==
    /\ value' = <<p>>
    /\ UNCHANGED seen

(* A writer that dies in the middle leaves an empty file.                  *)
Lose ==
    /\ value' = <<>>
    /\ UNCHANGED seen

Next ==
    \/ \E p \in Readers : Read(p)
    \/ \E p \in Appenders : AppendEntry(p)
    \/ \E p \in Overwriters : Overwrite(p)
    \/ Lose

Spec == Init /\ [][Next]_<<value, seen>>

=============================================================================
