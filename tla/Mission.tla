------------------------------- MODULE Mission -------------------------------
(***************************************************************************)
(* What the autonomous loop promises its user, whatever its sessions,      *)
(* gates, barriers and failures: work starts only while nobody has asked   *)
(* for the end; the loop itself declares the end only in the middle of an  *)
(* iteration and over evidence, which nothing touches afterwards; it stops *)
(* on DONE or at a limit only between two iterations, and otherwise only   *)
(* because somebody outside stops it.                                      *)
(*                                                                         *)
(* AgentLoop implements this specification.                                *)
(***************************************************************************)
CONSTANT Limited    \* is an iteration or hours cap set?

VARIABLES
    phase,     \* no work under way, work under way, or the loop is over
    done,      \* who has created DONE
    evidence,  \* ticked boxes, a full report, no gate failure on record
    reason     \* why the loop is over

vars == <<phase, done, evidence, reason>>

Init == phase = "between" /\ done = "nobody" /\ evidence = FALSE /\ reason = "none"

Start ==
    /\ phase = "between" /\ done = "nobody"
    /\ phase' = "working"
    /\ UNCHANGED <<done, evidence, reason>>

Work ==
    /\ phase = "working" /\ done # "loop"
    /\ evidence' \in BOOLEAN
    /\ UNCHANGED <<phase, done, reason>>

Complete ==
    /\ phase = "working" /\ done = "nobody" /\ evidence
    /\ done' = "loop"
    /\ UNCHANGED <<phase, evidence, reason>>

(* The iteration is over: success, failure or crash.                       *)
Leave ==
    /\ phase = "working"
    /\ phase' = "between"
    /\ UNCHANGED <<done, evidence, reason>>

Kill ==
    /\ done = "nobody"
    /\ done' = "user"
    /\ UNCHANGED <<phase, evidence, reason>>

Stop(r) ==
    /\ phase # "stopped"
    /\ phase' = "stopped"
    /\ reason' = r
    /\ UNCHANGED <<done, evidence>>

StopOnDone == phase = "between" /\ done # "nobody" /\ Stop("done")
StopAtLimit == phase = "between" /\ Limited /\ Stop("limit")
StopFromOutside == Stop("outside")

Next ==
    \/ Start \/ Work \/ Complete \/ Leave \/ Kill
    \/ StopOnDone \/ StopAtLimit \/ StopFromOutside

Spec == Init /\ [][Next]_vars

=============================================================================
