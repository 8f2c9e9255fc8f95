----------------------------- MODULE Publication -----------------------------
(***************************************************************************)
(* What the interface and a bisect may rely on: the tags of the iterations *)
(* and the remote they are restored from.  The remote only gains commits;  *)
(* a tag is put once, on a commit the remote has, in the order of the      *)
(* iterations, and neither moves nor goes.                                 *)
(***************************************************************************)
EXTENDS Naturals

CONSTANTS Commits, Iterations

VARIABLES
    online,    \* there is a remote
    published, \* the commits it has
    tags       \* the commit of each iteration, 0 for none

vars == <<online, published, tags>>

Init ==
    /\ online \in BOOLEAN
    /\ published \in SUBSET Commits /\ (~online => published = {})
    /\ tags = [n \in Iterations |-> 0]

Publish ==
    /\ online
    /\ published' \in SUBSET Commits /\ published \subseteq published'
    /\ UNCHANGED <<online, tags>>

Tag(n, c) ==
    /\ \A m \in Iterations : tags[m] # 0 => m < n
    /\ online => c \in published
    /\ tags' = [tags EXCEPT ![n] = c]
    /\ UNCHANGED <<online, published>>

Next == Publish \/ \E n \in Iterations, c \in Commits : Tag(n, c)

Spec == Init /\ [][Next]_vars

=============================================================================
