---------------------------- MODULE DecisionLog ----------------------------
(***************************************************************************)
(* What a cluster of replicas promises about the digests it commits: a     *)
(* growing set of decisions, one digest per (view, seq) for every sequence *)
(* that no stable checkpoint has covered.  At or below a watermark nothing *)
(* is promised.                                                            *)
(***************************************************************************)
EXTENDS Integers

VARIABLES
    decided,   \* slots some replica has committed
    covered    \* the watermarks of the replicas

Init == decided = {} /\ covered = {0}

Agrees(x, y) == x.view = y.view /\ x.seq = y.seq => x.digest = y.digest

\* A new decision contradicts no earlier one, unless a checkpoint covers its sequence.
Decide ==
    \E x \in decided' \ decided :
        /\ decided' = decided \cup {x}
        /\ (\A n \in covered : x.seq > n) => \A y \in decided : Agrees(x, y)
        /\ UNCHANGED covered

\* Watermarks only rise.
Cover ==
    /\ \A n \in covered : \E k \in covered' : k >= n
    /\ UNCHANGED decided

Spec == Init /\ [][Decide \/ Cover]_<<decided, covered>>
=============================================================================
