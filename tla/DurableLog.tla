----------------------------- MODULE DurableLog -----------------------------
(* What a write-ahead log promises its user: the records on stable storage, *)
(* those it has acknowledged, and the sequence below which the user has     *)
(* given them up.  A record is stamped with its place in the log.           *)
EXTENDS Naturals

VARIABLES
    stable,   \* records that survive whatever happens next
    acked,    \* records whose append has returned Ok
    floor     \* lowest sequence the user still needs

Init == stable = {} /\ acked = {} /\ floor = 0

\* Later records become stable behind the ones that are; one of them may be acknowledged.
Append ==
    /\ stable \subseteq stable'
    /\ \A r \in stable' \ stable, q \in stable : q.at < r.at
    /\ acked' = acked \/ \E r \in stable' \ stable : acked' = acked \cup {r}
    /\ UNCHANGED floor

\* The user gives up what is below m.
Cover == floor' > floor /\ UNCHANGED <<stable, acked>>

\* Given-up records leave all at once.
Compact ==
    /\ stable' = {r \in stable : r.seq >= floor}
    /\ UNCHANGED <<acked, floor>>

Next == Append \/ Cover \/ Compact

Spec == Init /\ [][Next]_<<stable, acked, floor>>
=============================================================================
