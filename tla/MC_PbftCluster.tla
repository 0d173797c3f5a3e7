-------------------------- MODULE MC_PbftCluster --------------------------
(* Small instances of PbftCluster for TLC: four nodes and the messages that *)
(* reach them from outside.                                                 *)
EXTENDS PbftCluster

Msg(phase, v, s, d, i) == [phase |-> phase, view |-> v, seq |-> s, digest |-> d, sender |-> i]

ToAll(M) == [to : Honest, msg : M]

\* The leader of view 0 is Byzantine: it sends two proposals to nodes 2 and 3 and helps to
\* decide one of them at node 3 and the other at node 2.  Node 3 may learn of a checkpoint
\* quorum below the slot, of one that covers it, and of a quorum for view 1, for which 0
\* votes twice.
EquivocatingLeader ==
    [to : {2, 3}, msg : {Msg("PrePrepare", 0, 2, d, 0) : d \in {"a", "b"}}
                        \cup {Msg("Prepare", 0, 2, "a", 0)}]
    \cup [to : {2}, msg : {Msg(phase, 0, 2, "b", 0) : phase \in {"Prepare", "Commit"}}]
    \cup [to : {3}, msg : {Msg("Commit", 0, 2, "a", 0)}
                          \cup {Msg("Checkpoint", 0, s, "a", i) : s \in 1 .. 2, i \in 0 .. 2}
                          \cup {Msg("ViewChange", 1, 0, "a", i) : i \in 0 .. 2}
                          \cup {Msg("ViewChange", 1, 0, "b", 0)}]

\* A correct leader proposes one digest to every correct node; the Byzantine node says
\* nothing.
SilentNode == ToAll({Msg("PrePrepare", 0, 1, "a", 0)})
===========================================================================
