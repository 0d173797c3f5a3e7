-------------------------- MODULE MC_PbftReplica --------------------------
(* Small instances of PbftReplica for TLC: the messages each run lets the  *)
(* network deliver, in any order and any number of times.                  *)
EXTENDS PbftReplica

Msg(phase, v, s, d, i) == [phase |-> phase, view |-> v, seq |-> s, digest |-> d, sender |-> i]

\* Four nodes, one slot, a leader that proposes two digests, every vote a commit needs,
\* and a checkpoint quorum over the slot.
SlotInputs ==
    {Msg("PrePrepare", 0, 1, d, 0) : d \in {"a", "b"}}
    \cup {Msg("Prepare", 0, 1, "a", i) : i \in 0 .. 3}
    \cup {Msg("Prepare", 0, 1, "b", 1)}
    \cup {Msg("Commit", 0, 1, "a", i) : i \in 1 .. 3}
    \cup {Msg("Checkpoint", 0, 1, "a", i) : i \in 1 .. 3}

\* Four nodes, every one of which prepares a slot, changing to view 1: one of them reports
\* the slot first and none later; and a checkpoint quorum in the new view.
ViewInputs ==
    {Msg("PrePrepare", 0, 1, "a", 0)}
    \cup {Msg("Prepare", 0, 1, "a", i) : i \in 0 .. 3}
    \cup {Msg("ViewChange", 1, 1, "a", 1)}
    \cup {Msg("ViewChange", 1, 0, "a", i) : i \in 1 .. 3}
    \cup {Msg("Checkpoint", 1, 1, "a", i) : i \in 1 .. 3}

\* Four nodes that prepare a slot, change to view 1 with it, and a leader of view 1 that
\* proposes another digest for it.
InheritInputs ==
    {Msg("PrePrepare", 0, 1, "a", 0), Msg("PrePrepare", 1, 1, "b", 1)}
    \cup {Msg("Prepare", 0, 1, "a", i) : i \in 0 .. 2}
    \cup {Msg("ViewChange", 1, 1, "a", i) : i \in 1 .. 3}

\* Four nodes changing to view 1 around a checkpoint in view 0.
LostInputs ==
    {Msg("ViewChange", 1, 0, "a", i) : i \in 1 .. 3}
    \cup {Msg("Checkpoint", 0, 1, "a", i) : i \in 1 .. 3}

\* One node that is its own quorum (total_nodes = 1): every phase completes with one
\* message, so that the log holds several slots, views and checkpoints.  The leader
\* proposes two digests for slot 2, before and after a checkpoint covers it.
SoloInputs ==
    {Msg(phase, 0, 1, "a", 0) : phase \in {"PrePrepare", "Prepare", "Commit"}}
    \cup {Msg("PrePrepare", 0, 2, d, 0) : d \in {"a", "b"}}
    \cup {Msg("PrePrepare", 1, 1, "a", 0), Msg("Prepare", 1, 1, "a", 0)}
    \cup {Msg("ViewChange", 1, 0, "a", 0), Msg("ViewChange", 1, 1, "a", 0),
          Msg("ViewChange", 2, 1, "a", 0)}
    \cup {Msg("Checkpoint", v, 1, "a", 0) : v \in {0, 1}}
    \cup {Msg("Checkpoint", 0, 2, "b", 0)}
===========================================================================
