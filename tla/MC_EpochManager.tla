--------------------------- MODULE MC_EpochManager ---------------------------
(* An instance of EpochManager for TLC. *)
EXTENDS EpochManager

Set(e, V) == [epoch_id |-> e, validators |-> V, total_power |-> Cardinality(V)]

\* Four validators, one of them faulty; the next epoch may keep them or leave one correct
\* validator alone, and the epoch after may be reached from either or directly.
MCGenesis == Set(1, {1, 2, 3, 4})

MCSets == {MCGenesis, Set(2, {1, 2, 3, 4}), Set(2, {1}), Set(3, {1, 2, 3, 4}), Set(3, {2})}
==============================================================================
