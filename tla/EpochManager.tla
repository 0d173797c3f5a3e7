---------------------------- MODULE EpochManager ----------------------------
(***************************************************************************)
(* The epoch managers of rust_engine/src/epoch.rs.  Each holds a validator *)
(* set and replaces it by the next one of a transition that names its      *)
(* epoch and carries enough signers among its validators.                  *)
(*                                                                         *)
(* Signing is external, the code only counts signers: a correct validator  *)
(* signs at most one transition from an epoch, and only to a later one,    *)
(* a faulty one signs anything.  Transitions reach managers in any order,  *)
(* any number of times, and with any of their signers.                     *)
(***************************************************************************)
EXTENDS Integers, FiniteSets

CONSTANTS
    Managers,
    Validators,
    Faulty,      \* validators that sign anything
    Sets,        \* validator sets that may be proposed
    Genesis      \* the set every manager starts with

ASSUME EpochAssumption ==
    /\ IsFiniteSet(Validators) /\ Faulty \subseteq Validators
    /\ Sets \subseteq [epoch_id : Nat, validators : SUBSET Validators, total_power : Nat]
    /\ Genesis \in Sets
    /\ \A s \in Sets :
          /\ s.total_power = Cardinality(s.validators)
          /\ 3 * Cardinality(s.validators \cap Faulty) < s.total_power

Epochs == {s.epoch_id : s \in Sets}

Transitions == {t \in [current_epoch : Epochs, next : Sets] : t.current_epoch < t.next.epoch_id}

VARIABLES
    current,  \* current_state of each manager
    signed,   \* signatures of correct validators on transitions
    held      \* history: every set a manager has held

vars == <<current, signed, held>>

Correct == Validators \ Faulty

-----------------------------------------------------------------------------
(* ValidatorSet *)

\* Mutant: the threshold without the extra vote.
TwoThirds(s) == (s.total_power * 2) \div 3

\* total_power counts validators here, far from the width of a u64.
quorum_threshold(s) == (s.total_power * 2) \div 3 + 1

\* Every signer is a validator of s, and they are enough.
verify_quorum(s, signers) ==
    signers \subseteq s.validators /\ Cardinality(signers) >= quorum_threshold(s)

-----------------------------------------------------------------------------
(* Steps *)

\* A correct validator signs its first transition from an epoch.
Sign(v, t) ==
    /\ \A x \in signed : x[1] = v => x[2].current_epoch # t.current_epoch
    /\ signed' = signed \cup {<<v, t>>}
    /\ UNCHANGED <<current, held>>

\* Mutant: the manager keeps counting epochs by itself.
CountEpochs(m, t, signers) ==
    /\ t.current_epoch = current[m].epoch_id
    /\ verify_quorum(current[m], signers)
    /\ current' = [current EXCEPT ![m] = [t.next EXCEPT !.epoch_id = t.current_epoch + 1]]
    /\ held' = held \cup {current'[m]}
    /\ UNCHANGED signed

apply_transition(m, t, signers) ==
    /\ t.current_epoch = current[m].epoch_id
    /\ verify_quorum(current[m], signers)
    /\ current' = [current EXCEPT ![m] = t.next]
    /\ held' = held \cup {t.next}
    /\ UNCHANGED signed

\* Those whose signature on t can be shown.
Signers(t) == Faulty \cup {v \in Correct : <<v, t>> \in signed}

-----------------------------------------------------------------------------
(* The managers *)

Init ==
    /\ current = [m \in Managers |-> Genesis]
    /\ signed = {}
    /\ held = {Genesis}

Next ==
    \/ \E v \in Correct, t \in Transitions : Sign(v, t)
    \/ \E m \in Managers, t \in Transitions : \E signers \in SUBSET Signers(t) :
          apply_transition(m, t, signers)

Spec == Init /\ [][Next]_vars

-----------------------------------------------------------------------------
(* Properties *)

\* Every variable has its type, and managers hold proposed sets.
TypeOK ==
    /\ current \in [Managers -> Sets]
    /\ signed \subseteq Correct \X Transitions
    /\ held \subseteq Sets
    /\ \A m \in Managers : current[m] \in held

\* Managers that have been in one epoch held the same validators in it, though they take
\* transitions at different times, skip epochs, and are shown conflicting ones
\* (epoch.rs:21-23, 26-50, 68-82).
EpochsAgree == \A s, q \in held : s.epoch_id = q.epoch_id => s = q
=============================================================================
