------------------------- MODULE EpochManagerProofs -------------------------
(* Proofs about EpochManager, for every set of validators, of which less   *)
(* than a third are faulty in each proposed set: types, and that an epoch  *)
(* has one validator set.                                                  *)
EXTENDS EpochManager, FiniteSetTheorems, TLAPS

-----------------------------------------------------------------------------
(* Quorums of one set *)

\* Two quorums of a proposed set share a correct validator (epoch.rs:21-23).
LEMMA QuorumsMeet ==
  ASSUME NEW s \in Sets,
         NEW Q, verify_quorum(s, Q), NEW R, verify_quorum(s, R)
  PROVE  \E v \in Q \cap R : v \in Correct
<1> DEFINE V == s.validators
           B == V \cap Faulty
<1>1. /\ IsFiniteSet(V) /\ V \subseteq Validators
      /\ s.total_power = Cardinality(V) /\ 3 * Cardinality(B) < s.total_power
  <2>1. V \subseteq Validators
    BY EpochAssumption
  <2> QED
    BY <2>1, EpochAssumption, FS_Subset
<1>2. Q \subseteq V /\ R \subseteq V
  BY DEF verify_quorum
<1>3. IsFiniteSet(Q) /\ IsFiniteSet(R) /\ IsFiniteSet(B) /\ IsFiniteSet(Q \cap R)
  BY <1>1, <1>2, FS_Subset, B \subseteq V, Q \cap R \subseteq V
<1>4. /\ Cardinality(Q) \in Nat /\ Cardinality(R) \in Nat /\ Cardinality(B) \in Nat
      /\ Cardinality(V) \in Nat /\ Cardinality(Q \cap R) \in Nat
  BY <1>1, <1>3, FS_CardinalityType
<1>5. Cardinality(Q \cup R) = Cardinality(Q) + Cardinality(R) - Cardinality(Q \cap R)
  BY <1>3, FS_Union
<1>6. Cardinality(Q \cup R) <= Cardinality(V)
  BY <1>1, <1>2, FS_Subset, Q \cup R \subseteq V
<1>7. /\ Cardinality(Q) >= (Cardinality(V) * 2) \div 3 + 1
      /\ Cardinality(R) >= (Cardinality(V) * 2) \div 3 + 1
  BY <1>1 DEF verify_quorum, quorum_threshold
<1>8. 3 * ((Cardinality(V) * 2) \div 3) + 2 >= Cardinality(V) * 2
  BY <1>4
<1>9. Cardinality(B) < Cardinality(Q \cap R)
  <2> DEFINE n == Cardinality(V)
             k == (Cardinality(V) * 2) \div 3
  <2>1. n \in Nat /\ k \in Int
    BY <1>4
  <2>2. Cardinality(Q) + Cardinality(R) - Cardinality(Q \cap R) <= n
    BY <1>5, <1>6
  <2>3. 3 * k + 2 >= n * 2 /\ 3 * Cardinality(B) < n
    BY <1>1, <1>8
  <2>4. Cardinality(Q) >= k + 1 /\ Cardinality(R) >= k + 1
    BY <1>7
  <2> HIDE DEF n, k
  <2> QED
    BY <1>4, <2>1, <2>2, <2>3, <2>4
<1>10. ~(Q \cap R \subseteq B)
  BY <1>3, <1>4, <1>9, FS_Subset
<1> QED
  BY <1>1, <1>2, <1>10 DEF Correct

-----------------------------------------------------------------------------
(* The inductive invariant *)

\* Enough validators of s have signed t, or may claim to have.
Backed(s, t) ==
    /\ t.current_epoch = s.epoch_id
    /\ \E signers \in SUBSET Signers(t) : verify_quorum(s, signers)

\* A correct validator has signed one transition from an epoch.
OneSignature ==
    \A x, y \in signed : x[1] = y[1] /\ x[2].current_epoch = y[2].current_epoch => x = y

\* The sets that have been held form a chain: a set that is not the latest has a backed
\* successor among them, and none lies between.
Linked ==
    \A s, q \in held : s.epoch_id < q.epoch_id =>
        \E t \in Transitions : Backed(s, t) /\ t.next \in held /\ t.next.epoch_id <= q.epoch_id

EpochInv == TypeOK /\ OneSignature /\ Linked /\ EpochsAgree

\* A set has one backed successor.
LEMMA OneSuccessor ==
  ASSUME EpochInv, NEW s \in held, NEW t \in Transitions, NEW u \in Transitions,
         Backed(s, t), Backed(s, u)
  PROVE  t = u
<1>1. s \in Sets
  BY DEF EpochInv, TypeOK
<1>2. PICK Q \in SUBSET Signers(t) : verify_quorum(s, Q)
  BY DEF Backed
<1>3. PICK R \in SUBSET Signers(u) : verify_quorum(s, R)
  BY DEF Backed
<1>4. PICK v \in Q \cap R : v \in Correct
  BY <1>1, <1>2, <1>3, QuorumsMeet
<1>5. <<v, t>> \in signed /\ <<v, u>> \in signed
  BY <1>4 DEF Signers, Correct
<1>6. t.current_epoch = u.current_epoch
  BY DEF Backed
<1> DEFINE x == <<v, t>>
           y == <<v, u>>
<1>7. x[1] = y[1] /\ x[2].current_epoch = y[2].current_epoch
  BY <1>6
<1>8. x = y
  BY <1>5, <1>7 DEF EpochInv, OneSignature
<1> QED
  BY <1>8

LEMMA InitEpochInv == Init => EpochInv
  BY EpochAssumption DEF Init, EpochInv, TypeOK, OneSignature, Linked, EpochsAgree

LEMMA SignKeeps ==
  ASSUME EpochInv, NEW v \in Correct, NEW t \in Transitions, Sign(v, t)
  PROVE  EpochInv'
<1>1. TypeOK'
  BY DEF Sign, EpochInv, TypeOK
<1>2. OneSignature'
  BY DEF Sign, EpochInv, OneSignature
<1>3. \A s \in Sets, u \in Transitions : Backed(s, u) => Backed(s, u)'
  BY DEF Sign, Backed, Signers
<1>4. Linked'
  BY <1>3 DEF Sign, EpochInv, TypeOK, Linked
<1>5. EpochsAgree'
  BY DEF Sign, EpochInv, EpochsAgree
<1> QED
  BY <1>1, <1>2, <1>4, <1>5 DEF EpochInv

\* A transition either leads to the set that already follows, or extends the chain.
LEMMA ApplyKeeps ==
  ASSUME EpochInv, NEW m \in Managers, NEW t \in Transitions,
         NEW signers \in SUBSET Signers(t), apply_transition(m, t, signers)
  PROVE  EpochInv'
<1> DEFINE s == current[m]
<1>1. /\ s \in held /\ s \in Sets /\ Backed(s, t)
      /\ t.next \in Sets /\ s.epoch_id < t.next.epoch_id
      /\ \A q \in Sets : q.epoch_id \in Nat
  BY EpochAssumption DEF apply_transition, EpochInv, TypeOK, Backed, Transitions
<1>2. /\ current' = [current EXCEPT ![m] = t.next]
      /\ held' = held \cup {t.next} /\ signed' = signed
  BY DEF apply_transition
<1> HIDE DEF s
<1>3. TypeOK'
  BY <1>1, <1>2 DEF EpochInv, TypeOK
<1>4. OneSignature'
  BY <1>2 DEF EpochInv, OneSignature
<1>5. \A q \in Sets, u \in Transitions : Backed(q, u)' = Backed(q, u)
  BY <1>2 DEF Backed, Signers
<1>6. CASE \E q \in held : s.epoch_id < q.epoch_id
  <2>1. t.next \in held
    BY <1>1, <1>6, OneSuccessor DEF EpochInv, Linked
  <2>2. held' = held
    BY <1>2, <2>1
  <2>3. Linked' /\ EpochsAgree'
    BY <1>5, <2>2 DEF EpochInv, TypeOK, Linked, EpochsAgree
  <2> QED
    BY <1>3, <1>4, <2>3 DEF EpochInv
<1>7. CASE \A q \in held : q.epoch_id <= s.epoch_id
  <2>1. EpochsAgree'
    BY <1>1, <1>2, <1>7 DEF EpochInv, TypeOK, EpochsAgree
  <2>2. ASSUME NEW p \in held', NEW q \in held', p.epoch_id < q.epoch_id
         PROVE  \E u \in Transitions :
                   Backed(p, u) /\ u.next \in held' /\ u.next.epoch_id <= q.epoch_id
    <3>1. p \in held
      BY <1>1, <1>2, <1>7, <2>2 DEF EpochInv, TypeOK
    <3>2. CASE p = s /\ q \notin held
      BY <1>1, <1>2, <3>2
    <3>3. CASE p # s /\ q \notin held
      <4>1. p.epoch_id < s.epoch_id
        BY <1>1, <1>7, <3>1, <3>3 DEF EpochInv, TypeOK, EpochsAgree
      <4>2. PICK u \in Transitions :
               Backed(p, u) /\ u.next \in held /\ u.next.epoch_id <= s.epoch_id
        BY <1>1, <3>1, <4>1 DEF EpochInv, Linked
      <4>3. u.next.epoch_id <= q.epoch_id
        BY <1>1, <1>2, <3>3, <4>2 DEF EpochInv, TypeOK
      <4> QED
        BY <1>2, <4>2, <4>3
    <3>4. CASE q \in held
      BY <1>2, <2>2, <3>1, <3>4 DEF EpochInv, Linked
    <3> QED
      BY <3>2, <3>3, <3>4
  <2>3. held' \subseteq Sets
    BY <1>3 DEF TypeOK
  <2>4. Linked'
    BY <1>5, <2>2, <2>3 DEF Linked
  <2> QED
    BY <1>3, <1>4, <2>1, <2>4 DEF EpochInv
<1>8. \A q \in held : q.epoch_id \in Nat /\ s.epoch_id \in Nat
  BY <1>1 DEF EpochInv, TypeOK
<1> QED
  BY <1>6, <1>7, <1>8

LEMMA StepEpochInv == EpochInv /\ [Next]_vars => EpochInv'
<1>0. SUFFICES ASSUME EpochInv, [Next]_vars PROVE EpochInv'
  OBVIOUS
<1>1. CASE UNCHANGED vars
  BY <1>0, <1>1 DEF vars, EpochInv, TypeOK, OneSignature, Linked, EpochsAgree, Backed, Signers
<1>2. CASE Next
  BY <1>0, <1>2, SignKeeps, ApplyKeeps DEF Next
<1> QED
  BY <1>0, <1>1, <1>2

LEMMA EpochInvariant == Spec => []EpochInv
  BY InitEpochInv, StepEpochInv, PTL DEF Spec

-----------------------------------------------------------------------------
(* Theorems *)

\* Managers hold proposed sets only (epoch.rs:68-82).
THEOREM TypeCorrect == Spec => []TypeOK
<1>1. EpochInv => TypeOK
  BY DEF EpochInv
<1> QED
  BY <1>1, EpochInvariant, PTL

\* One validator set per epoch, for any managers, sets and order of transitions, as long as
\* ids increase and less than a third of each set is faulty (epoch.rs:21-50, 68-82).
THEOREM EpochsHaveOneSet == Spec => []EpochsAgree
<1>1. EpochInv => EpochsAgree
  BY DEF EpochInv
<1> QED
  BY <1>1, EpochInvariant, PTL
=============================================================================
