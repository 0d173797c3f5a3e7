-------------------------- MODULE PbftVotesProofs --------------------------
(***************************************************************************)
(* Lemmas about the operators of PbftVotes, for every number of faults.    *)
(***************************************************************************)
EXTENDS PbftVotes, WellFoundedInduction, FiniteSetTheorems, TLAPS

-----------------------------------------------------------------------------
(* What the helpers of the model return *)

\* A message names a slot.
LEMMA SlotType ==
    ASSUME NEW m \in Messages PROVE Slot(m) \in Slots
  BY DEF Slot, Slots, Messages

\* The signers of filed votes are registered nodes.
LEMMA VotersType ==
    ASSUME NEW ballots \in SUBSET Messages, NEW m
    PROVE  Voters(ballots, m) \subseteq Nodes
  BY DEF Voters, Messages

\* A certificate built from filed votes is a certificate.
LEMMA CertificateType ==
    ASSUME NEW ballots \in SUBSET Messages, NEW m \in Messages
    PROVE  Certificate(ballots, m) \in Certificates
  BY VotersType DEF Certificate, Certificates, Messages

\* Inserting keeps one entry per (view, seq).
LEMMA PutType ==
    ASSUME NEW map \in SUBSET Certificates, NEW c \in Certificates,
           \A x, y \in map : SamePlace(x, y) => x = y
    PROVE  /\ Put(map, c) \subseteq Certificates
           /\ \A x, y \in Put(map, c) : SamePlace(x, y) => x = y
  BY DEF Put, SamePlace

\* A new-view certificate collects votes and certificates that were on file.
LEMMA NewViewType ==
    ASSUME NEW map \in SUBSET Certificates, NEW v \in Nat, NEW sup \in SUBSET Messages
    PROVE  NewView(map, v, sup) \in NewViews
  BY DEF NewView, NewViews, Selected, Candidates

-----------------------------------------------------------------------------
(* Quorums *)

\* The registered nodes are finitely many, 3F + 1 of them.
LEMMA NodesFinite ==
    ASSUME F \in Nat
    PROVE  IsFiniteSet(Nodes) /\ Cardinality(Nodes) = 3 * F + 1
<1>1. N - 1 \in Int /\ 0 \in Int /\ ~(0 > N - 1) /\ (N - 1) - 0 + 1 = 3 * F + 1
  BY DEF N
<1>2. QED
  BY <1>1, FS_Interval DEF Nodes

\* Any two quorums share more than F nodes, so they share one outside any F of them
\* (quorum_size = 2f + 1 of 3f + 1, pbft.rs:363-369).
LEMMA QuorumsMeet ==
    ASSUME F \in Nat,
           NEW B \in SUBSET Nodes, Cardinality(B) <= F,
           NEW Q \in SUBSET Nodes, Cardinality(Q) >= Quorum,
           NEW R \in SUBSET Nodes, Cardinality(R) >= Quorum
    PROVE  \E h \in Q \cap R : h \notin B
<1>1. IsFiniteSet(Q) /\ IsFiniteSet(R) /\ IsFiniteSet(B)
  BY NodesFinite, FS_Subset
<1>2. /\ Cardinality(Q \cup R) = Cardinality(Q) + Cardinality(R) - Cardinality(Q \cap R)
      /\ IsFiniteSet(Q \cup R)
  BY <1>1, FS_Union
<1>3. Cardinality(Q \cup R) <= 3 * F + 1
  BY NodesFinite, FS_Subset, Q \cup R \subseteq Nodes
<1>4. /\ Cardinality(Q) \in Nat /\ Cardinality(R) \in Nat /\ Cardinality(B) \in Nat
      /\ IsFiniteSet(Q \cap R) /\ Cardinality(Q \cap R) \in Nat
      /\ Cardinality(Q \cup R) \in Nat
  BY <1>1, <1>2, FS_CardinalityType, FS_Intersection
<1>5. Cardinality(Q \cap R) >= F + 1
  BY <1>2, <1>3, <1>4 DEF Quorum
<1>6. ~(Q \cap R \subseteq B)
  BY <1>1, <1>4, <1>5, FS_Subset
<1>7. QED
  BY <1>6

\* A quorum keeps F + 1 members when any F nodes leave it.
LEMMA QuorumWithout ==
    ASSUME F \in Nat,
           NEW B \in SUBSET Nodes, Cardinality(B) <= F,
           NEW Q \in SUBSET Nodes, Cardinality(Q) >= Quorum
    PROVE  IsFiniteSet(Q \ B) /\ Cardinality(Q \ B) >= F + 1
<1>1. IsFiniteSet(Q) /\ IsFiniteSet(B)
  BY NodesFinite, FS_Subset
<1>2. /\ IsFiniteSet(Q \ B)
      /\ Cardinality(Q \ B) = Cardinality(Q) - Cardinality(Q \cap B)
  BY <1>1, FS_Difference
<1>3. IsFiniteSet(Q \cap B) /\ Cardinality(Q \cap B) <= Cardinality(B)
  BY <1>1, FS_Subset, Q \cap B \subseteq B
<1>4. /\ Cardinality(Q) \in Nat /\ Cardinality(B) \in Nat
      /\ Cardinality(Q \cap B) \in Nat /\ Cardinality(Q \ B) \in Nat
  BY <1>1, <1>2, <1>3, FS_CardinalityType
<1>5. QED
  BY <1>2, <1>3, <1>4 DEF Quorum

-----------------------------------------------------------------------------
(* View-change evidence *)

\* A bounded set of views has a highest one.
LEMMA HighestView ==
    ASSUME NEW S \in SUBSET Nat, S # {}, NEW b \in Nat, \A v \in S : v <= b
    PROVE  \E v \in S : \A w \in S : w <= v
<1> DEFINE T == {b - v : v \in S}
           R == {p \in Nat \X Nat : p[1] < p[2]}
<1>1. IsWellFoundedOn(R, Nat)
  BY NatLessThanWellFounded DEF OpToRel
<1>2. T \subseteq Nat /\ T # {}
  <2>1. \A v \in S : b - v \in Nat
    OBVIOUS
  <2>2. PICK v \in S : TRUE
    OBVIOUS
  <2>3. b - v \in T
    BY <2>2
  <2>4. QED
    BY <2>1, <2>3
<1>3. PICK t \in T : \A u \in T : ~(<<u, t>> \in R)
  <2> HIDE DEF T, R
  <2>1. QED
    BY <1>1, <1>2, WFMin
<1>4. \A u \in T : ~(u < t)
  BY <1>2, <1>3
<1>5. PICK v \in S : t = b - v
  OBVIOUS
<1>6. ASSUME NEW w \in S PROVE w <= v
  <2>1. b - w \in T
    OBVIOUS
  <2>2. ~(b - w < b - v)
    BY <1>4, <1>5, <2>1
  <2>3. QED
    BY <2>2
<1>7. QED
  BY <1>6

\* When a certificate answers every report, a new view fails only by an ambiguous report:
\* select_highest_prepared_certificate finds one and NewViewCertificate::verify accepts it
\* (pbft.rs:233-313, 834-863).
LEMMA SettlesUnlessAmbiguous ==
    ASSUME NEW map \in SUBSET Certificates, NEW target \in Nat, NEW sup \in SUBSET Messages,
           \A x \in sup : x.seq > 0 =>
               \E c \in map : /\ c.view < target /\ c.seq = x.seq /\ c.digest = x.digest
                              /\ Verify(c),
           Unambiguous(sup)
    PROVE  ViewChangeSettles(map, target, sup)
<1> DEFINE C == Candidates(map, target, sup)
           V == {c.view : c \in C}
           nv == NewView(map, target, sup)
<1>1. C \subseteq map /\ \A c \in C : c.view \in Nat /\ c.view < target
  BY DEF Candidates, Certificates
<1>2. ASSUME ReportsPrepared(sup) PROVE Selected(map, target, sup) # {}
  <2>1. PICK x \in Top(sup) : x.seq > 0
    BY <1>2 DEF ReportsPrepared
  <2>2. \E c \in map : c.view < target /\ c.seq = x.seq /\ c.digest = x.digest /\ Verify(c)
    BY <2>1 DEF Top
  <2>3. C # {}
    BY <2>1, <2>2 DEF Candidates
  <2>4. V \in SUBSET Nat /\ V # {} /\ \A v \in V : v <= target
    BY <1>1, <2>3
  <2>5. PICK v \in V : \A w \in V : w <= v
    <3> HIDE DEF V
    <3>1. QED
      BY <2>4, HighestView
  <2>6. PICK c \in C : v = c.view
    OBVIOUS
  <2>7. \A d \in C : d.view <= c.view
    BY <2>5, <2>6
  <2>8. c \in Selected(map, target, sup)
    BY <1>2, <2>6, <2>7 DEF Selected
  <2>9. QED
    BY <2>8
<1>3. nv.view = target /\ nv.votes = sup /\ nv.selected = Selected(map, target, sup)
  BY DEF NewView
<1>4. \A c \in Selected(map, target, sup) :
          /\ Verify(c) /\ c.view < target
          /\ \E x \in Top(sup) : c.seq = x.seq /\ c.digest = x.digest
  BY DEF Selected, Candidates
<1>5. HasQuorum(sup) => VerifyNewView(nv)
  <2> HIDE DEF nv, C, V
  <2>1. QED
    BY <1>2, <1>3, <1>4 DEF VerifyNewView, HasQuorum
<1>6. QED
  BY <1>5 DEF ViewChangeSettles
=============================================================================
