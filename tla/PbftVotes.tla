----------------------------- MODULE PbftVotes -----------------------------
(***************************************************************************)
(* The data of rust_engine/src/pbft.rs that a replica and the cluster      *)
(* share: messages, slots, votes, certificates and the evidence of a view  *)
(* change.  Votes are kept as the set of messages that carried them, and a *)
(* map keyed by (view, seq) as a set with at most one element per key.     *)
(*                                                                         *)
(* A signature is the sender it authenticates.  Every registered key comes *)
(* from one sharing polynomial, so a certificate verifies exactly when it  *)
(* holds a quorum of distinct signers.                                     *)
(***************************************************************************)
EXTENDS Integers, FiniteSets

CONSTANTS
    F,        \* tolerated faults; total_nodes is 3F + 1 (TOPOLOGY_VIOLATION otherwise)
    Digests   \* payload digests

N      == 3 * F + 1
Nodes  == 0 .. (N - 1)

\* Mutant: one vote too few.
QuorumTwoF == 2 * F

Quorum == 2 * F + 1

Phases   == {"PrePrepare", "Prepare", "Commit", "ViewChange", "Checkpoint"}
Slots    == [view : Nat, seq : Nat, digest : Digests]
Messages == [phase : Phases, view : Nat, seq : Nat, digest : Digests, sender : Nodes]
Certificates == [view : Nat, seq : Nat, digest : Digests, signatures : SUBSET Nodes]
NewViews     == [view : Nat, votes : SUBSET Messages, selected : SUBSET Certificates]

-----------------------------------------------------------------------------
(* Slots, votes and certificates *)

Leader(v) == v % N

Higher(a, b) == IF a >= b THEN a ELSE b

Slot(m)        == [view |-> m.view, seq |-> m.seq, digest |-> m.digest]
SamePlace(x, y) == x.view = y.view /\ x.seq = y.seq
SameSlot(x, y)  == SamePlace(x, y) /\ x.digest = y.digest

\* The signers filed under the (view, seq, digest) of m.
Voters(ballots, m) == {x.sender : x \in {y \in ballots : SameSlot(y, m)}}

Certificate(ballots, m) ==
    [view |-> m.view, seq |-> m.seq, digest |-> m.digest, signatures |-> Voters(ballots, m)]

Verify(cert) == Cardinality(cert.signatures) >= Quorum

\* Mutant: the map keeps the certificate it should replace.
PutBeside(map, cert) == map \cup {cert}

\* HashMap::insert on a map keyed by (view, seq).
Put(map, cert) == {c \in map : ~SamePlace(c, cert)} \cup {cert}

Certified(map, m) == \E c \in map : SameSlot(c, m) /\ Verify(c)

\* retain(|(_, s, _)| s > seq)
Above(S, seq) == {x \in S : x.seq > seq}

-----------------------------------------------------------------------------
(* View-change evidence *)

\* Mutant: a sender's votes for one target add up.
PutVoteBeside(ballots, m) == ballots \cup {m}

\* view_change_votes[target][sender] = vote: a later vote replaces an earlier one.
PutVote(ballots, m) == {x \in ballots : x.view # m.view \/ x.sender # m.sender} \cup {m}

Supporters(ballots, target) == {x \in ballots : x.view = target}

\* The supporting votes that report the highest sequence number.
Top(sup) == {x \in sup : \A y \in sup : y.seq <= x.seq}

\* highest_view_change_slot finds one digest; sequence zero carries none.
Unambiguous(sup) == \A x, y \in Top(sup) : x.seq > 0 => x.digest = y.digest

ReportsPrepared(sup) == \E x \in Top(sup) : x.seq > 0

Candidates(map, target, sup) ==
    {c \in map : /\ c.view < target
                 /\ \E x \in Top(sup) : c.seq = x.seq /\ c.digest = x.digest
                 /\ Verify(c)}

\* select_highest_prepared_certificate, as a set with at most one element.
\* The map has one certificate per (view, seq), so views never tie.
Selected(map, target, sup) ==
    IF ReportsPrepared(sup)
    THEN {c \in Candidates(map, target, sup) :
             \A d \in Candidates(map, target, sup) : d.view <= c.view}
    ELSE {}

NewView(map, target, sup) ==
    [view |-> target, votes |-> sup, selected |-> Selected(map, target, sup)]

\* NewViewCertificate::verify; every recorded vote carries a verified signature.
VerifyNewView(nv) ==
    /\ Cardinality({x.sender : x \in nv.votes}) >= Quorum
    /\ Unambiguous(nv.votes)
    /\ \A c \in nv.selected :
          /\ Verify(c)
          /\ c.view < nv.view
          /\ \E x \in Top(nv.votes) : c.seq = x.seq /\ c.digest = x.digest
    /\ ReportsPrepared(nv.votes) => nv.selected # {}

PutNewView(map, nv) == {x \in map : x.view # nv.view} \cup {nv}

HasQuorum(sup) == Cardinality({x.sender : x \in sup}) >= Quorum

\* Either the vote is only recorded, or it completes a quorum whose evidence verifies.
ViewChangeSettles(map, target, sup) ==
    HasQuorum(sup) => VerifyNewView(NewView(map, target, sup))

=============================================================================
