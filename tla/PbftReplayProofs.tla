-------------------------- MODULE PbftReplayProofs --------------------------
(***************************************************************************)
(* Theorems about the replay of PbftReplica, from the invariants of        *)
(* PbftReplicaProofs and PbftRecoveryProofs: a log is refused only for a   *)
(* reason found in the log, and recovery neither falls behind the          *)
(* interrupted state nor runs ahead of it.                                 *)
(***************************************************************************)
EXTENDS PbftRecoveryProofs

-----------------------------------------------------------------------------
(* Order in the log.  Every record is preceded by what the handler asked for when it      *)
(* accepted the message; compaction keeps both or drops both, because a record and its    *)
(* prerequisites are of one sequence number.                                              *)

Proposed(L, m) == \E x \in L : x.phase = "PrePrepare" /\ SameSlot(x, m)

QuorumOf(L, phase, m) == Cardinality(Voters({x \in L : x.phase = phase}, m)) >= Quorum

\* What the messages L must hold for m to be accepted after them.
Justified(L, m) ==
    /\ m.phase = "PrePrepare" => m.sender = Leader(m.view)
    /\ m.phase = "Prepare" => Proposed(L, m)
    /\ m.phase = "Commit" => Proposed(L, m) /\ QuorumOf(L, "Prepare", m)
    /\ m.phase = "ViewChange" /\ m.seq > 0 =>
          \E s \in Slots : /\ s.view < m.view /\ s.seq = m.seq /\ s.digest = m.digest
                           /\ QuorumOf(L, "Prepare", s)

\* The messages of the records in front of r.
Prior(S, r) == Logged({q \in S : q.at < r.at})

InOrder(S) == \A r \in S : Justified(Prior(S, r), r.msg)

\* Memory holds nothing the log does not hold.
MemoryLogged ==
    mode \in {"live", "failed", "replay"} =>
        /\ \A p \in pre_prepared_proposals : Proposed(Logged(wal), p)
        /\ \A x \in prepare_votes : x.phase = "Prepare" /\ x \in Logged(wal)
        /\ \A x \in commit_votes : x.phase = "Commit" /\ x \in Logged(wal)

PreparesCertified ==
    \A x \in prepare_votes :
        Verify(Certificate(prepare_votes, x)) => \E c \in prepared_certificates : SameSlot(c, x)

PreparesReplayed ==
    mode = "replay" => \A r \in wal :
        r.at <= cursor /\ r.msg.phase = "Prepare" => r.msg \in prepare_votes

VotesCertified ==
    mode = "replay" => \A x \in view_change_votes :
        x.seq > 0 => \E c \in prepared_certificates :
                         c.view < x.view /\ c.seq = x.seq /\ c.digest = x.digest

ReplayInv ==
    /\ InOrder(wal) /\ MemoryLogged
    /\ PreparesCertified /\ PreparesReplayed /\ VotesCertified

\* A quorum of registered signers has a signer.
LEMMA QuorumSigned ==
    ASSUME NEW A, Cardinality(A) >= Quorum PROVE A # {}
  BY FS_EmptySet, ReplicaAssumption DEF Quorum

\* More messages hold a larger quorum.
LEMMA QuorumOfGrows ==
    ASSUME NEW L, NEW K \in SUBSET Messages, NEW phase, NEW m,
           Voters({x \in L : x.phase = phase}, m) \subseteq Voters({x \in K : x.phase = phase}, m),
           QuorumOf(L, phase, m)
    PROVE  QuorumOf(K, phase, m)
<1>1. Voters({x \in K : x.phase = phase}, m) \in SUBSET Nodes
  BY VotersType
<1>2. QED
  BY <1>1, QuorumGrows DEF QuorumOf

\* Appending a justified message keeps the order: it comes after everything.
LEMMA AppendInOrder ==
    ASSUME TypeOK, OffsetsOk, InOrder(wal), NEW m, Justified(Logged(wal), m)
    PROVE  InOrder(WithRecord(m))
<1> DEFINE new == [at |-> appended + 1, msg |-> m]
<1>1. /\ new.at = appended + 1 /\ new.msg = m /\ WithRecord(m) = wal \cup {new}
      /\ appended \in Nat
  BY DEF WithRecord, TypeOK
<1> HIDE DEF new
<1>2. \A r \in wal : r.at \in Nat /\ r.at <= appended
  BY DEF OffsetsOk, TypeOK
<1>3. ASSUME NEW r \in WithRecord(m) PROVE Justified(Prior(WithRecord(m), r), r.msg)
  <2>1. CASE r \in wal
    <3>1. {q \in WithRecord(m) : q.at < r.at} = {q \in wal : q.at < r.at}
      BY <1>1, <1>2, <2>1
    <3>2. QED
      BY <2>1, <3>1 DEF InOrder, Prior
  <2>2. CASE r = new
    <3>1. {q \in WithRecord(m) : q.at < r.at} = wal
      BY <1>1, <1>2, <2>2
    <3>2. QED
      BY <1>1, <2>2, <3>1 DEF Prior
  <2>3. QED
    BY <1>1, <1>3, <2>1, <2>2
<1>4. QED
  BY <1>3 DEF InOrder

\* Compaction keeps the prerequisites of every record it keeps.
LEMMA PruneInOrder ==
    ASSUME NEW S \in SUBSET [at : Nat, msg : Messages], NEW seq \in Nat, InOrder(S)
    PROVE  InOrder(Pruned(S, seq))
<1> SUFFICES ASSUME NEW r \in Pruned(S, seq)
             PROVE  Justified(Prior(Pruned(S, seq), r), r.msg)
  BY DEF InOrder
<1> DEFINE L == Prior(S, r)
           K == Prior(Pruned(S, seq), r)
<1>1. r \in S /\ r.msg.seq >= seq /\ Justified(L, r.msg)
  BY DEF Pruned, InOrder
<1>2. L \in SUBSET Messages /\ K \in SUBSET Messages /\ \A x \in L : x.seq >= seq => x \in K
  BY DEF Prior, Logged, Pruned
<1> HIDE DEF L, K
<1>3. ASSUME NEW s, s.seq >= seq, Proposed(L, s) PROVE Proposed(K, s)
  BY <1>2, <1>3 DEF Proposed, SameSlot, SamePlace
<1>4. ASSUME NEW s, s.seq >= seq, QuorumOf(L, "Prepare", s) PROVE QuorumOf(K, "Prepare", s)
  <2>1. Voters({x \in L : x.phase = "Prepare"}, s) \subseteq Voters({x \in K : x.phase = "Prepare"}, s)
    BY <1>2, <1>4 DEF Voters, SameSlot, SamePlace
  <2>2. QED
    BY <1>2, <1>4, <2>1, QuorumOfGrows
<1>5. Justified(K, r.msg)
  BY <1>1, <1>3, <1>4 DEF Justified
<1>6. QED
  BY <1>5 DEF K

\* The votes of a certificate in memory are in the log.
LEMMA CertificateLogged ==
    ASSUME TypeOK, BackedInv, MemoryLogged, mode \in {"live", "failed", "replay"}
    PROVE  /\ \A c \in prepared_certificates : QuorumOf(Logged(wal), "Prepare", c)
           /\ \A c \in commit_certificates : QuorumOf(Logged(wal), "Commit", c)
<1>1. Logged(wal) \in SUBSET Messages
  BY LoggedType DEF TypeOK
<1>2. ASSUME NEW c \in prepared_certificates PROVE QuorumOf(Logged(wal), "Prepare", c)
  <2>1. c.signatures \subseteq Voters({x \in Logged(wal) : x.phase = "Prepare"}, c)
    BY DEF BackedInv, CertificatesBacked, MemoryLogged, Voters
  <2>2. Voters({x \in Logged(wal) : x.phase = "Prepare"}, c) \in SUBSET Nodes
    BY <1>1, VotersType
  <2>3. Cardinality(c.signatures) >= Quorum
    BY DEF BackedInv, CertificatesBacked, Verify
  <2>4. QED
    BY <2>1, <2>2, <2>3, QuorumGrows DEF QuorumOf
<1>3. ASSUME NEW c \in commit_certificates PROVE QuorumOf(Logged(wal), "Commit", c)
  <2>1. c.signatures \subseteq Voters({x \in Logged(wal) : x.phase = "Commit"}, c)
    BY DEF BackedInv, CertificatesBacked, MemoryLogged, Voters
  <2>2. Voters({x \in Logged(wal) : x.phase = "Commit"}, c) \in SUBSET Nodes
    BY <1>1, VotersType
  <2>3. Cardinality(c.signatures) >= Quorum
    BY DEF BackedInv, CertificatesBacked, Verify
  <2>4. QED
    BY <2>1, <2>2, <2>3, QuorumGrows DEF QuorumOf
<1>4. QED
  BY <1>2, <1>3

\* What the handler accepts, the log justifies.
LEMMA AcceptedJustified ==
    ASSUME TypeOK, BackedInv, VoteInv, MemoryLogged, mode = "live",
           NEW m \in Messages, Accepts(m)
    PROVE  Justified(Logged(wal), m)
<1>1. ASSUME Slot(m) \in pre_prepared_proposals PROVE Proposed(Logged(wal), m)
  <2>1. Proposed(Logged(wal), Slot(m))
    BY <1>1 DEF MemoryLogged
  <2>2. QED
    BY <2>1 DEF Proposed, SameSlot, SamePlace, Slot
<1>2. \A c \in prepared_certificates : QuorumOf(Logged(wal), "Prepare", c)
  BY CertificateLogged
<1>3. CASE m.phase \in {"PrePrepare", "Prepare", "Checkpoint"}
  BY <1>1, <1>3 DEF Accepts, PrePrepareOk, PrepareOk, Justified
<1>4. CASE m.phase = "Commit"
  <2>1. Slot(m) \in pre_prepared_proposals /\ Certified(prepared_certificates, m)
    BY <1>4 DEF Accepts, CommitOk
  <2>2. PICK c \in prepared_certificates : SameSlot(c, m)
    BY <2>1 DEF Certified
  <2>3. Voters({x \in Logged(wal) : x.phase = "Prepare"}, c)
            = Voters({x \in Logged(wal) : x.phase = "Prepare"}, m)
    BY <2>2 DEF Voters, SameSlot, SamePlace
  <2>4. QuorumOf(Logged(wal), "Prepare", m)
    BY <1>2, <2>3 DEF QuorumOf
  <2>5. QED
    BY <1>1, <1>4, <2>1, <2>4 DEF Justified
<1>5. CASE m.phase = "ViewChange"
  <2>1. SUFFICES ASSUME m.seq > 0
                 PROVE  \E s \in Slots :
                            /\ s.view < m.view /\ s.seq = m.seq /\ s.digest = m.digest
                            /\ QuorumOf(Logged(wal), "Prepare", s)
    BY <1>5 DEF Justified
  <2>2. /\ m.view > current_view
        /\ \E c \in prepared_certificates : c.seq = m.seq /\ c.digest = m.digest
    BY <1>5, <2>1 DEF Accepts, ViewChangeOk
  <2>3. PICK c \in prepared_certificates : c.seq = m.seq /\ c.digest = m.digest
    BY <2>2
  <2>4. Slot(c) \in Slots /\ c.view < m.view
    BY <2>2 DEF Slot, Slots, TypeOK, Certificates, Messages, VoteInv
  <2>5. Voters({x \in Logged(wal) : x.phase = "Prepare"}, c)
            = Voters({x \in Logged(wal) : x.phase = "Prepare"}, Slot(c))
    BY DEF Voters, SameSlot, SamePlace, Slot
  <2>6. QuorumOf(Logged(wal), "Prepare", Slot(c))
    BY <1>2, <2>5 DEF QuorumOf
  <2>7. Slot(c).view < m.view /\ Slot(c).seq = m.seq /\ Slot(c).digest = m.digest
    BY <2>3, <2>4 DEF Slot
  <2>8. QED
    BY <2>4, <2>6, <2>7
<1>6. QED
  BY <1>3, <1>4, <1>5 DEF Accepts

\* What a step does to the log: nothing, the append of an accepted message, or the
\* compaction after a checkpoint.
LEMMA DiskStep ==
    ASSUME [Next]_vars
    PROVE  \/ wal' = wal
           \/ \E m \in Inputs :
                 /\ mode = "live" /\ Accepts(m)
                 /\ wal' \in {WithRecord(m), Pruned(WithRecord(m), m.seq)}
<1>1. ASSUME NEW m \in Inputs, Handle(m)
      PROVE  /\ mode = "live" /\ Accepts(m)
             /\ wal' \in {WithRecord(m), Pruned(WithRecord(m), m.seq)}
  BY <1>1
     DEF Handle, HandlePrePrepare, HandlePrepare, HandleCommit, HandleViewChange,
         HandleCheckpointVote, HandleStableCheckpoint, Receives, Accepts, Durably
<1>2. ASSUME NEW m \in Inputs, Fault(m)
      PROVE  \/ wal' = wal
             \/ /\ mode = "live" /\ Accepts(m)
                /\ wal' \in {WithRecord(m), Pruned(WithRecord(m), m.seq)}
  BY <1>2
     DEF Fault, AppendFails, PruneFails, CrashInAppend, CrashInPrune, Receives, Interrupted,
         Accepts, disk
<1>3. CASE Crash \/ CrashInReplay \/ Restart \/ RefuseReplay \/ FinishReplay \/ UNCHANGED vars
  BY <1>3 DEF Crash, CrashInReplay, Restart, RefuseReplay, FinishReplay, vars, disk
<1>4. ASSUME NEW r \in wal, ReplayRecord(r) PROVE wal' = wal
  BY <1>4
     DEF ReplayRecord, ReplayPrePrepare, ReplayPrepare, ReplayCommit, ReplayViewChange,
         ReplayCheckpoint, Advance, disk
<1>5. QED
  BY <1>1, <1>2, <1>3, <1>4 DEF Next, Replay

\* Every step keeps the log in order.
LEMMA NextInOrder ==
    ASSUME TypeOK, BackedInv, LogInv, VoteInv, ReplayInv, [Next]_vars PROVE InOrder(wal')
<1>1. CASE wal' = wal
  BY <1>1 DEF ReplayInv
<1>2. ASSUME NEW m \in Inputs, mode = "live", Accepts(m),
             wal' \in {WithRecord(m), Pruned(WithRecord(m), m.seq)}
      PROVE  InOrder(wal')
  <2>1. m \in Messages /\ m.seq \in Nat
    BY InputType DEF Messages
  <2>2. Justified(Logged(wal), m)
    BY <1>2, <2>1, AcceptedJustified DEF ReplayInv
  <2>3. InOrder(WithRecord(m))
    BY <2>2, AppendInOrder DEF ReplayInv, LogInv
  <2>4. WithRecord(m) \in SUBSET [at : Nat, msg : Messages]
    BY <2>1 DEF WithRecord, TypeOK
  <2>5. QED
    BY <1>2, <2>1, <2>3, <2>4, PruneInOrder
<1>3. QED
  BY <1>1, <1>2, DiskStep

\* A step whose log holds what memory still holds, and all that memory files.
LEMMA MemoryStep ==
    ASSUME MemoryLogged, mode \in {"live", "failed", "replay"},
           \A p \in pre_prepared_proposals' :
               \/ \E x \in Logged(wal') : x.phase = "PrePrepare" /\ Slot(x) = p
               \/ /\ p \in pre_prepared_proposals
                  /\ \A x \in Logged(wal) : SamePlace(x, p) => x \in Logged(wal'),
           \A x \in prepare_votes' :
               /\ x \in prepare_votes \/ x.phase = "Prepare"
               /\ x \in Logged(wal) => x \in Logged(wal')
               /\ x \in prepare_votes \/ x \in Logged(wal'),
           \A x \in commit_votes' :
               /\ x \in commit_votes \/ x.phase = "Commit"
               /\ x \in Logged(wal) => x \in Logged(wal')
               /\ x \in commit_votes \/ x \in Logged(wal')
    PROVE  MemoryLogged'
<1>1. ASSUME NEW p \in pre_prepared_proposals' PROVE Proposed(Logged(wal'), p)
  <2>1. CASE \E x \in Logged(wal') : x.phase = "PrePrepare" /\ Slot(x) = p
    BY <2>1 DEF Proposed, SameSlot, SamePlace, Slot
  <2>2. CASE /\ p \in pre_prepared_proposals
             /\ \A x \in Logged(wal) : SamePlace(x, p) => x \in Logged(wal')
    BY <2>2 DEF MemoryLogged, Proposed, SameSlot
  <2>3. QED
    BY <2>1, <2>2
<1>2. \A x \in prepare_votes' : x.phase = "Prepare" /\ x \in Logged(wal')
  BY DEF MemoryLogged
<1>3. \A x \in commit_votes' : x.phase = "Commit" /\ x \in Logged(wal')
  BY DEF MemoryLogged
<1>4. QED
  BY <1>1, <1>2, <1>3 DEF MemoryLogged

\* Every step keeps memory within the log.
LEMMA NextMemory ==
    ASSUME TypeOK, MemoryLogged, [Next]_vars PROVE MemoryLogged'
<1>1. ASSUME NEW m \in Inputs, Handle(m), ~HandleStableCheckpoint(m) PROVE MemoryLogged'
  <2>1. /\ mode = "live" /\ wal' = WithRecord(m)
        /\ \A p \in pre_prepared_proposals' :
              p \in pre_prepared_proposals \/ (m.phase = "PrePrepare" /\ p = Slot(m))
        /\ \A x \in prepare_votes' : x \in prepare_votes \/ (m.phase = "Prepare" /\ x = m)
        /\ \A x \in commit_votes' : x \in commit_votes \/ (m.phase = "Commit" /\ x = m)
    BY <1>1
       DEF Handle, HandlePrePrepare, HandlePrepare, HandleCommit, HandleViewChange,
           HandleCheckpointVote, Receives, Durably, RecordPrepare, RecordCommit, votes
  <2>2. Logged(wal') = Logged(wal) \cup {m}
    BY <2>1, LoggedWithRecord
  <2>3. QED
    BY <2>1, <2>2, MemoryStep
<1>2. ASSUME NEW m \in Inputs, HandleStableCheckpoint(m) \/ PruneFails(m) PROVE MemoryLogged'
  <2>1. /\ mode = "live"
        /\ pre_prepared_proposals' = Above(pre_prepared_proposals, m.seq)
        /\ prepare_votes' = Above(prepare_votes, m.seq)
        /\ commit_votes' = Above(commit_votes, m.seq)
        /\ wal' \in {WithRecord(m), Pruned(WithRecord(m), m.seq)}
    BY <1>2 DEF HandleStableCheckpoint, PruneFails, Receives, Stabilize, ForgetUpTo
  <2>2. /\ m.seq \in Nat /\ \A x \in Logged(wal) : x.seq \in Nat
    BY InputType, LoggedType DEF TypeOK, Messages
  <2>3. \A x \in Logged(wal) : x.seq > m.seq => x \in Logged(wal')
    BY <2>1, <2>2 DEF WithRecord, Pruned, Logged
  <2>4. QED
    BY <2>1, <2>3, MemoryStep DEF MemoryLogged, Above, SamePlace
<1>3. ASSUME NEW m \in Inputs, AppendFails(m) PROVE MemoryLogged'
  <2>1. /\ mode = "live" /\ wal' \in {wal, WithRecord(m)}
        /\ UNCHANGED <<pre_prepared_proposals, prepare_votes, commit_votes>>
    BY <1>3 DEF AppendFails, Receives, Interrupted, disk, memory, votes
  <2>2. Logged(wal) \subseteq Logged(wal')
    BY <2>1, LoggedWithRecord
  <2>3. QED
    BY <2>1, <2>2, MemoryStep
<1>4. ASSUME NEW m \in Inputs, CrashInAppend(m) \/ CrashInPrune(m) PROVE MemoryLogged'
  BY <1>4 DEF CrashInAppend, CrashInPrune, Dies, MemoryLogged
<1>5. CASE Crash \/ CrashInReplay \/ RefuseReplay
  BY <1>5 DEF Crash, CrashInReplay, RefuseReplay, Dies, MemoryLogged
<1>6. CASE Restart
  BY <1>6 DEF Restart, MemoryLogged
<1>7. ASSUME NEW r \in wal, ReplayRecord(r) PROVE MemoryLogged'
  <2>1. /\ mode = "replay" /\ wal' = wal /\ r.msg \in Logged(wal)
        /\ \A p \in pre_prepared_proposals' :
              \/ p \in pre_prepared_proposals
              \/ r.msg.phase = "PrePrepare" /\ p = Slot(r.msg)
        /\ \A x \in prepare_votes' :
              x \in prepare_votes \/ (r.msg.phase = "Prepare" /\ x = r.msg)
        /\ \A x \in commit_votes' :
              x \in commit_votes \/ (r.msg.phase = "Commit" /\ x = r.msg)
    BY <1>7
       DEF ReplayRecord, ReplayPrePrepare, ReplayPrepare, ReplayCommit, ReplayViewChange,
           ReplayCheckpoint, Reads, Advance, disk, RecordPrepare, RecordCommit, votes, Logged
  <2>2. QED
    BY <2>1, MemoryStep
<1>8. CASE FinishReplay
  <2>1. /\ mode = "replay" /\ wal' = wal
        /\ pre_prepared_proposals' \subseteq pre_prepared_proposals
        /\ prepare_votes' \subseteq prepare_votes /\ commit_votes' \subseteq commit_votes
    BY <1>8 DEF FinishReplay, ForgetUpTo, Above, disk, votes
  <2>2. QED
    BY <2>1, MemoryStep DEF MemoryLogged
<1>9. CASE UNCHANGED vars
  BY <1>9 DEF vars, memory, votes, disk, process, MemoryLogged
<1>10. QED
  BY <1>1, <1>2, <1>3, <1>4, <1>5, <1>6, <1>7, <1>8, <1>9
     DEF Next, Handle, Fault, Replay

\* A prepare vote that is filed: a certificate it replaces is of the same slot.
LEMMA RecordPrepareCertifies ==
    ASSUME BackedInv, PreparesCertified, NEW m,
           Slot(m) \in pre_prepared_proposals, RecordPrepare(m)
    PROVE  PreparesCertified'
<1> DEFINE cert == Certificate(prepare_votes', m)
<1>1. /\ prepare_votes' = prepare_votes \cup {m}
      /\ prepared_certificates' = IF Verify(cert) THEN Put(prepared_certificates, cert)
                                                  ELSE prepared_certificates
      /\ cert.view = m.view /\ cert.seq = m.seq /\ cert.digest = m.digest
  BY DEF RecordPrepare, Certificate
<1>2. SUFFICES ASSUME NEW x \in prepare_votes', Verify(Certificate(prepare_votes', x))
               PROVE  \E c \in prepared_certificates' : SameSlot(c, x)
  BY DEF PreparesCertified
<1>3. CASE SameSlot(x, m)
  <2>1. Voters(prepare_votes', x) = Voters(prepare_votes', m)
    BY <1>3 DEF Voters, SameSlot, SamePlace
  <2>2. Verify(cert)
    BY <1>2, <2>1 DEF Verify, Certificate
  <2>3. cert \in prepared_certificates' /\ SameSlot(cert, x)
    BY <1>1, <1>3, <2>2 DEF Put, SameSlot, SamePlace
  <2>4. QED
    BY <2>3
<1>4. CASE ~SameSlot(x, m)
  <2>1. x \in prepare_votes /\ Voters(prepare_votes', x) = Voters(prepare_votes, x)
    BY <1>1, <1>4 DEF Voters, SameSlot, SamePlace
  <2>2. PICK c \in prepared_certificates : SameSlot(c, x)
    BY <1>2, <2>1 DEF PreparesCertified, Verify, Certificate
  <2>3. PICK d \in prepared_certificates' : SameSlot(d, c)
    BY PrepareKeepsSlots
  <2>4. QED
    BY <2>2, <2>3 DEF SameSlot, SamePlace
<1>5. QED
  BY <1>3, <1>4

\* Steps that leave prepare votes and certificates alone, or forget both alike.
LEMMA PreparesForgotten ==
    ASSUME PreparesCertified, NEW seq,
           \/ UNCHANGED <<prepare_votes, prepared_certificates>>
           \/ /\ prepare_votes' = Above(prepare_votes, seq)
              /\ prepared_certificates' = Above(prepared_certificates, seq)
    PROVE  PreparesCertified'
<1>1. CASE UNCHANGED <<prepare_votes, prepared_certificates>>
  BY <1>1 DEF PreparesCertified, Verify, Certificate, Voters
<1>2. CASE /\ prepare_votes' = Above(prepare_votes, seq)
           /\ prepared_certificates' = Above(prepared_certificates, seq)
  <2>1. SUFFICES ASSUME NEW x \in prepare_votes', Verify(Certificate(prepare_votes', x))
                 PROVE  \E c \in prepared_certificates' : SameSlot(c, x)
    BY DEF PreparesCertified
  <2>2. /\ x \in prepare_votes /\ x.seq > seq
        /\ Voters(prepare_votes', x) = Voters(prepare_votes, x)
    BY <1>2 DEF Above, Voters, SameSlot, SamePlace
  <2>3. PICK c \in prepared_certificates : SameSlot(c, x)
    BY <2>1, <2>2 DEF PreparesCertified, Verify, Certificate
  <2>4. QED
    BY <1>2, <2>2, <2>3 DEF Above, SameSlot, SamePlace
<1>3. QED
  BY <1>1, <1>2

\* One record of the replay: what was read is filed, and a vote keeps its certificate.
LEMMA ReplayFiles ==
    ASSUME TypeOK, BackedInv, LogInv, ReplayInv, NEW r \in wal, ReplayRecord(r)
    PROVE  PreparesCertified' /\ PreparesReplayed' /\ VotesCertified'
<1>1. /\ Reads(r) /\ mode = "replay" /\ mode' = "replay" /\ cursor' = r.at /\ wal' = wal
  BY DEF ReplayRecord, ReplayPrePrepare, ReplayPrepare, ReplayCommit, ReplayViewChange,
         ReplayCheckpoint, Reads, Advance, disk
<1>2. \A q \in wal : q.at <= r.at => q.at <= cursor \/ q = r
  BY <1>1 DEF Reads, LogInv, OffsetsOk, TypeOK
<1>3. \A x \in view_change_votes :
          x.seq > 0 => \E c \in prepared_certificates :
                           c.view < x.view /\ c.seq = x.seq /\ c.digest = x.digest
  BY <1>1 DEF ReplayInv, VotesCertified
<1>4. CASE ReplayPrepare(r)
  <2>1. /\ RecordPrepare(r.msg) /\ Slot(r.msg) \in pre_prepared_proposals
        /\ view_change_votes' = view_change_votes
        /\ prepare_votes' = prepare_votes \cup {r.msg}
    BY <1>4 DEF ReplayPrepare, ReplaysPrepare, RecordPrepare
  <2>2. PreparesCertified'
    BY <2>1, RecordPrepareCertifies DEF ReplayInv
  <2>3. PreparesReplayed'
    BY <1>1, <1>2, <2>1 DEF ReplayInv, PreparesReplayed
  <2>4. ASSUME NEW x \in view_change_votes', x.seq > 0
        PROVE  \E d \in prepared_certificates' :
                   d.view < x.view /\ d.seq = x.seq /\ d.digest = x.digest
    <3>1. PICK c \in prepared_certificates :
              c.view < x.view /\ c.seq = x.seq /\ c.digest = x.digest
      BY <1>3, <2>1, <2>4
    <3>2. PICK d \in prepared_certificates' : SameSlot(d, c)
      BY <2>1, PrepareKeepsSlots
    <3>3. QED
      BY <3>1, <3>2 DEF SameSlot, SamePlace
  <2>5. QED
    BY <2>2, <2>3, <2>4 DEF VotesCertified
<1>5. CASE ~ReplayPrepare(r)
  <2>1. /\ UNCHANGED <<prepare_votes, prepared_certificates>>
        /\ r.msg.phase # "Prepare"
        /\ \A x \in view_change_votes' :
              \/ x \in view_change_votes
              \/ x.seq > 0 => \E c \in prepared_certificates :
                                 c.view < x.view /\ c.seq = x.seq /\ c.digest = x.digest
    BY <1>5
       DEF ReplayRecord, ReplayPrePrepare, ReplayCommit, ReplayViewChange, ReplayCheckpoint,
           ReplaysViewChange, RecordViewChange, PutVote, votes, certs
  <2>2. PreparesCertified'
    BY <2>1, PreparesForgotten DEF ReplayInv
  <2>3. PreparesReplayed'
    BY <1>1, <1>2, <2>1 DEF ReplayInv, PreparesReplayed
  <2>4. VotesCertified'
    BY <1>3, <2>1 DEF VotesCertified
  <2>5. QED
    BY <2>2, <2>3, <2>4
<1>6. QED
  BY <1>4, <1>5

\* Every step keeps the order of the log and what a replay has filed.
LEMMA NextReplay ==
    ASSUME TypeOK, BackedInv, LogInv, VoteInv, ReplayInv, [Next]_vars PROVE ReplayInv'
<1>1. InOrder(wal') /\ MemoryLogged'
  BY NextInOrder, NextMemory DEF ReplayInv
<1>2. SUFFICES PreparesCertified' /\ PreparesReplayed' /\ VotesCertified'
  BY <1>1 DEF ReplayInv, InOrder, Prior
<1>3. ASSUME NEW m \in Inputs, HandlePrepare(m)
      PROVE  PreparesCertified' /\ mode' # "replay"
  BY <1>3, RecordPrepareCertifies
     DEF HandlePrepare, PrepareOk, Receives, Durably, process, ReplayInv
<1>4. ASSUME NEW m \in Inputs, Handle(m), ~HandlePrepare(m)
      PROVE  PreparesCertified' /\ mode' # "replay"
  <2>1. /\ mode' = mode /\ mode = "live"
        /\ \/ UNCHANGED <<prepare_votes, prepared_certificates>>
           \/ /\ prepare_votes' = Above(prepare_votes, m.seq)
              /\ prepared_certificates' = Above(prepared_certificates, m.seq)
    BY <1>4
       DEF Handle, HandlePrePrepare, HandleCommit, HandleViewChange, HandleCheckpointVote,
           HandleStableCheckpoint, Stabilize, ForgetUpTo, Receives, Durably, process, votes,
           certs
  <2>2. QED
    BY <2>1, PreparesForgotten DEF ReplayInv
<1>5. ASSUME NEW m \in Inputs, Fault(m) PROVE PreparesCertified' /\ mode' # "replay"
  <2>1. /\ mode' # "replay"
        /\ \/ UNCHANGED <<prepare_votes, prepared_certificates>>
           \/ /\ prepare_votes' = Above(prepare_votes, m.seq)
              /\ prepared_certificates' = Above(prepared_certificates, m.seq)
    BY <1>5
       DEF Fault, AppendFails, PruneFails, CrashInAppend, CrashInPrune, Dies, Stabilize,
           ForgetUpTo, memory, votes, certs
  <2>2. QED
    BY <2>1, PreparesForgotten DEF ReplayInv
<1>6. CASE Crash \/ CrashInReplay \/ RefuseReplay
  <2>1. mode' # "replay" /\ UNCHANGED <<prepare_votes, prepared_certificates>>
    BY <1>6 DEF Crash, CrashInReplay, RefuseReplay, Dies, memory, votes, certs
  <2>2. QED
    BY <2>1, PreparesForgotten DEF ReplayInv, PreparesReplayed, VotesCertified
<1>7. CASE Restart
  <2>1. /\ prepare_votes' = {} /\ view_change_votes' = {} /\ cursor' = 0 /\ wal' = wal
    BY <1>7 DEF Restart, disk
  <2>2. \A r \in wal : ~(r.at <= 0)
    BY DEF LogInv, OffsetsOk, TypeOK
  <2>3. QED
    BY <2>1, <2>2 DEF PreparesCertified, PreparesReplayed, VotesCertified
<1>8. CASE FinishReplay
  <2>1. /\ mode' = "live"
        /\ \/ UNCHANGED <<prepare_votes, prepared_certificates>>
           \/ /\ prepare_votes' = Above(prepare_votes, last_stable_checkpoint)
              /\ prepared_certificates' = Above(prepared_certificates, last_stable_checkpoint)
    BY <1>8 DEF FinishReplay, ForgetUpTo, votes, certs
  <2>2. QED
    BY <2>1, PreparesForgotten DEF ReplayInv, PreparesReplayed, VotesCertified
<1>9. CASE UNCHANGED vars
  <2>1. UNCHANGED <<prepare_votes, prepared_certificates, view_change_votes, wal, mode, cursor>>
    BY <1>9 DEF vars, memory, votes, certs, disk, process
  <2>2. QED
    BY <2>1, PreparesForgotten DEF ReplayInv, PreparesReplayed, VotesCertified
<1>10. QED
  BY <1>3, <1>4, <1>5, <1>6, <1>7, <1>8, <1>9, ReplayFiles
     DEF Next, Handle, Replay, PreparesReplayed, VotesCertified

-----------------------------------------------------------------------------
(* Refusals.  What precedes the next record has been read, so its prerequisites are in    *)
(* memory; only a clash can stop the replay in front of the end.                          *)

\* A quorum of prepare votes that has been read is a certificate in memory.
LEMMA ReadQuorumCertified ==
    ASSUME TypeOK, BackedInv, ReplayInv, NEW L, NEW s,
           \A x \in L : x.phase = "Prepare" => x \in prepare_votes,
           QuorumOf(L, "Prepare", s)
    PROVE  \E c \in prepared_certificates : SameSlot(c, s) /\ Verify(c)
<1> DEFINE A == Voters({x \in L : x.phase = "Prepare"}, s)
<1>1. A \subseteq Voters(prepare_votes, s) /\ Voters(prepare_votes, s) \in SUBSET Nodes
  BY VotersType DEF Voters, TypeOK
<1>2. Cardinality(A) >= Quorum
  BY DEF QuorumOf
<1> HIDE DEF A
<1>3. Cardinality(Voters(prepare_votes, s)) >= Quorum
  BY <1>1, <1>2, QuorumGrows
<1>4. PICK x \in prepare_votes : SameSlot(x, s)
  BY <1>3, QuorumSigned DEF Voters
<1>5. Voters(prepare_votes, x) = Voters(prepare_votes, s)
  BY <1>4 DEF Voters, SameSlot, SamePlace
<1>6. Verify(Certificate(prepare_votes, x))
  BY <1>3, <1>5 DEF Verify, Certificate
<1>7. PICK c \in prepared_certificates : SameSlot(c, x)
  BY <1>6 DEF ReplayInv, PreparesCertified
<1>8. QED
  BY <1>4, <1>7 DEF SameSlot, SamePlace, BackedInv, CertificatesBacked

\* The replay closure rejects a record only when the log holds a clash.
LEMMA RefusedRecordClashes ==
    ASSUME TypeOK, BackedInv, LogInv, ViewInv, ReplayInv,
           NEW r \in wal, Reads(r), ~Replays(r.msg)
    PROVE  Conflicting
<1> DEFINE m == r.msg
           L == Prior(wal, r)
<1>1. /\ mode = "replay" /\ m \in Messages /\ m \in Logged(wal) /\ Justified(L, m)
  BY DEF Reads, TypeOK, Logged, ReplayInv, InOrder
<1>2. \A q \in wal : q.at < r.at => q.at <= cursor
  BY DEF Reads, TypeOK
<1>3. /\ \A x \in L : x.phase = "PrePrepare" => Slot(x) \in pre_prepared_proposals
      /\ \A x \in L : x.phase = "Prepare" => x \in prepare_votes
  BY <1>1, <1>2 DEF Prior, Logged, LogInv, ReplayLog, ReplayInv, PreparesReplayed
<1>4. Proposed(L, m) => Slot(m) \in pre_prepared_proposals
  <2>1. ASSUME NEW x \in L, x.phase = "PrePrepare", SameSlot(x, m)
        PROVE  Slot(m) \in pre_prepared_proposals
    <3>1. Slot(x) = Slot(m)
      BY <2>1 DEF Slot, SameSlot, SamePlace
    <3>2. QED
      BY <1>3, <2>1, <3>1
  <2>2. QED
    BY <2>1 DEF Proposed
<1> HIDE DEF L
<1>5. CASE m.phase = "PrePrepare"
  <2>1. m.sender = Leader(m.view)
    BY <1>1, <1>5 DEF Justified
  <2>2. PICK p \in pre_prepared_proposals : SamePlace(p, m) /\ p.digest # m.digest
    BY <1>5, <2>1 DEF Replays, ReplaysPrePrepare
  <2>3. PICK x \in Logged(wal) : x.phase = "PrePrepare" /\ SameSlot(x, p)
    BY <1>1 DEF ReplayInv, MemoryLogged, Proposed
  <2>4. Clash(x, m)
    BY <1>5, <2>2, <2>3 DEF Clash, SameSlot, SamePlace
  <2>5. QED
    BY <1>1, <2>4 DEF Conflicting
<1>6. CASE m.phase \in {"Prepare", "Checkpoint"}
  BY <1>1, <1>4, <1>6 DEF Replays, ReplaysPrepare, Justified
<1>7. CASE m.phase = "Commit"
  <2>1. Proposed(L, m) /\ QuorumOf(L, "Prepare", m)
    BY <1>1, <1>7 DEF Justified
  <2>2. Certified(prepared_certificates, m)
    BY <1>3, <2>1, ReadQuorumCertified DEF Certified
  <2>3. QED
    BY <1>4, <1>7, <2>1, <2>2 DEF Replays, ReplaysCommit
<1>8. CASE m.phase = "ViewChange"
  <2> DEFINE sup == Supporters(PutVote(view_change_votes, m), m.view)
  <2>1. m.seq > 0 => \E c \in prepared_certificates :
                         /\ c.view < m.view
                         /\ c.seq = m.seq /\ c.digest = m.digest /\ Verify(c)
    <3>1. ASSUME m.seq > 0
          PROVE  \E c \in prepared_certificates :
                     /\ c.view < m.view
                     /\ c.seq = m.seq /\ c.digest = m.digest /\ Verify(c)
      <4>1. PICK s \in Slots : /\ s.view < m.view /\ s.seq = m.seq /\ s.digest = m.digest
                               /\ QuorumOf(L, "Prepare", s)
        BY <1>1, <1>8, <3>1 DEF Justified
      <4>2. PICK c \in prepared_certificates : SameSlot(c, s) /\ Verify(c)
        BY <1>3, <4>1, ReadQuorumCertified
      <4>3. QED
        BY <4>1, <4>2 DEF SameSlot, SamePlace
    <3>2. QED
      BY <3>1
  <2>2. ~ViewChangeSettles(prepared_certificates, m.view, sup)
    BY <1>8, <2>1 DEF Replays, ReplaysViewChange
  <2>3. \A x \in sup : /\ x \in view_change_votes \/ x = m
                       /\ x.view = m.view
    BY DEF Supporters, PutVote
  <2>4. \A x \in sup : /\ x \in Messages /\ x \in Logged(wal) /\ x.phase = "ViewChange"
                       /\ x.view = m.view
    BY <1>1, <1>8, <2>3 DEF ViewInv, VotesTraced, TypeOK
  <2>5. \A x \in sup : x.seq > 0 =>
            \E c \in prepared_certificates :
                c.view < m.view /\ c.seq = x.seq /\ c.digest = x.digest /\ Verify(c)
    BY <1>1, <2>1, <2>3 DEF ReplayInv, VotesCertified, BackedInv, CertificatesBacked
  <2>6. m.view \in Nat /\ prepared_certificates \in SUBSET Certificates
    BY <1>1 DEF Messages, TypeOK
  <2> HIDE DEF sup
  <2>7. ~Unambiguous(sup)
    BY <2>2, <2>4, <2>5, <2>6, SettlesUnlessAmbiguous
  <2>8. PICK x \in Top(sup), y \in Top(sup) : x.seq > 0 /\ x.digest # y.digest
    BY <2>7 DEF Unambiguous
  <2>9. x.seq = y.seq /\ x \in sup /\ y \in sup
    BY <2>4, <2>8 DEF Top, Messages
  <2>10. Clash(x, y)
    BY <2>4, <2>8, <2>9 DEF Clash, SamePlace
  <2>11. QED
    BY <2>4, <2>9, <2>10 DEF Conflicting
<1>9. QED
  BY <1>1, <1>5, <1>6, <1>7, <1>8 DEF Messages, Phases

\* The invariants about memory, votes and the log together.
LEMMA ReplayInvariant ==
    Spec => [](TypeOK /\ BackedInv /\ LogInv /\ VoteInv /\ CommitInv /\ ViewInv /\ ReplayInv)
<1> DEFINE I == TypeOK /\ BackedInv /\ LogInv
           J == VoteInv /\ CommitInv /\ ViewInv /\ ReplayInv
<1>1. Init => J
  <2>1. ASSUME Init PROVE VoteInv /\ CommitInv
    BY <2>1 DEF Init, VoteInv, CommitInv, CommitsCertified, CommitsFiled, CommitsReplayed
  <2>2. ASSUME Init PROVE ViewInv
    BY <2>2 DEF Init, ViewInv, VotesTraced, ViewProved, Serving, Evidence
  <2>3. ASSUME Init PROVE ReplayInv
    BY <2>3
       DEF Init, ReplayInv, InOrder, MemoryLogged, PreparesCertified, PreparesReplayed,
           VotesCertified
  <2>4. QED
    BY <2>1, <2>2, <2>3
<1>2. I /\ J /\ I' /\ [Next]_vars => J'
  BY NextVotes, NextCommits, NextView, NextReplay
<1>3. QED
  BY <1>1, <1>2, LogInvariant, PTL DEF Spec

\* A restart is refused only for a torn tail or for two messages of the log that clash
\* (pbft.rs:420-429, 445-553, 574; wal.rs:145).
THEOREM RefusalsAlwaysExplained ==
    Spec => []RefusalsExplained
<1> DEFINE I == TypeOK /\ BackedInv /\ LogInv /\ VoteInv /\ CommitInv /\ ViewInv /\ ReplayInv
<1>1. Init => RefusalsExplained
  BY DEF Init, RefusalsExplained
<1>2. I /\ RefusalsExplained /\ [Next]_vars => RefusalsExplained'
  <2> SUFFICES ASSUME I, RefusalsExplained, [Next]_vars PROVE RefusalsExplained'
    OBVIOUS
  <2>1. CASE RefuseReplay
    <3>1. UNCHANGED <<wal, torn>>
      BY <2>1 DEF RefuseReplay, disk
    <3>2. torn \/ Conflicting
      BY <2>1, RefusedRecordClashes DEF RefuseReplay
    <3>3. QED
      BY <3>1, <3>2 DEF RefusalsExplained, Conflicting
  <2>2. CASE UNCHANGED vars
    BY <2>2 DEF vars, disk, process, RefusalsExplained, Conflicting
  <2>3. CASE ~RefuseReplay /\ Next
    <3>1. mode' # "refused"
      <4>1. ASSUME NEW m \in Inputs, Handle(m) \/ Fault(m) PROVE mode' # "refused"
        BY <4>1
           DEF Handle, HandlePrePrepare, HandlePrepare, HandleCommit, HandleViewChange,
               HandleCheckpointVote, HandleStableCheckpoint, Receives, Durably, process,
               Fault, AppendFails, PruneFails, CrashInAppend, CrashInPrune, Dies
      <4>2. ASSUME NEW r \in wal, ReplayRecord(r) PROVE mode' # "refused"
        BY <4>2
           DEF ReplayRecord, ReplayPrePrepare, ReplayPrepare, ReplayCommit, ReplayViewChange,
               ReplayCheckpoint, Reads, Advance
      <4>3. QED
        BY <2>3, <4>1, <4>2
           DEF Next, Replay, Crash, CrashInReplay, Dies, Restart, FinishReplay
    <3>2. QED
      BY <3>1 DEF RefusalsExplained
  <2>4. QED
    BY <2>1, <2>2, <2>3
<1>3. QED
  BY <1>1, <1>2, ReplayInvariant, PTL DEF Spec

-----------------------------------------------------------------------------
(* Views the log proves.  An ordinary record and a checkpoint quorum raise the view to    *)
(* their own, and so does a quorum of view-change votes, whose senders are all on file,   *)
(* each with the vote that replaced its earlier ones; so the log proves no view above the *)
(* current one.                                                                           *)

Bounded(S, view, ballots) ==
    /\ \A r \in S : r.msg.phase \in {"PrePrepare", "Prepare", "Commit"} => r.msg.view <= view
    /\ \A r \in S : r.msg.phase = "ViewChange" =>
          \E y \in ballots : y.view = r.msg.view /\ y.sender = r.msg.sender
    /\ \A v \in Nat : HasQuorum(Supporters(ballots, v)) => v <= view

CheckpointsBounded(L, view) ==
    \A c \in L : c.phase = "Checkpoint" /\ QuorumOf(L, "Checkpoint", c) => c.view <= view

BoundInv ==
    /\ mode = "live" =>
          /\ Bounded(wal, current_view, view_change_votes)
          /\ CheckpointsBounded(Logged(wal), current_view)
    /\ mode = "replay" =>
          /\ Bounded({r \in wal : r.at <= cursor}, current_view, view_change_votes)
          /\ \A c \in checkpoint_votes :
                Verify(Certificate(checkpoint_votes, c)) => c.view <= current_view

\* Bounded evidence proves no view above the bound.
LEMMA EvidenceBounded ==
    ASSUME NEW S \in SUBSET [at : Nat, msg : Messages], NEW view \in Nat,
           NEW ballots \in SUBSET Messages,
           Bounded(S, view, ballots), CheckpointsBounded(Logged(S), view),
           NEW v \in Nat, Evidence(Logged(S), v)
    PROVE  v <= view
<1>1. CASE v = 0
  BY <1>1
<1>2. CASE \E x \in Logged(S) : x.view = v /\ x.phase \in {"PrePrepare", "Prepare", "Commit"}
  BY <1>2 DEF Logged, Bounded
<1>3. CASE HasQuorum({x \in Logged(S) : x.phase = "ViewChange" /\ x.view = v})
  <2> DEFINE A == {x.sender : x \in {y \in Logged(S) : y.phase = "ViewChange" /\ y.view = v}}
             B == {x.sender : x \in Supporters(ballots, v)}
  <2>1. A \subseteq B
    BY DEF Logged, Bounded, Supporters
  <2>2. B \in SUBSET Nodes
    BY DEF Supporters, Messages
  <2>3. Cardinality(A) >= Quorum
    BY <1>3 DEF HasQuorum
  <2>4. Cardinality(B) >= Quorum
    <3> HIDE DEF A, B
    <3>1. QED
      BY <2>1, <2>2, <2>3, QuorumGrows
  <2>5. QED
    BY <2>4 DEF Bounded, HasQuorum
<1>4. CASE \E c \in Logged(S) :
              /\ c.phase = "Checkpoint" /\ c.view = v
              /\ Cardinality(Voters({x \in Logged(S) : x.phase = c.phase}, c)) >= Quorum
  BY <1>4 DEF CheckpointsBounded, QuorumOf
<1>5. QED
  BY <1>1, <1>2, <1>3, <1>4 DEF Evidence

\* A record of an ordinary message or a checkpoint.
LEMMA BoundedRecord ==
    ASSUME NEW S \in SUBSET [at : Nat, msg : Messages], NEW T, NEW m \in Messages,
           \A r \in T : r \in S \/ r.msg = m,
           NEW view \in Nat, NEW view2 \in Nat, view <= view2, NEW ballots,
           Bounded(S, view, ballots),
           m.phase # "ViewChange",
           m.phase \in {"PrePrepare", "Prepare", "Commit"} => m.view <= view2
    PROVE  Bounded(T, view2, ballots)
<1>1. \A r \in S : r.msg.view \in Nat
  BY DEF Messages
<1>2. QED
  BY <1>1 DEF Bounded

\* A record of a view-change vote.
LEMMA BoundedVote ==
    ASSUME NEW S \in SUBSET [at : Nat, msg : Messages], NEW T, NEW m \in Messages,
           \A r \in T : r \in S \/ r.msg = m,
           NEW view \in Nat, NEW view2 \in Nat, view <= view2, NEW ballots,
           Bounded(S, view, ballots), m.phase = "ViewChange",
           HasQuorum(Supporters(PutVote(ballots, m), m.view)) => m.view <= view2
    PROVE  Bounded(T, view2, PutVote(ballots, m))
<1>1. \A r \in S : r.msg.view \in Nat
  BY DEF Messages
<1>2. \A r \in T : r.msg.phase \in {"PrePrepare", "Prepare", "Commit"} => r.msg.view <= view2
  BY <1>1 DEF Bounded
<1>3. ASSUME NEW r \in T, r.msg.phase = "ViewChange"
      PROVE  \E y \in PutVote(ballots, m) : y.view = r.msg.view /\ y.sender = r.msg.sender
  BY <1>3 DEF Bounded, PutVote
<1>4. ASSUME NEW v \in Nat, HasQuorum(Supporters(PutVote(ballots, m), v)) PROVE v <= view2
  <2>1. CASE v = m.view
    BY <1>4, <2>1
  <2>2. CASE v # m.view
    <3>1. Supporters(PutVote(ballots, m), v) = Supporters(ballots, v)
      BY <2>2 DEF Supporters, PutVote
    <3>2. v <= view
      BY <1>4, <3>1 DEF Bounded
    <3>3. QED
      BY <3>2
  <2>3. QED
    BY <2>1, <2>2
<1>5. QED
  BY <1>2, <1>3, <1>4 DEF Bounded

\* A log with one more message, compacted or not.
LEMMA CheckpointRecord ==
    ASSUME NEW L \in SUBSET Messages, NEW K, NEW m \in Messages, K \subseteq L \cup {m},
           NEW view \in Nat, NEW view2 \in Nat, view <= view2,
           CheckpointsBounded(L, view),
           m.phase = "Checkpoint" => m.view <= view2
    PROVE  CheckpointsBounded(K, view2)
<1> SUFFICES ASSUME NEW c \in K, c.phase = "Checkpoint", QuorumOf(K, "Checkpoint", c)
             PROVE  c.view <= view2
  BY DEF CheckpointsBounded
<1>1. CASE m.phase = "Checkpoint" /\ SameSlot(m, c)
  BY <1>1 DEF SameSlot, SamePlace
<1>2. CASE ~(m.phase = "Checkpoint" /\ SameSlot(m, c))
  <2>1. c \in L /\ c.view \in Nat
    BY <1>2 DEF SameSlot, SamePlace, Messages
  <2>2. Voters({x \in K : x.phase = "Checkpoint"}, c)
            \subseteq Voters({x \in L : x.phase = "Checkpoint"}, c)
    BY <1>2 DEF Voters, SameSlot, SamePlace
  <2>3. QuorumOf(L, "Checkpoint", c)
    BY <2>2, QuorumOfGrows
  <2>4. QED
    BY <2>1, <2>3 DEF CheckpointsBounded
<1>3. QED
  BY <1>1, <1>2

\* One record of the replay.
LEMMA ReplayBounded ==
    ASSUME TypeOK, TypeOK', LogInv, BoundInv, NEW r \in wal, ReplayRecord(r)
    PROVE  BoundInv'
<1> DEFINE m == r.msg
           S == {q \in wal : q.at <= cursor}
           T == {q \in wal : q.at <= r.at}
<1>1. /\ Reads(r) /\ mode = "replay" /\ mode' = "replay" /\ wal' = wal /\ cursor' = r.at
      /\ m \in Messages /\ m.view \in Nat /\ current_view \in Nat /\ current_view' \in Nat
      /\ S \in SUBSET [at : Nat, msg : Messages]
  BY DEF ReplayRecord, ReplayPrePrepare, ReplayPrepare, ReplayCommit, ReplayViewChange,
         ReplayCheckpoint, Reads, Advance, disk, TypeOK, Messages
<1>2. \A q \in T : q \in S \/ q.msg = m
  BY <1>1 DEF Reads, LogInv, OffsetsOk, TypeOK
<1>3. /\ Bounded(S, current_view, view_change_votes)
      /\ \A c \in checkpoint_votes :
            Verify(Certificate(checkpoint_votes, c)) => c.view <= current_view
  BY <1>1 DEF BoundInv
<1>4. SUFFICES /\ Bounded(T, current_view', view_change_votes')
               /\ \A c \in checkpoint_votes' :
                     Verify(Certificate(checkpoint_votes', c)) => c.view <= current_view'
  BY <1>1 DEF BoundInv
<1>5. \A c \in checkpoint_votes : c.view \in Nat
  BY DEF TypeOK, Messages
<1> HIDE DEF S, T
<1>6. CASE ReplayPrePrepare(r) \/ ReplayPrepare(r) \/ ReplayCommit(r)
  <2>1. /\ m.phase \in {"PrePrepare", "Prepare", "Commit"}
        /\ current_view' = Higher(current_view, m.view)
        /\ UNCHANGED <<view_change_votes, checkpoint_votes>>
    BY <1>6 DEF ReplayPrePrepare, ReplayPrepare, ReplayCommit, RaiseView, votes
  <2>2. /\ current_view <= current_view' /\ m.view <= current_view'
        /\ m.phase # "ViewChange"
    BY <1>1, <2>1 DEF Higher
  <2>3. Bounded(T, current_view', view_change_votes)
    BY <1>1, <1>2, <1>3, <2>2, BoundedRecord
  <2>4. QED
    BY <1>1, <1>3, <1>5, <2>1, <2>2, <2>3 DEF Verify, Certificate, Voters
<1>7. CASE ReplayViewChange(r)
  <2> DEFINE sup == Supporters(PutVote(view_change_votes, m), m.view)
  <2>1. /\ m.phase = "ViewChange" /\ view_change_votes' = PutVote(view_change_votes, m)
        /\ current_view' = IF HasQuorum(sup) THEN Higher(current_view, m.view)
                                             ELSE current_view
        /\ checkpoint_votes' = checkpoint_votes
    BY <1>7 DEF ReplayViewChange, RecordViewChange
  <2>2. current_view <= current_view' /\ (HasQuorum(sup) => m.view <= current_view')
    <3> HIDE DEF sup
    <3>1. QED
      BY <1>1, <2>1 DEF Higher
  <2>3. Bounded(T, current_view', PutVote(view_change_votes, m))
    BY <1>1, <1>2, <1>3, <2>1, <2>2, BoundedVote
  <2>4. QED
    BY <1>1, <1>3, <1>5, <2>1, <2>2, <2>3 DEF Verify, Certificate, Voters
<1>8. CASE ReplayCheckpoint(r)
  <2>1. /\ m.phase = "Checkpoint" /\ view_change_votes' = view_change_votes
        /\ current_view' = IF Stabilizes(m) THEN Higher(current_view, m.view)
                                            ELSE current_view
        /\ checkpoint_votes' = checkpoint_votes \cup {m}
    BY <1>8 DEF ReplayCheckpoint, CheckpointVotes
  <2>2. /\ current_view <= current_view' /\ (Stabilizes(m) => m.view <= current_view')
        /\ m.phase # "ViewChange" /\ m.phase \notin {"PrePrepare", "Prepare", "Commit"}
    BY <1>1, <2>1 DEF Higher
  <2>3. Bounded(T, current_view', view_change_votes)
    BY <1>1, <1>2, <1>3, <2>2, BoundedRecord
  <2>4. ASSUME NEW c \in checkpoint_votes', Verify(Certificate(checkpoint_votes', c))
        PROVE  c.view <= current_view'
    <3>1. CASE SameSlot(c, m)
      <4>1. Voters(checkpoint_votes', c) = Voters(CheckpointVotes(m), m)
        BY <2>1, <3>1 DEF Voters, SameSlot, SamePlace, CheckpointVotes
      <4>2. Stabilizes(m)
        BY <2>4, <4>1 DEF Stabilizes, Verify, Certificate
      <4>3. QED
        BY <2>2, <3>1, <4>2 DEF SameSlot, SamePlace
    <3>2. CASE ~SameSlot(c, m)
      <4>1. Voters(checkpoint_votes', c) = Voters(checkpoint_votes, c)
        BY <2>1, <3>2 DEF Voters, SameSlot, SamePlace
      <4>2. c \in checkpoint_votes
        BY <2>1, <3>2 DEF SameSlot, SamePlace
      <4>3. c.view <= current_view
        BY <1>3, <2>4, <4>1, <4>2 DEF Verify, Certificate
      <4>4. QED
        BY <1>1, <1>5, <2>2, <4>2, <4>3
    <3>3. QED
      BY <3>1, <3>2
  <2>5. QED
    BY <2>1, <2>3, <2>4
<1>9. QED
  BY <1>6, <1>7, <1>8 DEF ReplayRecord

\* At the end of the replay the bounds hold of the whole log.
LEMMA ReplayedBounded ==
    ASSUME TypeOK, LogInv, BoundInv, mode = "replay", AtEnd
    PROVE  /\ Bounded(wal, current_view, view_change_votes)
           /\ CheckpointsBounded(Logged(wal), current_view)
<1>1. {r \in wal : r.at <= cursor} = wal
  BY DEF AtEnd
<1>2. Bounded(wal, current_view, view_change_votes)
  BY <1>1 DEF BoundInv
<1>3. ASSUME NEW c \in Logged(wal), c.phase = "Checkpoint",
             QuorumOf(Logged(wal), "Checkpoint", c)
      PROVE  c.view <= current_view
  <2>1. \A x \in Logged(wal) : x.phase = "Checkpoint" => x \in checkpoint_votes
    BY DEF AtEnd, LogInv, ReplayLog, Logged
  <2>2. /\ Voters({x \in Logged(wal) : x.phase = "Checkpoint"}, c)
               \subseteq Voters(checkpoint_votes, c)
        /\ Voters(checkpoint_votes, c) \in SUBSET Nodes
    BY <2>1, VotersType DEF Voters, TypeOK
  <2>3. Cardinality(Voters(checkpoint_votes, c)) >= Quorum
    BY <1>3, <2>2, QuorumGrows DEF QuorumOf
  <2>4. QED
    BY <1>3, <2>1, <2>3 DEF BoundInv, Verify, Certificate
<1>4. QED
  BY <1>2, <1>3 DEF CheckpointsBounded

\* Every step keeps the log within the views entered.
LEMMA NextBound ==
    ASSUME TypeOK, TypeOK', LogInv, BoundInv, [Next]_vars PROVE BoundInv'
<1>1. /\ current_view \in Nat /\ current_view' \in Nat
      /\ wal \in SUBSET [at : Nat, msg : Messages] /\ Logged(wal) \in SUBSET Messages
  BY LoggedType DEF TypeOK
<1>2. ASSUME NEW m \in Inputs, Handle(m) PROVE BoundInv'
  <2>1. /\ mode = "live" /\ mode' = "live"
        /\ wal' \in {WithRecord(m), Pruned(WithRecord(m), m.seq)}
        /\ m \in Messages /\ m.view \in Nat
    BY <1>2, InputType
       DEF Handle, HandlePrePrepare, HandlePrepare, HandleCommit, HandleViewChange,
           HandleCheckpointVote, HandleStableCheckpoint, Receives, Durably, process, Messages
  <2>2. /\ \A r \in wal' : r \in wal \/ r.msg = m
        /\ Logged(wal') \subseteq Logged(wal) \cup {m}
    BY <2>1 DEF WithRecord, Pruned, Logged
  <2>3. /\ Bounded(wal, current_view, view_change_votes)
        /\ CheckpointsBounded(Logged(wal), current_view)
    BY <2>1 DEF BoundInv
  <2>4. CASE HandleViewChange(m)
    <3> DEFINE sup == Supporters(PutVote(view_change_votes, m), m.view)
    <3>1. /\ m.phase = "ViewChange" /\ view_change_votes' = PutVote(view_change_votes, m)
          /\ current_view' = IF HasQuorum(sup) THEN m.view ELSE current_view
          /\ m.view > current_view
      BY <2>4 DEF HandleViewChange, Receives, ViewChangeOk, RecordViewChange
    <3>2. current_view <= current_view' /\ (HasQuorum(sup) => m.view <= current_view')
      <4> HIDE DEF sup
      <4>1. QED
        BY <1>1, <2>1, <3>1
    <3>3. Bounded(wal', current_view', view_change_votes')
      BY <1>1, <2>1, <2>2, <2>3, <3>1, <3>2, BoundedVote
    <3>4. CheckpointsBounded(Logged(wal'), current_view')
      BY <1>1, <2>1, <2>2, <2>3, <3>1, <3>2, CheckpointRecord
    <3>5. QED
      BY <2>1, <3>3, <3>4 DEF BoundInv
  <2>5. CASE ~HandleViewChange(m)
    <3>1. /\ m.phase # "ViewChange" /\ m.view = current_view
          /\ UNCHANGED <<current_view, view_change_votes>>
      BY <1>2, <2>5
         DEF Handle, HandlePrePrepare, PrePrepareOk, HandlePrepare, PrepareOk, HandleCommit,
             CommitOk, HandleCheckpointVote, HandleStableCheckpoint, CheckpointOk, Stabilize,
             ForgetUpTo, Receives, counters, votes
    <3>2. current_view <= current_view' /\ m.view <= current_view'
      BY <1>1, <3>1
    <3>3. Bounded(wal', current_view', view_change_votes)
      BY <1>1, <2>1, <2>2, <2>3, <3>1, <3>2, BoundedRecord
    <3>4. CheckpointsBounded(Logged(wal'), current_view')
      BY <1>1, <2>1, <2>2, <2>3, <3>2, CheckpointRecord
    <3>5. QED
      BY <2>1, <3>1, <3>3, <3>4 DEF BoundInv
  <2>6. QED
    BY <2>4, <2>5
<1>3. ASSUME NEW m \in Inputs, Fault(m) PROVE BoundInv'
  BY <1>3 DEF Fault, AppendFails, PruneFails, CrashInAppend, CrashInPrune, Dies, BoundInv
<1>4. CASE Crash \/ CrashInReplay \/ RefuseReplay
  BY <1>4 DEF Crash, CrashInReplay, RefuseReplay, Dies, BoundInv
<1>5. CASE Restart
  <2>1. /\ mode' = "replay" /\ cursor' = 0 /\ wal' = wal
        /\ view_change_votes' = {} /\ checkpoint_votes' = {}
    BY <1>5 DEF Restart, disk
  <2>2. {r \in wal : r.at <= 0} = {}
    BY DEF LogInv, OffsetsOk, TypeOK
  <2>3. \A v \in Nat : ~HasQuorum(Supporters({}, v))
    <3>1. \A v : {x.sender : x \in Supporters({}, v)} = {}
      BY DEF Supporters
    <3>2. QED
      BY <3>1, QuorumSigned DEF HasQuorum
  <2>4. QED
    BY <2>1, <2>2, <2>3 DEF BoundInv, Bounded
<1>6. CASE FinishReplay
  <2>1. /\ mode = "replay" /\ AtEnd /\ mode' = "live"
        /\ UNCHANGED <<wal, current_view, view_change_votes>>
    BY <1>6 DEF FinishReplay, ForgetUpTo, counters, disk, votes
  <2>2. QED
    BY <2>1, ReplayedBounded DEF BoundInv
<1>7. CASE UNCHANGED vars
  <2>1. UNCHANGED <<mode, wal, cursor, current_view, view_change_votes, checkpoint_votes>>
    BY <1>7 DEF vars, memory, counters, votes, disk, process
  <2>2. QED
    BY <2>1 DEF BoundInv
<1>8. QED
  BY <1>2, <1>3, <1>4, <1>5, <1>6, <1>7, ReplayBounded DEF Next, Replay

-----------------------------------------------------------------------------
(* The interrupted state.  What the replica held when it crashed is in the log, or below  *)
(* a checkpoint the log proves; and after a crash with no write under way the log proves  *)
(* nothing the replica had not reached.                                                   *)

\* The log proves a checkpoint at seq or above it.
ProvenFrom(L, seq) ==
    \E c \in L : c.phase = "Checkpoint" /\ c.seq >= seq /\ QuorumOf(L, "Checkpoint", c)

StableProved ==
    mode \in {"live", "failed", "replay"} =>
        last_stable_checkpoint = 0 \/ ProvenFrom(Logged(wal), last_stable_checkpoint)

Recoverable(L, image) ==
    /\ image.stable = 0 \/ ProvenFrom(L, image.stable)
    /\ \A p \in image.proposals : Proposed(L, p) \/ ProvenFrom(L, p.seq + 1)
    /\ \A p \in image.prepared : QuorumOf(L, "Prepare", p) \/ ProvenFrom(L, p.seq + 1)
    /\ \A p \in image.committed : QuorumOf(L, "Commit", p) \/ ProvenFrom(L, p.seq + 1)

Exact(L, image) ==
    image.clean =>
        /\ \A c \in L : c.phase = "Checkpoint" /\ QuorumOf(L, "Checkpoint", c) =>
                            c.seq <= image.stable
        /\ \A v \in Nat : Evidence(L, v) => v <= image.view

ImageInv ==
    /\ StableProved
    /\ mode \in {"down", "replay", "refused"} =>
          Recoverable(Logged(wal), before) /\ Exact(Logged(wal), before)

\* A longer log proves what the shorter one proved.
LEMMA ProvenGrows ==
    ASSUME NEW L, NEW K \in SUBSET Messages, L \subseteq K, NEW seq, ProvenFrom(L, seq)
    PROVE  ProvenFrom(K, seq)
<1>1. PICK c \in L : c.phase = "Checkpoint" /\ c.seq >= seq /\ QuorumOf(L, "Checkpoint", c)
  BY DEF ProvenFrom
<1>2. Voters({x \in L : x.phase = "Checkpoint"}, c)
          \subseteq Voters({x \in K : x.phase = "Checkpoint"}, c)
  BY DEF Voters
<1>3. QuorumOf(K, "Checkpoint", c)
  BY <1>1, <1>2, QuorumOfGrows
<1>4. QED
  BY <1>1, <1>3 DEF ProvenFrom

\* A compaction leaves the checkpoint it was made for proved.
LEMMA CompactProves ==
    ASSUME TypeOK, LogInv, NEW m \in Inputs, Receives(m, "Checkpoint"), CheckpointOk(m),
           Stabilizes(m), wal' \in {WithRecord(m), Pruned(WithRecord(m), m.seq)},
           appended' = appended + 1, acked' \subseteq acked \cup {m}
    PROVE  ProvenFrom(Logged(wal'), m.seq)
<1>1. m \in Logged(wal') /\ Cardinality(LoggedVoters(m)') >= Quorum
  BY CompactKeeps
<1>2. m.phase = "Checkpoint" /\ m.seq \in Nat
  BY InputType DEF Receives, Messages
<1>3. LoggedVoters(m)' = Voters({x \in Logged(wal') : x.phase = "Checkpoint"}, m)
  BY <1>2 DEF LoggedVoters
<1>4. QuorumOf(Logged(wal'), "Checkpoint", m)
  BY <1>1, <1>3 DEF QuorumOf
<1>5. m.seq >= m.seq
  BY <1>2
<1>6. QED
  BY <1>1, <1>2, <1>4, <1>5 DEF ProvenFrom

\* Every step keeps the watermark proved.
LEMMA NextStable ==
    ASSUME TypeOK, TypeOK', LogInv, StableProved, [Next]_vars PROVE StableProved'
<1>1. Logged(wal) \in SUBSET Messages /\ Logged(wal') \in SUBSET Messages
  BY LoggedType DEF TypeOK, Logged
<1>2. ASSUME mode \in {"live", "failed", "replay"},
             last_stable_checkpoint' = last_stable_checkpoint,
             Logged(wal) \subseteq Logged(wal')
      PROVE  StableProved'
  BY <1>1, <1>2, ProvenGrows DEF StableProved
<1>3. ASSUME NEW m \in Inputs, Handle(m), ~HandleStableCheckpoint(m) PROVE StableProved'
  <2>1. /\ mode = "live" /\ wal' = WithRecord(m)
        /\ last_stable_checkpoint' = last_stable_checkpoint
    BY <1>3
       DEF Handle, HandlePrePrepare, HandlePrepare, HandleCommit, HandleViewChange,
           HandleCheckpointVote, Receives, Durably, counters
  <2>2. QED
    BY <1>2, <2>1, LoggedWithRecord
<1>4. ASSUME NEW m \in Inputs, HandleStableCheckpoint(m) \/ PruneFails(m) PROVE StableProved'
  <2>1. /\ Receives(m, "Checkpoint") /\ CheckpointOk(m) /\ Stabilizes(m)
        /\ wal' \in {WithRecord(m), Pruned(WithRecord(m), m.seq)}
        /\ appended' = appended + 1 /\ acked' \subseteq acked \cup {m}
        /\ last_stable_checkpoint' = m.seq
    BY <1>4 DEF HandleStableCheckpoint, PruneFails, Stabilize
  <2>2. QED
    BY <2>1, CompactProves DEF StableProved
<1>5. ASSUME NEW m \in Inputs, AppendFails(m) PROVE StableProved'
  <2>1. /\ mode = "live" /\ wal' \in {wal, WithRecord(m)}
        /\ last_stable_checkpoint' = last_stable_checkpoint
    BY <1>5 DEF AppendFails, Receives, Interrupted, disk, memory, counters
  <2>2. QED
    BY <1>2, <2>1, LoggedWithRecord
<1>6. ASSUME NEW m \in Inputs, CrashInAppend(m) \/ CrashInPrune(m) PROVE StableProved'
  BY <1>6 DEF CrashInAppend, CrashInPrune, Dies, StableProved
<1>7. CASE Crash \/ CrashInReplay \/ RefuseReplay \/ Restart
  BY <1>7 DEF Crash, CrashInReplay, RefuseReplay, Restart, Dies, StableProved
<1>8. ASSUME NEW r \in wal, ReplayRecord(r) PROVE StableProved'
  <2>1. /\ mode = "replay" /\ wal' = wal /\ r.msg \in Logged(wal) /\ r.msg.seq \in Nat
        /\ last_stable_checkpoint \in Nat
    BY <1>8
       DEF ReplayRecord, ReplayPrePrepare, ReplayPrepare, ReplayCommit, ReplayViewChange,
           ReplayCheckpoint, Reads, Advance, disk, Logged, TypeOK, Messages
  <2>2. CASE ReplayCheckpoint(r)
    <3> DEFINE m == r.msg
    <3>1. /\ m.phase = "Checkpoint"
          /\ last_stable_checkpoint' =
                IF Stabilizes(m) THEN Higher(last_stable_checkpoint, m.seq)
                                 ELSE last_stable_checkpoint
      BY <2>2 DEF ReplayCheckpoint
    <3>2. /\ last_stable_checkpoint' = last_stable_checkpoint
             \/ (Stabilizes(m) /\ last_stable_checkpoint' = m.seq)
      BY <3>1 DEF Higher
    <3>3. Stabilizes(m) => ProvenFrom(Logged(wal), m.seq)
      <4>1. Voters(CheckpointVotes(m), m)
                \subseteq Voters({x \in Logged(wal) : x.phase = "Checkpoint"}, m)
        BY <2>1, <3>1 DEF LogInv, VotesLogged, CheckpointVotes, Voters
      <4>2. Voters({x \in Logged(wal) : x.phase = "Checkpoint"}, m) \in SUBSET Nodes
        BY <1>1, VotersType
      <4>3. Stabilizes(m) => QuorumOf(Logged(wal), "Checkpoint", m)
        BY <4>1, <4>2, QuorumGrows DEF Stabilizes, Verify, Certificate, QuorumOf
      <4>4. QED
        BY <2>1, <3>1, <4>3 DEF ProvenFrom
    <3>4. CASE last_stable_checkpoint' = last_stable_checkpoint
      BY <1>2, <2>1, <3>4
    <3>5. CASE Stabilizes(m) /\ last_stable_checkpoint' = m.seq
      BY <2>1, <3>3, <3>5 DEF StableProved
    <3>6. QED
      BY <3>2, <3>4, <3>5
  <2>3. CASE ~ReplayCheckpoint(r)
    <3>1. last_stable_checkpoint' = last_stable_checkpoint
      BY <1>8, <2>3
         DEF ReplayRecord, ReplayPrePrepare, ReplayPrepare, ReplayCommit, ReplayViewChange
    <3>2. QED
      BY <1>2, <2>1, <3>1
  <2>4. QED
    BY <2>2, <2>3
<1>9. CASE FinishReplay
  <2>1. mode = "replay" /\ wal' = wal /\ last_stable_checkpoint' = last_stable_checkpoint
    BY <1>9 DEF FinishReplay, counters, disk
  <2>2. QED
    BY <1>2, <2>1
<1>10. CASE UNCHANGED vars
  <2>1. UNCHANGED <<mode, wal, last_stable_checkpoint>>
    BY <1>10 DEF vars, memory, counters, disk, process
  <2>2. QED
    BY <2>1 DEF StableProved
<1>11. QED
  BY <1>3, <1>4, <1>5, <1>6, <1>7, <1>8, <1>9, <1>10 DEF Next, Handle, Fault, Replay

\* What a serving replica holds can be recovered from any log that keeps its records from
\* some sequence on, if that log proves a checkpoint there or keeps everything.
LEMMA ImageRecoverable ==
    ASSUME TypeOK, BackedInv, MemoryLogged, StableProved, Serving,
           NEW L \in SUBSET Messages, NEW k \in Nat,
           \A x \in Logged(wal) : x.seq >= k => x \in L,
           k = 0 \/ (ProvenFrom(L, k) /\ last_stable_checkpoint <= k),
           NEW image, image.stable = Image.stable, image.proposals = Image.proposals,
           image.prepared = Image.prepared, image.committed = Image.committed
    PROVE  Recoverable(L, image)
<1>1. /\ image.stable = last_stable_checkpoint
      /\ image.proposals = pre_prepared_proposals
      /\ image.prepared = {Slot(c) : c \in prepared_certificates}
      /\ image.committed = {Slot(c) : c \in commit_certificates}
  BY DEF Image
<1>2. /\ mode \in {"live", "failed", "replay"} /\ last_stable_checkpoint \in Nat
      /\ \A x \in Logged(wal) : x.seq \in Nat
      /\ \A p \in pre_prepared_proposals : p.seq \in Nat
      /\ \A c \in prepared_certificates \cup commit_certificates : c.seq \in Nat
  BY LoggedType DEF Serving, TypeOK, Messages, Slots, Certificates
<1>3. ASSUME NEW s \in Nat, s < k PROVE ProvenFrom(L, s + 1)
  <2>1. PICK c \in L : c.phase = "Checkpoint" /\ c.seq >= k /\ QuorumOf(L, "Checkpoint", c)
    BY <1>3 DEF ProvenFrom
  <2>2. c.seq >= s + 1
    BY <1>3, <2>1 DEF Messages
  <2>3. QED
    BY <2>1, <2>2 DEF ProvenFrom
<1>4. image.stable = 0 \/ ProvenFrom(L, image.stable)
  <2>1. CASE k = 0
    <3>1. Logged(wal) \subseteq L
      BY <1>2, <2>1
    <3>2. QED
      BY <1>1, <1>2, <3>1, ProvenGrows DEF StableProved
  <2>2. CASE k # 0
    <3>1. PICK c \in L : c.phase = "Checkpoint" /\ c.seq >= k /\ QuorumOf(L, "Checkpoint", c)
      BY <2>2 DEF ProvenFrom
    <3>2. c.seq >= last_stable_checkpoint
      BY <1>2, <2>2, <3>1 DEF Messages
    <3>3. QED
      BY <1>1, <3>1, <3>2 DEF ProvenFrom
  <2>3. QED
    BY <2>1, <2>2
<1>5. ASSUME NEW p \in image.proposals PROVE Proposed(L, p) \/ ProvenFrom(L, p.seq + 1)
  <2>1. p.seq \in Nat /\ Proposed(Logged(wal), p)
    BY <1>1, <1>2 DEF MemoryLogged
  <2>2. CASE p.seq >= k
    BY <2>1, <2>2 DEF Proposed, SameSlot, SamePlace
  <2>3. CASE p.seq < k
    BY <1>3, <2>1, <2>3
  <2>4. QED
    BY <2>1, <2>2, <2>3
<1>6. ASSUME NEW phase, NEW c, c.seq \in Nat, QuorumOf(Logged(wal), phase, c)
      PROVE  QuorumOf(L, phase, Slot(c)) \/ ProvenFrom(L, Slot(c).seq + 1)
  <2>1. Slot(c).seq = c.seq
    BY DEF Slot
  <2>2. CASE c.seq >= k
    <3>1. Voters({x \in Logged(wal) : x.phase = phase}, c)
              \subseteq Voters({x \in L : x.phase = phase}, c)
      BY <2>2 DEF Voters, SameSlot, SamePlace
    <3>2. QuorumOf(L, phase, c)
      BY <1>6, <3>1, QuorumOfGrows
    <3>3. Voters({x \in L : x.phase = phase}, c) = Voters({x \in L : x.phase = phase}, Slot(c))
      BY DEF Voters, SameSlot, SamePlace, Slot
    <3>4. QED
      BY <3>2, <3>3 DEF QuorumOf
  <2>3. CASE c.seq < k
    BY <1>3, <1>6, <2>1, <2>3
  <2>4. QED
    BY <1>6, <2>2, <2>3
<1>7. /\ \A c \in prepared_certificates : QuorumOf(Logged(wal), "Prepare", c)
      /\ \A c \in commit_certificates : QuorumOf(Logged(wal), "Commit", c)
  BY <1>2, CertificateLogged
<1>8. /\ \A p \in image.prepared : QuorumOf(L, "Prepare", p) \/ ProvenFrom(L, p.seq + 1)
      /\ \A p \in image.committed : QuorumOf(L, "Commit", p) \/ ProvenFrom(L, p.seq + 1)
  BY <1>1, <1>2, <1>6, <1>7
<1>9. QED
  BY <1>4, <1>5, <1>8 DEF Recoverable

\* Every step keeps the interrupted state recoverable.
LEMMA NextImage ==
    ASSUME TypeOK, TypeOK', BackedInv, LogInv, MemoryLogged, BoundInv, ImageInv, [Next]_vars
    PROVE  ImageInv'
<1>1. StableProved'
  BY NextStable DEF ImageInv
<1>2. Logged(wal) \in SUBSET Messages /\ Logged(wal') \in SUBSET Messages
  BY LoggedType DEF TypeOK, Logged
<1>3. CASE Crash
  <2>1. Serving /\ wal' = wal /\ before' = Image
    BY <1>3 DEF Crash, Dies, Serving, disk
  <2>2. Recoverable(Logged(wal), Image)
    BY <1>2, <2>1, ImageRecoverable DEF ImageInv
  <2>3. Exact(Logged(wal), Image)
    <3> SUFFICES ASSUME Image.clean
                 PROVE  /\ \A c \in Logged(wal) :
                              c.phase = "Checkpoint" /\ QuorumOf(Logged(wal), "Checkpoint", c)
                                  => c.seq <= Image.stable
                        /\ \A v \in Nat : Evidence(Logged(wal), v) => v <= Image.view
      BY DEF Exact
    <3>1. /\ mode = "live" /\ Image.stable = last_stable_checkpoint
          /\ Image.view = current_view
      BY DEF Image
    <3>2. \A c \in Logged(wal) :
              c.phase = "Checkpoint" /\ QuorumOf(Logged(wal), "Checkpoint", c)
                  => c.seq <= last_stable_checkpoint
      BY <3>1 DEF LogInv, LiveLog, Proves, LoggedVoters, QuorumOf
    <3>3. /\ wal \in SUBSET [at : Nat, msg : Messages] /\ current_view \in Nat
          /\ view_change_votes \in SUBSET Messages
      BY DEF TypeOK
    <3>4. \A v \in Nat : Evidence(Logged(wal), v) => v <= current_view
      BY <3>1, <3>3, EvidenceBounded DEF BoundInv
    <3>5. QED
      BY <3>1, <3>2, <3>4
  <2>4. QED
    BY <1>1, <2>1, <2>2, <2>3 DEF ImageInv
<1>4. ASSUME NEW m \in Inputs, CrashInAppend(m) \/ CrashInPrune(m) PROVE ImageInv'
  <2>1. /\ Serving /\ before' = [Image EXCEPT !.clean = FALSE]
        /\ wal' \in {wal, WithRecord(m), Pruned(WithRecord(m), m.seq)}
    BY <1>4
       DEF CrashInAppend, CrashInPrune, Receives, Dies, Serving, Interrupted, disk
  <2>2. /\ before'.stable = Image.stable /\ before'.proposals = Image.proposals
        /\ before'.prepared = Image.prepared /\ before'.committed = Image.committed
        /\ before'.clean = FALSE
    BY <2>1 DEF Image
  <2>3. m.seq \in Nat /\ \A x \in Logged(wal) : x.seq \in Nat
    BY InputType, <1>2 DEF Messages
  <2>4. CASE wal' \in {wal, WithRecord(m)}
    <3>1. \A x \in Logged(wal) : x.seq >= 0 => x \in Logged(wal')
      BY <2>4, LoggedWithRecord
    <3>2. Recoverable(Logged(wal'), before')
      BY <1>2, <2>1, <2>2, <3>1, ImageRecoverable DEF ImageInv
    <3>3. QED
      BY <1>1, <2>2, <3>2 DEF ImageInv, Exact
  <2>5. CASE CrashInPrune(m)
    <3>1. /\ Receives(m, "Checkpoint") /\ CheckpointOk(m) /\ Stabilizes(m)
          /\ wal' \in {WithRecord(m), Pruned(WithRecord(m), m.seq)}
          /\ appended' = appended + 1 /\ acked' \subseteq acked \cup {m}
          /\ m.seq > last_stable_checkpoint
      BY <2>5 DEF CrashInPrune, Dies, CheckpointOk
    <3>2. ProvenFrom(Logged(wal'), m.seq)
      BY <3>1, CompactProves
    <3>3. \A x \in Logged(wal) : x.seq >= m.seq => x \in Logged(wal')
      BY <3>1 DEF WithRecord, Pruned, Logged
    <3>4. last_stable_checkpoint <= m.seq
      BY <2>3, <3>1 DEF TypeOK
    <3>5. Recoverable(Logged(wal'), before')
      BY <1>2, <2>1, <2>2, <2>3, <3>2, <3>3, <3>4, ImageRecoverable DEF ImageInv
    <3>6. QED
      BY <1>1, <2>2, <3>5 DEF ImageInv, Exact
  <2>6. QED
    BY <1>4, <2>4, <2>5 DEF CrashInAppend, Interrupted, disk
<1>5. CASE CrashInReplay \/ RefuseReplay \/ Restart \/ UNCHANGED vars
  <2>1. UNCHANGED <<wal, before>>
    BY <1>5 DEF CrashInReplay, RefuseReplay, Restart, Dies, disk, vars, process
  <2>2. mode' \in {"down", "replay", "refused"} => mode \in {"down", "replay", "refused"}
    BY <1>5 DEF CrashInReplay, RefuseReplay, Restart, vars, process
  <2>3. QED
    BY <1>1, <2>1, <2>2 DEF ImageInv
<1>6. ASSUME NEW r \in wal, ReplayRecord(r) PROVE ImageInv'
  <2>1. UNCHANGED <<wal, before>> /\ mode = "replay"
    BY <1>6
       DEF ReplayRecord, ReplayPrePrepare, ReplayPrepare, ReplayCommit, ReplayViewChange,
           ReplayCheckpoint, Reads, Advance, disk
  <2>2. QED
    BY <1>1, <2>1 DEF ImageInv
<1>7. ASSUME NEW m \in Inputs, Handle(m) \/ AppendFails(m) \/ PruneFails(m) PROVE ImageInv'
  <2>1. mode' \in {"live", "failed"}
    BY <1>7
       DEF Handle, HandlePrePrepare, HandlePrepare, HandleCommit, HandleViewChange,
           HandleCheckpointVote, HandleStableCheckpoint, Receives, Durably, process,
           AppendFails, PruneFails
  <2>2. QED
    BY <1>1, <2>1 DEF ImageInv
<1>8. CASE FinishReplay
  BY <1>1, <1>8 DEF FinishReplay, ImageInv
<1>9. QED
  BY <1>3, <1>4, <1>5, <1>6, <1>7, <1>8 DEF Next, Fault, Replay

-----------------------------------------------------------------------------
(* Recovery.  At the end of the replay everything in the log has been read, so what the   *)
(* log holds of the interrupted state is in memory, and nothing else is.                  *)

\* A quorum of commit votes that has been read is a decision.
LEMMA ReadQuorumDecided ==
    ASSUME TypeOK, CommitInv, NEW L, NEW s,
           \A x \in L : x.phase = "Commit" => x \in commit_votes,
           QuorumOf(L, "Commit", s)
    PROVE  \E c \in commit_certificates : SameSlot(c, s)
<1> DEFINE A == Voters({x \in L : x.phase = "Commit"}, s)
<1>1. A \subseteq Voters(commit_votes, s) /\ Voters(commit_votes, s) \in SUBSET Nodes
  BY VotersType DEF Voters, TypeOK
<1>2. Cardinality(A) >= Quorum
  BY DEF QuorumOf
<1> HIDE DEF A
<1>3. Cardinality(Voters(commit_votes, s)) >= Quorum
  BY <1>1, <1>2, QuorumGrows
<1>4. PICK x \in commit_votes : SameSlot(x, s)
  BY <1>3, QuorumSigned DEF Voters
<1>5. Voters(commit_votes, x) = Voters(commit_votes, s)
  BY <1>4 DEF Voters, SameSlot, SamePlace
<1>6. PICK c \in commit_certificates : SameSlot(c, x)
  BY <1>3, <1>5 DEF CommitInv, CommitsCertified, Verify, Certificate
<1>7. QED
  BY <1>4, <1>6 DEF SameSlot, SamePlace

\* The slots of the interrupted state above the watermark are back.
LEMMA SlotsRecovered ==
    ASSUME TypeOK, BackedInv, LogInv, LogInv', CommitInv, ReplayInv, ImageInv, FinishReplay
    PROVE  /\ last_stable_checkpoint' >= before.stable
           /\ Extends(pre_prepared_proposals', before.proposals)
           /\ Extends({Slot(c) : c \in prepared_certificates'}, before.prepared)
           /\ Extends({Slot(c) : c \in commit_certificates'}, before.committed)
<1> DEFINE L == Logged(wal)
<1>1. /\ mode = "replay" /\ mode' = "live" /\ AtEnd /\ wal' = wal
      /\ last_stable_checkpoint' = last_stable_checkpoint /\ last_stable_checkpoint \in Nat
      /\ before.stable \in Nat /\ before.proposals \in SUBSET Slots
      /\ before.prepared \in SUBSET Slots /\ before.committed \in SUBSET Slots
      /\ L \in SUBSET Messages
  BY LoggedType DEF FinishReplay, counters, disk, TypeOK, Images
<1>2. /\ \A p \in pre_prepared_proposals :
            p.seq > last_stable_checkpoint => p \in pre_prepared_proposals'
      /\ \A c \in prepared_certificates :
            c.seq > last_stable_checkpoint => c \in prepared_certificates'
      /\ \A c \in commit_certificates :
            c.seq > last_stable_checkpoint => c \in commit_certificates'
  BY DEF FinishReplay, ForgetUpTo, Above, certs
<1>3. /\ \A x \in L : x.phase = "PrePrepare" => Slot(x) \in pre_prepared_proposals
      /\ \A x \in L : x.phase = "Prepare" => x \in prepare_votes
      /\ \A x \in L : x.phase = "Commit" => x \in commit_votes
  BY <1>1
     DEF AtEnd, Logged, LogInv, ReplayLog, ReplayInv, PreparesReplayed, CommitInv,
         CommitsReplayed
<1>4. Recoverable(L, before)
  BY <1>1 DEF ImageInv
<1>5. ASSUME NEW seq \in Nat, ProvenFrom(L, seq) PROVE seq <= last_stable_checkpoint
  <2>1. PICK c \in L : c.phase = "Checkpoint" /\ c.seq >= seq /\ QuorumOf(L, "Checkpoint", c)
    BY <1>5 DEF ProvenFrom
  <2>2. LoggedVoters(c)' = Voters({x \in L : x.phase = "Checkpoint"}, c)
    BY <1>1, <2>1 DEF LoggedVoters
  <2>3. c \in Logged(wal') /\ Proves(c)'
    BY <1>1, <2>1, <2>2 DEF Proves, QuorumOf
  <2>4. c.seq <= last_stable_checkpoint
    BY <1>1, <2>3 DEF LogInv, LiveLog
  <2>5. QED
    BY <1>1, <2>1, <2>4 DEF Messages
<1> HIDE DEF L
<1>6. last_stable_checkpoint >= before.stable
  BY <1>1, <1>4, <1>5 DEF Recoverable
<1>7. ASSUME NEW p \in Slots, p.seq > last_stable_checkpoint PROVE ~ProvenFrom(L, p.seq + 1)
  <2>1. p.seq \in Nat /\ ~(p.seq + 1 <= last_stable_checkpoint)
    BY <1>1, <1>7 DEF Slots
  <2>2. QED
    BY <1>5, <2>1
<1>8. \A p \in Slots : \A c : SameSlot(c, p) => Slot(c) = p /\ c.seq = p.seq
  BY DEF Slots, Slot, SameSlot, SamePlace
<1>9. ASSUME NEW p \in before.proposals, p.seq > last_stable_checkpoint
      PROVE  p \in pre_prepared_proposals'
  <2>1. Proposed(L, p)
    BY <1>1, <1>4, <1>7, <1>9 DEF Recoverable
  <2>2. PICK x \in L : x.phase = "PrePrepare" /\ SameSlot(x, p)
    BY <2>1 DEF Proposed
  <2>3. p \in pre_prepared_proposals
    BY <1>1, <1>3, <1>8, <2>2
  <2>4. QED
    BY <1>2, <1>9, <2>3
<1>10. ASSUME NEW p \in before.prepared, p.seq > last_stable_checkpoint
       PROVE  \E c \in prepared_certificates' : Slot(c) = p
  <2>1. QuorumOf(L, "Prepare", p)
    BY <1>1, <1>4, <1>7, <1>10 DEF Recoverable
  <2>2. PICK c \in prepared_certificates : SameSlot(c, p)
    BY <1>3, <2>1, ReadQuorumCertified
  <2>3. Slot(c) = p /\ c.seq > last_stable_checkpoint
    BY <1>1, <1>8, <1>10, <2>2
  <2>4. QED
    BY <1>2, <2>3
<1>11. ASSUME NEW p \in before.committed, p.seq > last_stable_checkpoint
       PROVE  \E c \in commit_certificates' : Slot(c) = p
  <2>1. QuorumOf(L, "Commit", p)
    BY <1>1, <1>4, <1>7, <1>11 DEF Recoverable
  <2>2. PICK c \in commit_certificates : SameSlot(c, p)
    BY <1>3, <2>1, ReadQuorumDecided
  <2>3. Slot(c) = p /\ c.seq > last_stable_checkpoint
    BY <1>1, <1>8, <1>11, <2>2
  <2>4. QED
    BY <1>2, <2>3
<1>12. QED
  BY <1>1, <1>6, <1>9, <1>10, <1>11 DEF Extends

\* The view is the highest the log proves; after a clean crash it is not above the old one.
LEMMA ViewRecoveredExactly ==
    ASSUME TypeOK, LogInv, ViewInv, BoundInv, ImageInv, FinishReplay
    PROVE  /\ LogProves(before.view) => current_view' >= before.view
           /\ before.clean => /\ current_view' <= before.view
                              /\ last_stable_checkpoint' <= before.stable
<1>1. /\ mode = "replay" /\ AtEnd
      /\ UNCHANGED <<current_view, last_stable_checkpoint>>
      /\ current_view \in Nat /\ last_stable_checkpoint \in Nat
      /\ before.view \in Nat /\ before.stable \in Nat
      /\ wal \in SUBSET [at : Nat, msg : Messages] /\ view_change_votes \in SUBSET Messages
  BY DEF FinishReplay, counters, TypeOK, Images
<1>2. ASSUME LogProves(before.view) PROVE before.view <= current_view
  <2>1. Evidence(Logged(wal), before.view)
    BY <1>2 DEF LogProves, LoggedVoters, Evidence
  <2>2. /\ Bounded(wal, current_view, view_change_votes)
        /\ CheckpointsBounded(Logged(wal), current_view)
    BY <1>1, ReplayedBounded
  <2>3. QED
    BY <1>1, <2>1, <2>2, EvidenceBounded
<1>3. ASSUME before.clean
      PROVE  current_view <= before.view /\ last_stable_checkpoint <= before.stable
  <2>1. Exact(Logged(wal), before)
    BY <1>1 DEF ImageInv
  <2>2. current_view <= before.view
    BY <1>1, <1>3, <2>1 DEF Exact, ViewInv, ViewProved
  <2>3. CASE last_stable_checkpoint = 0
    BY <1>1, <2>2, <2>3
  <2>4. CASE ProvenFrom(Logged(wal), last_stable_checkpoint)
    <3>1. PICK c \in Logged(wal) : /\ c.phase = "Checkpoint"
                                   /\ c.seq >= last_stable_checkpoint
                                   /\ QuorumOf(Logged(wal), "Checkpoint", c)
      BY <2>4 DEF ProvenFrom
    <3>2. c.seq <= before.stable /\ c.seq \in Nat
      BY <1>3, <2>1, <3>1, LoggedType DEF Exact, TypeOK, Messages
    <3>3. QED
      BY <1>1, <2>2, <3>1, <3>2
  <2>5. QED
    BY <1>1, <2>3, <2>4 DEF ImageInv, StableProved
<1>4. QED
  BY <1>1, <1>2, <1>3

\* All invariants of the replica together.
LEMMA RecoveryInvariant ==
    Spec => [](/\ TypeOK /\ BackedInv /\ LogInv /\ VoteInv /\ CommitInv /\ ViewInv
               /\ ReplayInv /\ BoundInv /\ ImageInv)
<1> DEFINE I == TypeOK /\ BackedInv /\ LogInv /\ VoteInv /\ CommitInv /\ ViewInv /\ ReplayInv
           J == BoundInv /\ ImageInv
<1>1. Init => J
  <2> SUFFICES ASSUME Init PROVE J
    OBVIOUS
  <2>1. \A v \in Nat : ~HasQuorum(Supporters({}, v))
    <3>1. \A v : {x.sender : x \in Supporters({}, v)} = {}
      BY DEF Supporters
    <3>2. QED
      BY <3>1, QuorumSigned DEF HasQuorum
  <2>2. Logged({}) = {}
    BY DEF Logged
  <2>3. QED
    BY <2>1, <2>2 DEF Init, BoundInv, Bounded, CheckpointsBounded, ImageInv, StableProved
<1>2. I /\ J /\ I' /\ [Next]_vars => J'
  BY NextBound, NextImage DEF ReplayInv
<1>3. QED
  BY <1>1, <1>2, ReplayInvariant, PTL DEF Spec

\* Recovery never falls behind the interrupted state, nor, after a crash with no write
\* under way, runs ahead of it (pbft.rs:379-598).
THEOREM RecoveryAlwaysKeepsProgress ==
    Spec => RecoveryKeepsProgress
<1> DEFINE I == /\ TypeOK /\ BackedInv /\ LogInv /\ VoteInv /\ CommitInv /\ ViewInv
                /\ ReplayInv /\ BoundInv /\ ImageInv
           P == FinishReplay =>
                  /\ LogProves(before.view) => current_view' >= before.view
                  /\ last_stable_checkpoint' >= before.stable
                  /\ before.clean => /\ current_view' <= before.view
                                     /\ last_stable_checkpoint' = before.stable
                  /\ Extends(pre_prepared_proposals', before.proposals)
                  /\ Extends({Slot(c) : c \in prepared_certificates'}, before.prepared)
                  /\ Extends({Slot(c) : c \in commit_certificates'}, before.committed)
<1>1. ASSUME I, I', [Next]_vars PROVE P
  <2> SUFFICES ASSUME FinishReplay
               PROVE  /\ LogProves(before.view) => current_view' >= before.view
                      /\ last_stable_checkpoint' >= before.stable
                      /\ before.clean => /\ current_view' <= before.view
                                         /\ last_stable_checkpoint' = before.stable
                      /\ Extends(pre_prepared_proposals', before.proposals)
                      /\ Extends({Slot(c) : c \in prepared_certificates'}, before.prepared)
                      /\ Extends({Slot(c) : c \in commit_certificates'}, before.committed)
    OBVIOUS
  <2>1. /\ last_stable_checkpoint' >= before.stable
        /\ Extends(pre_prepared_proposals', before.proposals)
        /\ Extends({Slot(c) : c \in prepared_certificates'}, before.prepared)
        /\ Extends({Slot(c) : c \in commit_certificates'}, before.committed)
    BY <1>1, SlotsRecovered
  <2>2. /\ LogProves(before.view) => current_view' >= before.view
        /\ before.clean => /\ current_view' <= before.view
                           /\ last_stable_checkpoint' <= before.stable
    BY <1>1, ViewRecoveredExactly
  <2>3. last_stable_checkpoint' \in Nat /\ before.stable \in Nat
    BY <1>1 DEF TypeOK, Images
  <2>4. last_stable_checkpoint' <= before.stable => last_stable_checkpoint' = before.stable
    BY <2>1, <2>3
  <2>5. QED
    BY <2>1, <2>2, <2>4
<1>2. I /\ I' /\ [Next]_vars => [P]_vars
  BY <1>1
<1>3. QED
  BY <1>2, RecoveryInvariant, PTL DEF Spec, RecoveryKeepsProgress
=============================================================================
