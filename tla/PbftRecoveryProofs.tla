------------------------- MODULE PbftRecoveryProofs -------------------------
(***************************************************************************)
(* More theorems about PbftReplica, from the invariants of                 *)
(* PbftReplicaProofs: the evidence of view-change votes stays, decisions   *)
(* are kept, and the current view can be rebuilt from the log.             *)
(***************************************************************************)
EXTENDS PbftReplicaProofs

-----------------------------------------------------------------------------
(* The evidence of view-change votes.  A certificate is of a view that was entered, so it *)
(* lies below the target of every later vote; it is replaced only by one of its own slot  *)
(* and forgotten only with the slot.                                                      *)

VoteInv ==
    /\ \A c \in prepared_certificates : c.view <= current_view
    /\ \A x \in view_change_votes :
          x.seq > last_stable_checkpoint =>
              \E c \in prepared_certificates :
                  c.view < x.view /\ c.seq = x.seq /\ c.digest = x.digest

\* A step that leaves votes and certificates alone, while view and watermark may rise.
LEMMA VotesUntouched ==
    ASSUME TypeOK, VoteInv,
           UNCHANGED <<prepared_certificates, view_change_votes>>,
           current_view' \in Nat, current_view <= current_view',
           last_stable_checkpoint' \in Nat, last_stable_checkpoint <= last_stable_checkpoint'
    PROVE  VoteInv'
<1>1. \A c \in prepared_certificates : c.view \in Nat
  BY DEF TypeOK, Certificates
<1>2. \A x \in view_change_votes : x.seq \in Nat
  BY DEF TypeOK, Messages
<1>3. QED
  BY <1>1, <1>2 DEF VoteInv, TypeOK

\* A prepare vote: the certificate it replaces is of the same slot, so no slot is lost.
LEMMA PrepareKeepsSlots ==
    ASSUME BackedInv, NEW m, Slot(m) \in pre_prepared_proposals, RecordPrepare(m),
           NEW c \in prepared_certificates
    PROVE  \E d \in prepared_certificates' : SameSlot(d, c)
<1> DEFINE cert == Certificate(prepare_votes', m)
<1>1. /\ prepared_certificates' = IF Verify(cert) THEN Put(prepared_certificates, cert)
                                                  ELSE prepared_certificates
      /\ cert.view = m.view /\ cert.seq = m.seq /\ cert.digest = m.digest
  BY DEF RecordPrepare, Certificate
<1> HIDE DEF cert
<1>2. CASE c \in prepared_certificates'
  BY <1>2 DEF SameSlot, SamePlace
<1>3. CASE c \notin prepared_certificates'
  <2>1. cert \in prepared_certificates' /\ SamePlace(c, cert)
    BY <1>1, <1>3 DEF Put
  <2>2. Slot(c) \in pre_prepared_proposals /\ SamePlace(Slot(c), Slot(m))
    BY <1>1, <2>1 DEF BackedInv, CertificatesBacked, SamePlace, Slot
  <2>3. c.digest = m.digest
    BY <2>2 DEF BackedInv, OneDigest, Slot
  <2>4. QED
    BY <1>1, <2>1, <2>3 DEF SameSlot, SamePlace
<1>4. QED
  BY <1>2, <1>3

\* A prepare vote keeps the evidence of the votes, and its certificate is of a view entered.
LEMMA PrepareKeepsVotes ==
    ASSUME TypeOK, BackedInv, VoteInv, NEW m \in Messages,
           Slot(m) \in pre_prepared_proposals, RecordPrepare(m),
           UNCHANGED <<view_change_votes, last_stable_checkpoint>>,
           current_view' \in Nat, current_view <= current_view', m.view <= current_view'
    PROVE  VoteInv'
<1> DEFINE cert == Certificate(prepare_votes', m)
<1>1. /\ prepared_certificates' = IF Verify(cert) THEN Put(prepared_certificates, cert)
                                                  ELSE prepared_certificates
      /\ cert.view = m.view /\ cert.seq = m.seq /\ cert.digest = m.digest
  BY DEF RecordPrepare, Certificate
<1> HIDE DEF cert
<1>2. \A c \in prepared_certificates : c.view \in Nat
  BY DEF TypeOK, Certificates
<1>3. \A c \in prepared_certificates' : c.view <= current_view'
  BY <1>1, <1>2 DEF VoteInv, TypeOK, Put
<1>4. ASSUME NEW c \in prepared_certificates
      PROVE  \E d \in prepared_certificates' :
                 d.view = c.view /\ d.seq = c.seq /\ d.digest = c.digest
  BY PrepareKeepsSlots DEF SameSlot, SamePlace
<1>5. ASSUME NEW x \in view_change_votes', x.seq > last_stable_checkpoint'
      PROVE  \E d \in prepared_certificates' :
                 d.view < x.view /\ d.seq = x.seq /\ d.digest = x.digest
  <2>1. PICK c \in prepared_certificates :
            c.view < x.view /\ c.seq = x.seq /\ c.digest = x.digest
    BY <1>5 DEF VoteInv
  <2>2. QED
    BY <1>4, <2>1
<1>6. QED
  BY <1>3, <1>5 DEF VoteInv

\* A view-change vote whose report is proved.
LEMMA ViewChangeKeepsVotes ==
    ASSUME TypeOK, VoteInv, NEW m \in Messages,
           view_change_votes' = PutVote(view_change_votes, m),
           m.seq > 0 => \E c \in prepared_certificates :
                            c.view < m.view /\ c.seq = m.seq /\ c.digest = m.digest,
           UNCHANGED <<prepared_certificates, last_stable_checkpoint>>,
           current_view' \in Nat, current_view <= current_view'
    PROVE  VoteInv'
<1>1. \A c \in prepared_certificates : c.view \in Nat
  BY DEF TypeOK, Certificates
<1>2. m.seq > last_stable_checkpoint => m.seq > 0
  BY DEF TypeOK, Messages
<1>3. QED
  BY <1>1, <1>2 DEF VoteInv, TypeOK, PutVote

\* Forgetting up to the watermark.
LEMMA ForgetKeepsVotes ==
    ASSUME TypeOK, VoteInv, NEW ballots, ForgetUpTo(ballots, last_stable_checkpoint'),
           last_stable_checkpoint' \in Nat, last_stable_checkpoint <= last_stable_checkpoint',
           current_view' = current_view
    PROVE  VoteInv'
<1>1. /\ prepared_certificates' = Above(prepared_certificates, last_stable_checkpoint')
      /\ view_change_votes' = view_change_votes
  BY DEF ForgetUpTo
<1>2. \A x \in view_change_votes : x.seq \in Nat
  BY DEF TypeOK, Messages
<1>3. QED
  BY <1>1, <1>2 DEF VoteInv, TypeOK, Above

\* Every step keeps the evidence of the votes.
LEMMA NextVotes ==
    ASSUME TypeOK, TypeOK', BackedInv, VoteInv, [Next]_vars PROVE VoteInv'
<1> USE InputType
<1>1. /\ current_view \in Nat /\ last_stable_checkpoint \in Nat
      /\ current_view' \in Nat /\ last_stable_checkpoint' \in Nat
  BY DEF TypeOK
<1>2. ASSUME NEW m \in Inputs,
             HandlePrePrepare(m) \/ HandleCommit(m) \/ HandleCheckpointVote(m)
      PROVE  VoteInv'
  BY <1>1, <1>2, VotesUntouched
     DEF HandlePrePrepare, HandleCommit, HandleCheckpointVote, counters, votes, certs
<1>3. ASSUME NEW m \in Inputs, HandlePrepare(m) PROVE VoteInv'
  BY <1>1, <1>3, PrepareKeepsVotes DEF HandlePrepare, PrepareOk, counters
<1>4. ASSUME NEW m \in Inputs, HandleViewChange(m) PROVE VoteInv'
  <2>1. /\ view_change_votes' = PutVote(view_change_votes, m)
        /\ UNCHANGED <<prepared_certificates, last_stable_checkpoint>>
        /\ current_view' \in {m.view, current_view} /\ m.view > current_view
        /\ m.seq > 0 => \E c \in prepared_certificates : c.seq = m.seq /\ c.digest = m.digest
    BY <1>4 DEF HandleViewChange, RecordViewChange, ViewChangeOk
  <2>2. m.view \in Nat /\ \A c \in prepared_certificates : c.view \in Nat
    BY DEF TypeOK, Messages, Certificates
  <2>3. \A c \in prepared_certificates : c.view < m.view
    BY <1>1, <2>1, <2>2 DEF VoteInv
  <2>4. QED
    BY <1>1, <2>1, <2>2, <2>3, ViewChangeKeepsVotes
<1>5. ASSUME NEW m \in Inputs, HandleStableCheckpoint(m) \/ PruneFails(m) PROVE VoteInv'
  <2>1. /\ ForgetUpTo(CheckpointVotes(m), last_stable_checkpoint')
        /\ last_stable_checkpoint' > last_stable_checkpoint /\ current_view' = current_view
    BY <1>5 DEF HandleStableCheckpoint, PruneFails, Stabilize, CheckpointOk
  <2>2. QED
    BY <1>1, <2>1, ForgetKeepsVotes
<1>6. ASSUME NEW m \in Inputs, AppendFails(m) \/ CrashInAppend(m) \/ CrashInPrune(m)
      PROVE  VoteInv'
  BY <1>1, <1>6, VotesUntouched
     DEF AppendFails, CrashInAppend, CrashInPrune, Dies, memory, counters, votes, certs
<1>7. CASE Crash \/ CrashInReplay \/ RefuseReplay \/ UNCHANGED vars
  BY <1>1, <1>7, VotesUntouched
     DEF Crash, CrashInReplay, Dies, RefuseReplay, vars, memory, counters, votes, certs
<1>8. CASE Restart
  BY <1>8 DEF Restart, VoteInv
<1>9. ASSUME NEW r \in wal, ReplayRecord(r) PROVE VoteInv'
  <2>1. r.msg \in Messages /\ r.msg.view \in Nat
    BY DEF TypeOK, Messages
  <2>2. CASE ReplayPrePrepare(r) \/ ReplayCommit(r) \/ ReplayCheckpoint(r)
    <3>1. current_view <= current_view'
      BY <1>1, <2>1, <2>2
         DEF ReplayPrePrepare, ReplayCommit, ReplayCheckpoint, RaiseView, Higher
    <3>2. last_stable_checkpoint <= last_stable_checkpoint'
      BY <1>1, <2>1, <2>2
         DEF ReplayPrePrepare, ReplayCommit, ReplayCheckpoint, Higher, Messages
    <3>3. UNCHANGED <<prepared_certificates, view_change_votes>>
      BY <2>2 DEF ReplayPrePrepare, ReplayCommit, ReplayCheckpoint, votes, certs
    <3>4. QED
      BY <1>1, <3>1, <3>2, <3>3, VotesUntouched
  <2>3. CASE ReplayPrepare(r)
    <3>1. /\ current_view <= current_view' /\ r.msg.view <= current_view'
          /\ Slot(r.msg) \in pre_prepared_proposals /\ RecordPrepare(r.msg)
          /\ UNCHANGED <<view_change_votes, last_stable_checkpoint>>
      BY <1>1, <2>1, <2>3 DEF ReplayPrepare, ReplaysPrepare, RaiseView, Higher
    <3>2. QED
      BY <1>1, <2>1, <3>1, PrepareKeepsVotes
  <2>4. CASE ReplayViewChange(r)
    <3>1. current_view <= current_view'
      BY <1>1, <2>1, <2>4 DEF ReplayViewChange, Higher
    <3>2. /\ view_change_votes' = PutVote(view_change_votes, r.msg)
          /\ UNCHANGED <<prepared_certificates, last_stable_checkpoint>>
          /\ r.msg.seq > 0 =>
                \E c \in prepared_certificates :
                    c.view < r.msg.view /\ c.seq = r.msg.seq /\ c.digest = r.msg.digest
      BY <2>4 DEF ReplayViewChange, RecordViewChange, ReplaysViewChange
    <3>3. QED
      BY <1>1, <2>1, <3>1, <3>2, ViewChangeKeepsVotes
  <2>5. QED
    BY <1>9, <2>2, <2>3, <2>4 DEF ReplayRecord
<1>10. CASE FinishReplay
  <2>1. UNCHANGED <<current_view, last_stable_checkpoint>>
    BY <1>10 DEF FinishReplay, counters
  <2>2. \/ ForgetUpTo(checkpoint_votes, last_stable_checkpoint')
        \/ UNCHANGED <<prepared_certificates, view_change_votes>>
    BY <1>10, <2>1 DEF FinishReplay, votes, certs
  <2>3. QED
    BY <1>1, <2>1, <2>2, ForgetKeepsVotes, VotesUntouched
<1>11. QED
  BY <1>2, <1>3, <1>4, <1>5, <1>6, <1>7, <1>8, <1>9, <1>10
     DEF Next, Handle, Fault, Replay

\* A view-change vote on file that reports a slot above the watermark keeps the
\* certificate a later quorum needs (pbft.rs:807-819, 834-846, 485-498).
THEOREM VotesKeepEvidence ==
    Spec => []VotesBacked
<1>1. Init => VoteInv
  BY DEF Init, VoteInv
<1>2. TypeOK /\ BackedInv /\ LogInv /\ VoteInv /\ (TypeOK /\ BackedInv /\ LogInv)'
      /\ [Next]_vars => VoteInv'
  BY NextVotes
<1>3. VoteInv => VotesBacked
  BY DEF VoteInv, VotesBacked
<1>4. QED
  BY <1>1, <1>2, <1>3, LogInvariant, PTL DEF Spec

-----------------------------------------------------------------------------
(* Decisions.  A commit certificate stands for every quorum of filed commit votes, and    *)
(* every acknowledged commit vote above the watermark is on file: the live handler files  *)
(* what it logs, and replay files again every commit vote it reads.                       *)

CommitsCertified ==
    \A x \in commit_votes :
        Verify(Certificate(commit_votes, x)) => \E c \in commit_certificates : SameSlot(c, x)

CommitsFiled ==
    Serving => \A x \in acked :
        x.phase = "Commit" /\ x.seq > last_stable_checkpoint => x \in commit_votes

CommitsReplayed ==
    mode = "replay" => \A r \in wal :
        r.at <= cursor /\ r.msg.phase = "Commit" => r.msg \in commit_votes

CommitInv == CommitsCertified /\ CommitsFiled /\ CommitsReplayed

\* A commit vote that is filed: a certificate it replaces is of the same slot, because
\* both rest on the one prepared certificate of the place.
LEMMA RecordCommitCertifies ==
    ASSUME TypeOK, BackedInv, CommitsCertified, NEW m,
           Certified(prepared_certificates, m), RecordCommit(m)
    PROVE  CommitsCertified'
<1> DEFINE cert == Certificate(commit_votes', m)
<1>1. /\ commit_votes' = commit_votes \cup {m}
      /\ commit_certificates' = IF Verify(cert) THEN Put(commit_certificates, cert)
                                                ELSE commit_certificates
      /\ cert.view = m.view /\ cert.seq = m.seq /\ cert.digest = m.digest
  BY DEF RecordCommit, Certificate
<1>2. SUFFICES ASSUME NEW x \in commit_votes', Verify(Certificate(commit_votes', x))
               PROVE  \E c \in commit_certificates' : SameSlot(c, x)
  BY DEF CommitsCertified
<1>3. CASE SameSlot(x, m)
  <2>1. Voters(commit_votes', x) = Voters(commit_votes', m)
    BY <1>3 DEF Voters, SameSlot, SamePlace
  <2>2. Verify(cert)
    BY <1>2, <2>1 DEF Verify, Certificate
  <2>3. cert \in commit_certificates' /\ SameSlot(cert, x)
    BY <1>1, <1>3, <2>2 DEF Put, SameSlot, SamePlace
  <2>4. QED
    BY <2>3
<1>4. CASE ~SameSlot(x, m)
  <2>1. x \in commit_votes /\ Voters(commit_votes', x) = Voters(commit_votes, x)
    BY <1>1, <1>4 DEF Voters, SameSlot, SamePlace
  <2>2. Verify(Certificate(commit_votes, x))
    BY <1>2, <2>1 DEF Verify, Certificate
  <2>3. PICK c \in commit_certificates : SameSlot(c, x)
    BY <2>1, <2>2 DEF CommitsCertified
  <2>4. ~SamePlace(c, m)
    <3>1. PICK p \in prepared_certificates : SameSlot(p, c)
      BY DEF BackedInv, CertificatesBacked
    <3>2. PICK q \in prepared_certificates : SameSlot(q, m)
      BY DEF Certified
    <3>3. SamePlace(c, m) => p = q
      BY <3>1, <3>2 DEF TypeOK, SameSlot, SamePlace
    <3>4. QED
      BY <1>4, <2>3, <3>1, <3>2, <3>3 DEF SameSlot, SamePlace
  <2>5. ~SamePlace(c, cert)
    BY <1>1, <2>4 DEF SamePlace
  <2>6. c \in commit_certificates'
    <3> HIDE DEF cert
    <3>1. QED
      BY <1>1, <2>5 DEF Put
  <2>7. QED
    BY <2>3, <2>6
<1>5. QED
  BY <1>3, <1>4

\* Forgetting slots forgets votes and certificates alike.
LEMMA ForgetCertifies ==
    ASSUME CommitsCertified, NEW ballots, NEW seq, ForgetUpTo(ballots, seq)
    PROVE  CommitsCertified'
<1>1. /\ commit_votes' = Above(commit_votes, seq)
      /\ commit_certificates' = Above(commit_certificates, seq)
  BY DEF ForgetUpTo
<1>2. SUFFICES ASSUME NEW x \in commit_votes', Verify(Certificate(commit_votes', x))
               PROVE  \E c \in commit_certificates' : SameSlot(c, x)
  BY DEF CommitsCertified
<1>3. x \in commit_votes /\ x.seq > seq /\ Voters(commit_votes', x) = Voters(commit_votes, x)
  BY <1>1 DEF Above, Voters, SameSlot, SamePlace
<1>4. PICK c \in commit_certificates : SameSlot(c, x)
  BY <1>2, <1>3 DEF CommitsCertified, Verify, Certificate
<1>5. QED
  BY <1>1, <1>3, <1>4 DEF Above, SameSlot, SamePlace

\* A step that leaves commit votes and certificates alone.
LEMMA CommitsUntouched ==
    ASSUME CommitsCertified, UNCHANGED <<commit_votes, commit_certificates>>
    PROVE  CommitsCertified'
  BY DEF CommitsCertified, Verify, Certificate, Voters

\* Every step keeps the decisions.
LEMMA NextCommits ==
    ASSUME TypeOK, BackedInv, LogInv, LogInv', CommitInv, [Next]_vars PROVE CommitInv'
<1> USE InputType
<1>1. ASSUME NEW m \in Inputs,
             HandlePrePrepare(m) \/ HandlePrepare(m) \/ HandleViewChange(m)
                 \/ HandleCheckpointVote(m)
      PROVE  CommitInv'
  <2>1. /\ UNCHANGED <<commit_votes, commit_certificates, last_stable_checkpoint, mode>>
        /\ acked' = acked \cup {m} /\ m.phase # "Commit" /\ mode = "live"
    BY <1>1
       DEF HandlePrePrepare, HandlePrepare, HandleViewChange, HandleCheckpointVote, Receives,
           Durably, process, counters, votes, certs
  <2>2. QED
    BY <2>1, CommitsUntouched DEF CommitInv, CommitsFiled, CommitsReplayed, Serving
<1>2. ASSUME NEW m \in Inputs, HandleCommit(m) PROVE CommitInv'
  <2>1. /\ Certified(prepared_certificates, m) /\ RecordCommit(m)
        /\ UNCHANGED last_stable_checkpoint
        /\ acked' = acked \cup {m} /\ commit_votes' = commit_votes \cup {m}
        /\ mode = "live" /\ mode' = "live"
    BY <1>2 DEF HandleCommit, CommitOk, Receives, RecordCommit, Durably, process, counters
  <2>2. CommitsCertified'
    BY <2>1, RecordCommitCertifies DEF CommitInv
  <2>3. QED
    BY <2>1, <2>2 DEF CommitInv, CommitsFiled, CommitsReplayed, Serving
<1>3. ASSUME NEW m \in Inputs, HandleStableCheckpoint(m) \/ PruneFails(m) PROVE CommitInv'
  <2>1. /\ ForgetUpTo(CheckpointVotes(m), m.seq) /\ last_stable_checkpoint' = m.seq
        /\ commit_votes' = Above(commit_votes, m.seq)
        /\ m.seq > last_stable_checkpoint /\ m.phase = "Checkpoint"
        /\ acked' \subseteq acked \cup {m} /\ mode = "live" /\ mode' # "replay"
    BY <1>3
       DEF HandleStableCheckpoint, PruneFails, Receives, CheckpointOk, Stabilize, ForgetUpTo,
           process
  <2>2. CommitsCertified'
    BY <2>1, ForgetCertifies DEF CommitInv
  <2>3. \A x \in acked : x.seq > m.seq => x.seq > last_stable_checkpoint
    BY <2>1 DEF TypeOK, Messages
  <2>4. QED
    BY <2>1, <2>2, <2>3 DEF CommitInv, CommitsFiled, CommitsReplayed, Serving, Above
<1>4. ASSUME NEW m \in Inputs, AppendFails(m) \/ CrashInAppend(m) \/ CrashInPrune(m)
      PROVE  CommitInv'
  <2>1. /\ UNCHANGED <<commit_votes, commit_certificates, last_stable_checkpoint, acked>>
        /\ mode = "live" /\ mode' # "replay"
    BY <1>4
       DEF AppendFails, CrashInAppend, CrashInPrune, Dies, Receives, memory, counters, votes,
           certs
  <2>2. QED
    BY <2>1, CommitsUntouched DEF CommitInv, CommitsFiled, CommitsReplayed, Serving
<1>5. CASE Crash \/ CrashInReplay \/ RefuseReplay
  <2>1. /\ UNCHANGED <<commit_votes, commit_certificates>>
        /\ mode' \in {"down", "refused"}
    BY <1>5 DEF Crash, CrashInReplay, RefuseReplay, Dies, memory, votes, certs
  <2>2. QED
    BY <2>1, CommitsUntouched DEF CommitInv, CommitsFiled, CommitsReplayed, Serving
<1>6. CASE Restart
  <2>1. commit_votes' = {} /\ mode' = "replay" /\ cursor' = 0 /\ wal' = wal
    BY <1>6 DEF Restart, disk
  <2>2. \A r \in wal : ~(r.at <= 0)
    BY DEF LogInv, OffsetsOk, TypeOK
  <2>3. QED
    BY <2>1, <2>2 DEF CommitInv, CommitsCertified, CommitsFiled, CommitsReplayed, Serving
<1>7. ASSUME NEW r \in wal, ReplayRecord(r) PROVE CommitInv'
  <2>1. /\ Reads(r) /\ mode' = "replay" /\ cursor' = r.at /\ wal' = wal
    BY <1>7 DEF ReplayRecord, ReplayPrePrepare, ReplayPrepare, ReplayCommit, ReplayViewChange,
                ReplayCheckpoint, Reads, Advance, disk
  <2>2. \A q \in wal : q.at <= r.at => q.at <= cursor \/ q = r
    BY <2>1 DEF Reads, LogInv, OffsetsOk, TypeOK
  <2>3. /\ CommitsCertified' /\ commit_votes \subseteq commit_votes'
        /\ r.msg.phase = "Commit" => r.msg \in commit_votes'
    <3>1. CASE ReplayCommit(r)
      <4>1. Certified(prepared_certificates, r.msg) /\ RecordCommit(r.msg)
        BY <3>1 DEF ReplayCommit, ReplaysCommit
      <4>2. QED
        BY <4>1, RecordCommitCertifies DEF CommitInv, RecordCommit
    <3>2. CASE ~ReplayCommit(r)
      <4>1. /\ UNCHANGED <<commit_votes, commit_certificates>> /\ r.msg.phase # "Commit"
        BY <1>7, <3>2
           DEF ReplayRecord, ReplayPrePrepare, ReplayPrepare, ReplayViewChange,
               ReplayCheckpoint, votes, certs
      <4>2. QED
        BY <4>1, CommitsUntouched DEF CommitInv
    <3>3. QED
      BY <3>1, <3>2
  <2>4. mode = "replay"
    BY <2>1 DEF Reads
  <2>5. QED
    BY <2>1, <2>2, <2>3, <2>4 DEF CommitInv, CommitsFiled, CommitsReplayed, Serving
<1>8. CASE FinishReplay
  <2>1. /\ mode = "replay" /\ mode' = "live" /\ AtEnd
        /\ UNCHANGED <<last_stable_checkpoint, wal, acked>>
    BY <1>8 DEF FinishReplay, counters, disk
  <2>2. CommitsCertified'
    BY <1>8, ForgetCertifies, CommitsUntouched DEF FinishReplay, CommitInv, votes, certs
  <2>3. \A x \in commit_votes : x.seq > last_stable_checkpoint => x \in commit_votes'
    BY <1>8 DEF FinishReplay, ForgetUpTo, Above, votes
  <2>4. ASSUME NEW x \in acked, x.phase = "Commit", x.seq > last_stable_checkpoint
        PROVE  x \in commit_votes
    <3>1. x.seq \in Nat /\ last_stable_checkpoint \in Nat
      BY DEF TypeOK, Messages
    <3>2. ASSUME NEW c \in Logged(wal), c.phase = "Checkpoint", c.seq > x.seq,
                 Cardinality(LoggedVoters(c)) >= Quorum
          PROVE  FALSE
      <4>1. c \in Logged(wal') /\ Proves(c)'
        BY <2>1, <3>2 DEF Proves, LoggedVoters
      <4>2. c.seq <= last_stable_checkpoint
        BY <2>1, <4>1 DEF LogInv, LiveLog
      <4>3. c.seq \in Nat
        BY LoggedType DEF TypeOK, Messages
      <4>4. QED
        BY <2>4, <3>1, <3>2, <4>2, <4>3
    <3>3. x \in Logged(wal)
      BY <3>2 DEF LogInv, AckedSurvives
    <3>4. QED
      BY <2>1, <2>4, <3>3 DEF Logged, AtEnd, CommitInv, CommitsReplayed
  <2>5. QED
    BY <2>1, <2>2, <2>3, <2>4 DEF CommitInv, CommitsFiled, CommitsReplayed, Serving
<1>9. CASE UNCHANGED vars
  <2>1. UNCHANGED <<commit_votes, commit_certificates, last_stable_checkpoint, acked, mode,
                    wal, cursor>>
    BY <1>9 DEF vars, memory, counters, votes, certs, disk, process
  <2>2. QED
    BY <2>1, CommitsUntouched DEF CommitInv, CommitsFiled, CommitsReplayed, Serving
<1>10. QED
  BY <1>1, <1>2, <1>3, <1>4, <1>5, <1>6, <1>7, <1>8, <1>9
     DEF Next, Handle, Fault, Replay

\* A decision a quorum of acknowledged commit votes made above the watermark stays
\* decided, through view changes, failed writes, crashes and recovery (pbft.rs:782-796,
\* 473-483).
THEOREM DecisionsStay ==
    Spec => []DecisionKept
<1>1. Init => CommitInv
  BY DEF Init, CommitInv, CommitsCertified, CommitsFiled, CommitsReplayed
<1>2. TypeOK /\ BackedInv /\ LogInv /\ CommitInv /\ (TypeOK /\ BackedInv /\ LogInv)'
      /\ [Next]_vars => CommitInv'
  BY NextCommits
<1>3. TypeOK /\ CommitInv => DecisionKept
  <2> SUFFICES ASSUME TypeOK, CommitInv, Serving, NEW m \in acked,
                      m.phase = "Commit", m.seq > last_stable_checkpoint,
                      Cardinality(Voters({x \in acked : x.phase = "Commit"}, m)) >= Quorum
               PROVE  \E c \in commit_certificates : SameSlot(c, m)
    BY DEF DecisionKept
  <2>1. m \in commit_votes
    BY DEF CommitInv, CommitsFiled
  <2>2. Voters({x \in acked : x.phase = "Commit"}, m) \subseteq Voters(commit_votes, m)
    BY DEF CommitInv, CommitsFiled, Voters, SameSlot, SamePlace
  <2>3. Voters(commit_votes, m) \in SUBSET Nodes
    BY VotersType DEF TypeOK
  <2>4. Cardinality(Voters(commit_votes, m)) >= Quorum
    BY <2>2, <2>3, QuorumGrows
  <2>5. QED
    BY <2>1, <2>4 DEF CommitInv, CommitsCertified, Verify, Certificate
<1>4. QED
  BY <1>1, <1>2, <1>3, LogInvariant, PTL DEF Spec

-----------------------------------------------------------------------------
(* The current view.  Every view-change vote on file is in the log, except that a live    *)
(* replica may keep a vote whose reported slot a compaction has passed; so the quorum     *)
(* that enters a view is in the log, or contains such a vote.                             *)

\* LogProves as a statement about a set of messages.
Evidence(L, v) ==
    \/ v = 0
    \/ \E x \in L : x.view = v /\ x.phase \in {"PrePrepare", "Prepare", "Commit"}
    \/ HasQuorum({x \in L : x.phase = "ViewChange" /\ x.view = v})
    \/ \E c \in L : /\ c.phase = "Checkpoint" /\ c.view = v
                    /\ Cardinality(Voters({x \in L : x.phase = c.phase}, c)) >= Quorum

Outdated(v) ==
    \E nv \in new_view_certificates :
        nv.view = v /\ \E x \in nv.votes : x.seq < last_stable_checkpoint

VotesTraced ==
    /\ Serving => \A x \in view_change_votes :
          x.phase = "ViewChange" /\ (x \in Logged(wal) \/ x.seq < last_stable_checkpoint)
    /\ mode = "replay" => \A x \in view_change_votes :
          x.phase = "ViewChange" /\ x \in Logged(wal)

ViewProved ==
    /\ Serving => Evidence(Logged(wal), current_view) \/ Outdated(current_view)
    /\ mode = "replay" => Evidence(Logged(wal), current_view)

ViewInv == VotesTraced /\ ViewProved

\* More messages are more evidence.
LEMMA EvidenceGrows ==
    ASSUME NEW L, NEW K \in SUBSET Messages, L \subseteq K, NEW v, Evidence(L, v)
    PROVE  Evidence(K, v)
<1>1. CASE HasQuorum({x \in L : x.phase = "ViewChange" /\ x.view = v})
  <2> DEFINE A == {x.sender : x \in {y \in L : y.phase = "ViewChange" /\ y.view = v}}
             B == {x.sender : x \in {y \in K : y.phase = "ViewChange" /\ y.view = v}}
  <2>1. A \subseteq B /\ B \in SUBSET Nodes
    BY DEF Messages
  <2>2. Cardinality(A) >= Quorum
    BY <1>1 DEF HasQuorum
  <2>3. Cardinality(B) >= Quorum
    <3> HIDE DEF A, B
    <3>1. QED
      BY <2>1, <2>2, QuorumGrows
  <2>4. QED
    BY <2>3 DEF Evidence, HasQuorum
<1>2. ASSUME NEW c \in L, c.phase = "Checkpoint", c.view = v,
             Cardinality(Voters({x \in L : x.phase = c.phase}, c)) >= Quorum
      PROVE  Evidence(K, v)
  <2>1. Voters({x \in L : x.phase = c.phase}, c) \subseteq Voters({x \in K : x.phase = c.phase}, c)
    BY DEF Voters
  <2>2. Voters({x \in K : x.phase = c.phase}, c) \in SUBSET Nodes
    BY VotersType
  <2>3. Cardinality(Voters({x \in K : x.phase = c.phase}, c)) >= Quorum
    BY <1>2, <2>1, <2>2, QuorumGrows
  <2>4. QED
    BY <1>2, <2>3 DEF Evidence
<1>3. QED
  BY <1>1, <1>2 DEF Evidence

\* A quorum of view-change votes held by the log is evidence of their target.
LEMMA QuorumProves ==
    ASSUME NEW L \in SUBSET Messages, NEW sup, NEW v,
           \A x \in sup : x \in L /\ x.phase = "ViewChange" /\ x.view = v,
           HasQuorum(sup)
    PROVE  Evidence(L, v)
<1> DEFINE A == {x.sender : x \in sup}
           B == {x.sender : x \in {y \in L : y.phase = "ViewChange" /\ y.view = v}}
<1>1. A \subseteq B /\ B \in SUBSET Nodes
  BY DEF Messages
<1>2. Cardinality(A) >= Quorum
  BY DEF HasQuorum
<1>3. Cardinality(B) >= Quorum
  <2> HIDE DEF A, B
  <2>1. QED
    BY <1>1, <1>2, QuorumGrows
<1>4. QED
  BY <1>3 DEF Evidence, HasQuorum

\* A step that keeps the log, the votes, the view and the watermark or adds to the log.
LEMMA ViewUntouched ==
    ASSUME TypeOK', ViewInv, Serving, mode' # "replay",
           UNCHANGED <<current_view, last_stable_checkpoint, view_change_votes,
                       new_view_certificates>>,
           Logged(wal) \subseteq Logged(wal')
    PROVE  ViewInv'
<1>1. Logged(wal') \in SUBSET Messages
  BY DEF TypeOK, Logged
<1>2. Evidence(Logged(wal), current_view) => Evidence(Logged(wal'), current_view)
  BY <1>1, EvidenceGrows
<1>3. VotesTraced'
  BY DEF ViewInv, VotesTraced
<1>4. Outdated(current_view) => Outdated(current_view)'
  BY DEF Outdated
<1>5. ViewProved'
  BY <1>2, <1>4 DEF ViewInv, ViewProved
<1>6. QED
  BY <1>3, <1>5 DEF ViewInv

\* The live view-change vote: the quorum is logged or contains an outdated vote.
LEMMA ViewChangeProves ==
    ASSUME TypeOK, TypeOK', ViewInv, NEW m \in Inputs, HandleViewChange(m)
    PROVE  ViewInv'
<1> DEFINE sup == Supporters(view_change_votes', m.view)
<1>1. /\ mode = "live" /\ mode' = "live" /\ m \in Messages /\ m.phase = "ViewChange"
      /\ wal' = WithRecord(m)
      /\ view_change_votes' = PutVote(view_change_votes, m)
      /\ last_stable_checkpoint' = last_stable_checkpoint
  BY InputType
     DEF HandleViewChange, Receives, Durably, process, RecordViewChange
<1>2. /\ Logged(wal') = Logged(wal) \cup {m} /\ Logged(wal') \in SUBSET Messages
  <2>1. Logged(wal') = Logged(wal) \cup {m}
    BY <1>1, LoggedWithRecord
  <2>2. QED
    BY <1>1, <2>1, LoggedType DEF TypeOK
<1>3. \A x \in view_change_votes' :
          x.phase = "ViewChange" /\ (x \in Logged(wal') \/ x.seq < last_stable_checkpoint')
  BY <1>1, <1>2 DEF ViewInv, VotesTraced, Serving, PutVote
<1>4. VotesTraced'
  BY <1>1, <1>3 DEF VotesTraced
<1>5. CASE HasQuorum(sup)
  <2>1. current_view' = m.view
    BY <1>5 DEF HandleViewChange
  <2>2. NewView(prepared_certificates, m.view, sup) \in new_view_certificates'
    BY <1>5 DEF HandleViewChange, RecordViewChange, PutNewView
  <2>3. CASE \A x \in sup : x \in Logged(wal')
    <3>1. \A x \in sup : x.phase = "ViewChange" /\ x.view = m.view
      BY <1>3 DEF Supporters
    <3>2. Evidence(Logged(wal'), m.view)
      <4> HIDE DEF sup
      <4>1. QED
        BY <1>2, <1>5, <2>3, <3>1, QuorumProves
    <3>3. QED
      BY <1>1, <1>4, <2>1, <3>2 DEF ViewInv, ViewProved
  <2>4. CASE ~(\A x \in sup : x \in Logged(wal'))
    <3>1. PICK x \in sup : x.seq < last_stable_checkpoint'
      BY <1>3, <2>4 DEF Supporters
    <3>2. Outdated(current_view)'
      <4>1. /\ NewView(prepared_certificates, m.view, sup).view = m.view
            /\ NewView(prepared_certificates, m.view, sup).votes = sup
        BY DEF NewView
      <4>2. QED
        BY <2>1, <2>2, <3>1, <4>1 DEF Outdated
    <3>3. QED
      BY <1>1, <1>4, <3>2 DEF ViewInv, ViewProved
  <2>5. QED
    BY <2>3, <2>4
<1>6. CASE ~HasQuorum(sup)
  <2>1. UNCHANGED <<current_view, new_view_certificates>>
    BY <1>6 DEF HandleViewChange, RecordViewChange
  <2>2. Evidence(Logged(wal), current_view) => Evidence(Logged(wal'), current_view)
    BY <1>2, EvidenceGrows
  <2>3. Outdated(current_view) => Outdated(current_view)'
    BY <1>1, <2>1 DEF Outdated
  <2>4. QED
    BY <1>1, <1>4, <2>1, <2>2, <2>3 DEF ViewInv, ViewProved, Serving
<1>7. QED
  BY <1>5, <1>6

\* A checkpoint that stabilises is evidence of the current view itself.
LEMMA CheckpointProves ==
    ASSUME TypeOK, TypeOK', LogInv, ViewInv, NEW m \in Inputs,
           HandleStableCheckpoint(m) \/ PruneFails(m)
    PROVE  ViewInv'
<1>1. /\ Receives(m, "Checkpoint") /\ CheckpointOk(m) /\ Stabilizes(m)
      /\ wal' \in {WithRecord(m), Pruned(WithRecord(m), m.seq)}
      /\ appended' = appended + 1 /\ acked' \subseteq acked \cup {m}
      /\ m \in Messages /\ m.seq \in Nat
      /\ mode = "live" /\ mode' # "replay"
      /\ current_view' = m.view /\ m.phase = "Checkpoint"
      /\ last_stable_checkpoint' = m.seq /\ m.seq > last_stable_checkpoint
      /\ view_change_votes' = view_change_votes
  BY InputType
     DEF HandleStableCheckpoint, PruneFails, Receives, CheckpointOk, Stabilize, ForgetUpTo,
         process, Messages
<1>2. m \in Logged(wal') /\ Cardinality(LoggedVoters(m)') >= Quorum
  BY <1>1, CompactKeeps
<1>3. Evidence(Logged(wal'), current_view')
  BY <1>1, <1>2 DEF Evidence, LoggedVoters
<1>4. \A x \in Logged(wal) : x \in Logged(wal') \/ x.seq < m.seq
  <2>1. \A r \in wal : r.msg.seq \in Nat
    BY DEF TypeOK, Messages
  <2>2. QED
    BY <1>1, <2>1 DEF WithRecord, Pruned, Logged
<1>5. \A x \in view_change_votes : x.seq < last_stable_checkpoint => x.seq < m.seq
  BY <1>1 DEF TypeOK, Messages
<1>6. VotesTraced'
  BY <1>1, <1>4, <1>5 DEF ViewInv, VotesTraced, Serving
<1>7. QED
  BY <1>1, <1>3, <1>6 DEF ViewInv, ViewProved

\* One record of the replay: the view follows the record only when it is evidence.
LEMMA ReplayProves ==
    ASSUME TypeOK, TypeOK', LogInv, ViewInv, NEW r \in wal, ReplayRecord(r)
    PROVE  ViewInv'
<1> DEFINE m == r.msg
<1>1. /\ mode = "replay" /\ mode' = "replay" /\ wal' = wal /\ m \in Logged(wal)
      /\ m \in Messages /\ m.view \in Nat
  BY DEF ReplayRecord, ReplayPrePrepare, ReplayPrepare, ReplayCommit, ReplayViewChange,
         ReplayCheckpoint, Reads, Advance, disk, Logged, TypeOK, Messages
<1>2. Logged(wal) \in SUBSET Messages
  BY LoggedType DEF TypeOK
<1>3. Evidence(Logged(wal), current_view)
  BY <1>1 DEF ViewInv, ViewProved
<1>4. SUFFICES /\ \A x \in view_change_votes' : x.phase = "ViewChange" /\ x \in Logged(wal)
               /\ Evidence(Logged(wal), current_view')
  BY <1>1 DEF ViewInv, ViewProved, VotesTraced, Serving
<1>5. \A x \in view_change_votes : x.phase = "ViewChange" /\ x \in Logged(wal)
  BY <1>1 DEF ViewInv, VotesTraced
<1>6. CASE ReplayPrePrepare(r) \/ ReplayPrepare(r) \/ ReplayCommit(r)
  <2>1. /\ view_change_votes' = view_change_votes
        /\ current_view' \in {current_view, m.view}
        /\ m.phase \in {"PrePrepare", "Prepare", "Commit"}
    BY <1>6 DEF ReplayPrePrepare, ReplayPrepare, ReplayCommit, RaiseView, Higher, votes
  <2>2. Evidence(Logged(wal), m.view)
    BY <1>1, <2>1 DEF Evidence
  <2>3. QED
    BY <1>3, <1>5, <2>1, <2>2
<1>7. CASE ReplayViewChange(r)
  <2> DEFINE sup == Supporters(view_change_votes', m.view)
  <2>1. /\ m.phase = "ViewChange" /\ view_change_votes' = PutVote(view_change_votes, m)
        /\ current_view' = IF HasQuorum(sup) THEN Higher(current_view, m.view)
                                             ELSE current_view
    BY <1>7 DEF ReplayViewChange, RecordViewChange
  <2>2. \A x \in view_change_votes' : x.phase = "ViewChange" /\ x \in Logged(wal)
    BY <1>1, <1>5, <2>1 DEF PutVote
  <2>3. \A x \in sup : x \in Logged(wal) /\ x.phase = "ViewChange" /\ x.view = m.view
    BY <2>2 DEF Supporters
  <2>4. HasQuorum(sup) => Evidence(Logged(wal), m.view)
    <3> HIDE DEF sup
    <3>1. QED
      BY <1>2, <2>3, QuorumProves
  <2>5. current_view' = current_view \/ (HasQuorum(sup) /\ current_view' = m.view)
    <3> HIDE DEF sup
    <3>1. QED
      BY <2>1 DEF Higher
  <2>6. QED
    BY <1>3, <2>2, <2>4, <2>5
<1>8. CASE ReplayCheckpoint(r)
  <2>1. /\ m.phase = "Checkpoint" /\ view_change_votes' = view_change_votes
        /\ current_view' = IF Stabilizes(m) THEN Higher(current_view, m.view)
                                            ELSE current_view
    BY <1>8 DEF ReplayCheckpoint, votes
  <2>2. Stabilizes(m) => Evidence(Logged(wal), m.view)
    <3> DEFINE V == Voters({x \in Logged(wal) : x.phase = m.phase}, m)
    <3>1. \A x \in CheckpointVotes(m) : x.phase = "Checkpoint" /\ x \in Logged(wal)
      BY <1>1, <2>1 DEF LogInv, VotesLogged, CheckpointVotes
    <3>2. Voters(CheckpointVotes(m), m) \subseteq V
      BY <2>1, <3>1 DEF Voters
    <3>3. V \in SUBSET Nodes
      BY <1>2, VotersType
    <3>4. Stabilizes(m) => Cardinality(V) >= Quorum
      <4> HIDE DEF V
      <4>1. QED
        BY <3>2, <3>3, QuorumGrows DEF Stabilizes, Verify, Certificate
    <3>5. QED
      BY <1>1, <2>1, <3>4 DEF Evidence
  <2>3. current_view' = current_view \/ (Stabilizes(m) /\ current_view' = m.view)
    BY <2>1 DEF Higher
  <2>4. QED
    BY <1>3, <1>5, <2>1, <2>2, <2>3
<1>9. QED
  BY <1>6, <1>7, <1>8 DEF ReplayRecord

\* Every step keeps the evidence of the view.
LEMMA NextView ==
    ASSUME TypeOK, TypeOK', LogInv, ViewInv, [Next]_vars PROVE ViewInv'
<1> USE InputType
<1>1. ASSUME NEW m \in Inputs,
             HandlePrePrepare(m) \/ HandlePrepare(m) \/ HandleCommit(m)
                 \/ HandleCheckpointVote(m)
      PROVE  ViewInv'
  <2>1. /\ mode = "live" /\ mode' = "live" /\ wal' = WithRecord(m)
        /\ UNCHANGED <<current_view, last_stable_checkpoint, view_change_votes,
                       new_view_certificates>>
    BY <1>1
       DEF HandlePrePrepare, HandlePrepare, HandleCommit, HandleCheckpointVote, Receives,
           Durably, process, counters, votes, certs
  <2>2. Logged(wal) \subseteq Logged(wal')
    BY <2>1, LoggedWithRecord
  <2>3. QED
    BY <2>1, <2>2, ViewUntouched DEF Serving
<1>2. ASSUME NEW m \in Inputs, AppendFails(m) PROVE ViewInv'
  <2>1. /\ mode = "live" /\ mode' = "failed" /\ wal' \in {wal, WithRecord(m)}
        /\ UNCHANGED <<current_view, last_stable_checkpoint, view_change_votes,
                       new_view_certificates>>
    BY <1>2 DEF AppendFails, Receives, Interrupted, disk, memory, counters, votes, certs
  <2>2. Logged(wal) \subseteq Logged(wal')
    BY <2>1, LoggedWithRecord
  <2>3. QED
    BY <2>1, <2>2, ViewUntouched DEF Serving
<1>3. ASSUME NEW m \in Inputs, CrashInAppend(m) \/ CrashInPrune(m) PROVE ViewInv'
  BY <1>3 DEF CrashInAppend, CrashInPrune, Dies, ViewInv, VotesTraced, ViewProved, Serving
<1>4. CASE Crash \/ CrashInReplay \/ RefuseReplay
  BY <1>4 DEF Crash, CrashInReplay, RefuseReplay, Dies, ViewInv, VotesTraced, ViewProved,
              Serving
<1>5. CASE Restart
  BY <1>5 DEF Restart, ViewInv, VotesTraced, ViewProved, Serving, Evidence
<1>6. CASE FinishReplay
  <2>1. /\ mode = "replay" /\ mode' = "live"
        /\ UNCHANGED <<current_view, wal, view_change_votes>>
    BY <1>6 DEF FinishReplay, ForgetUpTo, counters, disk, votes
  <2>2. Evidence(Logged(wal), current_view)
    BY <2>1 DEF ViewInv, ViewProved
  <2>3. ViewProved'
    BY <2>1, <2>2 DEF ViewProved
  <2>4. VotesTraced'
    BY <2>1 DEF ViewInv, VotesTraced
  <2>5. QED
    BY <2>3, <2>4 DEF ViewInv
<1>7. CASE UNCHANGED vars
  <2>1. UNCHANGED <<current_view, last_stable_checkpoint, view_change_votes,
                    new_view_certificates, wal, mode>>
    BY <1>7 DEF vars, memory, counters, votes, certs, disk, process
  <2>2. QED
    BY <2>1 DEF ViewInv, VotesTraced, ViewProved, Serving, Outdated
<1>8. QED
  BY <1>1, <1>2, <1>3, <1>4, <1>5, <1>6, <1>7, ViewChangeProves, CheckpointProves, ReplayProves
     DEF Next, Handle, Fault, Replay

\* A serving replica is in a view its log proves, but for the one exception: a quorum with
\* a vote whose reported slot a compaction had passed (pbft.rs:431-436, 821-827, 913-914).
THEOREM ViewAlwaysDurable ==
    Spec => []ViewDurable
<1>1. Init => ViewInv
  BY DEF Init, ViewInv, VotesTraced, ViewProved, Serving, Evidence
<1>2. TypeOK /\ BackedInv /\ LogInv /\ ViewInv /\ (TypeOK /\ BackedInv /\ LogInv)'
      /\ [Next]_vars => ViewInv'
  BY NextView
<1>3. ViewInv => ViewDurable
  <2>1. Evidence(Logged(wal), current_view) => LogProves(current_view)
    BY DEF Evidence, LogProves, LoggedVoters
  <2>2. QED
    BY <2>1 DEF ViewInv, ViewProved, ViewDurable, Outdated
<1>4. QED
  BY <1>1, <1>2, <1>3, LogInvariant, PTL DEF Spec
=============================================================================
