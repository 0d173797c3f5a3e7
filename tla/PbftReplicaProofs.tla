------------------------- MODULE PbftReplicaProofs -------------------------
(***************************************************************************)
(* Theorems about PbftReplica for every number of faults, every set of     *)
(* views, sequences, digests and inputs, and every bound.                  *)
(***************************************************************************)
EXTENDS PbftReplica, PbftVotesProofs

-----------------------------------------------------------------------------
(* The log and the inputs *)

\* The messages of a typed log are typed.
LEMMA LoggedType ==
    ASSUME NEW S \in SUBSET [at : Nat, msg : Messages]
    PROVE  Logged(S) \subseteq Messages
  BY DEF Logged

\* The log holds the record appended last.
LEMMA LoggedWithRecord ==
    ASSUME NEW m PROVE Logged(WithRecord(m)) = Logged(wal) \cup {m}
<1> DEFINE rec == [at |-> appended + 1, msg |-> m]
<1>1. WithRecord(m) = wal \cup {rec} /\ rec.msg = m
  BY DEF WithRecord
<1> HIDE DEF rec
<1>2. \A x : x \in Logged(wal \cup {rec}) <=> x \in Logged(wal) \/ x = rec.msg
  BY DEF Logged
<1>3. QED
  BY <1>1, <1>2

\* Inputs are messages.
LEMMA InputType ==
    Inputs \subseteq Messages
  BY ReplicaAssumption

-----------------------------------------------------------------------------
(* Types are preserved, handler by handler *)

\* Appending a message keeps the disk typed.
LEMMA WithRecordType ==
    ASSUME TypeOK, NEW m \in Messages
    PROVE  /\ WithRecord(m) \subseteq [at : Nat, msg : Messages]
           /\ \A s : Pruned(WithRecord(m), s) \subseteq [at : Nat, msg : Messages]
           /\ appended + 1 \in Nat
  BY DEF TypeOK, WithRecord, Pruned

\* Filing a prepare vote keeps votes and certificates typed.
LEMMA RecordPrepareType ==
    ASSUME TypeOK, NEW m \in Messages, RecordPrepare(m)
    PROVE  /\ prepare_votes' \subseteq Messages
           /\ prepared_certificates' \subseteq Certificates
           /\ \A c, d \in prepared_certificates' : SamePlace(c, d) => c = d
<1> DEFINE cert == Certificate(prepare_votes \cup {m}, m)
<1>1. prepare_votes' = prepare_votes \cup {m}
  BY DEF RecordPrepare
<1>2. prepared_certificates' = IF Verify(cert) THEN Put(prepared_certificates, cert)
                                               ELSE prepared_certificates
  BY <1>1 DEF RecordPrepare
<1>3. prepare_votes \cup {m} \in SUBSET Messages
  BY DEF TypeOK
<1>4. cert \in Certificates
  BY <1>3, CertificateType
<1> HIDE DEF cert
<1>5. QED
  BY <1>1, <1>2, <1>3, <1>4, PutType DEF TypeOK

\* Filing a commit vote keeps votes and certificates typed.
LEMMA RecordCommitType ==
    ASSUME TypeOK, NEW m \in Messages, RecordCommit(m)
    PROVE  /\ commit_votes' \subseteq Messages
           /\ commit_certificates' \subseteq Certificates
           /\ \A c, d \in commit_certificates' : SamePlace(c, d) => c = d
<1> DEFINE cert == Certificate(commit_votes \cup {m}, m)
<1>1. commit_votes' = commit_votes \cup {m}
  BY DEF RecordCommit
<1>2. commit_certificates' = IF Verify(cert) THEN Put(commit_certificates, cert)
                                             ELSE commit_certificates
  BY <1>1 DEF RecordCommit
<1>3. commit_votes \cup {m} \in SUBSET Messages
  BY DEF TypeOK
<1>4. cert \in Certificates
  BY <1>3, CertificateType
<1> HIDE DEF cert
<1>5. QED
  BY <1>1, <1>2, <1>3, <1>4, PutType DEF TypeOK

\* Filing a view-change vote keeps votes and new-view certificates typed.
LEMMA RecordViewChangeType ==
    ASSUME TypeOK, NEW m \in Messages, RecordViewChange(m)
    PROVE  view_change_votes' \subseteq Messages /\ new_view_certificates' \subseteq NewViews
<1> DEFINE sup == Supporters(PutVote(view_change_votes, m), m.view)
           nv  == NewView(prepared_certificates, m.view, sup)
<1>1. view_change_votes' = PutVote(view_change_votes, m)
  BY DEF RecordViewChange
<1>2. new_view_certificates' = IF HasQuorum(sup) THEN PutNewView(new_view_certificates, nv)
                                                 ELSE new_view_certificates
  BY <1>1 DEF RecordViewChange
<1>3. PutVote(view_change_votes, m) \in SUBSET Messages
  BY DEF TypeOK, PutVote
<1>4. sup \in SUBSET Messages
  BY <1>3 DEF Supporters
<1>5. m.view \in Nat
  BY DEF Messages
<1>6. nv \in NewViews
  BY <1>4, <1>5, NewViewType DEF TypeOK
<1> HIDE DEF nv, sup
<1>7. QED
  BY <1>1, <1>2, <1>3, <1>6 DEF TypeOK, PutNewView

\* Forgetting below a watermark only shrinks sets.
LEMMA ForgetType ==
    ASSUME TypeOK, NEW ballots \in SUBSET Messages, NEW s, ForgetUpTo(ballots, s)
    PROVE  /\ pre_prepared_proposals' \subseteq Slots
           /\ prepare_votes' \subseteq Messages /\ commit_votes' \subseteq Messages
           /\ checkpoint_votes' \subseteq Messages /\ view_change_votes' \subseteq Messages
           /\ prepared_certificates' \subseteq Certificates
           /\ commit_certificates' \subseteq Certificates
           /\ new_view_certificates' \subseteq NewViews
           /\ \A c, d \in prepared_certificates' : SamePlace(c, d) => c = d
           /\ \A c, d \in commit_certificates' : SamePlace(c, d) => c = d
  BY DEF TypeOK, ForgetUpTo, Above

\* The image of a typed state is an image.
LEMMA ImageType ==
    ASSUME TypeOK PROVE Image \in Images /\ NoImage \in Images
                        /\ [Image EXCEPT !.clean = FALSE] \in Images
<1>1. /\ {Slot(c) : c \in prepared_certificates} \in SUBSET Slots
      /\ {Slot(c) : c \in commit_certificates} \in SUBSET Slots
  BY DEF TypeOK, Slot, Slots, Certificates
<1>2. Image \in Images
  BY <1>1 DEF TypeOK, Image, Images
<1>3. [Image EXCEPT !.clean = FALSE] \in Images
  BY <1>2 DEF Images
<1>4. NoImage \in Images
  BY DEF NoImage, Images
<1>5. QED
  BY <1>2, <1>3, <1>4

\* Initially every variable has its type.
LEMMA InitType ==
    ASSUME Init PROVE TypeOK
  BY ImageType DEF Init, TypeOK, NoImage, Images

\* Every step keeps every variable in its type.
LEMMA NextType ==
    ASSUME TypeOK, [Next]_vars PROVE TypeOK'
<1> USE InputType DEF process
<1>1. ASSUME NEW m \in Inputs, HandlePrePrepare(m) PROVE TypeOK'
  <2>1. m \in Messages /\ Slot(m) \in Slots /\ Higher(highest_seq, m.seq) \in Nat
    BY SlotType DEF TypeOK, Higher, Messages
  <2>2. QED
    BY <1>1, <2>1, WithRecordType
       DEF TypeOK, HandlePrePrepare, Durably, votes, certs
<1>2. ASSUME NEW m \in Inputs, HandlePrepare(m) PROVE TypeOK'
  BY <1>2, RecordPrepareType, WithRecordType DEF TypeOK, HandlePrepare, Durably, counters
<1>3. ASSUME NEW m \in Inputs, HandleCommit(m) PROVE TypeOK'
  BY <1>3, RecordCommitType, WithRecordType DEF TypeOK, HandleCommit, Durably, counters
<1>4. ASSUME NEW m \in Inputs, HandleViewChange(m) PROVE TypeOK'
  <2>1. m \in Messages /\ m.view \in Nat
    BY DEF Messages
  <2>2. current_view' \in Nat
    BY <1>4, <2>1 DEF HandleViewChange, TypeOK
  <2>3. highest_seq' \in Nat
    BY <1>4 DEF HandleViewChange, TypeOK, Selected, Candidates, Certificates
  <2>4. QED
    BY <1>4, <2>1, <2>2, <2>3, RecordViewChangeType, WithRecordType
       DEF TypeOK, HandleViewChange, Durably
<1>5. ASSUME NEW m \in Inputs, HandleCheckpointVote(m) PROVE TypeOK'
  BY <1>5, WithRecordType
     DEF TypeOK, HandleCheckpointVote, CheckpointVotes, Durably, counters, certs
<1>6. ASSUME NEW m \in Inputs, Stabilize(m) PROVE
          /\ current_view' \in Nat /\ highest_seq' \in Nat /\ last_stable_checkpoint' \in Nat
          /\ pre_prepared_proposals' \subseteq Slots
          /\ prepare_votes' \subseteq Messages /\ commit_votes' \subseteq Messages
          /\ checkpoint_votes' \subseteq Messages /\ view_change_votes' \subseteq Messages
          /\ prepared_certificates' \subseteq Certificates
          /\ commit_certificates' \subseteq Certificates
          /\ new_view_certificates' \subseteq NewViews
          /\ \A c, d \in prepared_certificates' : SamePlace(c, d) => c = d
          /\ \A c, d \in commit_certificates' : SamePlace(c, d) => c = d
  <2>1. m.seq \in Nat /\ CheckpointVotes(m) \in SUBSET Messages
    BY DEF CheckpointVotes, TypeOK, Messages
  <2>2. ForgetUpTo(CheckpointVotes(m), m.seq)
    BY <1>6 DEF Stabilize
  <2>3. QED
    BY <1>6, <2>1, <2>2, ForgetType DEF TypeOK, Stabilize
<1>7. ASSUME NEW m \in Inputs, HandleStableCheckpoint(m) PROVE TypeOK'
  BY <1>7, <1>6, WithRecordType DEF TypeOK, HandleStableCheckpoint
<1>8. ASSUME NEW m \in Inputs, Interrupted(m) PROVE
          wal' \subseteq [at : Nat, msg : Messages] /\ appended' \in Nat /\ torn' \in BOOLEAN
  BY <1>8, WithRecordType DEF TypeOK, Interrupted, disk
<1>9. ASSUME NEW m \in Inputs, AppendFails(m) PROVE TypeOK'
  BY <1>9, <1>8 DEF TypeOK, AppendFails, memory, counters, votes, certs
<1>10. ASSUME NEW m \in Inputs, PruneFails(m) PROVE TypeOK'
  BY <1>10, <1>6, WithRecordType DEF TypeOK, PruneFails
<1>11. ASSUME NEW image \in Images, Dies(image) PROVE
          /\ mode' = "down" /\ before' \in Images /\ crashes' \in Nat
          /\ UNCHANGED <<current_view, highest_seq, last_stable_checkpoint,
                         pre_prepared_proposals, prepare_votes, commit_votes,
                         checkpoint_votes, view_change_votes, prepared_certificates,
                         commit_certificates, new_view_certificates, acked, cursor>>
  BY <1>11 DEF TypeOK, Dies, memory, counters, votes, certs
<1>12. ASSUME NEW m \in Inputs, CrashInAppend(m) PROVE TypeOK'
  BY <1>12, <1>11, <1>8, ImageType DEF TypeOK, CrashInAppend
<1>13. ASSUME NEW m \in Inputs, CrashInPrune(m) PROVE TypeOK'
  BY <1>13, <1>11, WithRecordType, ImageType DEF TypeOK, CrashInPrune
<1>14. ASSUME Crash PROVE TypeOK'
  BY <1>14, <1>11, ImageType DEF TypeOK, Crash, disk
<1>15. ASSUME CrashInReplay PROVE TypeOK'
  <2>1. before \in Images
    BY DEF TypeOK
  <2>2. QED
    BY <1>15, <1>11, <2>1 DEF TypeOK, CrashInReplay, disk
<1>16. ASSUME Restart PROVE TypeOK'
  BY <1>16 DEF TypeOK, Restart, disk
<1>17. ASSUME NEW r \in wal, ReplayRecord(r) PROVE TypeOK'
  <2>1. /\ r.msg \in Messages /\ r.at \in Nat /\ Slot(r.msg) \in Slots
        /\ Higher(highest_seq, r.msg.seq) \in Nat
        /\ Higher(current_view, r.msg.view) \in Nat
        /\ Higher(last_stable_checkpoint, r.msg.seq) \in Nat
    BY SlotType DEF TypeOK, Higher, Messages
  <2> USE DEF Advance, RaiseSeq, RaiseView, disk
  <2>2. CASE ReplayPrePrepare(r)
    BY <2>1, <2>2 DEF TypeOK, ReplayPrePrepare, votes, certs
  <2>3. CASE ReplayPrepare(r)
    BY <2>1, <2>3, RecordPrepareType DEF TypeOK, ReplayPrepare
  <2>4. CASE ReplayCommit(r)
    BY <2>1, <2>4, RecordCommitType DEF TypeOK, ReplayCommit
  <2>5. CASE ReplayViewChange(r)
    BY <2>1, <2>5, RecordViewChangeType DEF TypeOK, ReplayViewChange
  <2>6. CASE ReplayCheckpoint(r)
    BY <2>1, <2>6 DEF TypeOK, ReplayCheckpoint, CheckpointVotes, certs
  <2>7. QED
    BY <1>17, <2>2, <2>3, <2>4, <2>5, <2>6 DEF ReplayRecord
<1>18. ASSUME RefuseReplay PROVE TypeOK'
  BY <1>18 DEF TypeOK, RefuseReplay, memory, counters, votes, certs, disk
<1>19. ASSUME FinishReplay PROVE TypeOK'
  <2>1. checkpoint_votes \in SUBSET Messages
    BY DEF TypeOK
  <2>2. CASE last_stable_checkpoint > 0
    BY <1>19, <2>1, <2>2, ForgetType, ImageType DEF TypeOK, FinishReplay, counters, disk
  <2>3. CASE ~(last_stable_checkpoint > 0)
    BY <1>19, <2>3, ImageType DEF TypeOK, FinishReplay, counters, disk, votes, certs
  <2>4. QED
    BY <2>2, <2>3
<1>20. CASE UNCHANGED vars
  BY <1>20 DEF TypeOK, vars, memory, counters, votes, certs, disk
<1>21. QED
  BY <1>1, <1>2, <1>3, <1>4, <1>5, <1>7, <1>9, <1>10, <1>12, <1>13, <1>14, <1>15, <1>16,
     <1>17, <1>18, <1>19, <1>20
     DEF Next, Handle, Fault, Replay

\* Every reachable state is typed, and each certificate map has one entry per key.
THEOREM TypeCorrect ==
    Spec => []TypeOK
<1>1. Init => TypeOK
  BY InitType
<1>2. TypeOK /\ [Next]_vars => TypeOK'
  BY NextType
<1>3. QED
  BY <1>1, <1>2, PTL DEF Spec

-----------------------------------------------------------------------------
(* Certificates are backed by proposals and votes.  What makes this inductive is that the *)
(* proposals in memory never conflict: replacing a prepared certificate then cannot take  *)
(* away the one a commit certificate of the same slot rests on.                           *)

OneDigest ==
    \A p, q \in pre_prepared_proposals : SamePlace(p, q) => p.digest = q.digest

BackedInv == CertificatesBacked /\ OneDigest

ledger == <<pre_prepared_proposals, prepare_votes, commit_votes,
            prepared_certificates, commit_certificates>>

\* Initially there is nothing to back.
LEMMA InitBacked ==
    ASSUME Init PROVE BackedInv
  BY DEF Init, BackedInv, CertificatesBacked, OneDigest

\* A step that leaves proposals, ballots and their certificates alone keeps them backed.
LEMMA LedgerBacked ==
    ASSUME BackedInv, UNCHANGED ledger PROVE BackedInv'
  BY DEF BackedInv, CertificatesBacked, OneDigest, ledger, Voters, Verify

\* A proposal that conflicts with none may be added.
LEMMA ProposalBacked ==
    ASSUME BackedInv, NEW m,
           \A p \in pre_prepared_proposals : SamePlace(p, m) => p.digest = m.digest,
           pre_prepared_proposals' = pre_prepared_proposals \cup {Slot(m)},
           UNCHANGED <<prepare_votes, commit_votes, prepared_certificates, commit_certificates>>
    PROVE  BackedInv'
<1>1. OneDigest'
  BY DEF BackedInv, OneDigest, SamePlace, Slot
<1>2. CertificatesBacked'
  BY DEF BackedInv, CertificatesBacked, Voters, Verify
<1>3. QED
  BY <1>1, <1>2 DEF BackedInv

\* Filing a prepare vote for a proposed slot.
LEMMA PrepareBacked ==
    ASSUME BackedInv, TypeOK, NEW m \in Messages, Slot(m) \in pre_prepared_proposals,
           RecordPrepare(m),
           UNCHANGED <<pre_prepared_proposals, commit_votes, commit_certificates>>
    PROVE  BackedInv'
<1> DEFINE cert == Certificate(prepare_votes \cup {m}, m)
<1>1. prepare_votes' = prepare_votes \cup {m}
  BY DEF RecordPrepare
<1>2. prepared_certificates' = IF Verify(cert) THEN Put(prepared_certificates, cert)
                                               ELSE prepared_certificates
  BY <1>1 DEF RecordPrepare
<1>3. /\ cert.view = m.view /\ cert.seq = m.seq /\ cert.digest = m.digest
      /\ Slot(cert) = Slot(m)
      /\ cert.signatures = Voters(prepare_votes', m)
      /\ Voters(prepare_votes', cert) = Voters(prepare_votes', m)
  BY <1>1 DEF Certificate, Slot, Voters, SameSlot, SamePlace
<1> HIDE DEF cert
<1>4. \A c : Voters(prepare_votes, c) \subseteq Voters(prepare_votes', c)
  BY <1>1 DEF Voters
<1>5. ASSUME NEW c \in prepared_certificates'
      PROVE  /\ Slot(c) \in pre_prepared_proposals' /\ Verify(c)
             /\ c.signatures \subseteq Voters(prepare_votes', c)
  <2>1. CASE c \in prepared_certificates
    BY <1>4, <2>1 DEF BackedInv, CertificatesBacked
  <2>2. CASE c = cert /\ Verify(cert)
    BY <1>3, <2>2
  <2>3. QED
    BY <1>2, <1>5, <2>1, <2>2 DEF Put
<1>6. ASSUME NEW c \in commit_certificates,
             NEW p \in prepared_certificates, SameSlot(p, c)
      PROVE  \E q \in prepared_certificates' : SameSlot(q, c)
  <2>1. CASE p \in prepared_certificates'
    BY <1>6, <2>1
  <2>2. CASE p \notin prepared_certificates'
    <3>1. Verify(cert) /\ SamePlace(p, cert) /\ cert \in prepared_certificates'
      BY <1>2, <2>2 DEF Put
    <3>2. Slot(p) \in pre_prepared_proposals
      BY DEF BackedInv, CertificatesBacked
    <3>3. SamePlace(Slot(p), Slot(m)) => Slot(p).digest = Slot(m).digest
      BY <3>2 DEF BackedInv, OneDigest
    <3>4. p.digest = cert.digest
      BY <1>3, <3>1, <3>3 DEF Slot, SamePlace
    <3>5. SameSlot(cert, c)
      BY <1>6, <3>1, <3>4 DEF SameSlot, SamePlace
    <3>6. QED
      BY <3>1, <3>5
  <2>3. QED
    BY <2>1, <2>2
<1>7. CertificatesBacked'
  <2>1. ASSUME NEW c \in commit_certificates'
        PROVE  /\ Verify(c) /\ c.signatures \subseteq Voters(commit_votes', c)
               /\ \E p \in prepared_certificates' : SameSlot(p, c)
    BY <1>6 DEF BackedInv, CertificatesBacked
  <2>2. QED
    BY <1>5, <2>1 DEF CertificatesBacked, Verify, Voters
<1>8. QED
  BY <1>7 DEF BackedInv, OneDigest

\* Filing a commit vote for a prepared slot.
LEMMA CommitBacked ==
    ASSUME BackedInv, NEW m, Certified(prepared_certificates, m), RecordCommit(m),
           UNCHANGED <<pre_prepared_proposals, prepare_votes, prepared_certificates>>
    PROVE  BackedInv'
<1> DEFINE cert == Certificate(commit_votes \cup {m}, m)
<1>1. commit_votes' = commit_votes \cup {m}
  BY DEF RecordCommit
<1>2. commit_certificates' = IF Verify(cert) THEN Put(commit_certificates, cert)
                                             ELSE commit_certificates
  BY <1>1 DEF RecordCommit
<1>3. /\ cert.signatures = Voters(commit_votes', m)
      /\ Voters(commit_votes', cert) = Voters(commit_votes', m)
      /\ \A p : SameSlot(p, m) => SameSlot(p, cert)
  BY <1>1 DEF Certificate, Voters, SameSlot, SamePlace
<1> HIDE DEF cert
<1>4. \A c : Voters(commit_votes, c) \subseteq Voters(commit_votes', c)
  BY <1>1 DEF Voters
<1>5. ASSUME NEW c \in commit_certificates'
      PROVE  /\ Verify(c) /\ c.signatures \subseteq Voters(commit_votes', c)
             /\ \E p \in prepared_certificates : SameSlot(p, c)
  <2>1. CASE c \in commit_certificates
    BY <1>4, <2>1 DEF BackedInv, CertificatesBacked
  <2>2. CASE c = cert /\ Verify(cert)
    BY <1>3, <2>2 DEF Certified
  <2>3. QED
    BY <1>2, <1>5, <2>1, <2>2 DEF Put
<1>6. QED
  BY <1>5 DEF BackedInv, CertificatesBacked, OneDigest, Verify, Voters

\* Forgetting takes proposals, votes and certificates of a slot together.
LEMMA ForgetBacked ==
    ASSUME BackedInv, NEW ballots, NEW s, ForgetUpTo(ballots, s)
    PROVE  BackedInv'
<1>1. \A V, c : c.seq > s => Voters(Above(V, s), c) = Voters(V, c)
  BY DEF Voters, Above, SameSlot, SamePlace
<1>2. /\ \A c \in prepared_certificates' : c \in prepared_certificates /\ c.seq > s
      /\ \A c \in commit_certificates' : c \in commit_certificates /\ c.seq > s
  BY DEF ForgetUpTo, Above
<1>3. ASSUME NEW c \in prepared_certificates'
      PROVE  /\ Slot(c) \in pre_prepared_proposals' /\ Verify(c)
             /\ c.signatures \subseteq Voters(prepare_votes', c)
  <2>1. /\ Slot(c) \in pre_prepared_proposals /\ Slot(c).seq > s
        /\ Verify(c) /\ c.signatures \subseteq Voters(prepare_votes, c)
    BY <1>2, <1>3 DEF BackedInv, CertificatesBacked, Slot
  <2>2. QED
    BY <1>1, <1>2, <2>1 DEF ForgetUpTo, Above
<1>4. ASSUME NEW c \in commit_certificates'
      PROVE  /\ Verify(c) /\ c.signatures \subseteq Voters(commit_votes', c)
             /\ \E p \in prepared_certificates' : SameSlot(p, c)
  <2>1. /\ Verify(c) /\ c.signatures \subseteq Voters(commit_votes, c)
        /\ \E p \in prepared_certificates : SameSlot(p, c)
    BY <1>2, <1>4 DEF BackedInv, CertificatesBacked
  <2>2. \E p \in prepared_certificates' : SameSlot(p, c)
    BY <1>2, <2>1 DEF ForgetUpTo, Above, SameSlot, SamePlace
  <2>3. c.signatures \subseteq Voters(commit_votes', c)
    BY <1>1, <1>2, <2>1 DEF ForgetUpTo
  <2>4. QED
    BY <2>1, <2>2, <2>3
<1>5. OneDigest'
  BY DEF BackedInv, OneDigest, ForgetUpTo, Above
<1>6. QED
  BY <1>3, <1>4, <1>5 DEF BackedInv, CertificatesBacked, Verify, Voters

\* Every step keeps the certificates backed.
LEMMA NextBacked ==
    ASSUME TypeOK, BackedInv, [Next]_vars PROVE BackedInv'
<1> USE InputType DEF ledger
<1>1. ASSUME NEW m \in Inputs, HandlePrePrepare(m) PROVE BackedInv'
  BY <1>1, ProposalBacked DEF HandlePrePrepare, PrePrepareOk, votes, certs
<1>2. ASSUME NEW m \in Inputs, HandlePrepare(m) PROVE BackedInv'
  BY <1>2, PrepareBacked DEF HandlePrepare, PrepareOk
<1>3. ASSUME NEW m \in Inputs, HandleCommit(m) PROVE BackedInv'
  BY <1>3, CommitBacked DEF HandleCommit, CommitOk
<1>4. ASSUME NEW m \in Inputs, HandleViewChange(m) PROVE BackedInv'
  BY <1>4, LedgerBacked DEF HandleViewChange
<1>5. ASSUME NEW m \in Inputs, HandleCheckpointVote(m) PROVE BackedInv'
  BY <1>5, LedgerBacked DEF HandleCheckpointVote, certs
<1>6. ASSUME NEW m \in Inputs, HandleStableCheckpoint(m) \/ PruneFails(m) PROVE BackedInv'
  BY <1>6, ForgetBacked DEF HandleStableCheckpoint, PruneFails, Stabilize
<1>7. ASSUME NEW m \in Inputs, AppendFails(m) \/ CrashInAppend(m) \/ CrashInPrune(m)
      PROVE  BackedInv'
  BY <1>7, LedgerBacked
     DEF AppendFails, CrashInAppend, CrashInPrune, Dies, memory, votes, certs
<1>8. CASE Crash \/ CrashInReplay \/ RefuseReplay
  BY <1>8, LedgerBacked DEF Crash, CrashInReplay, Dies, RefuseReplay, memory, votes, certs
<1>9. CASE Restart
  BY <1>9 DEF Restart, BackedInv, CertificatesBacked, OneDigest
<1>10. ASSUME NEW r \in wal, ReplayRecord(r) PROVE BackedInv'
  <2>1. r.msg \in Messages
    BY DEF TypeOK
  <2>2. CASE ReplayPrePrepare(r)
    BY <2>2, ProposalBacked DEF ReplayPrePrepare, ReplaysPrePrepare, votes, certs
  <2>3. CASE ReplayPrepare(r)
    BY <2>1, <2>3, PrepareBacked DEF ReplayPrepare, ReplaysPrepare
  <2>4. CASE ReplayCommit(r)
    BY <2>4, CommitBacked DEF ReplayCommit, ReplaysCommit
  <2>5. CASE ReplayViewChange(r) \/ ReplayCheckpoint(r)
    BY <2>5, LedgerBacked DEF ReplayViewChange, ReplayCheckpoint, certs
  <2>6. QED
    BY <1>10, <2>2, <2>3, <2>4, <2>5 DEF ReplayRecord
<1>11. CASE FinishReplay
  BY <1>11, ForgetBacked, LedgerBacked DEF FinishReplay, votes, certs
<1>12. CASE UNCHANGED vars
  BY <1>12, LedgerBacked DEF vars, memory, votes, certs
<1>13. QED
  BY <1>1, <1>2, <1>3, <1>4, <1>5, <1>6, <1>7, <1>8, <1>9, <1>10, <1>11, <1>12
     DEF Next, Handle, Fault, Replay

\* Certificates never outlive or predate their evidence (pbft.rs:718-800, 881-888, 445-484).
THEOREM CertificatesAlwaysBacked ==
    Spec => []CertificatesBacked
<1>1. Init => TypeOK /\ BackedInv
  BY InitType, InitBacked
<1>2. TypeOK /\ BackedInv /\ [Next]_vars => (TypeOK /\ BackedInv)'
  BY NextType, NextBacked
<1>3. TypeOK /\ BackedInv => CertificatesBacked
  BY DEF BackedInv
<1>4. QED
  BY <1>1, <1>2, <1>3, PTL DEF Spec

-----------------------------------------------------------------------------
(* What the log holds.  AckedSurvives and NoConflictAboveStable are carried by an       *)
(* invariant that relates log, memory and history in each mode: while the replica is    *)
(* live, what the log holds above the watermark is in memory and every checkpoint the   *)
(* log proves is at or below the watermark; during replay, the same of what was read.   *)

OffsetsOk ==
    /\ \A r \in wal : 0 < r.at /\ r.at <= appended
    /\ \A r, q \in wal : r.at = q.at => r = q

Proves(c) == c.phase = "Checkpoint" /\ Cardinality(LoggedVoters(c)) >= Quorum

LiveLog ==
    mode = "live" =>
        /\ \A r \in wal : r.msg.seq > last_stable_checkpoint =>
              /\ r.msg.phase = "PrePrepare" => Slot(r.msg) \in pre_prepared_proposals
              /\ r.msg.phase = "Checkpoint" => r.msg \in checkpoint_votes
        /\ \A c \in Logged(wal) : Proves(c) => c.seq <= last_stable_checkpoint

ReplayLog ==
    mode = "replay" =>
        /\ \A r \in wal : r.at <= cursor =>
              /\ r.msg.phase = "PrePrepare" => Slot(r.msg) \in pre_prepared_proposals
              /\ r.msg.phase = "Checkpoint" => r.msg \in checkpoint_votes
        /\ \A c \in checkpoint_votes :
              Verify(Certificate(checkpoint_votes, c)) => c.seq <= last_stable_checkpoint

\* In memory there are no checkpoint votes the log does not hold.
VotesLogged ==
    mode \in {"live", "replay"} =>
        \A x \in checkpoint_votes : x.phase = "Checkpoint" /\ x \in Logged(wal)

LogInv ==
    /\ OffsetsOk /\ AckedSurvives
    /\ LiveLog /\ ReplayLog /\ VotesLogged
    /\ mode = "failed" => NoConflictAboveStable

\* A larger set of registered signers still is a quorum.
LEMMA QuorumGrows ==
    ASSUME NEW A, NEW B \in SUBSET Nodes, A \subseteq B, Cardinality(A) >= Quorum
    PROVE  Cardinality(B) >= Quorum
<1>1. IsFiniteSet(Nodes)
  BY FS_Interval, ReplicaAssumption DEF Nodes, N
<1>2. IsFiniteSet(B)
  BY <1>1, FS_Subset
<1>3. IsFiniteSet(A) /\ Cardinality(A) <= Cardinality(B)
  BY <1>2, FS_Subset
<1>4. Cardinality(A) \in Nat /\ Cardinality(B) \in Nat
  BY <1>2, <1>3, FS_CardinalityType
<1>5. QED
  BY <1>3, <1>4, ReplicaAssumption DEF Quorum

\* The history part of the invariant, in service.
LEMMA LiveNoConflict ==
    ASSUME TypeOK, OneDigest, LogInv, mode = "live"
    PROVE  NoConflictAboveStable
<1> SUFFICES ASSUME NEW x \in acked, NEW y \in acked,
                    x.phase = "PrePrepare", y.phase = "PrePrepare",
                    SamePlace(x, y), x.seq > last_stable_checkpoint
             PROVE  x.digest = y.digest
  BY DEF NoConflictAboveStable
<1>1. ASSUME NEW z \in acked, z.phase = "PrePrepare", z.seq > last_stable_checkpoint
      PROVE  Slot(z) \in pre_prepared_proposals
  <2>1. ASSUME NEW c \in Logged(wal), c.phase = "Checkpoint", c.seq > z.seq,
               Cardinality(LoggedVoters(c)) >= Quorum
        PROVE  FALSE
    <3>1. c.seq <= last_stable_checkpoint
      BY <2>1 DEF LogInv, LiveLog, Proves
    <3>2. c.seq \in Nat /\ z.seq \in Nat /\ last_stable_checkpoint \in Nat
      BY <2>1, LoggedType DEF TypeOK, Messages
    <3>3. QED
      BY <1>1, <2>1, <3>1, <3>2
  <2>2. z \in Logged(wal)
    BY <2>1 DEF LogInv, AckedSurvives
  <2>3. QED
    BY <1>1, <2>2 DEF LogInv, LiveLog, Logged
<1>2. Slot(x) \in pre_prepared_proposals /\ Slot(y) \in pre_prepared_proposals
  BY <1>1 DEF SamePlace
<1>3. SamePlace(Slot(x), Slot(y))
  BY DEF SamePlace, Slot
<1>4. Slot(x).digest = Slot(y).digest
  BY <1>2, <1>3 DEF OneDigest
<1>5. QED
  BY <1>4 DEF Slot

\* Appending a record keeps the offsets in order and what was acknowledged in the log.
LEMMA AppendKeeps ==
    ASSUME TypeOK, LogInv, NEW m \in Messages,
           wal' = WithRecord(m), appended' = appended + 1,
           acked' \subseteq acked \cup {m}
    PROVE  /\ OffsetsOk' /\ AckedSurvives'
           /\ Logged(wal') = Logged(wal) \cup {m}
<1>1. OffsetsOk'
  BY DEF TypeOK, LogInv, OffsetsOk, WithRecord
<1>2. Logged(wal') = Logged(wal) \cup {m}
  BY LoggedWithRecord
<1>3. \A c : LoggedVoters(c) \subseteq LoggedVoters(c)'
  BY <1>2 DEF LoggedVoters, Voters
<1>4. \A c : LoggedVoters(c)' \in SUBSET Nodes
  BY <1>2, LoggedType, VotersType DEF LoggedVoters, TypeOK
<1>5. ASSUME NEW x \in acked',
             ~(x \in Logged(wal'))
      PROVE  \E c \in Logged(wal') : /\ c.phase = "Checkpoint" /\ c.seq > x.seq
                                     /\ Cardinality(LoggedVoters(c)') >= Quorum
  <2>1. PICK c \in Logged(wal) : /\ c.phase = "Checkpoint" /\ c.seq > x.seq
                                 /\ Cardinality(LoggedVoters(c)) >= Quorum
    BY <1>2, <1>5 DEF LogInv, AckedSurvives
  <2>2. Cardinality(LoggedVoters(c)') >= Quorum
    BY <1>3, <1>4, <2>1, QuorumGrows
  <2>3. QED
    BY <1>2, <2>1, <2>2
<1>6. AckedSurvives'
  BY <1>5 DEF AckedSurvives
<1>7. QED
  BY <1>1, <1>2, <1>6

\* The signers the log holds for a checkpoint, when the log is typed.
LEMMA LoggedVotersType ==
    ASSUME TypeOK, NEW c PROVE LoggedVoters(c) \subseteq Nodes
<1>1. {x \in Logged(wal) : x.phase = c.phase} \in SUBSET Messages
  BY LoggedType DEF TypeOK
<1>2. QED
  BY <1>1, VotersType DEF LoggedVoters

\* A live step that logs an ordinary message or a view-change vote.
LEMMA AppendOther ==
    ASSUME TypeOK, LogInv, NEW m \in Messages, m.phase # "Checkpoint",
           mode = "live", Durably(m),
           UNCHANGED <<last_stable_checkpoint, checkpoint_votes>>,
           pre_prepared_proposals \subseteq pre_prepared_proposals',
           m.phase = "PrePrepare" => Slot(m) \in pre_prepared_proposals'
    PROVE  LogInv'
<1>1. /\ OffsetsOk' /\ AckedSurvives' /\ Logged(wal') = Logged(wal) \cup {m}
      /\ wal' = WithRecord(m) /\ mode' = "live"
  BY AppendKeeps DEF Durably, process
<1>2. \A r \in wal' : r \in wal \/ r.msg = m
  BY <1>1 DEF WithRecord
<1>3. ASSUME NEW c \in Logged(wal'), Proves(c)'
      PROVE  c.seq <= last_stable_checkpoint
  <2>1. c.phase = "Checkpoint" /\ c \in Logged(wal)
    BY <1>1, <1>3 DEF Proves
  <2>2. {x \in Logged(wal') : x.phase = c.phase} = {x \in Logged(wal) : x.phase = c.phase}
    BY <1>1, <2>1
  <2>3. Proves(c)
    BY <1>3, <2>2 DEF Proves, LoggedVoters
  <2>4. QED
    BY <2>1, <2>3 DEF LogInv, LiveLog
<1>4. LiveLog'
  BY <1>1, <1>2, <1>3 DEF LogInv, LiveLog
<1>5. VotesLogged'
  BY <1>1 DEF LogInv, VotesLogged
<1>6. QED
  BY <1>1, <1>4, <1>5 DEF LogInv, ReplayLog

\* A checkpoint vote without a quorum: what the log proves was proved before, because the
\* log holds no votes for the slot that memory does not hold.
LEMMA AppendCheckpointVote ==
    ASSUME TypeOK, LogInv, NEW m \in Inputs, HandleCheckpointVote(m)
    PROVE  LogInv'
<1>1. /\ m \in Messages /\ m.phase = "Checkpoint" /\ mode = "live" /\ ~Stabilizes(m)
      /\ m.seq > last_stable_checkpoint
      /\ checkpoint_votes' = checkpoint_votes \cup {m}
      /\ UNCHANGED <<last_stable_checkpoint, pre_prepared_proposals>>
      /\ Durably(m)
  BY InputType DEF HandleCheckpointVote, Receives, CheckpointOk, CheckpointVotes, counters
<1>2. /\ OffsetsOk' /\ AckedSurvives' /\ Logged(wal') = Logged(wal) \cup {m}
      /\ wal' = WithRecord(m) /\ mode' = "live"
  BY <1>1, AppendKeeps DEF Durably, process
<1>3. \A r \in wal' : r \in wal \/ r.msg = m
  BY <1>2 DEF WithRecord
<1>4. ASSUME NEW c \in Logged(wal'), Proves(c)'
      PROVE  c.seq <= last_stable_checkpoint
  <2>1. c.phase = "Checkpoint"
    BY <1>4 DEF Proves
  <2>2. CASE SameSlot(m, c)
    <3>1. LoggedVoters(c)' \subseteq Voters(CheckpointVotes(m), m)
      <4> SUFFICES ASSUME NEW x \in Logged(wal'), x.phase = "Checkpoint", SameSlot(x, c)
                   PROVE  x.sender \in Voters(CheckpointVotes(m), m)
        BY <2>1 DEF LoggedVoters, Voters
      <4>1. SameSlot(x, m) /\ x.seq > last_stable_checkpoint
        BY <1>1, <2>2 DEF SameSlot, SamePlace
      <4>2. x \in CheckpointVotes(m)
        BY <1>1, <1>2, <4>1 DEF LogInv, LiveLog, Logged, CheckpointVotes
      <4>3. QED
        BY <4>1, <4>2 DEF Voters
    <3>2. CheckpointVotes(m) \in SUBSET Messages
      BY <1>1 DEF CheckpointVotes, TypeOK
    <3>3. Voters(CheckpointVotes(m), m) \in SUBSET Nodes
      BY <3>2, VotersType
    <3>4. Cardinality(LoggedVoters(c)') >= Quorum
      BY <1>4 DEF Proves
    <3>5. Cardinality(Voters(CheckpointVotes(m), m)) >= Quorum
      BY <3>1, <3>3, <3>4, QuorumGrows
    <3>6. QED
      BY <1>1, <3>5 DEF Stabilizes, Verify, Certificate
  <2>3. CASE ~SameSlot(m, c)
    <3>1. LoggedVoters(c)' = LoggedVoters(c)
      BY <1>2, <2>3 DEF LoggedVoters, Voters
    <3>2. c \in Logged(wal)
      BY <1>2, <2>3 DEF SameSlot, SamePlace
    <3>3. QED
      BY <1>1, <1>4, <3>1, <3>2 DEF LogInv, LiveLog, Proves
  <2>4. QED
    BY <2>2, <2>3
<1>5. LiveLog'
  BY <1>1, <1>2, <1>3, <1>4 DEF LogInv, LiveLog
<1>6. VotesLogged'
  BY <1>1, <1>2 DEF LogInv, VotesLogged
<1>7. QED
  BY <1>2, <1>5, <1>6 DEF LogInv, ReplayLog

\* A checkpoint that stabilises, with the log as it was, extended, or compacted: the
\* quorum itself stays in the log and stands for everything compaction drops.
LEMMA CompactKeeps ==
    ASSUME TypeOK, LogInv, NEW m \in Inputs,
           Receives(m, "Checkpoint"), CheckpointOk(m), Stabilizes(m),
           wal' \in {WithRecord(m), Pruned(WithRecord(m), m.seq)},
           appended' = appended + 1, acked' \subseteq acked \cup {m}
    PROVE  /\ OffsetsOk' /\ AckedSurvives'
           /\ m \in Logged(wal') /\ Cardinality(LoggedVoters(m)') >= Quorum
<1>1. /\ m \in Messages /\ m.phase = "Checkpoint" /\ mode = "live" /\ m.seq \in Nat
  BY InputType DEF Receives, Messages
<1>2. OffsetsOk'
  BY DEF TypeOK, LogInv, OffsetsOk, WithRecord, Pruned
<1>3. \A x : x \in Logged(WithRecord(m)) <=> x \in Logged(wal) \/ x = m
  BY LoggedWithRecord
<1>4. /\ Logged(wal') \subseteq Logged(wal) \cup {m}
      /\ \A x \in Logged(wal) \cup {m} : x.seq >= m.seq => x \in Logged(wal')
  <2>1. Logged(Pruned(WithRecord(m), m.seq)) =
            {x \in Logged(WithRecord(m)) : x.seq >= m.seq}
    BY DEF Logged, Pruned
  <2>2. QED
    BY <1>3, <2>1
<1>5. \A c : c.seq >= m.seq => LoggedVoters(c) \subseteq LoggedVoters(c)'
  BY <1>4 DEF LoggedVoters, Voters, SameSlot, SamePlace
<1>6. \A c : LoggedVoters(c)' \in SUBSET Nodes
  <2>1. Logged(wal') \in SUBSET Messages
    BY <1>1, <1>4, LoggedType DEF TypeOK
  <2>2. \A c : {x \in Logged(wal') : x.phase = c.phase} \in SUBSET Messages
    BY <2>1
  <2>3. QED
    BY <2>2, VotersType DEF LoggedVoters
<1>7. m \in Logged(wal') /\ Cardinality(LoggedVoters(m)') >= Quorum
  <2>1. m \in Logged(wal')
    BY <1>1, <1>4
  <2>2. \A x \in CheckpointVotes(m) : x.phase = "Checkpoint" /\ x \in Logged(wal) \cup {m}
    BY <1>1 DEF LogInv, VotesLogged, CheckpointVotes
  <2>3. Voters(CheckpointVotes(m), m) \subseteq LoggedVoters(m)'
    BY <1>1, <1>4, <2>2 DEF Voters, LoggedVoters, SameSlot, SamePlace
  <2>4. QED
    BY <1>6, <2>1, <2>3, QuorumGrows DEF Stabilizes, Verify, Certificate
<1>8. ASSUME NEW x \in acked', ~(x \in Logged(wal'))
      PROVE  \E c \in Logged(wal') : /\ c.phase = "Checkpoint" /\ c.seq > x.seq
                                     /\ Cardinality(LoggedVoters(c)') >= Quorum
  <2>1. x \in acked /\ x.seq \in Nat
    BY <1>7, <1>8 DEF TypeOK, Messages
  <2>2. CASE m.seq > x.seq
    BY <1>1, <1>7, <2>2
  <2>3. CASE ~(m.seq > x.seq)
    <3>1. x \notin Logged(wal)
      BY <1>1, <1>4, <1>8, <2>1, <2>3
    <3>2. PICK c \in Logged(wal) : /\ c.phase = "Checkpoint" /\ c.seq > x.seq
                                   /\ Cardinality(LoggedVoters(c)) >= Quorum
      BY <2>1, <3>1 DEF LogInv, AckedSurvives
    <3>3. c.seq \in Nat
      BY LoggedType DEF TypeOK, Messages
    <3>4. c.seq >= m.seq
      BY <1>1, <2>1, <2>3, <3>2, <3>3
    <3>5. c \in Logged(wal') /\ Cardinality(LoggedVoters(c)') >= Quorum
      BY <1>4, <1>5, <1>6, <3>2, <3>4, QuorumGrows
    <3>6. QED
      BY <3>2, <3>5
  <2>4. QED
    BY <2>2, <2>3
<1>9. QED
  BY <1>2, <1>7, <1>8 DEF AckedSurvives

\* The handler that stabilises a checkpoint and compacts the log.
LEMMA StableKeeps ==
    ASSUME TypeOK, LogInv, NEW m \in Inputs, HandleStableCheckpoint(m)
    PROVE  LogInv'
<1>1. /\ m \in Messages /\ m.phase = "Checkpoint" /\ mode = "live" /\ mode' = "live"
      /\ m.seq \in Nat /\ m.seq > last_stable_checkpoint /\ last_stable_checkpoint' = m.seq
      /\ pre_prepared_proposals' = Above(pre_prepared_proposals, m.seq)
      /\ checkpoint_votes' = Above(checkpoint_votes \cup {m}, m.seq)
      /\ wal' = Pruned(WithRecord(m), m.seq)
  BY InputType
     DEF HandleStableCheckpoint, Receives, CheckpointOk, Stabilize, ForgetUpTo,
         CheckpointVotes, process, Messages
<1>2. OffsetsOk' /\ AckedSurvives'
  BY CompactKeeps DEF HandleStableCheckpoint
<1>3. /\ \A r \in wal' : r.msg.seq > m.seq => r \in wal
      /\ \A x \in Logged(wal') : x \in Logged(wal) \/ x = m
      /\ \A x \in Logged(wal) : x.seq >= m.seq => x \in Logged(wal')
  BY <1>1 DEF WithRecord, Pruned, Logged
<1>4. \A r \in wal : r.msg.seq \in Nat
  BY DEF TypeOK, Messages
<1>5. ASSUME NEW r \in wal', r.msg.seq > m.seq
      PROVE  /\ r.msg.phase = "PrePrepare" => Slot(r.msg) \in pre_prepared_proposals'
             /\ r.msg.phase = "Checkpoint" => r.msg \in checkpoint_votes'
  <2>1. r \in wal /\ r.msg.seq > last_stable_checkpoint
    BY <1>1, <1>3, <1>4, <1>5 DEF TypeOK
  <2>2. /\ r.msg.phase = "PrePrepare" => Slot(r.msg) \in pre_prepared_proposals
        /\ r.msg.phase = "Checkpoint" => r.msg \in checkpoint_votes
    BY <1>1, <2>1 DEF LogInv, LiveLog
  <2>3. QED
    BY <1>1, <1>5, <2>2 DEF Above, Slot
<1>6. ASSUME NEW c \in Logged(wal'), Proves(c)', c.seq > m.seq
      PROVE  FALSE
  <2>1. c \in Logged(wal) /\ c.phase = "Checkpoint" /\ c.seq \in Nat
    BY <1>1, <1>3, <1>6, LoggedType DEF Proves, TypeOK, Messages
  <2>2. LoggedVoters(c)' \subseteq LoggedVoters(c)
    BY <1>1, <1>3, <1>6, <2>1 DEF LoggedVoters, Voters, SameSlot, SamePlace
  <2>3. LoggedVoters(c) \in SUBSET Nodes
    BY LoggedVotersType
  <2>4. Proves(c)
    BY <1>6, <2>1, <2>2, <2>3, QuorumGrows DEF Proves
  <2>5. c.seq <= last_stable_checkpoint
    BY <1>1, <2>1, <2>4 DEF LogInv, LiveLog
  <2>6. QED
    BY <1>1, <1>6, <2>1, <2>5 DEF TypeOK
<1>7. \A c \in Logged(wal') : c.seq \in Nat
  BY <1>1, <1>3, LoggedType DEF TypeOK, Messages
<1>8. LiveLog'
  BY <1>1, <1>5, <1>6, <1>7 DEF LiveLog
<1>9. VotesLogged'
  <2>1. ASSUME NEW x \in checkpoint_votes' PROVE x.phase = "Checkpoint" /\ x \in Logged(wal')
    <3>1. x \in checkpoint_votes /\ x.seq > m.seq
      BY <1>1, <2>1 DEF Above
    <3>2. x.phase = "Checkpoint" /\ x \in Logged(wal) /\ x.seq \in Nat
      BY <1>1, <3>1 DEF LogInv, VotesLogged, TypeOK, Messages
    <3>3. QED
      BY <1>1, <1>3, <3>1, <3>2
  <2>2. QED
    BY <2>1 DEF VotesLogged
<1>10. QED
  BY <1>1, <1>2, <1>8, <1>9 DEF LogInv, ReplayLog

\* A failed compaction: the watermark has moved, nothing was acknowledged.
LEMMA PruneFailKeeps ==
    ASSUME TypeOK, OneDigest, LogInv, NEW m \in Inputs, PruneFails(m)
    PROVE  LogInv'
<1>1. /\ mode' = "failed" /\ acked' = acked /\ last_stable_checkpoint' = m.seq
      /\ m.seq > last_stable_checkpoint /\ m.seq \in Nat /\ mode = "live"
  BY InputType DEF PruneFails, CheckpointOk, Stabilize, Messages, Receives
<1>2. OffsetsOk' /\ AckedSurvives'
  BY <1>1, CompactKeeps DEF PruneFails
<1>3. NoConflictAboveStable
  BY <1>1, LiveNoConflict
<1>4. \A x \in acked : x.seq > m.seq => x.seq > last_stable_checkpoint
  BY <1>1 DEF TypeOK, Messages
<1>5. NoConflictAboveStable'
  BY <1>1, <1>3, <1>4 DEF NoConflictAboveStable, Serving
<1>6. QED
  BY <1>1, <1>2, <1>5 DEF LogInv, LiveLog, ReplayLog, VotesLogged

\* Steps that only touch the disk by an append of unknown outcome.
LEMMA InterruptedKeeps ==
    ASSUME TypeOK, LogInv, NEW m \in Messages, Interrupted(m), acked' = acked
    PROVE  OffsetsOk' /\ AckedSurvives'
<1>1. CASE UNCHANGED <<wal, appended>>
  BY <1>1 DEF LogInv, OffsetsOk, AckedSurvives, LoggedVoters
<1>2. CASE wal' = WithRecord(m) /\ appended' = appended + 1
  BY <1>2, AppendKeeps
<1>3. QED
  BY <1>1, <1>2 DEF Interrupted, disk

\* One record of the replay.
LEMMA ReplayKeeps ==
    ASSUME TypeOK, LogInv, NEW r \in wal, ReplayRecord(r)
    PROVE  LogInv'
<1>1. /\ Reads(r) /\ Advance(r) /\ mode = "replay" /\ mode' = "replay"
      /\ UNCHANGED <<wal, appended, acked>> /\ cursor' = r.at
      /\ r.msg \in Messages /\ r.msg.seq \in Nat
  BY DEF ReplayRecord, ReplayPrePrepare, ReplayPrepare, ReplayCommit, ReplayViewChange,
         ReplayCheckpoint, Reads, Advance, disk, TypeOK, Messages
<1>2. OffsetsOk' /\ AckedSurvives'
  BY <1>1 DEF LogInv, OffsetsOk, AckedSurvives, LoggedVoters
<1>3. \A q \in wal : q.at <= r.at => q.at <= cursor \/ q = r
  BY <1>1 DEF Reads, LogInv, OffsetsOk, TypeOK
<1>4. /\ pre_prepared_proposals \subseteq pre_prepared_proposals'
      /\ r.msg.phase = "PrePrepare" => Slot(r.msg) \in pre_prepared_proposals'
  BY DEF ReplayRecord, ReplayPrePrepare, ReplayPrepare, ReplayCommit, ReplayViewChange,
         ReplayCheckpoint
<1>5. CASE r.msg.phase # "Checkpoint"
  <2>1. UNCHANGED <<checkpoint_votes, last_stable_checkpoint>>
    BY <1>5 DEF ReplayRecord, ReplayPrePrepare, ReplayPrepare, ReplayCommit,
                ReplayViewChange, ReplayCheckpoint, votes
  <2>2. ReplayLog'
    BY <1>1, <1>3, <1>4, <1>5, <2>1
       DEF LogInv, ReplayLog, Verify, Certificate, Voters
  <2>3. VotesLogged'
    BY <1>1, <2>1 DEF LogInv, VotesLogged
  <2>4. QED
    BY <1>1, <1>2, <2>2, <2>3 DEF LogInv, LiveLog
<1>6. CASE r.msg.phase = "Checkpoint"
  <2> DEFINE m == r.msg
  <2>1. /\ checkpoint_votes' = checkpoint_votes \cup {m}
        /\ last_stable_checkpoint' =
              IF Stabilizes(m) THEN Higher(last_stable_checkpoint, m.seq)
                               ELSE last_stable_checkpoint
    BY <1>6 DEF ReplayRecord, ReplayPrePrepare, ReplayPrepare, ReplayCommit,
                ReplayViewChange, ReplayCheckpoint, CheckpointVotes
  <2>2. /\ last_stable_checkpoint \in Nat /\ last_stable_checkpoint' \in Nat
        /\ last_stable_checkpoint <= last_stable_checkpoint'
        /\ Stabilizes(m) => m.seq <= last_stable_checkpoint'
    BY <1>1, <2>1 DEF Higher, TypeOK
  <2>3. ASSUME NEW c \in checkpoint_votes', Verify(Certificate(checkpoint_votes', c))
        PROVE  c.seq <= last_stable_checkpoint'
    <3>1. CASE SameSlot(c, m)
      <4>1. Voters(checkpoint_votes', c) = Voters(CheckpointVotes(m), m)
        BY <2>1, <3>1 DEF Voters, SameSlot, SamePlace, CheckpointVotes
      <4>2. Stabilizes(m)
        BY <2>3, <4>1 DEF Stabilizes, Verify, Certificate
      <4>3. QED
        BY <2>2, <3>1, <4>2 DEF SameSlot, SamePlace
    <3>2. CASE ~SameSlot(c, m)
      <4>1. Voters(checkpoint_votes', c) = Voters(checkpoint_votes, c)
        BY <2>1, <3>2 DEF Voters, SameSlot, SamePlace
      <4>2. c \in checkpoint_votes /\ c.seq \in Nat
        BY <2>1, <3>2 DEF SameSlot, SamePlace, TypeOK, Messages
      <4>3. c.seq <= last_stable_checkpoint
        BY <1>1, <2>3, <4>1, <4>2 DEF LogInv, ReplayLog, Verify, Certificate
      <4>4. QED
        BY <2>2, <4>2, <4>3
    <3>3. QED
      BY <3>1, <3>2
  <2>4. ReplayLog'
    BY <1>1, <1>3, <1>4, <2>1, <2>3 DEF LogInv, ReplayLog
  <2>5. VotesLogged'
    BY <1>1, <1>6, <2>1 DEF LogInv, VotesLogged, Logged
  <2>6. QED
    BY <1>1, <1>2, <2>4, <2>5 DEF LogInv, LiveLog
<1>7. QED
  BY <1>5, <1>6

\* The end of the replay: everything in the log has been read.
LEMMA FinishKeeps ==
    ASSUME TypeOK, LogInv, FinishReplay
    PROVE  LogInv'
<1>1. /\ mode = "replay" /\ mode' = "live" /\ AtEnd
      /\ UNCHANGED <<last_stable_checkpoint, wal, appended, acked>>
  BY DEF FinishReplay, counters, disk
<1>2. OffsetsOk' /\ AckedSurvives'
  BY <1>1 DEF LogInv, OffsetsOk, AckedSurvives, LoggedVoters
<1>3. /\ \A p \in pre_prepared_proposals :
            p.seq > last_stable_checkpoint => p \in pre_prepared_proposals'
      /\ \A x \in checkpoint_votes :
            x.seq > last_stable_checkpoint => x \in checkpoint_votes'
      /\ checkpoint_votes' \subseteq checkpoint_votes
  BY DEF FinishReplay, ForgetUpTo, Above, votes
<1>4. ASSUME NEW r \in wal
      PROVE  /\ r.msg.phase = "PrePrepare" => Slot(r.msg) \in pre_prepared_proposals
             /\ r.msg.phase = "Checkpoint" => r.msg \in checkpoint_votes
  BY <1>1 DEF AtEnd, LogInv, ReplayLog
<1>5. ASSUME NEW c \in Logged(wal), Proves(c)
      PROVE  c.seq <= last_stable_checkpoint
  <2>1. c.phase = "Checkpoint" /\ c \in checkpoint_votes
    BY <1>4, <1>5 DEF Proves, Logged
  <2>2. LoggedVoters(c) \subseteq Voters(checkpoint_votes, c)
    BY <1>4, <2>1 DEF LoggedVoters, Voters, Logged
  <2>3. Voters(checkpoint_votes, c) \in SUBSET Nodes
    BY VotersType DEF TypeOK
  <2>4. Cardinality(Voters(checkpoint_votes, c)) >= Quorum
    BY <1>5, <2>2, <2>3, QuorumGrows DEF Proves
  <2>5. QED
    BY <1>1, <2>1, <2>4 DEF LogInv, ReplayLog, Verify, Certificate
<1>6. LiveLog'
  <2>1. ASSUME NEW r \in wal, r.msg.seq > last_stable_checkpoint
        PROVE  /\ r.msg.phase = "PrePrepare" => Slot(r.msg) \in pre_prepared_proposals'
               /\ r.msg.phase = "Checkpoint" => r.msg \in checkpoint_votes'
    BY <1>3, <1>4, <2>1 DEF Slot
  <2>2. QED
    BY <1>1, <1>5, <2>1 DEF LiveLog, Proves, LoggedVoters
<1>7. VotesLogged'
  BY <1>1, <1>3 DEF LogInv, VotesLogged
<1>8. QED
  BY <1>1, <1>2, <1>6, <1>7 DEF LogInv, ReplayLog

\* Initially the log is empty.
LEMMA InitLog ==
    ASSUME Init PROVE LogInv
<1>1. Logged(wal) = {}
  BY DEF Init, Logged
<1>2. QED
  BY <1>1 DEF Init, LogInv, OffsetsOk, AckedSurvives, LiveLog, ReplayLog, VotesLogged

\* Every step keeps log, memory and history related.
LEMMA NextLog ==
    ASSUME TypeOK, BackedInv, LogInv, [Next]_vars PROVE LogInv'
<1> USE InputType
<1>1. ASSUME NEW m \in Inputs, HandlePrePrepare(m) PROVE LogInv'
  BY <1>1, AppendOther DEF HandlePrePrepare, Receives, votes
<1>2. ASSUME NEW m \in Inputs, HandlePrepare(m) \/ HandleCommit(m) PROVE LogInv'
  BY <1>2, AppendOther DEF HandlePrepare, HandleCommit, Receives, counters
<1>3. ASSUME NEW m \in Inputs, HandleViewChange(m) PROVE LogInv'
  BY <1>3, AppendOther DEF HandleViewChange, Receives
<1>4. ASSUME NEW m \in Inputs, AppendFails(m) PROVE LogInv'
  <2>1. mode = "live" /\ mode' = "failed" /\ acked' = acked /\ Interrupted(m)
        /\ last_stable_checkpoint' = last_stable_checkpoint
    BY <1>4 DEF AppendFails, Receives, memory, counters
  <2>2. OffsetsOk' /\ AckedSurvives'
    BY <2>1, InterruptedKeeps
  <2>3. NoConflictAboveStable
    BY <2>1, LiveNoConflict DEF BackedInv
  <2>4. NoConflictAboveStable'
    BY <2>1, <2>3 DEF NoConflictAboveStable, Serving
  <2>5. QED
    BY <2>1, <2>2, <2>4 DEF LogInv, LiveLog, ReplayLog, VotesLogged
<1>5. ASSUME NEW m \in Inputs, CrashInAppend(m) PROVE LogInv'
  <2>1. mode' = "down" /\ acked' = acked /\ Interrupted(m)
    BY <1>5 DEF CrashInAppend, Dies
  <2>2. QED
    BY <2>1, InterruptedKeeps DEF LogInv, LiveLog, ReplayLog, VotesLogged
<1>6. ASSUME NEW m \in Inputs, CrashInPrune(m) PROVE LogInv'
  <2>1. mode' = "down" /\ acked' = acked
    BY <1>6 DEF CrashInPrune, Dies
  <2>2. OffsetsOk' /\ AckedSurvives'
    BY <1>6, <2>1, CompactKeeps DEF CrashInPrune
  <2>3. QED
    BY <2>1, <2>2 DEF LogInv, LiveLog, ReplayLog, VotesLogged
<1>7. CASE Crash \/ CrashInReplay \/ RefuseReplay
  BY <1>7
     DEF Crash, CrashInReplay, RefuseReplay, Dies, disk, LogInv, OffsetsOk, AckedSurvives,
         LoggedVoters, LiveLog, ReplayLog, VotesLogged
<1>8. CASE Restart
  <2>1. /\ mode' = "replay" /\ cursor' = 0 /\ checkpoint_votes' = {}
        /\ UNCHANGED <<wal, appended, acked>>
    BY <1>8 DEF Restart, disk
  <2>2. OffsetsOk' /\ AckedSurvives'
    BY <2>1 DEF LogInv, OffsetsOk, AckedSurvives, LoggedVoters
  <2>3. ReplayLog' /\ VotesLogged'
    BY <2>1 DEF ReplayLog, VotesLogged, LogInv, OffsetsOk, TypeOK
  <2>4. QED
    BY <2>1, <2>2, <2>3 DEF LogInv, LiveLog
<1>9. CASE UNCHANGED vars
  BY <1>9
     DEF vars, memory, counters, votes, disk, process, LogInv, OffsetsOk, AckedSurvives,
         LoggedVoters, LiveLog, ReplayLog, VotesLogged, Proves, Verify, Certificate,
         NoConflictAboveStable, Serving
<1>10. QED
  BY <1>1, <1>2, <1>3, <1>4, <1>5, <1>6, <1>7, <1>8, <1>9, AppendCheckpointVote, StableKeeps,
     PruneFailKeeps, ReplayKeeps, FinishKeeps
     DEF Next, Handle, Fault, Replay, BackedInv

\* The three invariants together are inductive.
LEMMA LogInvariant ==
    Spec => [](TypeOK /\ BackedInv /\ LogInv)
<1>1. Init => TypeOK /\ BackedInv /\ LogInv
  BY InitType, InitBacked, InitLog
<1>2. TypeOK /\ BackedInv /\ LogInv /\ [Next]_vars => (TypeOK /\ BackedInv /\ LogInv)'
  BY NextType, NextBacked, NextLog
<1>3. QED
  BY <1>1, <1>2, PTL DEF Spec

\* Nothing that was acknowledged is missing from the log, unless the log proves a later
\* checkpoint: across failed appends, failed or interrupted compactions and crashes
\* (wal.rs:44-69, 111-179; pbft.rs:904-920).
THEOREM AcknowledgedIsDurable ==
    Spec => []AckedSurvives
<1>1. TypeOK /\ BackedInv /\ LogInv => AckedSurvives
  BY DEF LogInv
<1>2. QED
  BY <1>1, LogInvariant, PTL

\* The replica never acknowledges two proposals for one slot above its stable checkpoint,
\* whatever crashes, failed writes and recoveries lie between them (pbft.rs:700-714).
THEOREM NoEquivocationAboveStable ==
    Spec => []NoConflictAboveStable
<1>1. TypeOK /\ BackedInv /\ LogInv => NoConflictAboveStable
  <2>1. ASSUME TypeOK, BackedInv, LogInv, mode = "live" PROVE NoConflictAboveStable
    BY <2>1, LiveNoConflict DEF BackedInv
  <2>2. ASSUME LogInv, mode # "live" PROVE NoConflictAboveStable
    BY <2>2 DEF LogInv, NoConflictAboveStable, Serving
  <2>3. QED
    BY <2>1, <2>2
<1>2. QED
  BY <1>1, LogInvariant, PTL
=============================================================================
