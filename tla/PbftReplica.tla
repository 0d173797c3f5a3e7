---------------------------- MODULE PbftReplica ----------------------------
(***************************************************************************)
(* One replica of rust_engine/src/pbft.rs together with the write-ahead    *)
(* log of rust_engine/src/wal.rs it is rebuilt from.                       *)
(*                                                                         *)
(* The live side is PbftState::handle_message: one action per phase, each  *)
(* with the in-memory transition, the durable append and, for a checkpoint *)
(* that stabilises, the compaction of the log.  A message the code rejects *)
(* changes nothing (restore_state) and is therefore a stuttering step.     *)
(* The recovery side is PbftState::new_with_wal_path: the replay closure   *)
(* is run record by record over the same variables, which during replay    *)
(* hold the recovered_* locals.                                            *)
(*                                                                         *)
(* Inputs is the set of messages whose signature verifies and that may     *)
(* ever reach this replica, in any order, any number of times.             *)
(***************************************************************************)
EXTENDS PbftVotes

CONSTANTS
    Views,       \* views that messages carry
    Seqs,        \* sequence numbers that messages carry
    Inputs,      \* authenticated messages that may reach the replica
    MaxAppends,  \* bound: records ever written to the log
    MaxCrashes   \* bound: crashes of the process

\* total_nodes = 3f + 1, and every input is a well-formed authenticated message.
ASSUME ReplicaAssumption ==
    /\ F \in Nat
    /\ Views \subseteq Nat /\ Seqs \subseteq Nat
    /\ MaxAppends \in Nat /\ MaxCrashes \in Nat
    /\ \A m \in Inputs : m \in Messages /\ m.view \in Views /\ m.seq \in Seqs

VARIABLES
    current_view, highest_seq, last_stable_checkpoint,
    pre_prepared_proposals,  \* accepted slots (view, seq, digest)
    prepare_votes, commit_votes, checkpoint_votes, view_change_votes,
    prepared_certificates,   \* at most one per (view, seq)
    commit_certificates,     \* likewise; their digests are committed_digest
    new_view_certificates,   \* at most one per target view
    wal,                     \* complete records on disk: offset and message
    appended,                \* offset of the last complete record written
    torn,                    \* an incomplete record follows the complete ones
    mode,                    \* "live", "failed" (wal_failed), "down", "replay", "refused"
    cursor,                  \* offset replayed last
    crashes,                 \* crashes so far
    acked,                   \* history: messages handle_message answered Ok and logged
    before                   \* history: image of the state the last crash interrupted

counters == <<current_view, highest_seq, last_stable_checkpoint>>
votes    == <<prepare_votes, commit_votes, checkpoint_votes, view_change_votes>>
certs    == <<prepared_certificates, commit_certificates, new_view_certificates>>
memory   == <<counters, pre_prepared_proposals, votes, certs>>
disk     == <<wal, appended, torn>>
process  == <<mode, cursor, crashes, before>>
vars     == <<memory, disk, process, acked>>

-----------------------------------------------------------------------------
(* Durability: append_entry, prune_before and their failures *)

\* What a crash interrupts; clean says that no write was under way or had failed.
Image == [view |-> current_view, stable |-> last_stable_checkpoint,
          proposals |-> pre_prepared_proposals,
          prepared |-> {Slot(c) : c \in prepared_certificates},
          committed |-> {Slot(c) : c \in commit_certificates},
          clean |-> mode = "live"]

NoImage == [view |-> 0, stable |-> 0, proposals |-> {}, prepared |-> {},
            committed |-> {}, clean |-> FALSE]

Logged(S) == {r.msg : r \in S}

WithRecord(m) == wal \cup {[at |-> appended + 1, msg |-> m]}

\* Mutant: compaction also drops the records at the checkpoint.
PrunedThrough(S, seq) == {r \in S : r.msg.seq > seq}

\* Mutant: compaction takes the proposals that memory has forgotten.
PrunedProposals(S, seq) ==
    {r \in S : r.msg.seq >= seq /\ (r.msg.phase = "PrePrepare" => r.msg.seq > seq)}

\* prune_before(seq) keeps the records at the checkpoint itself and above it.
Pruned(S, seq) == {r \in S : r.msg.seq >= seq}

\* A message the handler is given, of the phase it matches on.
Receives(m, phase) ==
    /\ mode = "live" /\ appended < MaxAppends
    /\ m \in Inputs /\ m.phase = phase

\* Mutant: the result of append_entry is not looked at.
Carelessly(m) ==
    /\ \/ wal' = WithRecord(m) /\ appended' = appended + 1
       \/ UNCHANGED <<wal, appended>>
    /\ acked' = acked \cup {m}
    /\ UNCHANGED <<torn, process>>

\* append_entry returned Ok, then handle_message did.
Durably(m) ==
    /\ wal' = WithRecord(m) /\ appended' = appended + 1
    /\ acked' = acked \cup {m}
    /\ UNCHANGED <<torn, process>>

-----------------------------------------------------------------------------
(* handle_message, phase by phase *)

\* Neither a conflicting nor the same proposal is held for the slot.
PrePrepareOk(m) ==
    /\ m.view = current_view
    /\ m.sender = Leader(m.view)
    /\ \A p \in pre_prepared_proposals : ~SamePlace(p, m)

HandlePrePrepare(m) ==
    /\ Receives(m, "PrePrepare") /\ PrePrepareOk(m)
    /\ pre_prepared_proposals' = pre_prepared_proposals \cup {Slot(m)}
    /\ highest_seq' = Higher(highest_seq, m.seq)
    /\ Durably(m)
    /\ UNCHANGED <<current_view, last_stable_checkpoint, votes, certs>>

PrepareOk(m) == m.view = current_view /\ Slot(m) \in pre_prepared_proposals

\* The vote is filed; with a quorum the certificate replaces the slot's previous one.
RecordPrepare(m) ==
    LET cert == Certificate(prepare_votes', m)
    IN  /\ prepare_votes' = prepare_votes \cup {m}
        /\ prepared_certificates' = IF Verify(cert) THEN Put(prepared_certificates, cert)
                                                    ELSE prepared_certificates

HandlePrepare(m) ==
    /\ Receives(m, "Prepare") /\ PrepareOk(m)
    /\ RecordPrepare(m)
    /\ Durably(m)
    /\ UNCHANGED <<counters, pre_prepared_proposals, commit_votes, checkpoint_votes,
                   view_change_votes, commit_certificates, new_view_certificates>>

CommitOk(m) ==
    /\ m.view = current_view
    /\ Slot(m) \in pre_prepared_proposals
    /\ Certified(prepared_certificates, m)
    /\ \A c \in commit_certificates : SamePlace(c, m) => c.digest = m.digest

\* Mutant: one vote more than a quorum is asked for.
RecordCommitLate(m) ==
    LET cert == Certificate(commit_votes', m)
    IN  /\ commit_votes' = commit_votes \cup {m}
        /\ commit_certificates' = IF Cardinality(cert.signatures) > Quorum
                                  THEN Put(commit_certificates, cert) ELSE commit_certificates

\* As RecordPrepare; commit_certificates also stands for committed_digest.
RecordCommit(m) ==
    LET cert == Certificate(commit_votes', m)
    IN  /\ commit_votes' = commit_votes \cup {m}
        /\ commit_certificates' = IF Verify(cert) THEN Put(commit_certificates, cert)
                                                  ELSE commit_certificates

HandleCommit(m) ==
    /\ Receives(m, "Commit") /\ CommitOk(m)
    /\ RecordCommit(m)
    /\ Durably(m)
    /\ UNCHANGED <<counters, pre_prepared_proposals, prepare_votes, checkpoint_votes,
                   view_change_votes, prepared_certificates, new_view_certificates>>

\* Mutant: the reported slot is not checked against a prepared certificate.
ViewChangeUnproven(m) ==
    /\ m.view > current_view
    /\ ViewChangeSettles(prepared_certificates, m.view,
                         Supporters(PutVote(view_change_votes, m), m.view))

\* The live check takes a certificate of any view.
ViewChangeOk(m) ==
    /\ m.view > current_view
    /\ m.seq > 0 => \E c \in prepared_certificates :
                       c.seq = m.seq /\ c.digest = m.digest /\ Verify(c)
    /\ ViewChangeSettles(prepared_certificates, m.view,
                         Supporters(PutVote(view_change_votes, m), m.view))

\* A quorum of supporters installs the new view and the certificate it inherits.
RecordViewChange(m) ==
    LET sup == Supporters(view_change_votes', m.view)
    IN  /\ view_change_votes' = PutVote(view_change_votes, m)
        /\ new_view_certificates' =
              IF HasQuorum(sup)
              THEN PutNewView(new_view_certificates, NewView(prepared_certificates, m.view, sup))
              ELSE new_view_certificates

HandleViewChange(m) ==
    LET sup       == Supporters(view_change_votes', m.view)
        inherited == IF HasQuorum(sup) THEN Selected(prepared_certificates, m.view, sup) ELSE {}
    IN  /\ Receives(m, "ViewChange") /\ ViewChangeOk(m)
        /\ RecordViewChange(m)
        /\ current_view' = IF HasQuorum(sup) THEN m.view ELSE current_view
        /\ highest_seq' \in {highest_seq} \cup {c.seq : c \in inherited}
        /\ highest_seq' >= highest_seq /\ \A c \in inherited : highest_seq' >= c.seq
        /\ Durably(m)
        /\ UNCHANGED <<last_stable_checkpoint, pre_prepared_proposals, prepare_votes,
                       commit_votes, checkpoint_votes, prepared_certificates,
                       commit_certificates>>

\* An obsolete checkpoint is answered without a trace.
CheckpointOk(m) == m.seq > last_stable_checkpoint /\ m.view = current_view

CheckpointVotes(m) == checkpoint_votes \cup {m}

Stabilizes(m) == Verify(Certificate(CheckpointVotes(m), m))

HandleCheckpointVote(m) ==
    /\ Receives(m, "Checkpoint") /\ CheckpointOk(m) /\ ~Stabilizes(m)
    /\ checkpoint_votes' = CheckpointVotes(m)
    /\ Durably(m)
    /\ UNCHANGED <<counters, pre_prepared_proposals, prepare_votes, commit_votes,
                   view_change_votes, certs>>

\* Mutant: prepared certificates are not forgotten with the rest.
ForgetAllButPrepared(ballots, seq) ==
    /\ pre_prepared_proposals' = Above(pre_prepared_proposals, seq)
    /\ prepare_votes' = Above(prepare_votes, seq)
    /\ commit_votes' = Above(commit_votes, seq)
    /\ checkpoint_votes' = Above(ballots, seq)
    /\ commit_certificates' = Above(commit_certificates, seq)
    /\ UNCHANGED <<prepared_certificates, view_change_votes, new_view_certificates>>

\* The quorum moves the watermark and forgets every slot at or below it.  View-change
\* votes and new-view certificates are not touched.
ForgetUpTo(ballots, seq) ==
    /\ pre_prepared_proposals' = Above(pre_prepared_proposals, seq)
    /\ prepare_votes' = Above(prepare_votes, seq)
    /\ commit_votes' = Above(commit_votes, seq)
    /\ checkpoint_votes' = Above(ballots, seq)
    /\ prepared_certificates' = Above(prepared_certificates, seq)
    /\ commit_certificates' = Above(commit_certificates, seq)
    /\ UNCHANGED <<view_change_votes, new_view_certificates>>

Stabilize(m) ==
    /\ last_stable_checkpoint' = m.seq
    /\ ForgetUpTo(CheckpointVotes(m), m.seq)
    /\ UNCHANGED <<current_view, highest_seq>>

HandleStableCheckpoint(m) ==
    /\ Receives(m, "Checkpoint") /\ CheckpointOk(m) /\ Stabilizes(m)
    /\ Stabilize(m)
    /\ wal' = Pruned(WithRecord(m), m.seq) /\ appended' = appended + 1
    /\ acked' = acked \cup {m}
    /\ UNCHANGED <<torn, process>>

-----------------------------------------------------------------------------
(* Writes that fail, and crashes *)

Accepts(m) ==
    \/ m.phase = "PrePrepare" /\ PrePrepareOk(m)
    \/ m.phase = "Prepare"    /\ PrepareOk(m)
    \/ m.phase = "Commit"     /\ CommitOk(m)
    \/ m.phase = "ViewChange" /\ ViewChangeOk(m)
    \/ m.phase = "Checkpoint" /\ CheckpointOk(m)

\* What a failed or interrupted append leaves: nothing, part of the record, or all of it.
Interrupted(m) ==
    \/ UNCHANGED disk
    \/ torn' = TRUE /\ UNCHANGED <<wal, appended>>
    \/ wal' = WithRecord(m) /\ appended' = appended + 1 /\ UNCHANGED torn

\* append_entry returns an error: restore_state, then wal_failed.
AppendFails(m) ==
    /\ Receives(m, m.phase) /\ Accepts(m)
    /\ Interrupted(m)
    /\ mode' = "failed"
    /\ UNCHANGED <<memory, acked, cursor, crashes, before>>

\* prune_before returns an error: the old or the compacted log is in place.
PruneFails(m) ==
    /\ Receives(m, "Checkpoint") /\ CheckpointOk(m) /\ Stabilizes(m)
    /\ Stabilize(m)
    /\ wal' \in {WithRecord(m), Pruned(WithRecord(m), m.seq)} /\ appended' = appended + 1
    /\ mode' = "failed"
    /\ UNCHANGED <<torn, acked, cursor, crashes, before>>

\* The process dies; memory is lost, which Restart models by resetting it.
Dies(image) ==
    /\ crashes < MaxCrashes /\ crashes' = crashes + 1
    /\ mode' = "down"
    /\ before' = image
    /\ UNCHANGED <<memory, acked, cursor>>

Crash ==
    /\ mode \in {"live", "failed"} /\ Dies(Image)
    /\ UNCHANGED disk

CrashInAppend(m) ==
    /\ Receives(m, m.phase) /\ Accepts(m)
    /\ Dies([Image EXCEPT !.clean = FALSE])
    /\ Interrupted(m)

\* Between the durable append and the end of the compaction.
CrashInPrune(m) ==
    /\ Receives(m, "Checkpoint") /\ CheckpointOk(m) /\ Stabilizes(m)
    /\ Dies([Image EXCEPT !.clean = FALSE])
    /\ wal' \in {WithRecord(m), Pruned(WithRecord(m), m.seq)} /\ appended' = appended + 1
    /\ UNCHANGED torn

CrashInReplay ==
    /\ mode = "replay" /\ Dies(before)
    /\ UNCHANGED disk

-----------------------------------------------------------------------------
(* new_with_wal_path: replay of the log *)

Restart ==
    /\ mode \in {"down", "refused"}
    /\ mode' = "replay" /\ cursor' = 0
    /\ current_view' = 0 /\ highest_seq' = 0 /\ last_stable_checkpoint' = 0
    /\ pre_prepared_proposals' = {}
    /\ prepare_votes' = {} /\ commit_votes' = {}
    /\ checkpoint_votes' = {} /\ view_change_votes' = {}
    /\ prepared_certificates' = {} /\ commit_certificates' = {} /\ new_view_certificates' = {}
    /\ UNCHANGED <<disk, crashes, before, acked>>

\* The record replay_log reads next.
Reads(r) ==
    /\ mode = "replay" /\ r \in wal /\ r.at > cursor
    /\ \A q \in wal : q.at > cursor => r.at <= q.at

Advance(r) == cursor' = r.at /\ UNCHANGED <<disk, mode, crashes, before, acked>>

\* Evidence of the view is any ordinary message; evidence of the sequence is any record.
RaiseSeq(m) == highest_seq' = Higher(highest_seq, m.seq)

RaiseView(m) == current_view' = Higher(current_view, m.view)

ReplaysPrePrepare(m) ==
    /\ m.sender = Leader(m.view)
    /\ \A p \in pre_prepared_proposals : SamePlace(p, m) => p.digest = m.digest

ReplaysPrepare(m) == Slot(m) \in pre_prepared_proposals

ReplaysCommit(m) ==
    Slot(m) \in pre_prepared_proposals /\ Certified(prepared_certificates, m)

\* Mutant: the certificate is looked up in the target view.
ReplaysViewChangeInTarget(m) ==
    /\ m.seq > 0 => \E c \in prepared_certificates :
                       /\ c.view = m.view
                       /\ c.seq = m.seq /\ c.digest = m.digest /\ Verify(c)
    /\ ViewChangeSettles(prepared_certificates, m.view,
                         Supporters(PutVote(view_change_votes, m), m.view))

\* Unlike the live check, the certificate must come from a view below the target.
ReplaysViewChange(m) ==
    /\ m.seq > 0 => \E c \in prepared_certificates :
                       /\ c.view < m.view
                       /\ c.seq = m.seq /\ c.digest = m.digest /\ Verify(c)
    /\ ViewChangeSettles(prepared_certificates, m.view,
                         Supporters(PutVote(view_change_votes, m), m.view))

ReplayPrePrepare(r) ==
    LET m == r.msg IN
    /\ Reads(r) /\ m.phase = "PrePrepare" /\ ReplaysPrePrepare(m)
    /\ pre_prepared_proposals' = pre_prepared_proposals \cup {Slot(m)}
    /\ RaiseSeq(m) /\ RaiseView(m) /\ Advance(r)
    /\ UNCHANGED <<last_stable_checkpoint, votes, certs>>

ReplayPrepare(r) ==
    LET m == r.msg IN
    /\ Reads(r) /\ m.phase = "Prepare" /\ ReplaysPrepare(m)
    /\ RecordPrepare(m)
    /\ RaiseSeq(m) /\ RaiseView(m) /\ Advance(r)
    /\ UNCHANGED <<last_stable_checkpoint, pre_prepared_proposals, commit_votes,
                   checkpoint_votes, view_change_votes, commit_certificates,
                   new_view_certificates>>

ReplayCommit(r) ==
    LET m == r.msg IN
    /\ Reads(r) /\ m.phase = "Commit" /\ ReplaysCommit(m)
    /\ RecordCommit(m)
    /\ RaiseSeq(m) /\ RaiseView(m) /\ Advance(r)
    /\ UNCHANGED <<last_stable_checkpoint, pre_prepared_proposals, prepare_votes,
                   checkpoint_votes, view_change_votes, prepared_certificates,
                   new_view_certificates>>

ReplayViewChange(r) ==
    LET m == r.msg IN
    /\ Reads(r) /\ m.phase = "ViewChange" /\ ReplaysViewChange(m)
    /\ RecordViewChange(m)
    /\ current_view' = IF HasQuorum(Supporters(view_change_votes', m.view))
                       THEN Higher(current_view, m.view) ELSE current_view
    /\ RaiseSeq(m) /\ Advance(r)
    /\ UNCHANGED <<last_stable_checkpoint, pre_prepared_proposals, prepare_votes,
                   commit_votes, checkpoint_votes, prepared_certificates,
                   commit_certificates>>

\* Mutant: a checkpoint quorum is not taken as evidence of its view.
ReplayCheckpointViewless(r) ==
    LET m == r.msg IN
    /\ Reads(r) /\ m.phase = "Checkpoint"
    /\ checkpoint_votes' = CheckpointVotes(m)
    /\ last_stable_checkpoint' = IF Stabilizes(m) THEN Higher(last_stable_checkpoint, m.seq)
                                                  ELSE last_stable_checkpoint
    /\ RaiseSeq(m) /\ Advance(r)
    /\ UNCHANGED <<current_view, pre_prepared_proposals, prepare_votes, commit_votes,
                   view_change_votes, certs>>

\* Nothing is forgotten yet; only the watermark follows the checkpoint quorum.
ReplayCheckpoint(r) ==
    LET m == r.msg IN
    /\ Reads(r) /\ m.phase = "Checkpoint"
    /\ checkpoint_votes' = CheckpointVotes(m)
    /\ last_stable_checkpoint' = IF Stabilizes(m) THEN Higher(last_stable_checkpoint, m.seq)
                                                  ELSE last_stable_checkpoint
    /\ current_view' = IF Stabilizes(m) THEN Higher(current_view, m.view) ELSE current_view
    /\ RaiseSeq(m) /\ Advance(r)
    /\ UNCHANGED <<pre_prepared_proposals, prepare_votes, commit_votes, view_change_votes, certs>>

Replays(m) ==
    /\ m.phase = "PrePrepare" => ReplaysPrePrepare(m)
    /\ m.phase = "Prepare"    => ReplaysPrepare(m)
    /\ m.phase = "Commit"     => ReplaysCommit(m)
    /\ m.phase = "ViewChange" => ReplaysViewChange(m)

AtEnd == \A r \in wal : r.at <= cursor

\* WAL_REPLAY_ERROR: a record without its prerequisites, or an incomplete last one.
RefuseReplay ==
    /\ mode = "replay"
    /\ (\E r \in wal : Reads(r) /\ ~Replays(r.msg)) \/ (AtEnd /\ torn)
    /\ mode' = "refused"
    /\ UNCHANGED <<memory, disk, cursor, crashes, before, acked>>

\* Mutant: recovery forgets up to the highest sequence seen, not up to the watermark.
FinishReplayTooFar ==
    /\ mode = "replay" /\ AtEnd /\ ~torn
    /\ IF last_stable_checkpoint > 0 THEN ForgetUpTo(checkpoint_votes, highest_seq)
                                     ELSE UNCHANGED <<pre_prepared_proposals, votes, certs>>
    /\ mode' = "live" /\ cursor' = 0 /\ before' = NoImage
    /\ UNCHANGED <<counters, disk, crashes, acked>>

\* The complete log was accepted: forget what the watermark covers and serve.
FinishReplay ==
    /\ mode = "replay" /\ AtEnd /\ ~torn
    /\ IF last_stable_checkpoint > 0 THEN ForgetUpTo(checkpoint_votes, last_stable_checkpoint)
                                     ELSE UNCHANGED <<pre_prepared_proposals, votes, certs>>
    /\ mode' = "live" /\ cursor' = 0 /\ before' = NoImage
    /\ UNCHANGED <<counters, disk, crashes, acked>>

-----------------------------------------------------------------------------
(* The replica *)

Init ==
    /\ current_view = 0 /\ highest_seq = 0 /\ last_stable_checkpoint = 0
    /\ pre_prepared_proposals = {}
    /\ prepare_votes = {} /\ commit_votes = {}
    /\ checkpoint_votes = {} /\ view_change_votes = {}
    /\ prepared_certificates = {} /\ commit_certificates = {} /\ new_view_certificates = {}
    /\ wal = {} /\ appended = 0 /\ torn = FALSE
    /\ mode = "live" /\ cursor = 0 /\ crashes = 0
    /\ acked = {} /\ before = NoImage

Handle(m) ==
    \/ HandlePrePrepare(m)     \/ HandlePrepare(m)          \/ HandleCommit(m)
    \/ HandleViewChange(m)     \/ HandleCheckpointVote(m)   \/ HandleStableCheckpoint(m)

Fault(m) == AppendFails(m) \/ PruneFails(m) \/ CrashInAppend(m) \/ CrashInPrune(m)

ReplayRecord(r) ==
    \/ ReplayPrePrepare(r)     \/ ReplayPrepare(r)          \/ ReplayCommit(r)
    \/ ReplayViewChange(r)     \/ ReplayCheckpoint(r)

Replay == (\E r \in wal : ReplayRecord(r)) \/ RefuseReplay \/ FinishReplay

Next ==
    \/ \E m \in Inputs : Handle(m) \/ Fault(m)
    \/ Crash \/ CrashInReplay
    \/ Restart
    \/ Replay

Spec == Init /\ [][Next]_vars

\* docker-compose restarts the process when it exits with an error, and the replay loop
\* does not wait for anything.
FairSpec == Spec /\ WF_vars(Restart) /\ WF_vars(Replay)

-----------------------------------------------------------------------------
(* Properties *)

Images == [view : Nat, stable : Nat, proposals : SUBSET Slots, prepared : SUBSET Slots,
           committed : SUBSET Slots, clean : BOOLEAN]

\* Every variable has its type, and the certificate maps hold one entry per key.
TypeOK ==
    /\ current_view \in Nat /\ highest_seq \in Nat /\ last_stable_checkpoint \in Nat
    /\ pre_prepared_proposals \subseteq Slots
    /\ prepare_votes \subseteq Messages /\ commit_votes \subseteq Messages
    /\ checkpoint_votes \subseteq Messages /\ view_change_votes \subseteq Messages
    /\ prepared_certificates \subseteq Certificates
    /\ commit_certificates \subseteq Certificates
    /\ new_view_certificates \subseteq NewViews
    /\ wal \subseteq [at : Nat, msg : Messages]
    /\ appended \in Nat /\ torn \in BOOLEAN
    /\ mode \in {"live", "failed", "down", "replay", "refused"}
    /\ cursor \in Nat /\ crashes \in Nat
    /\ acked \subseteq Messages
    /\ before \in Images
    /\ \A c, d \in prepared_certificates : SamePlace(c, d) => c = d
    /\ \A c, d \in commit_certificates : SamePlace(c, d) => c = d

\* Serving says that the fields of PbftState are in use, after Init or a full replay.
Serving == mode \in {"live", "failed"}

\* Certificates never outlive or predate their evidence: a prepared certificate has its
\* proposal and its quorum of votes in memory, and a commit certificate has in addition
\* the prepared certificate of the same digest, whatever was compacted, replayed or
\* re-proposed in between (pbft.rs:718-800, retain at 881-888, replay at 445-484).
CertificatesBacked ==
    /\ \A c \in prepared_certificates :
          /\ Slot(c) \in pre_prepared_proposals
          /\ Verify(c) /\ c.signatures \subseteq Voters(prepare_votes, c)
    /\ \A c \in commit_certificates :
          /\ Verify(c) /\ c.signatures \subseteq Voters(commit_votes, c)
          /\ \E p \in prepared_certificates : SameSlot(p, c)

\* The equivocation guard has no gap above the watermark: the replica has never
\* acknowledged two proposals for one slot above its stable checkpoint, not even one
\* before and one after a crash (pbft.rs:700-706, 442-444).
NoConflictAboveStable ==
    Serving => \A x, y \in acked :
        /\ x.phase = "PrePrepare" /\ y.phase = "PrePrepare"
        /\ SamePlace(x, y) /\ x.seq > last_stable_checkpoint
        => x.digest = y.digest

\* The signers of a checkpoint of m's slot that the log can prove.
LoggedVoters(m) == Voters({x \in Logged(wal) : x.phase = m.phase}, m)

\* No acknowledgement before durability, and compaction drops nothing it needs: every
\* acknowledged message is in the log, unless the log proves by a quorum a checkpoint
\* above it (wal.rs:68, 111-156; docs/PBFT_DURABILITY_FLOW.md:41-43).
AckedSurvives ==
    \A m \in acked :
        \/ m \in Logged(wal)
        \/ \E c \in Logged(wal) : /\ c.phase = "Checkpoint" /\ c.seq > m.seq
                                  /\ Cardinality(LoggedVoters(c)) >= Quorum

\* A decision is final: once a quorum of commit votes for a slot above the watermark was
\* acknowledged, the slot stays in committed_digest, through view changes, failed writes
\* and recovery (pbft.rs:782-796, 473-483).
DecisionKept ==
    Serving => \A m \in acked :
        /\ m.phase = "Commit" /\ m.seq > last_stable_checkpoint
        /\ Cardinality(Voters({x \in acked : x.phase = "Commit"}, m)) >= Quorum
        => \E c \in commit_certificates : SameSlot(c, m)

\* What replay takes as proof that view v was entered: an ordinary message of v, a quorum
\* of view-change votes for v, or a quorum for one checkpoint in v.
LogProves(v) ==
    \/ v = 0
    \/ \E x \in Logged(wal) : x.view = v /\ x.phase \in {"PrePrepare", "Prepare", "Commit"}
    \/ HasQuorum({x \in Logged(wal) : x.phase = "ViewChange" /\ x.view = v})
    \/ \E c \in Logged(wal) : /\ c.phase = "Checkpoint" /\ c.view = v
                              /\ Cardinality(LoggedVoters(c)) >= Quorum

\* The current view can be rebuilt from the log, with one exception: a view entered by a
\* quorum in which some vote reports a slot below the watermark, and in which nothing but
\* view changes has been logged yet (pbft.rs:431-436, 540, 554, 821-827, 913-914).
ViewDurable ==
    Serving =>
        \/ LogProves(current_view)
        \/ \E nv \in new_view_certificates :
              nv.view = current_view /\ \E x \in nv.votes : x.seq < last_stable_checkpoint

\* A recorded view-change vote that reports a prepared slot above the watermark keeps the
\* certificate a later quorum will need, from a view below its target (pbft.rs:807-819,
\* 834-846, 485-498).  At or below the watermark the certificate may be gone.
VotesBacked ==
    Serving => \A x \in view_change_votes :
        x.seq > last_stable_checkpoint =>
            \E c \in prepared_certificates :
                c.view < x.view /\ c.seq = x.seq /\ c.digest = x.digest

Extends(recovered, lost) == \A x \in lost : x.seq > last_stable_checkpoint' => x \in recovered

\* Recovery never falls behind the interrupted state: a view the log proves, the watermark,
\* and every slot proposed, prepared or committed above the watermark come back; after a
\* crash with no write under way nothing beyond them does (pbft.rs:379-598).
RecoveryKeepsProgress ==
    [][ FinishReplay =>
        /\ LogProves(before.view) => current_view' >= before.view
        /\ last_stable_checkpoint' >= before.stable
        /\ before.clean => /\ current_view' <= before.view
                           /\ last_stable_checkpoint' = before.stable
        /\ Extends(pre_prepared_proposals', before.proposals)
        /\ Extends({Slot(c) : c \in prepared_certificates'}, before.prepared)
        /\ Extends({Slot(c) : c \in commit_certificates'}, before.committed) ]_vars

\* Two messages a replay cannot accept both of: conflicting proposals for one place, or
\* view-change votes for one target that report one sequence with two digests.
Clash(x, y) ==
    /\ x.phase = y.phase /\ SamePlace(x, y) /\ x.digest # y.digest
    /\ x.phase = "PrePrepare" \/ (x.phase = "ViewChange" /\ x.seq > 0)

Conflicting == \E x, y \in Logged(wal) : Clash(x, y)

\* Whatever was compacted, torn or interrupted, a record never loses its prerequisites: a
\* replay is refused only for a torn tail or for two messages of the log that clash, never
\* for a vote whose proposal, quorum or certificate is missing (pbft.rs:420-429, 445-553,
\* 574; wal.rs:145).
RefusalsExplained == mode = "refused" => torn \/ Conflicting

\* The log the replica wrote itself is accepted again: a restart over a log without a torn
\* tail and without a clash ends in service (pbft.rs:392-574).
RestartServes == (mode = "down" /\ ~torn /\ ~Conflicting) ~> (mode = "live")

-----------------------------------------------------------------------------
(* Statements of the repository the code does not keep *)

\* docs/ARCHITECTURE.md:27: after a view change, locked values are inherited.  A proposal of
\* the new view for the slot its certificate selected carries the selected digest.
LockInherited ==
    \A nv \in new_view_certificates : \A c \in nv.selected : \A p \in pre_prepared_proposals :
        p.view = nv.view /\ p.seq = c.seq => p.digest = c.digest

\* docs/whitepaper.md:61: replay validates exactly as the live handler does, so a complete
\* log that only the live handler wrote is accepted.
OwnLogReplays == mode = "refused" => torn

\* PROOF_COVERAGE.md:16: a crashed node recovers precisely to its pre-crash state.  After a
\* crash with no write under way it is in the view it was in.
ViewRecovered == [][FinishReplay /\ before.clean => current_view' = before.view]_vars
=============================================================================
