# Sovereign Lattice: TLA+ specifications

The modules in this directory model the consensus core of `rust_engine`: a PBFT replica
with its write-ahead log, the file behind that log, a cluster of replicas over the engine's
network layer, the boot of such a cluster with its distributed key generation, and the epoch
manager. TLC checks them on small instances; TLAPS proves their safety results for every
number of nodes and faults. Sources are cited as `file:line` below `rust_engine/src/` unless a path says
otherwise.

## 1. The system

### Components

| component | state | operations | what makes it correct |
|---|---|---|---|
| PBFT replica (`pbft.rs`) | view, highest sequence, watermark, proposals, votes of four phases, prepared / commit / new-view certificates, `committed_digest`, `wal_failed` | `handle_message` per phase, `new_with_wal_path` (replay) | no equivocation, certificates backed by votes, decisions final, acknowledged means durable, recovery loses nothing |
| Write-ahead log (`wal.rs`) | the file, its directory entry, its handle | `open`, `append_entry`, `prune_before`, `replay_log` | acknowledged means on the disk, atomic compaction, no record in an unlinked file, torn tail refused |
| Threshold BLS (`threshold_bls.rs`) | none | sign, aggregate, verify | a certificate verifies with a quorum of signers |
| Network (`network.rs`) | listener, connection semaphore, broadcast queue | `handle_connection`, `broadcast_message`, `spawn_outbound_broadcaster` | votes only for accepted slots, agreement whatever arrives |
| Bootstrap (`main.rs`) | DKG state, key registry, start-up channels | share exchange with retries and a deadline, building of `PbftState`, exit | nodes that serve hold one registry; a cold start ends in service |
| Feldman DKG (`dkg.rs`) | dealers, shares, commitments | deal, receive, finalise | one master key |
| Epoch manager (`epoch.rs`) | current validator set | `apply_transition`, `verify_quorum` | an epoch has one validator set |
| Quorum tracker, node state, engine stub (`quorum_tracker.rs`, `pbft_state.rs`, `consensus_engine.rs`) | votes, locks | add vote, prepare, commit, inherit | a threshold fires once, locks hold |
| Participant loop (`async_runtime.rs`) | event queue, timer | biased select | timeouts fire, shutdown ends it |
| VSS library (`Dkg/`, `feldman_dkg.rs`, `pedersen_vss.rs`), FROST and Schnorr (`frost_sim.rs`, `schnorr_proof.rs`) | polynomials | field arithmetic | cryptographic |
| Package-root and attestation verifiers | none | pure checks | order of the checks |
| `stateful_fuzz.rs`, `bin/injector.rs`, Lean files, `labs/`, site, scripts, CI | - | drivers, documents, prototypes | - |

`epoch.rs`, `quorum_tracker.rs`, `pbft_state.rs`, `consensus_engine.rs` and
`async_runtime.rs` are not compiled into the crate's binary.

### How they interact

`main.rs` runs the DKG over `network.rs` (DKG packets go through a channel to the start-up
code), derives the key registry, and builds the `PbftState` from the log at `WAL_PATH`.
From then on each accepted TCP connection is one task that carries one packet: it reads the
keys under the state lock, verifies the signature without the lock, takes the lock again,
calls `handle_message`, and under the same lock composes its own vote: a Prepare after an
accepted pre-prepare, a Commit after an accepted prepare if the `(view, seq)` has a
prepared certificate. The vote goes through a queue to the broadcaster, which opens a
connection to every *other* node. `handle_message` snapshots its state, applies the
transition, appends the record, syncs, and rolls the snapshot back if the append failed; a
checkpoint that stabilises then compacts the log. Nothing in the source originates a
pre-prepare, a view-change vote or a checkpoint vote: tests and the injector do.

### What is hard

* messages in any order, repeated, or never; votes of Byzantine nodes;
* forgetting: a stable checkpoint drops proposals, which are also the memory the
  equivocation guard uses;
* failure of one step of several: transition, append, sync, compaction, and a crash between
  any two of them;
* two sets of rules, live and replay, that must rebuild the same state from a log that was
  compacted in between;
* system calls whose effect on the disk comes later than on the page cache, and a handle
  that may outlive the name of its file;
* a boot in which everyone waits for everyone, once, under a deadline;
* progress with one's own votes missing from every quorum.

`PROJECT.json` lists these hazards line by line with the properties that watch them.

## 2. Modules

| module | models | extends |
|---|---|---|
| `PbftVotes` | messages, slots, votes, certificates, view-change evidence (constant-level operators) | |
| `PbftReplica` | one replica: `handle_message`, the durable log, crash, replay | `PbftVotes` |
| `MC_PbftReplica` | input sets for TLC | `PbftReplica` |
| `PbftCluster` | 3F + 1 nodes, the network, reactions of `handle_connection` | `PbftVotes` |
| `MC_PbftCluster` | packets from outside for TLC | `PbftCluster` |
| `DecisionLog` | abstract specification of the cluster: a growing, consistent set of decisions | |
| `WalFile` | the file of `wal.rs`, system call by system call | |
| `DurableLog` | abstract specification of the file: what a write-ahead log promises | |
| `Bootstrap` | the boot of all nodes: `main.rs` with the session of `dkg.rs` | |
| `MC_Bootstrap` | the specification in which nothing goes wrong before all serve | `Bootstrap` |
| `EpochManager` | several managers of `epoch.rs` and the validators that sign | |
| `MC_EpochManager` | validator sets for TLC | `EpochManager` |
| `PbftVotesProofs`, `PbftReplicaProofs`, `PbftRecoveryProofs`, `PbftReplayProofs`, `PbftClusterProofs`, `WalFileProofs`, `BootstrapProofs`, `EpochManagerProofs` | theorems | the modules they are about |

### PbftVotes

A message is a record of phase, view, sequence, digest and sender; a signature is the sender
it authenticates. `prepare_votes` and the other vote maps are kept as the set of messages
filed in them, certificate maps as sets with at most one element per key (`Put` is
`HashMap::insert`). `Verify` is a quorum of distinct signers: `main.rs:208-231` derives every
registered public key and the master key from one polynomial, so interpolating any
`2f + 1` valid signatures gives the master signature, and the errors
`CERTIFICATE_VERIFICATION_FAILED` and `NEW_VIEW_VERIFICATION_FAILED` are reachable only for
reasons that `VerifyNewView` spells out.

### PbftReplica

Each phase of `handle_message` is an action (`HandlePrePrepare`, `HandlePrepare`,
`HandleCommit`, `HandleViewChange`, `HandleCheckpointVote`, `HandleStableCheckpoint`) with
the guard, the transition, the append and, for a stabilising checkpoint, the compaction. A
rejected message restores the snapshot, so it is a stuttering step. `AppendFails` and
`PruneFails` are the two error branches (memory rolled back or not, as the code does, and
`wal_failed` set); `CrashInAppend`, `CrashInPrune`, `Crash` and `CrashInReplay` stop the
process between steps; a partial append leaves `torn`. The log is a set of records with
their offset; compaction keeps order. `Restart` empties memory, and the replay closure of
`new_with_wal_path` runs record by record over the same variables, which then stand for
the `recovered_*` locals; a record it rejects, or a torn tail, leads to mode `refused`.
`committed_digest` always has the digests of `commit_certificates` and is not kept twice.
A restart has the registry it had before, as in the tests of `pbft.rs`; that `main.rs`
derives fresh keys at every boot is the subject of `Bootstrap`.
History variables: `acked` (messages answered Ok) and `before` (what a crash interrupted).

### PbftCluster

Each honest node has the fields of `PbftState` that handlers read, as functions on
`Honest`. `wire` is the set of packets that may still arrive. One action per phase models
the whole of `handle_connection`: the transition and the vote it broadcasts. `Copies` sends
to every node but the sender (`network.rs:62`); `Reflected` lists honest nodes whose own
messages a peer returns to them. With `Repeats` a packet stays on the wire, so that it may
arrive again, later, or never; without it, each arrives once. The connection limit, a failed
connect and a rejected or crashed connection are lost packets. `Injected` holds what no code
originates, and the votes of the Byzantine nodes; `ClusterAssumption` requires injected
prepares and commits to be signed by Byzantine nodes only. A crashed node takes no more
steps; restarts are `PbftReplica`'s subject. `highest_seq` and new-view certificates are
left out because no handler reads them, an obsolete checkpoint (`pbft.rs:653`) counts as
rejected because it changes nothing and answers nobody, and the log with its `wal_failed`
state is left out because its effect here is a node that stops.

### DecisionLog

`decided` grows one decision at a time; a decision whose sequence is above every watermark
contradicts no earlier one of the same `(view, seq)`; watermarks only rise. The cluster's
`decided` and its set of watermarks are the refinement mapping.

### WalFile and DurableLog

`WalFile` is one level below the log of `PbftReplica`. A file has its records in the page
cache, those on the disk, and a flag for an incomplete last record; the path of the log has
an inode in the cache and one on the disk; the process has a handle and a place (`step`)
inside `append_entry` (`Write`, `SyncData`, `WriteFails`) or `prune_before` (`Prune`, `Copy`,
`SyncTemp`, `Rename`, `Reopen`, `SyncDir`). `CallFails` returns an error from any call and
leaves the user stopped, as `wal_failed` does. `Kill` loses the process, `PowerLoss` also
what was not synced: any suffix of the unsynced records, possibly leaving part of one, and
the directory entry unless it was written back (`WriteBack`). The user appends under a lock
and compacts at the record it has just appended, as `pbft.rs:904-920` does.

The code never syncs the directory after creating the log, nor after a kill between rename
and directory sync. `EntriesReachDisk` says whether the kernel writes such an entry back
before the log is opened. `TRUE` is the assumption under which the file keeps its promises,
`FALSE` what the code itself guarantees (run `unsynced_entry`).

`DurableLog` is the promise: stable records grow at the end, one is acknowledged only as it
becomes stable, and only records the user has given up leave, all at once. The refinement
mapping takes what would survive a power loss now (`Durable`) for the stable records. This is
what `PbftReplica` relies on when it keeps the log as one set of records.

### Bootstrap

Each node goes through the phases of `main`: `Boot` (listener, two seconds), `Deal`
(`DkgSession::new` and a send task per peer), the collection of shares, then `Finalise`
(`finalize_dkg`, registry, replay of the log) or `Deadline`. A polynomial is an opaque value
and a share stands for its dealer's polynomial: `verify_share` accepts exactly the share of
the commitments it came with, and the registry of `main.rs:208-231` is a function of the
polynomials collected. A send succeeds when the peer's listener is up; ten refused attempts
are `GiveUp`. A share of an id outside the node set counts towards `expected_inbound`
(`Stray`). `Serve` appends a record signed by a peer with the same registry. `Exit` is the
end of the process with the log left behind; `Boot` after it is the restart by
`docker-compose.yml:18`. *Mishaps* are the events that timing alone decides: a crash, an
exhausted send, a stray, a deadline that passes although every missing dealer may still
deliver. A deadline that passes when a missing dealer already serves, and so deals no more,
is no mishap: it is certain (`Hopeless`). Shares that reach a node in service stay unread
in its channel.

### EpochManager

`quorum_threshold`, `verify_quorum` and `apply_transition` as in `epoch.rs`, for several
managers that are shown transitions with any subset of their signers. The file has no
caller, so signing is external: a correct validator signs one transition from an epoch, to a
later one. `EpochAssumption` says that less than a third of each proposed set is faulty and
that `total_power` is the number of its validators; the code leaves both to whoever builds
the set.

## 3. What TLC checks

The bootstrap runs check for deadlock as well: some node can always take a step. The other
runs set `CHECK_DEADLOCK FALSE`, because a replica, a log file and a manager are passive and
the bounded inputs are used up at some point.

| run | instance | bounds | result |
|---|---|---|---|
| `replica_view` | one of four nodes, prepared slot, change to view 1, checkpoint there | 6 appends, 1 crash | `TypeOK`, `AckedSurvives`, `ViewDurable`, `VotesBacked` hold (996 107 states) |
| `replica_recovery` | `F = 0`, so one vote is a quorum and six records span two slots, three views, checkpoints and a leader that equivocates at a slot a checkpoint covers; fairness | 6 appends, 2 crashes | `CertificatesBacked`, `NoConflictAboveStable`, `DecisionKept`, `RefusalsExplained`, `RecoveryKeepsProgress`, `RestartServes` hold (573 374 states) |
| `own_log_refused` | four nodes, `SlotInputs` | 6 appends, 1 crash | `OwnLogReplays` violated |
| `lock_inherited` | a slot prepared in view 0, view 1, another proposal there | 8 appends | `LockInherited` violated |
| `lost_view` | votes for view 1 around a checkpoint in view 0 | 6 appends, 1 crash | `ViewRecovered` violated |
| `cluster_agreement` | four nodes; a Byzantine leader with two proposals that helps to decide a different one at two nodes; checkpoints below and over the slot, a view change; own votes reflected | lost, repeated, reordered packets | `TypeOK`, `HonestVotesOnce`, `Agreement`, `PreparedBehindDecision`, `ImplementsDecisionLog` hold |
| `silent_node` | four nodes, one silent, every packet delivered once, fairness | none | `ProposalCommits` violated |
| `wal_file` | records of three sequences, any failing call | 4 appends, 4 files, 2 kills or power losses | `TypeOK`, `AckedDurable`, `HandleIsLog`, `ImplementsDurableLog` hold |
| `unsynced_entry` | the same without `EntriesReachDisk` | the same | `FlushedBeforeAck` violated |
| `bootstrap` | four nodes, one id outside the set, fairness | 1 mishap, at one node | `TypeOK`, `OneKeySet`, `ColdStart` hold |
| `restarted_node` | the same, no mishap before all nodes serve | 1 mishap | `RestartedServes` violated |
| `epoch` | four validators, one faulty; three epochs with two candidates for two of them; two managers | none | `TypeOK`, `EpochsAgree` hold |

**Why the bounds suffice.** The interesting events of the replica need few records: with
`F = 1`, a view change with a checkpoint quorum in the new view takes six, and so does a view
change around a checkpoint; with `F = 0` every phase completes with one record and six
records hold two checkpoints or two view changes around a decision. Two crashes let a
recovered replica go on and crash again. Two stops of the log file, four records and four
inodes allow a compaction, an interrupted one after it, and a power loss in either. One
mishap at one node reaches each way in which a boot can go wrong; the theorems cover any
number at any nodes. Each property is shown to be sensitive at its bounds by a mutated
definition that breaks it (`PROJECT.json`, `mutants`; the operators marked *Mutant*).

**Fairness.** `RestartServes` assumes weak fairness of `Restart`
(`docker-compose.yml:18`: `restart: on-failure`) and of the replay loop, which waits for
nothing. `ColdStart` assumes weak fairness of each node's `main` (restarted by the compose
file, never blocked but by the wait for shares, and then the deadline passes) and of each
send task (a tokio task that retries). `ProposalCommits` and `RestartedServes` are refuted
even under weak fairness of every step of the code: an accepted connection is a task of its
own that runs to its end, and a stopped node is started again for ever.

### Where code and documents disagree

* `own_log_refused`: a checkpoint at `s` forgets the proposals at and below `s`
  (`pbft.rs:882`), and a pre-prepare is not compared with the watermark, so a second proposal
  with another digest is accepted for that slot, which `SPEC.md:45` excludes. Compaction
  keeps the records at the checkpoint's own sequence, so the log then holds two proposals
  for one slot and replay refuses a complete log the node wrote itself (`pbft.rs:420`),
  against the comment at `pbft.rs:418-419` and `docs/whitepaper.md:61`. `RefusalsExplained`
  says, and `RefusalsAlwaysExplained` proves, that two proposals for one slot, or two
  view-change votes of one target and sequence with two digests, are the only contents a
  log is refused for.
* `lock_inherited`: the certificate a new view selects is stored and never consulted by the
  pre-prepare branch (`pbft.rs:691`), against `docs/ARCHITECTURE.md:27` and
  `PROOF_COVERAGE.md:30`.
* `lost_view`: compaction drops view-change votes that report a sequence below the
  checkpoint (`pbft.rs:914`), memory keeps counting them (`pbft.rs:880-888`). Two votes, a
  checkpoint, the third vote: view 1 is entered and acknowledged, and a restart is back in
  view 0, against `PROOF_COVERAGE.md:16`. `ViewDurable` says, and `ViewAlwaysDurable` proves,
  that this is the only way a view can be lost.
* `silent_node`: a node's own votes and the primary's pre-prepare are in no quorum
  (`network.rs:62`), so `2f + 1` prepares must come from the `3f` others: with `f` of them
  silent nothing is prepared, against `SPEC.md:9` and `SPEC.md:50`.
* `unsynced_entry`: the directory entry of a new log, or of a log renamed just before a
  kill, is never synced (`wal.rs:25-32`, `wal.rs:154-175`), so a power loss may take acknowledged
  records with it, against `THREAT_MODEL.md:37`.
* `restarted_node`: one node that crashes waits for shares nobody sends any more and ends at
  the deadline, every time (`main.rs:110`, `152`, `192-200`), against `README.md:32`.

`Agreement` is about one `(view, seq)`. Across views the code promises nothing
(`lock_inherited`), and at or below a watermark a slot may be decided again
(`own_log_refused`), hence the side condition `Uncovered`. Likewise `OneKeySet` leaves out
dealers that have dealt twice: a dealer that restarts during the boot is remembered with two
polynomials, and nothing compares them.

## 4. What TLAPS proves

For every number of faults, every set of digests, inputs, nodes and bounds. The assumptions
are those of the constants: `ReplicaAssumption` (inputs are well-formed), `ClusterAssumption`
(at most `F` Byzantine nodes; nobody forges an honest node's prepare or commit),
`WalAssumption`, `BootAssumption` and `EpochAssumption` (see the modules).
Two of the theorems about the log file name one more, `EntriesReachDisk`.

| theorem | states |
|---|---|
| `PbftReplicaProofs!TypeCorrect` | `TypeOK` |
| `PbftReplicaProofs!CertificatesAlwaysBacked` | `CertificatesBacked` |
| `PbftReplicaProofs!AcknowledgedIsDurable` | `AckedSurvives` |
| `PbftReplicaProofs!NoEquivocationAboveStable` | `NoConflictAboveStable` |
| `PbftRecoveryProofs!DecisionsStay` | `DecisionKept` |
| `PbftRecoveryProofs!ViewAlwaysDurable` | `ViewDurable` |
| `PbftRecoveryProofs!VotesKeepEvidence` | `VotesBacked` |
| `PbftReplayProofs!RefusalsAlwaysExplained` | `RefusalsExplained` |
| `PbftReplayProofs!RecoveryAlwaysKeepsProgress` | `RecoveryKeepsProgress` |
| `PbftClusterProofs!TypeCorrect` | `TypeOK` |
| `PbftClusterProofs!ClusterAgrees` | `Agreement` |
| `PbftClusterProofs!HonestNeverEquivocates` | `HonestVotesOnce` |
| `PbftClusterProofs!DecisionsPrepared` | `PreparedBehindDecision` |
| `PbftClusterProofs!RefinesDecisionLog` | `ImplementsDecisionLog` |
| `WalFileProofs!TypeCorrect` | `TypeOK` |
| `WalFileProofs!AcknowledgedStays` | `AckedDurable`, given `EntriesReachDisk` |
| `WalFileProofs!HandleAlwaysLog` | `HandleIsLog` |
| `WalFileProofs!RefinesDurableLog` | `ImplementsDurableLog`, given `EntriesReachDisk` |
| `BootstrapProofs!TypeCorrect` | `TypeOK` |
| `BootstrapProofs!ServesOneKeySet` | `OneKeySet` |
| `BootstrapProofs!LogsKeepOneKeySet` | `LogsOneKeySet` |
| `EpochManagerProofs!TypeCorrect` | `TypeOK` |
| `EpochManagerProofs!EpochsHaveOneSet` | `EpochsAgree` |

**Replica.** `CertificatesBacked` alone is not inductive: a new prepared certificate could
replace the one a commit certificate rests on. `BackedInv` adds that proposals in memory
never conflict (`OneDigest`), so that a replacement has the same digest. Durability and
the equivocation guard share `LogInv`: offsets are distinct and bounded (`OffsetsOk`), every
acknowledged message is logged or covered (`AckedSurvives`), memory agrees with the log
while live (`LiveLog`), what replay has rebuilt agrees with the prefix it has read
(`ReplayLog`), checkpoint votes in memory are in the log (`VotesLogged`), and a replica that
failed a write has accepted no conflict above its watermark.

Three more invariants rest on these. `VoteInv`: certificates are of views that were entered,
so they lie below the target of every later view-change vote. `CommitInv`: a commit
certificate stands for every quorum of filed commit votes, every acknowledged commit vote
above the watermark is filed, and replay has filed each one it has read; the end of the
replay needs `AckedSurvives` to know that nothing acknowledged was missing from the log.
`ViewInv`: a view-change vote on file is in the log or reports a slot below the watermark,
during replay always the first, and the log proves the view that replay has reached.

**Replay.** Replay checks each record against what the records in front of it rebuilt, so the
log must keep for each record what the handler asked for when it accepted the message.
`InOrder` says so: in front of a prepare is its proposal, in front of a commit also a quorum
of prepares, in front of a view-change vote the quorum of the slot it reports. It survives
an append because memory holds nothing the log does not hold (`MemoryLogged`), and a
compaction because a record and what it needs are of one sequence number. With
`PreparesReplayed` and `PreparesCertified` (each prepare read is on file, each quorum on file
has its certificate) a record is refused only if it clashes with an earlier one
(`RefusedRecordClashes`), and no other quorum of view-change votes is ambiguous: votes
without a clash settle on one highest slot with one certificate of highest view
(`SettlesUnlessAmbiguous`, `HighestView`; the latter takes the least counterexample of a
well-founded order).

`RecoveryKeepsProgress` compares the end of a replay with the state before the crash, two
states with any number of steps between them. Three invariants join them. `StableProved`: the
log proves the watermark, the least it can be compared with. `BoundInv`: the log proves no
view above the current one, because each logged view-change vote has its sender on file for
that target, and no quorum on file is of a later view. `ImageInv`: what the replica held when
it crashed is in the log or below a checkpoint the log proves (`Recoverable`), and if no write
was under way the log proves neither a later checkpoint nor a later view (`Exact`). The end
of the replay follows from these and from what replay has rebuilt of the records it read
(`SlotsRecovered`, `ViewRecoveredExactly`).

**Cluster.** The argument is that nothing is undone but by raising a watermark.
`StepEffect` says that a step does one of four things to a node: nothing, accept a proposal
for a free place, replace a certificate of a held slot, or stabilise a checkpoint.
`AgreementInv` then has five parts: one proposal per place at each node (`OneProposal`);
certificates rest on held proposals (`CertificatesProposed`); an honest prepare on the wire
stands for a held slot and a commit for a held and certified one, unless the sender's
watermark covers it (`VotesStand`); so do commit votes on file (`CommitsReady`); and behind
each decision stands a quorum of such nodes (`DecisionsBacked`). Two quorums of `2F + 1`
among `3F + 1` share a node that is not Byzantine (`QuorumsMeet`), which holds both slots
and therefore one. The quorum has to be in the invariant because packets may leave the wire
and votes may be forgotten.

**Log file.** `AckedDurable` alone is not inductive: it has to say, for each place inside
`prune_before`, which file holds the records. `WalInv` relates the handle, the entry in the
cache, the entry on the disk and the copy for each step (`StepOk`), says that an entry not yet
on the disk names a synced copy of what the old file keeps (`EntriesOk`), and that synced
records are a prefix of the cached ones (`FilesOk`), so that a power loss cuts only at the
end. `HandleIsLog` needs none of this: `HandleInv` follows the handle through the steps
whatever has reached the disk, so `HandleAlwaysLog` does not assume `EntriesReachDisk`.

**Bootstrap.** `DealersOk` carries the argument: a polynomial that a node remembers of a dealer is the one the dealer holds, or
the dealer has dealt again; a dealer that has dealt once has one polynomial, so any two
registries agree on it. A log is extended only under the registry its records were checked
against.

**Epochs.** Two quorums of one set share a correct validator, which signed one transition
from that epoch, so a set has one backed successor (`OneSuccessor`). `EpochsAgree` is not
inductive alone, since managers skip epochs and lag behind: `Linked` adds that the sets held
form a chain, each but the latest with a backed successor among them and none in between.

Model-checked only: the liveness properties `RestartServes` and `ColdStart`, because liveness
under fairness is out of the prover's reach here; and the six violated statements, which have
a counterexample and no proof. Every invariant and every action property of the passing runs
is also a theorem. Of `RestartServes` the safety half is proved: `RefusalsAlwaysExplained`
excludes every other end of a replay, and TLC checks that the replay ends. No recursion over
data is used.

## 5. Not modelled

* `quorum_tracker.rs`, `pbft_state.rs`, `consensus_engine.rs` and `async_runtime.rs` are not
  compiled into the crate and nothing calls them. Without a caller there is no order of calls
  to be faithful to, and the participant loop has neither a producer of events nor handlers
  beyond log lines. Their hazards are listed with this note.
* `Dkg/`, `feldman_dkg.rs`, `pedersen_vss.rs`, `frost_sim.rs`, `schnorr_proof.rs` and the
  arithmetic of `threshold_bls.rs` are field and curve computations without protocol state.
  Of `dkg.rs`, `transcript_hash` and `verify_transcript_consistency` are called by one test
  only.
* The package-root and attestation verifiers are pure checks of one document.
* `network.rs`: framing, addresses and byte formats are abstracted, and the number of
  connection permits is not counted: a dropped connection is a lost packet. That late DKG
  packets can use up the permits of a node in service is listed as a hazard.
* Drivers (`stateful_fuzz.rs`, `bin/injector.rs`), Lean files, `labs/`, the site, scripts and
  CI are not program logic.

What would extend the project: the composition of `PbftCluster` with crashes and the log, in
place of nodes that stop; and the participant loop and the quorum tracker, once the crate
calls them.
