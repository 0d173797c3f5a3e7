---------------------------- MODULE PbftCluster ----------------------------
(***************************************************************************)
(* 3F + 1 nodes of rust_engine/src/network.rs around the state machine of  *)
(* rust_engine/src/pbft.rs.  handle_connection takes one message from a    *)
(* socket, hands it to handle_message under the state lock and answers an  *)
(* accepted pre-prepare with a Prepare, and an accepted prepare of a       *)
(* certified slot with a Commit, which the broadcaster sends to every      *)
(* other node.                                                             *)
(*                                                                         *)
(* Nothing in the code originates a pre-prepare, a view change or a        *)
(* checkpoint: they are messages given from outside (Injected), like the   *)
(* votes of the Byzantine nodes.  A node that crashes takes no more steps; *)
(* what a restart recovers is the subject of PbftReplica.  highest_seq and *)
(* the new-view certificates are left out: no handler reads them.          *)
(***************************************************************************)
EXTENDS PbftVotes

CONSTANTS
    Byzantine,   \* nodes that may sign anything
    Injected,    \* packets from outside: proposals, view changes, checkpoints, Byzantine votes
    Reflected,   \* honest nodes whose own messages some peer sends back to them
    Repeats      \* TRUE: messages may be lost and repeated;
                 \* FALSE: each reaches each of its recipients once, in any order

Honest == Nodes \ Byzantine

\* A message and the node it may reach.
Packets == [to : Honest, msg : Messages]

\* At most F nodes are Byzantine, and honest nodes vote only as the code does.
ASSUME ClusterAssumption ==
    /\ F \in Nat
    /\ Byzantine \subseteq Nodes /\ Cardinality(Byzantine) <= F
    /\ Injected \subseteq Packets
    /\ \A p \in Injected :
          p.msg.phase \in {"Prepare", "Commit"} => p.msg.sender \in Byzantine
    /\ Reflected \subseteq Honest
    /\ Repeats \in BOOLEAN

VARIABLES
    current_view, last_stable_checkpoint,
    pre_prepared_proposals,
    prepare_votes, commit_votes, checkpoint_votes, view_change_votes,
    prepared_certificates, commit_certificates,   \* each a function on Honest
    wire,      \* messages on their way, with the node they may reach
    decided    \* history: slots some honest node has committed

progress == <<current_view, last_stable_checkpoint>>
votes    == <<prepare_votes, commit_votes, checkpoint_votes, view_change_votes>>
certs    == <<prepared_certificates, commit_certificates>>
vars     == <<progress, pre_prepared_proposals, votes, certs, wire, decided>>

-----------------------------------------------------------------------------
(* The network *)

\* broadcast_message skips the sender.
Recipients(m) == (Honest \ {m.sender}) \cup (Reflected \cap {m.sender})

Copies(M) == UNION {{[to |-> j, msg |-> m] : j \in Recipients(m)} : m \in M}

\* handle_connection is done with packet p and the node broadcasts M.
Answers(p, M) == wire' = (IF Repeats THEN wire ELSE wire \ {p}) \cup Copies(M)

\* The vote node i signs in answer to m.
Vote(i, m, phase) == [m EXCEPT !.phase = phase, !.sender = i]

-----------------------------------------------------------------------------
(* What handle_message accepts at node i *)

PrePrepareOk(i, m) ==
    /\ m.view = current_view[i]
    /\ m.sender = Leader(m.view)
    /\ \A p \in pre_prepared_proposals[i] : ~SamePlace(p, m)

PrepareOk(i, m) == m.view = current_view[i] /\ Slot(m) \in pre_prepared_proposals[i]

CommitOk(i, m) ==
    /\ m.view = current_view[i]
    /\ Slot(m) \in pre_prepared_proposals[i]
    /\ Certified(prepared_certificates[i], m)
    /\ \A c \in commit_certificates[i] : SamePlace(c, m) => c.digest = m.digest

ViewChangeOk(i, m) ==
    /\ m.view > current_view[i]
    /\ m.seq > 0 => \E c \in prepared_certificates[i] :
                       c.seq = m.seq /\ c.digest = m.digest /\ Verify(c)
    /\ ViewChangeSettles(prepared_certificates[i], m.view,
                         Supporters(PutVote(view_change_votes[i], m), m.view))

\* Mutant: a checkpoint below the watermark is counted.
CheckpointAnySeq(i, m) == m.view = current_view[i]

CheckpointOk(i, m) == m.seq > last_stable_checkpoint[i] /\ m.view = current_view[i]

Accepts(i, m) ==
    \/ m.phase = "PrePrepare" /\ PrePrepareOk(i, m)
    \/ m.phase = "Prepare"    /\ PrepareOk(i, m)
    \/ m.phase = "Commit"     /\ CommitOk(i, m)
    \/ m.phase = "ViewChange" /\ ViewChangeOk(i, m)
    \/ m.phase = "Checkpoint" /\ CheckpointOk(i, m)

-----------------------------------------------------------------------------
(* handle_connection at node p.to, by the phase of p.msg *)

Add(ballots, i, m) == [ballots EXCEPT ![i] = @ \cup {m}]

\* The certificate map of node i once m is filed with the votes of its slot.
CertifiedBy(map, ballots, i, m) ==
    LET cert == Certificate(ballots[i], m)
    IN  IF Verify(cert) THEN [map EXCEPT ![i] = Put(@, cert)] ELSE map

HandlePrePrepare(p) ==
    LET i == p.to  m == p.msg IN
    /\ m.phase = "PrePrepare" /\ PrePrepareOk(i, m)
    /\ pre_prepared_proposals' = Add(pre_prepared_proposals, i, Slot(m))
    /\ Answers(p, {Vote(i, m, "Prepare")})
    /\ UNCHANGED <<progress, votes, certs, decided>>

\* Mutant: the commit does not wait for the certificate.
HandlePrepareEager(p) ==
    LET i == p.to  m == p.msg IN
    /\ m.phase = "Prepare" /\ PrepareOk(i, m)
    /\ prepare_votes' = Add(prepare_votes, i, m)
    /\ prepared_certificates' = CertifiedBy(prepared_certificates, prepare_votes', i, m)
    /\ Answers(p, {Vote(i, m, "Commit")})
    /\ UNCHANGED <<progress, pre_prepared_proposals, commit_votes, checkpoint_votes,
                   view_change_votes, commit_certificates, decided>>

\* A commit follows whenever the slot is certified, with the digest of the message.
HandlePrepare(p) ==
    LET i == p.to  m == p.msg IN
    /\ m.phase = "Prepare" /\ PrepareOk(i, m)
    /\ prepare_votes' = Add(prepare_votes, i, m)
    /\ prepared_certificates' = CertifiedBy(prepared_certificates, prepare_votes', i, m)
    /\ Answers(p, {v \in {Vote(i, m, "Commit")} :
                      \E c \in prepared_certificates'[i] : SamePlace(c, m)})
    /\ UNCHANGED <<progress, pre_prepared_proposals, commit_votes, checkpoint_votes,
                   view_change_votes, commit_certificates, decided>>

HandleCommit(p) ==
    LET i == p.to  m == p.msg IN
    /\ m.phase = "Commit" /\ CommitOk(i, m)
    /\ commit_votes' = Add(commit_votes, i, m)
    /\ commit_certificates' = CertifiedBy(commit_certificates, commit_votes', i, m)
    /\ decided' = decided \cup {s \in {Slot(m)} : Verify(Certificate(commit_votes'[i], m))}
    /\ Answers(p, {})
    /\ UNCHANGED <<progress, pre_prepared_proposals, prepare_votes, checkpoint_votes,
                   view_change_votes, prepared_certificates>>

HandleViewChange(p) ==
    LET i == p.to  m == p.msg IN
    /\ m.phase = "ViewChange" /\ ViewChangeOk(i, m)
    /\ view_change_votes' = [view_change_votes EXCEPT ![i] = PutVote(@, m)]
    /\ current_view' = IF HasQuorum(Supporters(view_change_votes'[i], m.view))
                       THEN [current_view EXCEPT ![i] = m.view] ELSE current_view
    /\ Answers(p, {})
    /\ UNCHANGED <<last_stable_checkpoint, pre_prepared_proposals, prepare_votes,
                   commit_votes, checkpoint_votes, certs, decided>>

\* Mutant: everything is forgotten.
ForgetEverything(map, i, seq) == [map EXCEPT ![i] = {}]

Forget(map, i, seq) == [map EXCEPT ![i] = Above(@, seq)]

HandleCheckpoint(p) ==
    LET i == p.to  m == p.msg  ballots == Add(checkpoint_votes, i, m) IN
    /\ m.phase = "Checkpoint" /\ CheckpointOk(i, m)
    /\ IF Verify(Certificate(ballots[i], m))
       THEN /\ last_stable_checkpoint' = [last_stable_checkpoint EXCEPT ![i] = m.seq]
            /\ pre_prepared_proposals' = Forget(pre_prepared_proposals, i, m.seq)
            /\ prepare_votes' = Forget(prepare_votes, i, m.seq)
            /\ commit_votes' = Forget(commit_votes, i, m.seq)
            /\ checkpoint_votes' = Forget(ballots, i, m.seq)
            /\ prepared_certificates' = Forget(prepared_certificates, i, m.seq)
            /\ commit_certificates' = Forget(commit_certificates, i, m.seq)
       ELSE /\ checkpoint_votes' = ballots
            /\ UNCHANGED <<last_stable_checkpoint, pre_prepared_proposals, prepare_votes,
                           commit_votes, certs>>
    /\ Answers(p, {})
    /\ UNCHANGED <<current_view, view_change_votes, decided>>

\* An error closes the connection; nobody sends the message again.
Reject(p) ==
    /\ ~Accepts(p.to, p.msg)
    /\ Answers(p, {})
    /\ UNCHANGED <<progress, pre_prepared_proposals, votes, certs, decided>>

-----------------------------------------------------------------------------
(* The cluster *)

Init ==
    /\ current_view = [i \in Honest |-> 0] /\ last_stable_checkpoint = [i \in Honest |-> 0]
    /\ pre_prepared_proposals = [i \in Honest |-> {}]
    /\ prepare_votes = [i \in Honest |-> {}] /\ commit_votes = [i \in Honest |-> {}]
    /\ checkpoint_votes = [i \in Honest |-> {}] /\ view_change_votes = [i \in Honest |-> {}]
    /\ prepared_certificates = [i \in Honest |-> {}]
    /\ commit_certificates = [i \in Honest |-> {}]
    /\ wire = Injected
    /\ decided = {}

Receive(p) ==
    \/ HandlePrePrepare(p)    \/ HandlePrepare(p)       \/ HandleCommit(p)
    \/ HandleViewChange(p)    \/ HandleCheckpoint(p)    \/ Reject(p)

Next == \E p \in wire : Receive(p)

Spec == Init /\ [][Next]_vars

\* Every accepted connection has a task of its own, which runs to its end.
FairSpec == Spec /\ WF_vars(Next)

-----------------------------------------------------------------------------
(* Properties *)

\* Every variable has its type, and the maps of certificates and of view-change votes hold
\* one entry per key.
TypeOK ==
    /\ current_view \in [Honest -> Nat] /\ last_stable_checkpoint \in [Honest -> Nat]
    /\ pre_prepared_proposals \in [Honest -> SUBSET Slots]
    /\ prepare_votes \in [Honest -> SUBSET Messages]
    /\ commit_votes \in [Honest -> SUBSET Messages]
    /\ checkpoint_votes \in [Honest -> SUBSET Messages]
    /\ view_change_votes \in [Honest -> SUBSET Messages]
    /\ prepared_certificates \in [Honest -> SUBSET Certificates]
    /\ commit_certificates \in [Honest -> SUBSET Certificates]
    /\ \A i \in Honest :
          /\ \A c, d \in prepared_certificates[i] : SamePlace(c, d) => c = d
          /\ \A c, d \in commit_certificates[i] : SamePlace(c, d) => c = d
          /\ \A x, y \in view_change_votes[i] :
                x.view = y.view /\ x.sender = y.sender => x = y
    /\ wire \subseteq Packets
    /\ decided \subseteq Slots

\* No stable checkpoint has made any honest node forget the sequence of x.
Uncovered(x) == \A i \in Honest : x.seq > last_stable_checkpoint[i]

\* Two decisions for one slot carry one digest, whatever the leader and up to F nodes
\* sign, and in whatever order votes, view changes and checkpoints arrive, as long as no
\* honest node has stabilised a checkpoint at or above the slot (pbft.rs:751-799;
\* SPEC.md:54; docs/invariants.md:22).
Agreement ==
    \A x, y \in decided : SamePlace(x, y) /\ Uncovered(x) => x.digest = y.digest

\* An honest node never signs two prepares, or two commits, with different digests for a
\* slot above its watermark, although a commit is triggered by any accepted prepare of a
\* certified (view, seq) (network.rs:199-236).
HonestVotesOnce ==
    \A p, q \in wire :
        /\ p.msg.phase \in {"Prepare", "Commit"} /\ q.msg.phase = p.msg.phase
        /\ p.msg.sender \in Honest /\ q.msg.sender = p.msg.sender
        /\ SamePlace(p.msg, q.msg)
        /\ p.msg.seq > last_stable_checkpoint[p.msg.sender]
        => p.msg.digest = q.msg.digest

\* Behind every decision stand at least F + 1 honest nodes that hold its prepared
\* certificate: what a view change needs to find it again (network.rs:217-235,
\* pbft.rs:762-771).
PreparedBehindDecision ==
    \A x \in decided : Uncovered(x) =>
        Cardinality({h \in Honest : Certified(prepared_certificates[h], x)}) >= F + 1

\* The cluster implements the log of decisions.
Watermarks == {last_stable_checkpoint[i] : i \in Honest}

Log == INSTANCE DecisionLog WITH decided <- decided, covered <- Watermarks

\* Decisions are only added, agree where no watermark covers them, and watermarks only
\* rise (pbft.rs:782-796, 880-888).
ImplementsDecisionLog == Log!Spec

\* THREAT_MODEL.md:7 and SPEC.md:7-9: with at most f faulty nodes and every message
\* delivered, a proposal that every honest node accepted is eventually committed.
ProposalCommits ==
    \A x \in {Slot(p.msg) : p \in {q \in Injected : q.msg.phase = "PrePrepare"}} :
        (\A i \in Honest : x \in pre_prepared_proposals[i]) ~> (x \in decided)
=============================================================================
