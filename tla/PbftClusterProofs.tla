------------------------- MODULE PbftClusterProofs -------------------------
(***************************************************************************)
(* Theorems about PbftCluster for every number of faults, every set of     *)
(* Byzantine nodes and of messages from outside, and every way the network *)
(* loses, repeats and reflects messages.                                   *)
(***************************************************************************)
EXTENDS PbftCluster, PbftVotesProofs

-----------------------------------------------------------------------------
(* Types *)

\* The vote a node signs in answer to a message is a message.
LEMMA VoteType ==
    ASSUME NEW i \in Honest, NEW m \in Messages, NEW phase \in Phases
    PROVE  /\ Vote(i, m, phase) \in Messages
           /\ Slot(Vote(i, m, phase)) = Slot(m)
           /\ Vote(i, m, phase).phase = phase /\ Vote(i, m, phase).sender = i
  BY DEF Vote, Messages, Slot, Honest

\* Broadcasting puts only packets on the wire: of the votes given, and of what was there.
LEMMA AnswersType ==
    ASSUME TypeOK, NEW p, NEW M \in SUBSET Messages, Answers(p, M)
    PROVE  /\ wire' \subseteq Packets
           /\ \A q \in wire' : q \in wire \/ q.msg \in M
<1>1. \A q \in Copies(M) : q \in Packets /\ q.msg \in M
  <2>1. \A m : Recipients(m) \subseteq Honest
    BY ClusterAssumption DEF Recipients
  <2>2. \A q \in Copies(M) : \E m \in M : \E j \in Recipients(m) : q = [to |-> j, msg |-> m]
    BY DEF Copies
  <2>3. QED
    BY <2>1, <2>2 DEF Packets
<1>2. wire' \subseteq wire \cup Copies(M)
  BY DEF Answers
<1>3. QED
  BY <1>1, <1>2 DEF TypeOK

\* Every packet on the wire is addressed to an honest node and carries a message.
LEMMA PacketType ==
    ASSUME TypeOK, NEW p \in wire
    PROVE  p.to \in Honest /\ p.msg \in Messages
  BY DEF TypeOK, Packets

\* Filing a vote keeps the ballots typed.
LEMMA AddType ==
    ASSUME NEW ballots \in [Honest -> SUBSET Messages], NEW i \in Honest, NEW m \in Messages
    PROVE  /\ Add(ballots, i, m) \in [Honest -> SUBSET Messages]
           /\ Add(ballots, i, m)[i] = ballots[i] \cup {m}
           /\ \A j \in Honest : j # i => Add(ballots, i, m)[j] = ballots[j]
  BY DEF Add

\* Replacing one node's certificate map keeps the maps typed and one entry per key.
LEMMA CertifiedByType ==
    ASSUME NEW map \in [Honest -> SUBSET Certificates],
           NEW ballots \in [Honest -> SUBSET Messages],
           NEW i \in Honest, NEW m \in Messages,
           \A j \in Honest : \A c, d \in map[j] : SamePlace(c, d) => c = d
    PROVE  /\ CertifiedBy(map, ballots, i, m) \in [Honest -> SUBSET Certificates]
           /\ \A j \in Honest : \A c, d \in CertifiedBy(map, ballots, i, m)[j] :
                 SamePlace(c, d) => c = d
           /\ CertifiedBy(map, ballots, i, m)[i] =
                 IF Verify(Certificate(ballots[i], m))
                 THEN Put(map[i], Certificate(ballots[i], m)) ELSE map[i]
           /\ \A j \in Honest : j # i => CertifiedBy(map, ballots, i, m)[j] = map[j]
<1> DEFINE cert == Certificate(ballots[i], m)
<1>1. cert \in Certificates
  BY CertificateType
<1>2. Put(map[i], cert) \in SUBSET Certificates
      /\ \A c, d \in Put(map[i], cert) : SamePlace(c, d) => c = d
  BY <1>1, PutType
<1>3. CertifiedBy(map, ballots, i, m) =
        IF Verify(cert) THEN [map EXCEPT ![i] = Put(map[i], cert)] ELSE map
  BY DEF CertifiedBy
<1> HIDE DEF cert
<1>4. CASE Verify(cert)
  BY <1>2, <1>3, <1>4 DEF cert
<1>5. CASE ~Verify(cert)
  BY <1>3, <1>5 DEF cert
<1>6. QED
  BY <1>4, <1>5

\* Forgetting keeps a subset at one node and the rest as it is.
LEMMA ForgetKeeps ==
    ASSUME NEW S, NEW map \in [Honest -> SUBSET S], NEW i \in Honest, NEW seq \in Nat
    PROVE  /\ Forget(map, i, seq) \in [Honest -> SUBSET S]
           /\ Forget(map, i, seq)[i] = Above(map[i], seq)
           /\ \A j \in Honest : j # i => Forget(map, i, seq)[j] = map[j]
           /\ \A j \in Honest : Forget(map, i, seq)[j] \subseteq map[j]
  BY DEF Forget, Above

\* The initial state is typed.
LEMMA InitType ==
    ASSUME Init PROVE TypeOK
  BY ClusterAssumption DEF Init, TypeOK


\* Every step keeps the types, and the one entry per key of each map.
LEMMA NextType ==
    ASSUME TypeOK, [Next]_vars
    PROVE  TypeOK'
<1>1. ASSUME NEW p \in wire, HandlePrePrepare(p)
      PROVE  TypeOK'
  <2> DEFINE i == p.to  m == p.msg
  <2>1. i \in Honest /\ m \in Messages
    BY PacketType
  <2>2. {Vote(i, m, "Prepare")} \in SUBSET Messages
    BY <2>1, VoteType DEF Phases
  <2>3. wire' \subseteq Packets
    BY <1>1, <2>2, AnswersType DEF HandlePrePrepare
  <2>4. pre_prepared_proposals' \in [Honest -> SUBSET Slots]
    BY <1>1, <2>1, SlotType DEF HandlePrePrepare, TypeOK, Add
  <2>5. QED
    BY <1>1, <2>3, <2>4 DEF HandlePrePrepare, TypeOK, progress, votes, certs
<1>2. ASSUME NEW p \in wire, HandlePrepare(p)
      PROVE  TypeOK'
  <2> DEFINE i == p.to  m == p.msg
  <2>1. i \in Honest /\ m \in Messages
    BY PacketType
  <2>2. {v \in {Vote(i, m, "Commit")} : \E c \in prepared_certificates'[i] : SamePlace(c, m)}
            \in SUBSET Messages
    BY <2>1, VoteType DEF Phases
  <2>3. wire' \subseteq Packets
    BY <1>2, <2>2, AnswersType DEF HandlePrepare
  <2>4. prepare_votes' \in [Honest -> SUBSET Messages]
    BY <1>2, <2>1, AddType DEF HandlePrepare, TypeOK
  <2>5. /\ prepared_certificates' \in [Honest -> SUBSET Certificates]
        /\ \A j \in Honest : \A c, d \in prepared_certificates'[j] : SamePlace(c, d) => c = d
    <3>1. prepared_certificates' = CertifiedBy(prepared_certificates, prepare_votes', i, m)
      BY <1>2 DEF HandlePrepare
    <3>2. /\ prepared_certificates \in [Honest -> SUBSET Certificates]
          /\ \A j \in Honest : \A c, d \in prepared_certificates[j] : SamePlace(c, d) => c = d
      BY DEF TypeOK
    <3> HIDE DEF i, m
    <3>3. QED
      BY <2>1, <2>4, <3>1, <3>2, CertifiedByType
  <2>6. QED
    BY <1>2, <2>3, <2>4, <2>5 DEF HandlePrepare, TypeOK, progress
<1>3. ASSUME NEW p \in wire, HandleCommit(p)
      PROVE  TypeOK'
  <2> DEFINE i == p.to  m == p.msg
  <2>1. i \in Honest /\ m \in Messages
    BY PacketType
  <2>2. wire' \subseteq Packets
    BY <1>3, AnswersType DEF HandleCommit
  <2>3. commit_votes' \in [Honest -> SUBSET Messages]
    BY <1>3, <2>1, AddType DEF HandleCommit, TypeOK
  <2>4. /\ commit_certificates' \in [Honest -> SUBSET Certificates]
        /\ \A j \in Honest : \A c, d \in commit_certificates'[j] : SamePlace(c, d) => c = d
    <3>1. commit_certificates' = CertifiedBy(commit_certificates, commit_votes', i, m)
      BY <1>3 DEF HandleCommit
    <3>2. /\ commit_certificates \in [Honest -> SUBSET Certificates]
          /\ \A j \in Honest : \A c, d \in commit_certificates[j] : SamePlace(c, d) => c = d
      BY DEF TypeOK
    <3> HIDE DEF i, m
    <3>3. QED
      BY <2>1, <2>3, <3>1, <3>2, CertifiedByType
  <2>5. decided' \subseteq Slots
    BY <1>3, <2>1, SlotType DEF HandleCommit, TypeOK
  <2>6. QED
    BY <1>3, <2>2, <2>3, <2>4, <2>5 DEF HandleCommit, TypeOK, progress
<1>4. ASSUME NEW p \in wire, HandleViewChange(p)
      PROVE  TypeOK'
  <2> DEFINE i == p.to  m == p.msg
  <2>1. i \in Honest /\ m \in Messages
    BY PacketType
  <2>2. wire' \subseteq Packets
    BY <1>4, AnswersType DEF HandleViewChange
  <2>3. /\ PutVote(view_change_votes[i], m) \in SUBSET Messages
        /\ \A x, y \in PutVote(view_change_votes[i], m) :
              x.view = y.view /\ x.sender = y.sender => x = y
    BY <2>1 DEF PutVote, TypeOK
  <2>4. /\ view_change_votes' \in [Honest -> SUBSET Messages]
        /\ \A j \in Honest : \A x, y \in view_change_votes'[j] :
              x.view = y.view /\ x.sender = y.sender => x = y
    BY <1>4, <2>1, <2>3 DEF HandleViewChange, TypeOK
  <2>5. current_view' \in [Honest -> Nat]
    BY <1>4, <2>1 DEF HandleViewChange, TypeOK, Messages
  <2>6. QED
    BY <1>4, <2>2, <2>4, <2>5 DEF HandleViewChange, TypeOK, certs
<1>5. ASSUME NEW p \in wire, HandleCheckpoint(p)
      PROVE  TypeOK'
  <2> DEFINE i == p.to  m == p.msg  ballots == Add(checkpoint_votes, i, m)
  <2>1. i \in Honest /\ m \in Messages /\ m.seq \in Nat
    BY PacketType DEF Messages
  <2>2. wire' \subseteq Packets
    BY <1>5, AnswersType DEF HandleCheckpoint
  <2>3. ballots \in [Honest -> SUBSET Messages]
    BY <2>1, AddType DEF TypeOK
  <2> HIDE DEF ballots
  <2>4. CASE Verify(Certificate(ballots[i], m))
    <3>1. last_stable_checkpoint' \in [Honest -> Nat]
      BY <1>5, <2>1, <2>4 DEF HandleCheckpoint, TypeOK, ballots
    <3>2. /\ pre_prepared_proposals' = Forget(pre_prepared_proposals, i, m.seq)
          /\ prepare_votes' = Forget(prepare_votes, i, m.seq)
          /\ commit_votes' = Forget(commit_votes, i, m.seq)
          /\ checkpoint_votes' = Forget(ballots, i, m.seq)
          /\ prepared_certificates' = Forget(prepared_certificates, i, m.seq)
          /\ commit_certificates' = Forget(commit_certificates, i, m.seq)
      BY <1>5, <2>4 DEF HandleCheckpoint, ballots
    <3>3. pre_prepared_proposals' \in [Honest -> SUBSET Slots]
      <4>1. pre_prepared_proposals \in [Honest -> SUBSET Slots]
        BY DEF TypeOK
      <4> HIDE DEF i, m
      <4>2. QED
        BY <2>1, <3>2, <4>1, ForgetKeeps
    <3>4. /\ prepare_votes' \in [Honest -> SUBSET Messages]
          /\ commit_votes' \in [Honest -> SUBSET Messages]
          /\ checkpoint_votes' \in [Honest -> SUBSET Messages]
      <4>1. /\ prepare_votes \in [Honest -> SUBSET Messages]
            /\ commit_votes \in [Honest -> SUBSET Messages]
        BY DEF TypeOK
      <4> HIDE DEF i, m
      <4>2. QED
        BY <2>1, <2>3, <3>2, <4>1, ForgetKeeps
    <3>5. /\ prepared_certificates' \in [Honest -> SUBSET Certificates]
          /\ commit_certificates' \in [Honest -> SUBSET Certificates]
          /\ \A j \in Honest : /\ prepared_certificates'[j] \subseteq prepared_certificates[j]
                               /\ commit_certificates'[j] \subseteq commit_certificates[j]
      <4>1. /\ prepared_certificates \in [Honest -> SUBSET Certificates]
            /\ commit_certificates \in [Honest -> SUBSET Certificates]
        BY DEF TypeOK
      <4> HIDE DEF i, m
      <4>2. QED
        BY <2>1, <3>2, <4>1, ForgetKeeps
    <3>6. QED
      BY <1>5, <2>2, <3>1, <3>3, <3>4, <3>5 DEF HandleCheckpoint, TypeOK
  <2>5. CASE ~Verify(Certificate(ballots[i], m))
    BY <1>5, <2>2, <2>3, <2>5 DEF HandleCheckpoint, TypeOK, certs, ballots
  <2>6. QED
    BY <2>4, <2>5
<1>6. ASSUME NEW p \in wire, Reject(p)
      PROVE  TypeOK'
  <2>1. wire' \subseteq Packets
    BY <1>6, AnswersType DEF Reject
  <2>2. QED
    BY <1>6, <2>1 DEF Reject, TypeOK, progress, votes, certs
<1>7. CASE UNCHANGED vars
  BY <1>7 DEF vars, TypeOK, progress, votes, certs
<1>8. QED
  BY <1>1, <1>2, <1>3, <1>4, <1>5, <1>6, <1>7 DEF Next, Receive

\* Every reachable state is typed, and the maps keyed by (view, seq) and by (target, sender)
\* have one entry per key (pbft.rs:321-329).
THEOREM TypeCorrect ==
    Spec => []TypeOK
<1>1. Init => TypeOK
  BY InitType
<1>2. TypeOK /\ [Next]_vars => TypeOK'
  BY NextType
<1>3. QED
  BY <1>1, <1>2, PTL DEF Spec

-----------------------------------------------------------------------------
(* Agreement.  Behind a decision stands a quorum; its honest members hold the proposal and *)
(* its certificate, or have a watermark that covers it.  Neither is ever undone: proposals *)
(* and certificates are forgotten only by raising the watermark over them.                 *)

Covers(h, x) == last_stable_checkpoint[h] >= x.seq

Holds(h, x) == Covers(h, x) \/ x \in pre_prepared_proposals[h]

Ready(h, x) ==
    \/ Covers(h, x)
    \/ x \in pre_prepared_proposals[h] /\ Certified(prepared_certificates[h], x)

OneProposal ==
    \A i \in Honest : \A x, y \in pre_prepared_proposals[i] : SamePlace(x, y) => x = y

CertificatesProposed ==
    \A i \in Honest : \A c \in prepared_certificates[i] :
        Slot(c) \in pre_prepared_proposals[i] /\ Verify(c)

VotesStand ==
    \A p \in wire : p.msg.sender \in Honest =>
        /\ p.msg.phase = "Prepare" => Holds(p.msg.sender, Slot(p.msg))
        /\ p.msg.phase = "Commit"  => Ready(p.msg.sender, Slot(p.msg))

CommitsReady ==
    \A i \in Honest : \A m \in commit_votes[i] :
        m.sender \in Honest => Ready(m.sender, Slot(m))

BackedByQuorum(x) ==
    \E Q \in SUBSET Nodes : Cardinality(Q) >= Quorum /\ \A h \in Q \cap Honest : Ready(h, x)

DecisionsBacked == \A x \in decided : BackedByQuorum(x)

AgreementInv ==
    OneProposal /\ CertificatesProposed /\ VotesStand /\ CommitsReady /\ DecisionsBacked

\* What one step may do to the proposals, the prepared certificates and the watermark of h.
Stays(h) ==
    /\ pre_prepared_proposals'[h] = pre_prepared_proposals[h]
    /\ prepared_certificates'[h] = prepared_certificates[h]
    /\ last_stable_checkpoint'[h] = last_stable_checkpoint[h]

Proposes(h, x) ==
    /\ \A y \in pre_prepared_proposals[h] : ~SamePlace(y, x)
    /\ pre_prepared_proposals'[h] = pre_prepared_proposals[h] \cup {x}
    /\ prepared_certificates'[h] = prepared_certificates[h]
    /\ last_stable_checkpoint'[h] = last_stable_checkpoint[h]

Prepares(h, c) ==
    /\ Slot(c) \in pre_prepared_proposals[h] /\ Verify(c)
    /\ prepared_certificates'[h] = Put(prepared_certificates[h], c)
    /\ pre_prepared_proposals'[h] = pre_prepared_proposals[h]
    /\ last_stable_checkpoint'[h] = last_stable_checkpoint[h]

Stabilizes(h, n) ==
    /\ n > last_stable_checkpoint[h]
    /\ last_stable_checkpoint'[h] = n
    /\ pre_prepared_proposals'[h] = Above(pre_prepared_proposals[h], n)
    /\ prepared_certificates'[h] = Above(prepared_certificates[h], n)

Effect(h) ==
    \/ Stays(h)
    \/ \E x \in Slots : Proposes(h, x)
    \/ \E c \in Certificates : Prepares(h, c)
    \/ \E n \in Nat : Stabilizes(h, n)

\* A step does one of the four to each node.
LEMMA StepEffect ==
    ASSUME TypeOK, [Next]_vars, NEW h \in Honest
    PROVE  Effect(h)
<1>1. ASSUME NEW p \in wire, HandlePrePrepare(p)
      PROVE  Effect(h)
  <2>1. p.to \in Honest /\ p.msg \in Messages /\ Slot(p.msg) \in Slots
    BY PacketType, SlotType
  <2>2. /\ pre_prepared_proposals' = Add(pre_prepared_proposals, p.to, Slot(p.msg))
        /\ UNCHANGED <<prepared_certificates, last_stable_checkpoint>>
        /\ PrePrepareOk(p.to, p.msg)
    BY <1>1 DEF HandlePrePrepare, certs, progress
  <2>3. CASE h = p.to
    <3>1. Proposes(h, Slot(p.msg))
      BY <2>1, <2>2, <2>3 DEF Proposes, Add, PrePrepareOk, SamePlace, Slot, TypeOK
    <3>2. QED
      BY <2>1, <3>1 DEF Effect
  <2>4. CASE h # p.to
    BY <2>1, <2>2, <2>4 DEF Effect, Stays, Add, TypeOK
  <2>5. QED
    BY <2>3, <2>4
<1>2. ASSUME NEW p \in wire, HandlePrepare(p)
      PROVE  Effect(h)
  <2> DEFINE cert == Certificate(prepare_votes'[p.to], p.msg)
  <2>1. p.to \in Honest /\ p.msg \in Messages
    BY PacketType
  <2>2. /\ prepare_votes' = Add(prepare_votes, p.to, p.msg)
        /\ prepared_certificates'
              = CertifiedBy(prepared_certificates, prepare_votes', p.to, p.msg)
        /\ UNCHANGED <<pre_prepared_proposals, last_stable_checkpoint>>
        /\ Slot(p.msg) \in pre_prepared_proposals[p.to]
    BY <1>2 DEF HandlePrepare, PrepareOk, progress
  <2>3. prepare_votes' \in [Honest -> SUBSET Messages]
    BY <2>1, <2>2, AddType DEF TypeOK
  <2>4. cert \in Certificates /\ Slot(cert) = Slot(p.msg)
    BY <2>1, <2>3, CertificateType DEF Certificate, Slot
  <2>5. prepared_certificates' = IF Verify(cert)
            THEN [prepared_certificates EXCEPT ![p.to] = Put(prepared_certificates[p.to], cert)]
            ELSE prepared_certificates
    BY <2>2 DEF CertifiedBy
  <2> HIDE DEF cert
  <2>6. CASE Verify(cert) /\ h = p.to
    <3>1. Prepares(h, cert)
      BY <2>1, <2>2, <2>4, <2>5, <2>6 DEF Prepares, TypeOK
    <3>2. QED
      BY <2>4, <3>1 DEF Effect
  <2>7. CASE ~(Verify(cert) /\ h = p.to)
    BY <2>1, <2>2, <2>5, <2>7 DEF Effect, Stays, TypeOK
  <2>8. QED
    BY <2>6, <2>7
<1>3. ASSUME NEW p \in wire, HandleCommit(p)
      PROVE  Effect(h)
  BY <1>3 DEF HandleCommit, Effect, Stays, progress
<1>4. ASSUME NEW p \in wire, HandleViewChange(p)
      PROVE  Effect(h)
  BY <1>4 DEF HandleViewChange, Effect, Stays, certs
<1>5. ASSUME NEW p \in wire, HandleCheckpoint(p)
      PROVE  Effect(h)
  <2> DEFINE quorum == Verify(Certificate(Add(checkpoint_votes, p.to, p.msg)[p.to], p.msg))
  <2>1. p.to \in Honest /\ p.msg \in Messages /\ p.msg.seq \in Nat
    BY PacketType DEF Messages
  <2>2. p.msg.seq > last_stable_checkpoint[p.to]
    BY <1>5 DEF HandleCheckpoint, CheckpointOk
  <2>3. /\ quorum => /\ last_stable_checkpoint'
                           = [last_stable_checkpoint EXCEPT ![p.to] = p.msg.seq]
                     /\ pre_prepared_proposals'
                           = Forget(pre_prepared_proposals, p.to, p.msg.seq)
                     /\ prepared_certificates'
                           = Forget(prepared_certificates, p.to, p.msg.seq)
        /\ ~quorum => UNCHANGED <<last_stable_checkpoint, pre_prepared_proposals,
                                  prepared_certificates>>
    BY <1>5 DEF HandleCheckpoint, certs
  <2> HIDE DEF quorum
  <2>4. CASE quorum /\ h = p.to
    <3>1. Stabilizes(h, p.msg.seq)
      BY <2>1, <2>2, <2>3, <2>4 DEF Stabilizes, Forget, TypeOK
    <3>2. QED
      BY <2>1, <3>1 DEF Effect
  <2>5. CASE ~(quorum /\ h = p.to)
    BY <2>1, <2>3, <2>5 DEF Effect, Stays, Forget, TypeOK
  <2>6. QED
    BY <2>4, <2>5
<1>6. ASSUME NEW p \in wire, Reject(p)
      PROVE  Effect(h)
  BY <1>6 DEF Reject, Effect, Stays, certs, progress
<1>7. CASE UNCHANGED vars
  BY <1>7 DEF vars, Effect, Stays, certs, progress
<1>8. QED
  BY <1>1, <1>2, <1>3, <1>4, <1>5, <1>6, <1>7 DEF Next, Receive

\* Proposals stay one per place.
LEMMA OneProposalKept ==
    ASSUME TypeOK, OneProposal, [Next]_vars
    PROVE  OneProposal'
<1>1. SUFFICES ASSUME NEW h \in Honest,
                      NEW x \in pre_prepared_proposals'[h], NEW y \in pre_prepared_proposals'[h],
                      SamePlace(x, y)
               PROVE  x = y
  BY DEF OneProposal
<1>2. \A a, b \in pre_prepared_proposals[h] : SamePlace(a, b) => a = b
  BY DEF OneProposal
<1>3. CASE Stays(h)
  BY <1>1, <1>2, <1>3 DEF Stays
<1>4. ASSUME NEW z \in Slots, Proposes(h, z) PROVE x = y
  BY <1>1, <1>2, <1>4 DEF Proposes, SamePlace
<1>5. ASSUME NEW c \in Certificates, Prepares(h, c) PROVE x = y
  BY <1>1, <1>2, <1>5 DEF Prepares
<1>6. ASSUME NEW n \in Nat, Stabilizes(h, n) PROVE x = y
  BY <1>1, <1>2, <1>6 DEF Stabilizes, Above
<1>7. QED
  BY <1>3, <1>4, <1>5, <1>6, StepEffect DEF Effect

\* Certificates stay on proposals: both are forgotten together.
LEMMA CertificatesKept ==
    ASSUME TypeOK, CertificatesProposed, [Next]_vars
    PROVE  CertificatesProposed'
<1>1. SUFFICES ASSUME NEW h \in Honest, NEW c \in prepared_certificates'[h]
               PROVE  Slot(c) \in pre_prepared_proposals'[h] /\ Verify(c)
  BY DEF CertificatesProposed
<1>2. \A d \in prepared_certificates[h] : Slot(d) \in pre_prepared_proposals[h] /\ Verify(d)
  BY DEF CertificatesProposed
<1>3. CASE Stays(h)
  BY <1>1, <1>2, <1>3 DEF Stays
<1>4. ASSUME NEW z \in Slots, Proposes(h, z)
      PROVE  Slot(c) \in pre_prepared_proposals'[h] /\ Verify(c)
  BY <1>1, <1>2, <1>4 DEF Proposes
<1>5. ASSUME NEW d \in Certificates, Prepares(h, d)
      PROVE  Slot(c) \in pre_prepared_proposals'[h] /\ Verify(c)
  BY <1>1, <1>2, <1>5 DEF Prepares, Put
<1>6. ASSUME NEW n \in Nat, Stabilizes(h, n)
      PROVE  Slot(c) \in pre_prepared_proposals'[h] /\ Verify(c)
  BY <1>1, <1>2, <1>6 DEF Stabilizes, Above, Slot
<1>7. QED
  BY <1>3, <1>4, <1>5, <1>6, StepEffect DEF Effect

\* What a node holds, or is ready to commit, it keeps until its watermark covers it.
LEMMA NothingUndone ==
    ASSUME TypeOK, OneProposal, [Next]_vars, NEW h \in Honest, NEW x \in Slots
    PROVE  /\ Holds(h, x) => Holds(h, x)'
           /\ Ready(h, x) => Ready(h, x)'
<1>1. x.seq \in Nat /\ last_stable_checkpoint[h] \in Nat
  BY DEF Slots, TypeOK
<1>2. CASE Stays(h)
  BY <1>2 DEF Stays, Holds, Ready, Covers
<1>3. ASSUME NEW z \in Slots, Proposes(h, z)
      PROVE  (Holds(h, x) => Holds(h, x)') /\ (Ready(h, x) => Ready(h, x)')
  BY <1>3 DEF Proposes, Holds, Ready, Covers
<1>4. ASSUME NEW c \in Certificates, Prepares(h, c)
      PROVE  (Holds(h, x) => Holds(h, x)') /\ (Ready(h, x) => Ready(h, x)')
  <2>1. Holds(h, x) => Holds(h, x)'
    BY <1>4 DEF Prepares, Holds, Covers
  <2>2. ASSUME x \in pre_prepared_proposals[h], Certified(prepared_certificates[h], x)
        PROVE  Certified(prepared_certificates'[h], x)
    <3>1. PICK d \in prepared_certificates[h] : SameSlot(d, x) /\ Verify(d)
      BY <2>2 DEF Certified
    <3>2. prepared_certificates'[h] = Put(prepared_certificates[h], c) /\ Verify(c)
      BY <1>4 DEF Prepares
    <3>3. CASE SamePlace(d, c)
      <4>1. Slot(c) \in pre_prepared_proposals[h] /\ SamePlace(Slot(c), x)
        BY <1>4, <3>1, <3>3 DEF Prepares, SamePlace, SameSlot, Slot
      <4>2. Slot(c) = x
        BY <2>2, <4>1 DEF OneProposal
      <4>3. SameSlot(c, x)
        BY <4>2 DEF SameSlot, SamePlace, Slot
      <4>4. QED
        BY <3>2, <4>3 DEF Certified, Put
    <3>4. CASE ~SamePlace(d, c)
      BY <3>1, <3>2, <3>4 DEF Certified, Put
    <3>5. QED
      BY <3>3, <3>4
  <2>3. Ready(h, x) => Ready(h, x)'
    BY <1>4, <2>2 DEF Prepares, Ready, Covers
  <2>4. QED
    BY <2>1, <2>3
<1>5. ASSUME NEW n \in Nat, Stabilizes(h, n)
      PROVE  (Holds(h, x) => Holds(h, x)') /\ (Ready(h, x) => Ready(h, x)')
  <2>1. CASE n >= x.seq
    BY <1>1, <1>5, <2>1 DEF Stabilizes, Holds, Ready, Covers
  <2>2. CASE x.seq > n
    <3>1. ~Covers(h, x)
      BY <1>1, <1>5, <2>2 DEF Stabilizes, Covers
    <3>2. x \in pre_prepared_proposals[h] => x \in pre_prepared_proposals'[h]
      BY <1>5, <2>2 DEF Stabilizes, Above
    <3>3. Certified(prepared_certificates[h], x) => Certified(prepared_certificates'[h], x)
      BY <1>5, <2>2 DEF Stabilizes, Above, Certified, SameSlot, SamePlace
    <3>4. QED
      BY <3>1, <3>2, <3>3 DEF Holds, Ready
  <2>3. QED
    BY <1>1, <2>1, <2>2
<1>6. QED
  BY <1>2, <1>3, <1>4, <1>5, StepEffect DEF Effect

\* A message is new on the wire only as the vote of an honest node: a prepare for a slot it
\* holds, or a commit for one it holds at a place it has certified.
LEMMA NewVotes ==
    ASSUME TypeOK, [Next]_vars, NEW q \in wire', q \notin wire
    PROVE  \E i \in Honest, m \in Messages :
              /\ Slot(m) \in pre_prepared_proposals'[i]
              /\ \/ q.msg = Vote(i, m, "Prepare")
                 \/ /\ q.msg = Vote(i, m, "Commit")
                    /\ \E c \in prepared_certificates'[i] : SamePlace(c, m)
<1> DEFINE Goal == \E i \in Honest, m \in Messages :
              /\ Slot(m) \in pre_prepared_proposals'[i]
              /\ \/ q.msg = Vote(i, m, "Prepare")
                 \/ /\ q.msg = Vote(i, m, "Commit")
                    /\ \E c \in prepared_certificates'[i] : SamePlace(c, m)
<1>1. ASSUME NEW p \in wire, HandlePrePrepare(p)
      PROVE  Goal
  <2>1. p.to \in Honest /\ p.msg \in Messages
    BY PacketType
  <2>2. q.msg = Vote(p.to, p.msg, "Prepare")
    <3>1. {Vote(p.to, p.msg, "Prepare")} \in SUBSET Messages
      BY <2>1, VoteType DEF Phases
    <3>2. Answers(p, {Vote(p.to, p.msg, "Prepare")})
      BY <1>1 DEF HandlePrePrepare
    <3>3. QED
      BY <3>1, <3>2, AnswersType
  <2>3. Slot(p.msg) \in pre_prepared_proposals'[p.to]
    BY <1>1, <2>1 DEF HandlePrePrepare, Add, TypeOK
  <2>4. QED
    BY <2>1, <2>2, <2>3
<1>2. ASSUME NEW p \in wire, HandlePrepare(p)
      PROVE  Goal
  <2> DEFINE M == {v \in {Vote(p.to, p.msg, "Commit")} :
                      \E c \in prepared_certificates'[p.to] : SamePlace(c, p.msg)}
  <2>1. p.to \in Honest /\ p.msg \in Messages
    BY PacketType
  <2>2. q.msg \in M
    <3>1. M \in SUBSET Messages
      BY <2>1, VoteType DEF Phases
    <3>2. Answers(p, M)
      BY <1>2 DEF HandlePrepare
    <3> HIDE DEF M
    <3>3. QED
      BY <3>1, <3>2, AnswersType
  <2>3. Slot(p.msg) \in pre_prepared_proposals'[p.to]
    BY <1>2 DEF HandlePrepare, PrepareOk
  <2>4. QED
    BY <2>1, <2>2, <2>3
<1>3. ASSUME NEW p \in wire, Answers(p, {})
      PROVE  Goal
  BY <1>3, AnswersType
<1>4. CASE UNCHANGED vars
  BY <1>4 DEF vars
<1>5. QED
  BY <1>1, <1>2, <1>3, <1>4
     DEF Next, Receive, HandleCommit, HandleViewChange, HandleCheckpoint, Reject

\* Votes on the wire keep standing for what their senders hold.
LEMMA VotesStandKept ==
    ASSUME TypeOK, TypeOK', OneProposal, CertificatesProposed, VotesStand, [Next]_vars
    PROVE  VotesStand'
<1>1. SUFFICES ASSUME NEW q \in wire', q.msg.sender \in Honest
               PROVE  /\ q.msg.phase = "Prepare" => Holds(q.msg.sender, Slot(q.msg))'
                      /\ q.msg.phase = "Commit"  => Ready(q.msg.sender, Slot(q.msg))'
  BY DEF VotesStand
<1>2. CASE q \in wire
  <2>1. Slot(q.msg) \in Slots
    BY <1>2, PacketType, SlotType
  <2>2. /\ q.msg.phase = "Prepare" => Holds(q.msg.sender, Slot(q.msg))
        /\ q.msg.phase = "Commit"  => Ready(q.msg.sender, Slot(q.msg))
    BY <1>1, <1>2 DEF VotesStand
  <2>3. QED
    BY <1>1, <2>1, <2>2, NothingUndone
<1>3. CASE q \notin wire
  <2>1. PICK i \in Honest, m \in Messages :
              /\ Slot(m) \in pre_prepared_proposals'[i]
              /\ \/ q.msg = Vote(i, m, "Prepare")
                 \/ /\ q.msg = Vote(i, m, "Commit")
                    /\ \E c \in prepared_certificates'[i] : SamePlace(c, m)
    BY <1>3, NewVotes
  <2>2. q.msg.sender = i /\ Slot(q.msg) = Slot(m)
    BY <2>1, VoteType DEF Phases
  <2>3. Holds(i, Slot(m))'
    BY <2>1 DEF Holds
  <2>4. CASE q.msg = Vote(i, m, "Prepare")
    BY <2>2, <2>3, <2>4, VoteType DEF Phases
  <2>5. ASSUME q.msg = Vote(i, m, "Commit"),
               NEW c \in prepared_certificates'[i], SamePlace(c, m)
        PROVE  Ready(i, Slot(m))'
    <3>1. Slot(c) \in pre_prepared_proposals'[i] /\ Verify(c)
      BY CertificatesKept DEF CertificatesProposed
    <3>2. SamePlace(Slot(c), Slot(m))
      BY <2>5 DEF SamePlace, Slot
    <3>3. Slot(c) = Slot(m)
      BY <2>1, <3>1, <3>2, OneProposalKept DEF OneProposal
    <3>4. SameSlot(c, Slot(m))
      BY <3>3 DEF SameSlot, SamePlace, Slot
    <3>5. QED
      BY <2>1, <3>1, <3>4 DEF Ready, Certified
  <2>6. QED
    BY <2>1, <2>2, <2>3, <2>4, <2>5
<1>4. QED
  BY <1>2, <1>3

\* A commit vote on file came over the wire.
LEMMA CommitsReadyKept ==
    ASSUME TypeOK, TypeOK', OneProposal, VotesStand, CommitsReady, [Next]_vars
    PROVE  CommitsReady'
<1>1. SUFFICES ASSUME NEW i \in Honest, NEW m \in commit_votes'[i], m.sender \in Honest
               PROVE  Ready(m.sender, Slot(m))'
  BY DEF CommitsReady
<1>2. m \in Messages /\ Slot(m) \in Slots
  BY SlotType DEF TypeOK
<1>3. CASE m \in commit_votes[i]
  BY <1>1, <1>2, <1>3, NothingUndone DEF CommitsReady
<1>4. CASE m \notin commit_votes[i]
  <2>1. PICK p \in wire : Receive(p)
    BY <1>4 DEF Next, vars, votes
  <2>2. p.to \in Honest /\ p.msg \in Messages
    BY <2>1, PacketType
  <2>3. ~HandleCheckpoint(p)
    <3>1. SUFFICES ASSUME HandleCheckpoint(p) PROVE commit_votes'[i] \subseteq commit_votes[i]
      BY <1>4
    <3>2. commit_votes' = commit_votes \/ commit_votes' = Forget(commit_votes, p.to, p.msg.seq)
      BY <3>1 DEF HandleCheckpoint
    <3>3. QED
      BY <2>2, <3>2 DEF Forget, Above, TypeOK
  <2>4. HandleCommit(p)
    BY <1>4, <2>1, <2>3 DEF Receive, HandlePrePrepare, HandlePrepare, HandleViewChange,
                            Reject, votes
  <2>5. m = p.msg /\ m.phase = "Commit"
    BY <1>4, <2>2, <2>4 DEF HandleCommit, Add, TypeOK
  <2>6. Ready(m.sender, Slot(m))
    BY <1>1, <2>1, <2>5 DEF VotesStand
  <2>7. QED
    BY <1>1, <1>2, <2>6, NothingUndone
<1>5. QED
  BY <1>3, <1>4

\* A decision is backed by the quorum whose votes made it, and stays so.
LEMMA DecisionsKept ==
    ASSUME TypeOK, TypeOK', OneProposal, VotesStand, CommitsReady, DecisionsBacked, [Next]_vars
    PROVE  DecisionsBacked'
<1>1. SUFFICES ASSUME NEW x \in decided'
               PROVE  BackedByQuorum(x)'
  BY DEF DecisionsBacked
<1>2. x \in Slots
  BY DEF TypeOK
<1>3. CASE x \in decided
  <2>1. PICK Q \in SUBSET Nodes : Cardinality(Q) >= Quorum /\ \A h \in Q \cap Honest : Ready(h, x)
    BY <1>3 DEF DecisionsBacked, BackedByQuorum
  <2>2. \A h \in Q \cap Honest : Ready(h, x)'
    BY <1>2, <2>1, NothingUndone
  <2>3. QED
    BY <2>1, <2>2 DEF BackedByQuorum
<1>4. CASE x \notin decided
  <2>1. PICK p \in wire : HandleCommit(p)
    BY <1>4 DEF Next, vars, Receive, HandlePrePrepare, HandlePrepare, HandleViewChange,
                HandleCheckpoint, Reject
  <2>2. p.to \in Honest /\ p.msg \in Messages
    BY <2>1, PacketType
  <2>3. x = Slot(p.msg) /\ Verify(Certificate(commit_votes'[p.to], p.msg))
    BY <1>4, <2>1 DEF HandleCommit
  <2> DEFINE Q == Voters(commit_votes'[p.to], p.msg)
  <2>4. Q \in SUBSET Nodes
    BY <2>2, VotersType DEF TypeOK
  <2>5. Cardinality(Q) >= Quorum
    BY <2>3 DEF Verify, Certificate
  <2>6. ASSUME NEW h \in Q, h \in Honest
        PROVE  Ready(h, x)'
    <3>1. PICK y \in commit_votes'[p.to] : SameSlot(y, p.msg) /\ y.sender = h
      BY DEF Voters
    <3>2. Slot(y) = x
      BY <2>3, <3>1 DEF SameSlot, SamePlace, Slot
    <3>3. QED
      BY <2>2, <2>6, <3>1, <3>2, CommitsReadyKept DEF CommitsReady
  <2> HIDE DEF Q
  <2>7. QED
    BY <2>4, <2>5, <2>6 DEF BackedByQuorum
<1>5. QED
  BY <1>3, <1>4

\* The invariant holds at the start.
LEMMA InitAgreement ==
    ASSUME Init PROVE AgreementInv
<1>1. ASSUME NEW p \in wire, p.msg.sender \in Honest
      PROVE  p.msg.phase \notin {"Prepare", "Commit"}
  BY <1>1, ClusterAssumption DEF Init, Honest
<1>2. VotesStand
  BY <1>1 DEF VotesStand
<1>3. QED
  BY <1>2 DEF Init, AgreementInv, OneProposal, CertificatesProposed, CommitsReady,
              DecisionsBacked

\* Every step keeps it.
LEMMA AgreementInvariant ==
    Spec => [](TypeOK /\ AgreementInv)
<1>1. Init => TypeOK /\ AgreementInv
  BY InitType, InitAgreement
<1>2. TypeOK /\ AgreementInv /\ [Next]_vars => (TypeOK /\ AgreementInv)'
  BY NextType, OneProposalKept, CertificatesKept, VotesStandKept, CommitsReadyKept,
     DecisionsKept DEF AgreementInv
<1>3. QED
  BY <1>1, <1>2, PTL DEF Spec

\* A node that no watermark hides the slot from, and is ready to commit it, holds it.
LEMMA ReadyHolds ==
    ASSUME TypeOK, NEW h \in Honest, NEW x \in Slots, x.seq > last_stable_checkpoint[h]
    PROVE  /\ Holds(h, x) => x \in pre_prepared_proposals[h]
           /\ Ready(h, x) => /\ x \in pre_prepared_proposals[h]
                             /\ Certified(prepared_certificates[h], x)
<1>1. x.seq \in Nat /\ last_stable_checkpoint[h] \in Nat
  BY DEF TypeOK, Slots
<1>2. ~Covers(h, x)
  BY <1>1 DEF Covers
<1>3. QED
  BY <1>2 DEF Holds, Ready

\* Two decisions rest on two quorums, which share an honest node.
LEMMA AgreementFollows ==
    ASSUME TypeOK, AgreementInv PROVE Agreement
<1>1. SUFFICES ASSUME NEW x \in decided, NEW y \in decided, SamePlace(x, y), Uncovered(x)
               PROVE  x.digest = y.digest
  BY DEF Agreement
<1>2. x \in Slots /\ y \in Slots
  BY DEF TypeOK
<1>3. PICK Q \in SUBSET Nodes : Cardinality(Q) >= Quorum /\ \A h \in Q \cap Honest : Ready(h, x)
  BY DEF AgreementInv, DecisionsBacked, BackedByQuorum
<1>4. PICK R \in SUBSET Nodes : Cardinality(R) >= Quorum /\ \A h \in R \cap Honest : Ready(h, y)
  BY DEF AgreementInv, DecisionsBacked, BackedByQuorum
<1>5. PICK h \in Q \cap R : h \notin Byzantine
  BY <1>3, <1>4, QuorumsMeet, ClusterAssumption
<1>6. h \in Honest
  BY <1>5 DEF Honest
<1>7. x.seq > last_stable_checkpoint[h] /\ y.seq > last_stable_checkpoint[h]
  BY <1>1, <1>6 DEF Uncovered, SamePlace
<1>8. x \in pre_prepared_proposals[h] /\ y \in pre_prepared_proposals[h]
  BY <1>2, <1>3, <1>4, <1>5, <1>6, <1>7, ReadyHolds
<1>9. x = y
  BY <1>1, <1>6, <1>8 DEF AgreementInv, OneProposal
<1>10. QED
  BY <1>9

\* Two decisions for one slot carry one digest, as long as no honest watermark covers it:
\* for any leader, any F Byzantine nodes and any order of votes, view changes and
\* checkpoints (pbft.rs:690-800).
THEOREM ClusterAgrees ==
    Spec => []Agreement
<1>1. TypeOK /\ AgreementInv => Agreement
  BY AgreementFollows
<1>2. QED
  BY <1>1, AgreementInvariant, PTL

\* An honest node never signs two digests for a slot above its watermark, in prepares or in
\* commits (network.rs:199-236).
THEOREM HonestNeverEquivocates ==
    Spec => []HonestVotesOnce
<1>1. ASSUME TypeOK, AgreementInv PROVE HonestVotesOnce
  <2>1. SUFFICES ASSUME NEW p \in wire, NEW q \in wire,
                        p.msg.phase \in {"Prepare", "Commit"}, q.msg.phase = p.msg.phase,
                        p.msg.sender \in Honest, q.msg.sender = p.msg.sender,
                        SamePlace(p.msg, q.msg),
                        p.msg.seq > last_stable_checkpoint[p.msg.sender]
                 PROVE  p.msg.digest = q.msg.digest
    BY DEF HonestVotesOnce
  <2> DEFINE h == p.msg.sender  x == Slot(p.msg)  y == Slot(q.msg)
  <2>2. x \in Slots /\ y \in Slots /\ SamePlace(x, y)
    BY <1>1, <2>1, PacketType, SlotType DEF SamePlace, Slot
  <2>3. x.seq > last_stable_checkpoint[h] /\ y.seq > last_stable_checkpoint[h]
    BY <2>1 DEF Slot, SamePlace
  <2>4. (Holds(h, x) \/ Ready(h, x)) /\ (Holds(h, y) \/ Ready(h, y))
    BY <1>1, <2>1 DEF AgreementInv, VotesStand
  <2>5. x \in pre_prepared_proposals[h] /\ y \in pre_prepared_proposals[h]
    BY <1>1, <2>1, <2>2, <2>3, <2>4, ReadyHolds
  <2>6. x = y
    BY <1>1, <2>1, <2>2, <2>5 DEF AgreementInv, OneProposal
  <2>7. QED
    BY <2>6 DEF Slot
<1>2. QED
  BY <1>1, AgreementInvariant, PTL

\* Behind every decision that no honest watermark covers, F + 1 honest nodes hold its
\* prepared certificate (pbft.rs:762-771).
THEOREM DecisionsPrepared ==
    Spec => []PreparedBehindDecision
<1>1. ASSUME TypeOK, AgreementInv PROVE PreparedBehindDecision
  <2>1. SUFFICES ASSUME NEW x \in decided, Uncovered(x)
                 PROVE  Cardinality({h \in Honest : Certified(prepared_certificates[h], x)})
                            >= F + 1
    BY DEF PreparedBehindDecision
  <2> DEFINE C == {h \in Honest : Certified(prepared_certificates[h], x)}
  <2>2. PICK Q \in SUBSET Nodes :
            Cardinality(Q) >= Quorum /\ \A h \in Q \cap Honest : Ready(h, x)
    BY <1>1 DEF AgreementInv, DecisionsBacked, BackedByQuorum
  <2>3. x \in Slots
    BY <1>1 DEF TypeOK
  <2>4. Q \ Byzantine \subseteq C
    BY <1>1, <2>1, <2>2, <2>3, ReadyHolds DEF Uncovered, Honest
  <2>5. IsFiniteSet(Q \ Byzantine) /\ Cardinality(Q \ Byzantine) >= F + 1
    BY <2>2, QuorumWithout, ClusterAssumption
  <2>6. IsFiniteSet(C)
    <3>1. C \in SUBSET Nodes
      BY DEF Honest
    <3>2. QED
      BY <3>1, NodesFinite, FS_Subset, ClusterAssumption
  <2> HIDE DEF C
  <2>7. Cardinality(Q \ Byzantine) <= Cardinality(C)
    BY <2>4, <2>6, FS_Subset
  <2>8. Cardinality(C) \in Nat /\ Cardinality(Q \ Byzantine) \in Nat /\ F \in Nat
    BY <2>5, <2>6, FS_CardinalityType, ClusterAssumption
  <2>9. Cardinality(C) >= F + 1
    BY <2>5, <2>7, <2>8
  <2>10. QED
    BY <2>9 DEF C
<1>2. QED
  BY <1>1, AgreementInvariant, PTL

-----------------------------------------------------------------------------
(* The cluster implements the log of decisions *)

\* Some node is honest, so the watermarks start at zero and nowhere else.
LEMMA InitLogged ==
    ASSUME Init PROVE Log!Init
<1>1. Honest # {}
  <2>1. Cardinality(Nodes) = 3 * F + 1 /\ F \in Nat /\ IsFiniteSet(Nodes)
    BY NodesFinite, ClusterAssumption
  <2>2. Nodes # Byzantine
    <3>1. Cardinality(Byzantine) <= F
      BY ClusterAssumption
    <3>2. ~(3 * F + 1 <= F)
      BY <2>1
    <3>3. QED
      BY <2>1, <3>1, <3>2
  <2>3. QED
    BY <2>2, ClusterAssumption DEF Honest
<1>2. Watermarks = {0}
  BY <1>1 DEF Init, Watermarks
<1>3. QED
  BY <1>2 DEF Init, Log!Init

\* Every step decides one slot, raises a watermark, or changes nothing the log can see.
LEMMA StepLogged ==
    ASSUME TypeOK, TypeOK', Agreement', [Next]_vars
    PROVE  [Log!Decide \/ Log!Cover]_<<decided, Watermarks>>
<1>1. CASE decided' = decided
  <2>1. \A n \in Watermarks : \E k \in Watermarks' : k >= n
    <3>1. SUFFICES ASSUME NEW i \in Honest
                   PROVE  last_stable_checkpoint'[i] >= last_stable_checkpoint[i]
      BY DEF Watermarks
    <3>2. last_stable_checkpoint[i] \in Nat /\ last_stable_checkpoint'[i] \in Nat
      BY DEF TypeOK
    <3>3. QED
      BY <3>2, StepEffect DEF Effect, Stays, Proposes, Prepares, Stabilizes
  <2>2. QED
    BY <1>1, <2>1 DEF Log!Cover
<1>2. CASE decided' # decided
  <2>1. PICK p \in wire : HandleCommit(p)
    BY <1>2 DEF Next, vars, Receive, HandlePrePrepare, HandlePrepare, HandleViewChange,
                HandleCheckpoint, Reject
  <2>2. decided' = decided \cup {Slot(p.msg)} /\ Slot(p.msg) \notin decided
    BY <1>2, <2>1 DEF HandleCommit
  <2>3. Watermarks' = Watermarks
    BY <2>1 DEF HandleCommit, progress, Watermarks
  <2>4. ASSUME \A n \in Watermarks : Slot(p.msg).seq > n, NEW y \in decided
        PROVE  Log!Agrees(Slot(p.msg), y)
    <3>1. Uncovered(Slot(p.msg))'
      BY <2>3, <2>4 DEF Uncovered, Watermarks
    <3>2. QED
      BY <2>2, <2>4, <3>1 DEF Agreement, Log!Agrees, SamePlace
  <2>5. QED
    BY <2>2, <2>3, <2>4 DEF Log!Decide
<1>3. QED
  BY <1>1, <1>2

\* Every behaviour of the cluster is one of the abstract log of decisions: handle_message
\* only adds commitments, consistently above every watermark, and only raises watermarks
\* (pbft.rs:782-796, 880-888).
THEOREM RefinesDecisionLog ==
    Spec => ImplementsDecisionLog
<1>1. Init => Log!Init
  BY InitLogged
<1>2. TypeOK /\ TypeOK' /\ Agreement' /\ [Next]_vars
        => [Log!Decide \/ Log!Cover]_<<decided, Watermarks>>
  BY StepLogged
<1>3. QED
  BY <1>1, <1>2, TypeCorrect, ClusterAgrees, PTL DEF Spec, ImplementsDecisionLog, Log!Spec
=============================================================================
