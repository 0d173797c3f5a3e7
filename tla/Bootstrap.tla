----------------------------- MODULE Bootstrap -----------------------------
(***************************************************************************)
(* The boot of a cluster, rust_engine/src/main.rs with the session of      *)
(* dkg.rs: every process draws a fresh polynomial, deals one share to each *)
(* peer, collects the shares of all peers before a deadline, derives the   *)
(* registry of public keys from what it collected, checks its log against  *)
(* that registry and serves.  A process that exits is started again        *)
(* (docker-compose.yml:18).                                                *)
(*                                                                         *)
(* A share stands for its dealer's polynomial, so a registry is the        *)
(* function from dealers to the polynomials it was computed from, and two  *)
(* registries verify each other's signatures exactly when they are equal.  *)
(***************************************************************************)
EXTENDS Naturals, FiniteSets

CONSTANTS
    Nodes,       \* the ids below TOTAL_NODES
    Strays,      \* ids of processes started with another TOTAL_NODES
    Polynomials, \* a fresh one is one that nobody remembers
    Struck,      \* nodes that mishaps happen to
    MaxMishaps   \* bound: crashes, exhausted sends, strays and premature deadlines

ASSUME BootAssumption ==
    /\ IsFiniteSet(Nodes) /\ IsFiniteSet(Strays) /\ Nodes \cap Strays = {}
    /\ Polynomials # {} /\ Polynomials \subseteq Nat \ {0} /\ MaxMishaps \in Nat

None == 0

VARIABLES
    phase,      \* where each process is in main
    poly,       \* its secret_polynomial, None before it is drawn
    collected,  \* collected_peers: the polynomial of each sender, or None
    unsent,     \* peers whose send task is still trying
    log,        \* registries under which the records of its log were signed
    dealt,      \* history: nodes that have dealt
    redealt,    \* history: nodes that have dealt more than once
    mishaps     \* history

process == <<poly, collected, unsent>>
history == <<dealt, redealt>>
vars    == <<phase, process, log, history, mishaps>>

Senders == Nodes \cup Strays

NoShares == [p \in Senders |-> None]

\* collected_peers.len() has reached expected_inbound.
Complete(n) ==
    Cardinality({p \in Senders : collected[n][p] # None}) + 1 >= Cardinality(Nodes)

\* The polynomials from which n computes the keys of all nodes.
Registry(n) == [p \in Nodes |-> IF p = n THEN poly[n] ELSE collected[n][p]]

\* Polynomials of n that some process or log remembers.
Remembered(n) ==
    {poly[n]} \cup {collected[m][n] : m \in Nodes} \cup {r[n] : r \in UNION {log[m] : m \in Nodes}}

Mishap(n) == n \in Struck /\ mishaps < MaxMishaps /\ mishaps' = mishaps + 1

\* The process of n ends; its log stays.
Exit(n) ==
    /\ phase' = [phase EXCEPT ![n] = "down"]
    /\ poly' = [poly EXCEPT ![n] = None]
    /\ collected' = [collected EXCEPT ![n] = NoShares]
    /\ unsent' = [unsent EXCEPT ![n] = {}]
    /\ UNCHANGED <<log, history>>

-----------------------------------------------------------------------------
(* main *)

\* The listener starts, and two seconds pass.
Boot(n) ==
    /\ phase[n] = "down"
    /\ phase' = [phase EXCEPT ![n] = "listening"]
    /\ UNCHANGED <<process, log, history, mishaps>>

\* DkgSession::new, and the tasks that send to every peer.
DealTo(n, peers) ==
    /\ phase[n] = "listening"
    /\ Polynomials \ Remembered(n) # {}
    /\ phase' = [phase EXCEPT ![n] = "collecting"]
    /\ poly' = [poly EXCEPT ![n] = CHOOSE p \in Polynomials \ Remembered(n) : TRUE]
    /\ unsent' = [unsent EXCEPT ![n] = peers]
    /\ dealt' = dealt \cup {n}
    /\ redealt' = redealt \cup ({n} \cap dealt)
    /\ UNCHANGED <<collected, log, mishaps>>

\* Mutant: the node deals to itself as well.
DealToAll(n) == DealTo(n, Nodes)

\* Mutant: the peer map is one short.
DealToFewer(n) == DealTo(n, Nodes \ {n, CHOOSE p \in Nodes : TRUE})

Deal(n) == DealTo(n, Nodes \ {n})

\* A share from p that n reads from its channel: the first of each sender counts, and
\* nothing is read once enough have been collected.
Receive(n, p, share) ==
    collected' = IF phase[n] # "live" /\ ~Complete(n) /\ collected[n][p] = None
                 THEN [collected EXCEPT ![n][p] = share] ELSE collected

\* An attempt of n's task for p succeeds: p's listener is up.
Send(n, p) ==
    /\ p \in unsent[n] /\ phase[p] # "down"
    /\ unsent' = [unsent EXCEPT ![n] = @ \ {p}]
    /\ Receive(p, n, poly[n])
    /\ UNCHANGED <<phase, poly, log, history, mishaps>>

\* All attempts of n's task for p are refused.
GiveUp(n, p) ==
    /\ p \in unsent[n] /\ phase[p] = "down"
    /\ unsent' = [unsent EXCEPT ![n] = @ \ {p}]
    /\ Mishap(n)
    /\ UNCHANGED <<phase, poly, collected, log, history>>

\* A share of a process that is not one of the nodes.
Stray(n, p) ==
    /\ phase[n] \in {"listening", "collecting"}
    /\ Receive(n, p, CHOOSE share \in Polynomials : TRUE) /\ collected' # collected
    /\ Mishap(n)
    /\ UNCHANGED <<phase, poly, unsent, log, history>>

\* n misses the share of a node that serves, and so will not deal again.
Hopeless(n) == \E p \in Nodes : phase[p] = "live" /\ collected[n][p] = None /\ n \notin unsent[p]

\* FATAL_DKG_TIMEOUT
Deadline(n) ==
    /\ phase[n] = "collecting" /\ ~Complete(n)
    /\ IF Hopeless(n) THEN UNCHANGED mishaps ELSE Mishap(n)
    /\ Exit(n)

\* Mutant: missing shares are not noticed.
FinaliseAny(n) ==
    /\ phase[n] = "collecting" /\ Complete(n)
    /\ IF log[n] \subseteq {Registry(n)}
       THEN phase' = [phase EXCEPT ![n] = "live"] /\ UNCHANGED <<process, log, history>>
       ELSE Exit(n)
    /\ UNCHANGED mishaps

\* finalize_dkg needs the share of every peer, PbftState::new replays the log and needs
\* every record signed under the new registry; otherwise main returns the error.
Finalise(n) ==
    /\ phase[n] = "collecting" /\ Complete(n)
    /\ IF /\ \A p \in Nodes \ {n} : collected[n][p] # None
          /\ log[n] \subseteq {Registry(n)}
       THEN phase' = [phase EXCEPT ![n] = "live"] /\ UNCHANGED <<process, log, history>>
       ELSE Exit(n)
    /\ UNCHANGED mishaps

\* n accepts a message m has signed and appends it to its log.
Serve(n, m) ==
    /\ m # n /\ phase[n] = "live" /\ phase[m] = "live" /\ Registry(n) = Registry(m)
    /\ log' = [log EXCEPT ![n] = @ \cup {Registry(n)}]
    /\ UNCHANGED <<phase, process, history, mishaps>>

Crash(n) ==
    /\ phase[n] # "down"
    /\ Mishap(n) /\ Exit(n)

-----------------------------------------------------------------------------
(* The cluster *)

Init ==
    /\ phase = [n \in Nodes |-> "down"]
    /\ poly = [n \in Nodes |-> None]
    /\ collected = [n \in Nodes |-> NoShares]
    /\ unsent = [n \in Nodes |-> {}]
    /\ log = [n \in Nodes |-> {}]
    /\ dealt = {} /\ redealt = {} /\ mishaps = 0

Next ==
    \/ \E n \in Nodes : Boot(n) \/ Deal(n) \/ Deadline(n) \/ Finalise(n) \/ Crash(n)
    \/ \E n, p \in Nodes : Send(n, p) \/ GiveUp(n, p) \/ Serve(n, p)
    \/ \E n \in Nodes, p \in Strays : Stray(n, p)

Spec == Init /\ [][Next]_vars

\* The compose file starts processes again, main runs on, tasks are scheduled, time passes.
Fairness ==
    /\ \A n \in Nodes : WF_vars(Boot(n) \/ Deal(n) \/ Finalise(n) \/ Deadline(n))
    /\ \A n, p \in Nodes : WF_vars(Send(n, p))

FairSpec == Spec /\ Fairness

-----------------------------------------------------------------------------
(* Properties *)

Shares == Polynomials \cup {None}

\* Every variable has its type.
TypeOK ==
    /\ phase \in [Nodes -> {"down", "listening", "collecting", "live"}]
    /\ poly \in [Nodes -> Shares]
    /\ collected \in [Nodes -> [Senders -> Shares]]
    /\ unsent \in [Nodes -> SUBSET Nodes] /\ \A n \in Nodes : n \notin unsent[n]
    /\ log \in [Nodes -> SUBSET [Nodes -> Shares]]
    /\ dealt \subseteq Nodes /\ redealt \subseteq dealt
    /\ mishaps \in 0 .. MaxMishaps

Live == {n \in Nodes : phase[n] = "live"}

\* Nodes that serve have computed their registries from the same polynomials, except those
\* of dealers that have dealt twice; nothing compares transcripts before nodes serve
\* (main.rs:147-206, dkg.rs:204-235).
OneKeySet ==
    \A n, m \in Live, d \in Nodes : d \notin redealt => Registry(n)[d] = Registry(m)[d]

\* The records of one log are signed under one registry, although each boot makes a new one
\* (main.rs:110, 233; pbft.rs:397-425).
LogsOneKeySet == \A n \in Nodes : \A r, q \in log[n] : r = q

\* Without mishaps a cold start ends with every node serving (main.rs:104-241).
ColdStart == [](mishaps = 0) => <>(Live = Nodes)

-----------------------------------------------------------------------------
(* A statement of the repository the code does not keep *)

\* README.md:32: crash-fault resilience, the log ensures state recovery during node
\* failures.  A node with records that goes down serves again.
RestartedServes == \A n \in Nodes : (phase[n] = "down" /\ log[n] # {}) ~> phase[n] = "live"
=============================================================================
