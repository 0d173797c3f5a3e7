-------------------------- MODULE BootstrapProofs --------------------------
(* Proofs about Bootstrap, for every set of nodes and any number of        *)
(* mishaps: types, one key set among the nodes that serve, and one per log. *)
EXTENDS Bootstrap, TLAPS

-----------------------------------------------------------------------------
(* The inductive invariants *)

\* Who holds a polynomial, and who can still send one.
PhaseOk ==
    /\ \A n \in Nodes : phase[n] \in {"down", "listening"} => poly[n] = None /\ unsent[n] = {}
    /\ \A n \in Nodes : phase[n] \in {"collecting", "live"} => poly[n] # None
    /\ \A n, p \in Nodes : phase[n] = "live" /\ p # n => collected[n][p] # None

\* A dealer that has dealt once is known by one polynomial, one that has not by none.
DealersOk ==
    /\ \A d \in Nodes \ dealt : poly[d] = None /\ \A m \in Nodes : collected[m][d] = None
    /\ \A d \in Nodes \ redealt, m \in Nodes : collected[m][d] # None =>
          /\ poly[d] # None => poly[d] = collected[m][d]
          /\ \A k \in Nodes : collected[k][d] # None => collected[k][d] = collected[m][d]

\* A log holds records of one registry, that of its node while it serves.
LogOk ==
    /\ LogsOneKeySet
    /\ \A n \in Nodes : \A r \in log[n] : phase[n] = "live" => r = Registry(n)

BootInv == TypeOK /\ PhaseOk /\ DealersOk /\ LogOk

-----------------------------------------------------------------------------
(* Steps *)

LEMMA InitBootInv == Init => BootInv
  BY BootAssumption DEF Init, BootInv, TypeOK, PhaseOk, DealersOk, LogOk, LogsOneKeySet, NoShares,
     Shares, None, Senders

\* The process of n starts over.
LEMMA ExitKeeps ==
  ASSUME BootInv, NEW n \in Nodes, Exit(n), mishaps' \in 0 .. MaxMishaps
  PROVE  BootInv'
<1>1. TypeOK'
  BY DEF Exit, BootInv, TypeOK, NoShares, Shares, history
<1>2. PhaseOk'
  BY DEF Exit, BootInv, TypeOK, PhaseOk
<1>3. /\ \A d \in Nodes : poly'[d] \in {poly[d], None}
      /\ \A m, d \in Nodes : collected'[m][d] \in {collected[m][d], None}
  BY DEF Exit, BootInv, TypeOK, NoShares, Senders
<1>4. DealersOk'
  BY <1>3 DEF Exit, BootInv, DealersOk, history
<1>5. LogOk'
  BY DEF Exit, BootInv, TypeOK, LogOk, LogsOneKeySet, Registry
<1> QED
  BY <1>1, <1>2, <1>4, <1>5 DEF BootInv

\* One share arrives, or is lost.
LEMMA ReceiveKeeps ==
  ASSUME BootInv, NEW n \in Nodes, NEW p \in Senders, NEW s \in Polynomials,
         Receive(n, p, s), UNCHANGED <<phase, poly, log, history>>,
         unsent' \in [Nodes -> SUBSET Nodes], \A m \in Nodes : unsent'[m] \subseteq unsent[m],
         p \in Nodes => poly[p] = s, mishaps' \in 0 .. MaxMishaps
  PROVE  BootInv'
<1>1. CASE collected' = collected
  BY <1>1 DEF BootInv, TypeOK, PhaseOk, DealersOk, LogOk, LogsOneKeySet, Registry, history
<1>2. CASE /\ phase[n] # "live" /\ collected[n][p] = None
           /\ collected' = [collected EXCEPT ![n][p] = s]
  <2>1. \A m \in Nodes, d \in Senders :
           collected'[m][d] = IF m = n /\ d = p THEN s ELSE collected[m][d]
    BY <1>2 DEF BootInv, TypeOK
  <2>2. s # None
    BY BootAssumption DEF None
  <2>3. TypeOK'
    BY <1>2 DEF BootInv, TypeOK, Shares, history
  <2>4. PhaseOk'
    BY <1>2, <2>1, <2>2 DEF BootInv, TypeOK, PhaseOk, Senders
  <2>5. DealersOk'
    BY <2>1, <2>2 DEF BootInv, DealersOk, Senders, history
  <2>6. LogOk'
    BY <1>2, <2>1 DEF BootInv, LogOk, LogsOneKeySet, Registry, Senders
  <2> QED
    BY <2>3, <2>4, <2>5, <2>6 DEF BootInv
<1> QED
  BY <1>1, <1>2 DEF Receive

LEMMA DealKeeps ==
  ASSUME BootInv, NEW n \in Nodes, Deal(n)
  PROVE  BootInv'
<1>1. PICK s \in Polynomials : poly' = [poly EXCEPT ![n] = s]
  BY DEF Deal, DealTo
<1>2. s # None
  BY BootAssumption DEF None
<1>3. TypeOK'
  BY <1>1 DEF Deal, DealTo, BootInv, TypeOK, Shares
<1>4. PhaseOk'
  BY <1>1, <1>2 DEF Deal, DealTo, BootInv, TypeOK, PhaseOk
<1>5. DealersOk'
  BY <1>1, <1>2 DEF Deal, DealTo, BootInv, TypeOK, DealersOk
<1>6. LogOk'
  BY <1>1 DEF Deal, DealTo, BootInv, TypeOK, LogOk, LogsOneKeySet, Registry
<1> QED
  BY <1>3, <1>4, <1>5, <1>6 DEF BootInv

LEMMA FinaliseKeeps ==
  ASSUME BootInv, NEW n \in Nodes, Finalise(n)
  PROVE  BootInv'
<1>1. CASE Exit(n)
  BY <1>1, ExitKeeps DEF Finalise, BootInv, TypeOK
<1>2. CASE /\ \A p \in Nodes \ {n} : collected[n][p] # None
           /\ log[n] \subseteq {Registry(n)}
           /\ phase' = [phase EXCEPT ![n] = "live"]
           /\ UNCHANGED <<process, log, history>>
  <2>1. TypeOK'
    BY <1>2 DEF Finalise, BootInv, TypeOK, process, history
  <2>2. PhaseOk'
    BY <1>2 DEF Finalise, BootInv, TypeOK, PhaseOk, process
  <2>3. DealersOk'
    BY <1>2 DEF BootInv, DealersOk, process, history
  <2>4. LogOk'
    BY <1>2 DEF BootInv, TypeOK, LogOk, LogsOneKeySet, Registry, process
  <2> QED
    BY <2>1, <2>2, <2>3, <2>4 DEF BootInv
<1> QED
  BY <1>1, <1>2 DEF Finalise

LEMMA ServeKeeps ==
  ASSUME BootInv, NEW n \in Nodes, NEW m \in Nodes, Serve(n, m)
  PROVE  BootInv'
<1>1. Registry(n) \in [Nodes -> Shares]
  BY DEF BootInv, TypeOK, Registry, Senders
<1>2. TypeOK'
  BY <1>1 DEF Serve, BootInv, TypeOK, process, history
<1>3. PhaseOk' /\ DealersOk'
  BY DEF Serve, BootInv, PhaseOk, DealersOk, process, history
<1>4. \A k \in Nodes : log'[k] = IF k = n THEN log[n] \cup {Registry(n)} ELSE log[k]
  BY DEF Serve, BootInv, TypeOK
<1>5. \A k \in Nodes : Registry(k)' = Registry(k)
  BY DEF Serve, Registry, process
<1>6. LogOk'
  BY <1>4, <1>5 DEF Serve, BootInv, LogOk, LogsOneKeySet
<1> QED
  BY <1>2, <1>3, <1>6 DEF BootInv

LEMMA StepBootInv == BootInv /\ [Next]_vars => BootInv'
<1>0. SUFFICES ASSUME BootInv, [Next]_vars PROVE BootInv'
  OBVIOUS
<1>1. ASSUME NEW n \in Nodes, Boot(n) PROVE BootInv'
  BY <1>0, <1>1 DEF Boot, BootInv, TypeOK, PhaseOk, DealersOk, LogOk, LogsOneKeySet, Registry,
     process, history
<1>2. ASSUME NEW n \in Nodes, Deal(n) PROVE BootInv'
  BY <1>0, <1>2, DealKeeps
<1>3. ASSUME NEW n \in Nodes, Deadline(n) PROVE BootInv'
  <2>1. mishaps' \in 0 .. MaxMishaps
    BY <1>0, <1>3, BootAssumption DEF Deadline, Mishap, BootInv, TypeOK
  <2> QED
    BY <1>0, <1>3, <2>1, ExitKeeps DEF Deadline
<1>4. ASSUME NEW n \in Nodes, Finalise(n) PROVE BootInv'
  BY <1>0, <1>4, FinaliseKeeps
<1>5. ASSUME NEW n \in Nodes, Crash(n) PROVE BootInv'
  <2>1. mishaps' \in 0 .. MaxMishaps
    BY <1>0, <1>5, BootAssumption DEF Crash, Mishap, BootInv, TypeOK
  <2> QED
    BY <1>0, <1>5, <2>1, ExitKeeps DEF Crash
<1>6. ASSUME NEW n \in Nodes, NEW p \in Nodes, Send(n, p) PROVE BootInv'
  <2>1. poly[n] \in Polynomials
    BY <1>0, <1>6 DEF Send, BootInv, TypeOK, PhaseOk, Shares
  <2>2. unsent' \in [Nodes -> SUBSET Nodes] /\ \A m \in Nodes : unsent'[m] \subseteq unsent[m]
    BY <1>0, <1>6 DEF Send, BootInv, TypeOK
  <2>3. n \in Senders /\ mishaps' \in 0 .. MaxMishaps
    BY <1>0, <1>6 DEF Send, BootInv, TypeOK, Senders
  <2> QED
    BY <1>0, <1>6, <2>1, <2>2, <2>3, ReceiveKeeps DEF Send
<1>7. ASSUME NEW n \in Nodes, NEW p \in Nodes, GiveUp(n, p) PROVE BootInv'
  BY <1>0, <1>7, BootAssumption DEF GiveUp, Mishap, BootInv, TypeOK, PhaseOk, DealersOk, LogOk,
     LogsOneKeySet, Registry, history
<1>8. ASSUME NEW n \in Nodes, NEW m \in Nodes, Serve(n, m) PROVE BootInv'
  BY <1>0, <1>8, ServeKeeps
<1>9. ASSUME NEW n \in Nodes, NEW p \in Strays, Stray(n, p) PROVE BootInv'
  <2> DEFINE s == CHOOSE share \in Polynomials : TRUE
  <2>1. s \in Polynomials
    BY BootAssumption
  <2>2. p \in Senders /\ p \notin Nodes
    BY BootAssumption DEF Senders
  <2>3. mishaps' \in 0 .. MaxMishaps
    BY <1>0, <1>9, BootAssumption DEF Stray, Mishap, BootInv, TypeOK
  <2>4. unsent' \in [Nodes -> SUBSET Nodes] /\ \A m \in Nodes : unsent'[m] \subseteq unsent[m]
    BY <1>0, <1>9 DEF Stray, BootInv, TypeOK
  <2>5. Receive(n, p, s) /\ UNCHANGED <<phase, poly, log, history>>
    BY <1>9 DEF Stray
  <2> HIDE DEF s
  <2> QED
    BY <1>0, <2>1, <2>2, <2>3, <2>4, <2>5, ReceiveKeeps
<1>10. CASE UNCHANGED vars
  BY <1>0, <1>10 DEF vars, process, history, BootInv, TypeOK, PhaseOk, DealersOk, LogOk,
     LogsOneKeySet, Registry
<1> QED
  BY <1>0, <1>1, <1>2, <1>3, <1>4, <1>5, <1>6, <1>7, <1>8, <1>9, <1>10 DEF Next

-----------------------------------------------------------------------------
(* Theorems *)

LEMMA BootInvariant == Spec => []BootInv
  BY InitBootInv, StepBootInv, PTL DEF Spec

\* Every variable keeps its type (main.rs:110-241).
THEOREM TypeCorrect == Spec => []TypeOK
<1>1. BootInv => TypeOK
  BY DEF BootInv
<1> QED
  BY <1>1, BootInvariant, PTL

\* Whatever goes wrong and however often, nodes that serve disagree only about dealers that
\* have dealt twice (main.rs:147-241, dkg.rs:204-235).
THEOREM ServesOneKeySet == Spec => []OneKeySet
<1>1. BootInv => OneKeySet
  <2>1. SUFFICES ASSUME BootInv, NEW n \in Live, NEW m \in Live, NEW d \in Nodes, d \notin redealt
                 PROVE  Registry(n)[d] = Registry(m)[d]
    BY DEF OneKeySet
  <2>2. n \in Nodes /\ m \in Nodes /\ phase[n] = "live" /\ phase[m] = "live"
    BY DEF Live
  <2> QED
    BY <2>1, <2>2 DEF BootInv, PhaseOk, DealersOk, Registry
<1> QED
  BY <1>1, BootInvariant, PTL

\* No node appends to a log whose records it cannot verify: all records of a log are signed
\* under one registry, over any number of restarts (main.rs:233, pbft.rs:397-425).
THEOREM LogsKeepOneKeySet == Spec => []LogsOneKeySet
<1>1. BootInv => LogsOneKeySet
  BY DEF BootInv, LogOk
<1> QED
  BY <1>1, BootInvariant, PTL
=============================================================================
