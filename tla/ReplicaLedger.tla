---------------------------- MODULE ReplicaLedger ----------------------------
(***************************************************************************)
(* What the operator promises to the users of a workload, without          *)
(* annotations, caches or passes: a ledger of replica counts.              *)
(*                                                                         *)
(* A workload runs some number of replicas.  The operator may take it down *)
(* to zero and bring it back, in any order and as often as it likes, but   *)
(* once it has learnt the count a user asked for, that count is the only   *)
(* one it ever brings back, until the user changes the workload again.     *)
(* Of a workload whose count it has not learnt it promises nothing.        *)
(***************************************************************************)
CONSTANTS
  Workloads,   \* the workloads
  Replicas,    \* the replica counts
  None         \* an absent workload, or a count that is not promised

VARIABLES
  running,     \* what each workload runs: a count, or None when it is absent
  promised     \* the count it is to get back: None when nothing is promised

vars == <<running, promised>>

\* Every workload is known, and runs what its user asked for.
Init ==
  /\ running \in [Workloads -> Replicas \cup {None}]
  /\ promised = running

\* The operator takes a workload down to zero ...
Park(w) ==
  /\ promised[w] # None
  /\ running' = [running EXCEPT ![w] = 0]
  /\ UNCHANGED promised

\* ... and brings it back.
Unpark(w) ==
  /\ promised[w] # None
  /\ running' = [running EXCEPT ![w] = promised[w]]
  /\ UNCHANGED promised

\* It writes a workload of which nothing is promised.
Adjust(w, r) ==
  /\ promised[w] = None
  /\ running[w] # None
  /\ running' = [running EXCEPT ![w] = r]
  /\ UNCHANGED promised

\* It learns what users asked for.
Learn(S) ==
  /\ \A w \in S : promised[w] = None
  /\ promised' = [w \in Workloads |-> IF w \in S THEN running[w] ELSE promised[w]]
  /\ UNCHANGED running

\* A user creates, scales, deletes or annotates a workload.
Change(w, r) ==
  /\ running' = [running EXCEPT ![w] = r]
  /\ promised' = [promised EXCEPT ![w] = None]

\* Workloads go with their namespace.
Purge(S) ==
  /\ running' = [w \in Workloads |-> IF w \in S THEN None ELSE running[w]]
  /\ promised' = [w \in Workloads |-> IF w \in S THEN None ELSE promised[w]]

Next ==
  \/ \E w \in Workloads : Park(w) \/ Unpark(w)
  \/ \E w \in Workloads, r \in Replicas : Adjust(w, r)
  \/ \E w \in Workloads, r \in Replicas \cup {None} : Change(w, r)
  \/ \E S \in SUBSET Workloads : Learn(S) \/ Purge(S)

Spec == Init /\ [][Next]_vars

=============================================================================
