------------------------ MODULE WorkloadScale_proofs ------------------------
(***************************************************************************)
(* Proofs about the workload passes, for every set of namespaces,          *)
(* Deployments and StatefulSets and every bound on the replica counts.     *)
(***************************************************************************)
EXTENDS WorkloadScale, TLAPS

(***************************************************************************)
(* What one patch does to a workload that holds a count.  This is the      *)
(* heart of the argument: two copies of a workload that hold the same      *)
(* count differ only in being scaled down or not, and the merge patch of   *)
(* either pass, computed from one and applied to the other, gives a        *)
(* workload that holds the count still.                                    *)
(***************************************************************************)
LEMMA PatchKeepsCount ==
  ASSUME NEW listed \in Workload, NEW live \in Workload, NEW b \in Replicas,
         NEW o \in {"ScaleToZero", "Restore"},
         Target(o, listed), Holds(listed, b), Holds(live, b)
  PROVE  Holds(Patched(o, listed, live), b)
<1> USE WSAssumption, NoneIsNoWorkload DEF Replicas, Saved
<1>1. CASE o = "ScaleToZero"
  <2>1. listed.replicas = b /\ listed.saved = None /\ b # 0
    BY <1>1 DEF Target, ScaleTarget, Holds
  <2>2. Patched(o, listed, live) = [replicas |-> 0, saved |-> b, exempt |-> live.exempt]
    BY <1>1, <2>1 DEF Patched, ScaledToZero, Workload
  <2>3. /\ Patched(o, listed, live) \in Workload
        /\ Patched(o, listed, live).replicas = 0
        /\ Patched(o, listed, live).saved = b
    BY <2>2 DEF Workload
  <2> QED
    BY <2>1, <2>3 DEF Holds
<1>2. CASE o = "Restore"
  <2>1. listed.replicas = 0 /\ listed.saved = b /\ b # 0
    BY <1>2 DEF Target, RestoreTarget, PendingRestore, Holds
  <2>2. Patched(o, listed, live) = [replicas |-> b, saved |-> None, exempt |-> live.exempt]
    BY <1>2, <2>1 DEF Patched, Restored, Workload
  <2>3. /\ Patched(o, listed, live) \in Workload
        /\ Patched(o, listed, live).replicas = b
        /\ Patched(o, listed, live).saved = None
    BY <2>1, <2>2 DEF Workload
  <2> QED
    BY <2>3 DEF Holds
<1> QED
  BY <1>1, <1>2

\* A patch of a target gives a workload again.
LEMMA PatchedType ==
  ASSUME NEW listed \in Workload, NEW live \in Workload,
         NEW o \in {"ScaleToZero", "Restore"}, Target(o, listed)
  PROVE  Patched(o, listed, live) \in Workload
<1>1. CASE o = "ScaleToZero"
  <2> DEFINE s == IF listed.saved = None THEN listed.replicas ELSE live.saved
  <2>1. 0 \in Replicas /\ s \in Saved
    BY WSAssumption DEF Workload, Replicas, Saved
  <2>2. Patched(o, listed, live) = [replicas |-> 0, saved |-> s, exempt |-> live.exempt]
    BY <1>1 DEF Patched, ScaledToZero, Workload
  <2> HIDE DEF s
  <2> QED
    BY <2>1, <2>2 DEF Workload
<1>2. CASE o = "Restore"
  <2>1. listed.saved \in Replicas /\ None \in Saved
    BY <1>2 DEF Target, RestoreTarget, PendingRestore, Workload, Saved
  <2>2. Patched(o, listed, live)
          = [replicas |-> listed.saved, saved |-> None, exempt |-> live.exempt]
    BY <1>2 DEF Patched, Restored, Workload
  <2> QED
    BY <2>1, <2>2 DEF Workload
<1> QED
  BY <1>1, <1>2

\* The copies a pass lists are cached objects that it targets.
LEMMA ListProperties ==
  ASSUME WSTypeOK, NEW o \in {"ScaleToZero", "Restore"}, NEW k \in Kinds, NEW n
  PROVE  /\ List(o, k, n) \in [Workloads -> Object]
         /\ \A w \in Workloads :
              List(o, k, n)[w] # None =>
                List(o, k, n)[w] = wcache[w] /\ Target(o, wcache[w])
  BY DEF List, WSTypeOK, Object

\* The invariant holds when the operator starts.
LEMMA WSInitInv == WSInit => WSInv
<1> SUFFICES ASSUME WSInit PROVE WSInv
  OBVIOUS
<1> USE WSAssumption, NoneIsNoWorkload
<1>1. WSTypeOK
  BY DEF WSInit, WSTypeOK, Object, Ops, Kinds, NoItems, Workload
<1>2. CountPreservedEverywhere
  BY DEF WSInit, CountPreservedEverywhere, Holds, NoItems, Object
<1>3. ItemsAreTargets
  BY DEF WSInit, ItemsAreTargets, NoItems
<1> QED
  BY <1>1, <1>2, <1>3 DEF WSInv

\* Starting a pass, and moving on to the StatefulSets, only lists.
LEMMA ListingKeepsInv ==
  ASSUME WSInv, NEW k \in Kinds, op' \in {"ScaleToZero", "Restore"},
         scope' \in Namespaces \cup {None}, kind' \in Kinds, acted' \in BOOLEAN,
         items' = List(op', k, scope'),
         UNCHANGED <<workloads, wcache, base>>
  PROVE  WSInv'
<1>1. WSTypeOK'
  BY ListProperties DEF WSInv, WSTypeOK, Ops
<1>2. CountPreservedEverywhere'
  BY ListProperties DEF WSInv, CountPreservedEverywhere
<1>3. ItemsAreTargets'
  BY ListProperties DEF WSInv, ItemsAreTargets
<1> QED
  BY <1>1, <1>2, <1>3 DEF WSInv

LEMMA BeginPassInv ==
  ASSUME WSInv, NEW o \in {"ScaleToZero", "Restore"}, NEW n \in Namespaces,
         BeginPass(o, n)
  PROVE  WSInv'
  BY ListingKeepsInv DEF BeginPass, Kinds

LEMMA NextKindInv == WSInv /\ NextKind => WSInv'
  BY ListingKeepsInv DEF NextKind, Kinds, WSInv, WSTypeOK, Ops

\* A patch, whatever it was computed from, keeps the invariant.
LEMMA PatchWorkloadInv ==
  ASSUME WSInv, NEW w \in Workloads, PatchWorkload(w)
  PROVE  WSInv'
<1> USE NoneIsNoWorkload
<1>1. /\ op \in {"ScaleToZero", "Restore"}
      /\ items[w] \in Workload /\ workloads[w] \in Workload
      /\ Target(op, items[w])
  BY DEF PatchWorkload, WSInv, WSTypeOK, Object, Ops, ItemsAreTargets
<1>2. Patched(op, items[w], workloads[w]) \in Workload
  BY <1>1, PatchedType
<1>3. WSTypeOK'
  BY <1>2 DEF PatchWorkload, WSInv, WSTypeOK, Object
<1>4. CountPreservedEverywhere'
  <2> SUFFICES ASSUME NEW v \in Workloads, base'[v] # None
               PROVE  /\ Holds(workloads'[v], base'[v])
                      /\ Holds(wcache'[v], base'[v])
                      /\ items'[v] # None => Holds(items'[v], base'[v])
    BY DEF CountPreservedEverywhere
  <2>1. base' = base /\ wcache' = wcache /\ base[v] \in Replicas
    BY DEF PatchWorkload, WSInv, WSTypeOK
  <2>2. CASE v = w
    <3>1. Holds(items[w], base[w]) /\ Holds(workloads[w], base[w])
      BY <1>1, <2>1, <2>2 DEF WSInv, CountPreservedEverywhere
    <3>2. Holds(Patched(op, items[w], workloads[w]), base[w])
      BY <1>1, <2>1, <2>2, <3>1, PatchKeepsCount
    <3> QED
      BY <2>1, <2>2, <3>2 DEF PatchWorkload, WSInv, WSTypeOK, CountPreservedEverywhere
  <2>3. CASE v # w
    BY <2>1, <2>3 DEF PatchWorkload, WSInv, WSTypeOK, CountPreservedEverywhere
  <2> QED
    BY <2>2, <2>3
<1>5. ItemsAreTargets'
  BY DEF PatchWorkload, WSInv, WSTypeOK, ItemsAreTargets
<1> QED
  BY <1>3, <1>4, <1>5 DEF WSInv

\* A pass that ends, in whatever way, leaves nothing to be patched.
LEMMA PassOverInv ==
  ASSUME WSInv, items' = NoItems, op' = "none", scope' = None, kind' = "Deployment",
         acted' = FALSE, UNCHANGED <<workloads, wcache, base>>
  PROVE  WSInv'
  BY DEF WSInv, WSTypeOK, CountPreservedEverywhere, ItemsAreTargets, NoItems,
         Object, Ops, Kinds

\* Catching up with the API server arms the history variable and no more.
LEMMA SyncWorkloadsInv ==
  ASSUME WSInv, NEW k \in Kinds, SyncWorkloads(k)
  PROVE  WSInv'
<1> USE WSAssumption, NoneIsNoWorkload
<1>1. WSTypeOK'
  BY DEF SyncWorkloads, WSInv, WSTypeOK, Object, Workload
<1>2. CountPreservedEverywhere'
  BY DEF SyncWorkloads, WSInv, WSTypeOK, CountPreservedEverywhere, Holds
<1>3. ItemsAreTargets'
  BY DEF SyncWorkloads, WSInv, ItemsAreTargets
<1> QED
  BY <1>1, <1>2, <1>3 DEF WSInv

\* A write of a user makes the count of that workload unknown.
LEMMA UserWriteInv ==
  ASSUME WSInv, NEW w \in Workloads, NEW new \in Object, UserWrite(w, new)
  PROVE  WSInv'
  BY DEF UserWrite, WSInv, WSTypeOK, CountPreservedEverywhere, ItemsAreTargets

\* The exempt label can come and go without disturbing a count.
LEMMA UserLabelInv ==
  ASSUME WSInv, NEW w \in Workloads, UserLabel(w)
  PROVE  WSInv'
<1> USE NoneIsNoWorkload
<1> DEFINE new == [workloads[w] EXCEPT !.exempt = ~workloads[w].exempt]
<1>1. workloads[w] \in Workload
  BY DEF UserLabel, WSInv, WSTypeOK, Object
<1>2. /\ new \in Workload
      /\ new.replicas = workloads[w].replicas
      /\ new.saved = workloads[w].saved
  BY <1>1 DEF Workload
<1>3. new # None /\ workloads[w] # None
  BY <1>1, <1>2
<1>4. \A b \in Replicas : Holds(workloads[w], b) => Holds(new, b)
  BY <1>2, <1>3 DEF Holds
<1>5. workloads' = [workloads EXCEPT ![w] = new]
  BY DEF UserLabel
<1> HIDE DEF new
<1>6. WSTypeOK'
  BY <1>2, <1>5 DEF UserLabel, WSInv, WSTypeOK, Object
<1>7. CountPreservedEverywhere'
  BY <1>4, <1>5 DEF UserLabel, WSInv, WSTypeOK, CountPreservedEverywhere
<1>8. ItemsAreTargets'
  BY DEF UserLabel, WSInv, ItemsAreTargets
<1> QED
  BY <1>6, <1>7, <1>8 DEF WSInv

LEMMA UserStepInv == WSInv /\ UserStep => WSInv'
<1> SUFFICES ASSUME WSInv, NEW w \in Workloads,
                    \/ \E r \in Replicas : UserScale(w, r) \/ UserCreate(w, r)
                    \/ \E s \in Saved : UserAnnotate(w, s)
                    \/ UserLabel(w)
                    \/ UserDelete(w)
             PROVE  WSInv'
  BY DEF UserStep
<1> USE NoneIsNoWorkload
<1>1. ASSUME NEW r \in Replicas, UserScale(w, r)
      PROVE  WSInv'
  <2>1. [workloads[w] EXCEPT !.replicas = r] \in Object
    BY <1>1 DEF UserScale, WSInv, WSTypeOK, Object, Workload
  <2> QED
    BY <1>1, <2>1, UserWriteInv DEF UserScale
<1>2. ASSUME NEW r \in Replicas, UserCreate(w, r)
      PROVE  WSInv'
  <2>1. [replicas |-> r, saved |-> None, exempt |-> FALSE] \in Object
    BY DEF Object, Workload, Saved
  <2> QED
    BY <1>2, <2>1, UserWriteInv DEF UserCreate
<1>3. ASSUME NEW s \in Saved, UserAnnotate(w, s)
      PROVE  WSInv'
  <2>1. [workloads[w] EXCEPT !.saved = s] \in Object
    BY <1>3 DEF UserAnnotate, WSInv, WSTypeOK, Object, Workload
  <2> QED
    BY <1>3, <2>1, UserWriteInv DEF UserAnnotate
<1>4. ASSUME UserDelete(w)
      PROVE  WSInv'
  BY <1>4, UserWriteInv DEF UserDelete, Object
<1> QED
  BY <1>1, <1>2, <1>3, <1>4, UserLabelInv

LEMMA PurgeWorkloadsInv ==
  ASSUME WSInv, NEW n \in Namespaces, PurgeWorkloads(n)
  PROVE  WSInv'
  BY DEF PurgeWorkloads, WSInv, WSTypeOK, CountPreservedEverywhere,
         ItemsAreTargets, NoItems, Object

LEMMA WSNextInv == WSInv /\ [WSNext]_wsVars => WSInv'
<1> SUFFICES ASSUME WSInv, [WSNext]_wsVars
             PROVE  WSInv'
  OBVIOUS
<1>1. CASE PassStep
  <2>1. CASE \E o \in {"ScaleToZero", "Restore"}, n \in Namespaces : BeginPass(o, n)
    BY <2>1, BeginPassInv
  <2>2. CASE \E w \in Workloads : PatchWorkload(w)
    BY <2>2, PatchWorkloadInv
  <2>3. CASE NextKind
    BY <2>3, NextKindInv
  <2>4. CASE EndPass
    BY <2>4, PassOverInv DEF EndPass
  <2>5. CASE AbortPass
    BY <2>5, PassOverInv DEF AbortPass
  <2> QED
    BY <1>1, <2>1, <2>2, <2>3, <2>4, <2>5 DEF PassStep
<1>2. CASE \E k \in Kinds : SyncWorkloads(k)
  BY <1>2, SyncWorkloadsInv
<1>3. CASE UserStep
  BY <1>3, UserStepInv
<1>4. CASE \E n \in Namespaces : PurgeWorkloads(n)
  BY <1>4, PurgeWorkloadsInv
<1>5. CASE UNCHANGED wsVars
  BY <1>5 DEF wsVars, WSInv, WSTypeOK, CountPreservedEverywhere, ItemsAreTargets
<1> QED
  BY <1>1, <1>2, <1>3, <1>4, <1>5 DEF WSNext

(***************************************************************************)
(* The inductive invariant: types, the copies still to be patched are      *)
(* targets of the pass in progress, and a count that is known is held by   *)
(* the API server's object, by the cached one and by the listed one.       *)
(***************************************************************************)
THEOREM WSInvariant == WSSpec => []WSInv
<1>1. WSInit => WSInv
  BY WSInitInv
<1>2. WSInv /\ [WSNext]_wsVars => WSInv'
  BY WSNextInv
<1> QED
  BY <1>1, <1>2, PTL DEF WSSpec

\* The state of the passes stays within its types.
THEOREM WSTypeCorrect == WSSpec => []WSTypeOK
<1>1. WSInv => WSTypeOK
  BY DEF WSInv
<1> QED
  BY <1>1, WSInvariant, PTL

(***************************************************************************)
(* No pass of scaleWorkloadsToZero or restoreScaledWorkloads ever loses    *)
(* the replica count of a workload, however stale its list, wherever it is *)
(* cut short and however the passes alternate.                             *)
(***************************************************************************)
THEOREM CountsArePreserved == WSSpec => []CountPreserved
<1>1. WSInv => CountPreserved
  BY DEF WSInv, CountPreservedEverywhere, CountPreserved
<1> QED
  BY <1>1, WSInvariant, PTL

-----------------------------------------------------------------------------
(* The passes implement ReplicaLedger.                                      *)

\* Steps that write no workload and learn nothing are stutters of the ledger.
LEMMA LedgerStutters ==
  ASSUME UNCHANGED <<workloads, base>>
  PROVE  UNCHANGED Ledger!vars
  BY DEF Ledger!vars, Running

\* The ledger when one workload of it is written.
LEMMA RunningAfterWrite ==
  ASSUME WSTypeOK, NEW w \in Workloads, NEW new \in Object,
         workloads' = [workloads EXCEPT ![w] = new]
  PROVE  Running' = [Running EXCEPT ![w] = IF new = None THEN None ELSE new.replicas]
<1> DEFINE r == IF new = None THEN None ELSE new.replicas
<1>1. \A v \in Workloads : workloads'[v] = IF v = w THEN new ELSE workloads[v]
  BY DEF WSTypeOK
<1>2. \A v \in Workloads : Running'[v] = IF v = w THEN r ELSE Running[v]
  BY <1>1 DEF Running
<1>3. Running' = [v \in Workloads |-> IF v = w THEN r ELSE Running[v]]
  <2>1. Running' = [v \in Workloads |-> Running'[v]]
    BY DEF Running
  <2> HIDE DEF r
  <2> QED
    BY <1>2, <2>1
<1>4. [Running EXCEPT ![w] = r] = [v \in Workloads |-> IF v = w THEN r ELSE Running[v]]
  <2> HIDE DEF r
  <2> QED
    BY DEF Running
<1> QED
  BY <1>3, <1>4

\* A patch parks the workload, brings its count back, or is of a workload of
\* which nothing is promised.
LEMMA PatchIsLedgered ==
  ASSUME WSInv, NEW w \in Workloads, PatchWorkload(w)
  PROVE  Ledger!Next
<1> USE NoneIsNoWorkload
<1> DEFINE new == Patched(op, items[w], workloads[w])
<1>1. /\ op \in {"ScaleToZero", "Restore"}
      /\ items[w] \in Workload /\ workloads[w] \in Workload
      /\ Target(op, items[w])
  BY DEF PatchWorkload, WSInv, WSTypeOK, Object, Ops, ItemsAreTargets
<1>2. new \in Workload
  BY <1>1, PatchedType
<1>3. new # None /\ new.replicas \in Replicas /\ new \in Object
  BY <1>2 DEF Workload, Object
<1>4. workloads' = [workloads EXCEPT ![w] = new] /\ base' = base
  BY DEF PatchWorkload
<1>5. base[w] # None => new.replicas \in {0, base[w]}
  <2> SUFFICES ASSUME base[w] # None
               PROVE  new.replicas \in {0, base[w]}
    OBVIOUS
  <2>1. base[w] \in Replicas
    BY DEF WSInv, WSTypeOK
  <2>2. Holds(items[w], base[w]) /\ Holds(workloads[w], base[w])
    BY <1>1 DEF WSInv, CountPreservedEverywhere
  <2>3. Holds(new, base[w])
    BY <1>1, <2>1, <2>2, PatchKeepsCount
  <2> QED
    BY <2>3 DEF Holds
<1> HIDE DEF new
<1>6. Running' = [Running EXCEPT ![w] = new.replicas]
  BY <1>3, <1>4, RunningAfterWrite DEF WSInv
<1>7. CASE base[w] = None
  <2>1. Running[w] # None
    BY <1>1, WSAssumption DEF Running, Workload, Replicas
  <2>2. Ledger!Adjust(w, new.replicas)
    BY <1>4, <1>6, <1>7, <2>1 DEF Ledger!Adjust
  <2> QED
    BY <1>3, <2>2 DEF Ledger!Next
<1>8. CASE base[w] # None /\ new.replicas = 0
  BY <1>4, <1>6, <1>8 DEF Ledger!Park, Ledger!Next
<1>9. CASE base[w] # None /\ new.replicas = base[w]
  BY <1>4, <1>6, <1>9 DEF Ledger!Unpark, Ledger!Next
<1> QED
  BY <1>5, <1>7, <1>8, <1>9

\* The informers teach the ledger the counts that users have settled on.
LEMMA SyncIsLedgered ==
  ASSUME WSInv, NEW k \in Kinds, SyncWorkloads(k)
  PROVE  Ledger!Next
<1> DEFINE S == {w \in OfKind(k) \cap Workloads :
                   /\ base[w] = None /\ workloads[w] # None /\ items[w] = None
                   /\ workloads[w].saved = None}
<1>1. S \in SUBSET Workloads
  OBVIOUS
<1>2. \A w \in S : base[w] = None
  OBVIOUS
<1>3. base' = [w \in Workloads |-> IF w \in S THEN Running[w] ELSE base[w]]
  <2>1. \A w \in Workloads : base'[w] = IF w \in S THEN Running[w] ELSE base[w]
    BY DEF SyncWorkloads, Running
  <2>2. base' = [w \in Workloads |-> base'[w]]
    BY DEF SyncWorkloads
  <2> QED
    BY <2>1, <2>2
<1>4. UNCHANGED Running
  BY DEF SyncWorkloads, Running
<1> HIDE DEF S
<1>5. Ledger!Learn(S)
  BY <1>2, <1>3, <1>4 DEF Ledger!Learn
<1> QED
  BY <1>1, <1>5 DEF Ledger!Next

\* A user's write is the user's change of mind.
LEMMA UserWriteIsLedgered ==
  ASSUME WSInv, NEW w \in Workloads, NEW new \in Object, UserWrite(w, new)
  PROVE  Ledger!Next
<1> DEFINE r == IF new = None THEN None ELSE new.replicas
<1>1. r \in Replicas \cup {None}
  BY NoneIsNoWorkload DEF Object, Workload
<1>2. Running' = [Running EXCEPT ![w] = r]
  BY RunningAfterWrite DEF UserWrite, WSInv
<1>3. base' = [base EXCEPT ![w] = None]
  BY DEF UserWrite
<1> HIDE DEF r
<1>4. Ledger!Change(w, r)
  BY <1>2, <1>3 DEF Ledger!Change
<1> QED
  BY <1>1, <1>4 DEF Ledger!Next

LEMMA UserLabelStutters ==
  ASSUME WSInv, NEW w \in Workloads, UserLabel(w)
  PROVE  UNCHANGED Ledger!vars
<1> USE NoneIsNoWorkload
<1> DEFINE new == [workloads[w] EXCEPT !.exempt = ~workloads[w].exempt]
<1>1. workloads[w] \in Workload
  BY DEF UserLabel, WSInv, WSTypeOK, Object
<1>2. new # None /\ new \in Object /\ new.replicas = workloads[w].replicas
  BY <1>1 DEF Workload, Object
<1>3. workloads' = [workloads EXCEPT ![w] = new] /\ base' = base
  BY DEF UserLabel
<1> HIDE DEF new
<1>4. Running' = [Running EXCEPT ![w] = Running[w]]
  BY <1>1, <1>2, <1>3, RunningAfterWrite DEF WSInv, Running
<1>5. Running' = Running
  BY <1>4 DEF Running
<1> QED
  BY <1>3, <1>5 DEF Ledger!vars

LEMMA UserStepIsLedgered == WSInv /\ UserStep => [Ledger!Next]_(Ledger!vars)
<1> SUFFICES ASSUME WSInv, NEW w \in Workloads,
                    \/ \E r \in Replicas : UserScale(w, r) \/ UserCreate(w, r)
                    \/ \E s \in Saved : UserAnnotate(w, s)
                    \/ UserLabel(w)
                    \/ UserDelete(w)
             PROVE  [Ledger!Next]_(Ledger!vars)
  BY DEF UserStep
<1> USE NoneIsNoWorkload
<1>1. ASSUME NEW r \in Replicas, UserScale(w, r)
      PROVE  Ledger!Next
  <2>1. [workloads[w] EXCEPT !.replicas = r] \in Object
    BY <1>1 DEF UserScale, WSInv, WSTypeOK, Object, Workload
  <2> QED
    BY <1>1, <2>1, UserWriteIsLedgered DEF UserScale
<1>2. ASSUME NEW r \in Replicas, UserCreate(w, r)
      PROVE  Ledger!Next
  <2>1. [replicas |-> r, saved |-> None, exempt |-> FALSE] \in Object
    BY DEF Object, Workload, Saved
  <2> QED
    BY <1>2, <2>1, UserWriteIsLedgered DEF UserCreate
<1>3. ASSUME NEW s \in Saved, UserAnnotate(w, s)
      PROVE  Ledger!Next
  <2>1. [workloads[w] EXCEPT !.saved = s] \in Object
    BY <1>3 DEF UserAnnotate, WSInv, WSTypeOK, Object, Workload
  <2> QED
    BY <1>3, <2>1, UserWriteIsLedgered DEF UserAnnotate
<1>4. ASSUME UserDelete(w)
      PROVE  Ledger!Next
  BY <1>4, UserWriteIsLedgered DEF UserDelete, Object
<1> QED
  BY <1>1, <1>2, <1>3, <1>4, UserLabelStutters

LEMMA PurgeIsLedgered ==
  ASSUME NEW n \in Namespaces, PurgeWorkloads(n)
  PROVE  Ledger!Next
<1>1. In(n) \in SUBSET Workloads
  BY DEF In
<1>2. Ledger!Purge(In(n))
  BY DEF Ledger!Purge, PurgeWorkloads, Running
<1> QED
  BY <1>1, <1>2 DEF Ledger!Next

LEMMA StepIsLedgered == WSInv /\ [WSNext]_wsVars => [Ledger!Next]_(Ledger!vars)
<1> SUFFICES ASSUME WSInv, [WSNext]_wsVars
             PROVE  [Ledger!Next]_(Ledger!vars)
  OBVIOUS
<1>1. CASE PassStep
  <2>1. ASSUME NEW w \in Workloads, PatchWorkload(w)
        PROVE  Ledger!Next
    BY <2>1, PatchIsLedgered
  <2>2. CASE \E o \in {"ScaleToZero", "Restore"}, n \in Namespaces : BeginPass(o, n)
    BY <2>2, LedgerStutters DEF BeginPass
  <2>3. CASE NextKind
    BY <2>3, LedgerStutters DEF NextKind
  <2>4. CASE EndPass
    BY <2>4, LedgerStutters DEF EndPass
  <2>5. CASE AbortPass
    BY <2>5, LedgerStutters DEF AbortPass
  <2> QED
    BY <1>1, <2>1, <2>2, <2>3, <2>4, <2>5 DEF PassStep
<1>2. CASE \E k \in Kinds : SyncWorkloads(k)
  BY <1>2, SyncIsLedgered
<1>3. CASE UserStep
  BY <1>3, UserStepIsLedgered
<1>4. CASE \E n \in Namespaces : PurgeWorkloads(n)
  BY <1>4, PurgeIsLedgered
<1>5. CASE UNCHANGED wsVars
  BY <1>5, LedgerStutters DEF wsVars
<1> QED
  BY <1>1, <1>2, <1>3, <1>4, <1>5 DEF WSNext

(***************************************************************************)
(* The passes implement the ledger: from lists of any age, cut short       *)
(* anywhere and in any order, they only ever take a workload to zero and   *)
(* bring back the count its user asked for.                                *)
(***************************************************************************)
THEOREM PassesKeepLedger == WSSpec => LedgerIsKept
<1>1. WSInit => Ledger!Init
  <2> SUFFICES ASSUME WSInit PROVE Ledger!Init
    OBVIOUS
  <2>1. \A w \in Workloads : workloads[w] # None => workloads[w].replicas \in Replicas
    BY DEF WSInit, Object, Workload
  <2>2. Running \in [Workloads -> Replicas \cup {None}]
    BY <2>1 DEF Running
  <2>3. base = Running
    BY DEF WSInit, Running
  <2> QED
    BY <2>2, <2>3 DEF Ledger!Init
<1>2. WSInv /\ [WSNext]_wsVars => [Ledger!Next]_(Ledger!vars)
  BY StepIsLedgered
<1> QED
  BY <1>1, <1>2, WSInvariant, PTL DEF WSSpec, LedgerIsKept, Ledger!Spec

=============================================================================
