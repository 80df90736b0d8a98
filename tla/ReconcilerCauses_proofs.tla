----------------------- MODULE ReconcilerCauses_proofs -----------------------
(***************************************************************************)
(* Why the controller acts, for every instance of it: what a restore, the  *)
(* deletion of a namespace and a scale-to-zero have for a reason in the    *)
(* live resources.  Each is decided from cached copies, many steps before  *)
(* it is done, so the reason has to be carried along by the reconcile: a   *)
(* step of the worker is always one that the spec in its copy asks for.    *)
(***************************************************************************)
EXTENDS ReconcilerRecord_proofs

\* Why the worker is at step at of reconcile r.
Cause(r, at) ==
  /\ at \in {"evaluate", "spend", "recover", "scale", "restore", "grace"} =>
       shouldScaleDeploymentsToZero(r.copy.spec)
  /\ at \in {"recover", "restore"} => r.copy.spec.restoreOnRecovery
  /\ at = "delete" => Deleting(r.copy.spec, r.copy.created, r.now)
  /\ at = "grace" => Expired(r.copy.spec, r.copy.created, r.now)

RunHasCause == run # None => Cause(run, pc)

\* What a reconcile keeps from its start.
SameCauses(r, s) ==
  s.copy.spec = r.copy.spec /\ s.copy.created = r.copy.created /\ s.now = r.now

\* The types of what a reconcile works with.
LEMMA RunTypes ==
  ASSUME TypeOK, run # None
  PROVE  /\ run \in Runs /\ run.bn \in BNs /\ run.now \in Nat /\ clock \in Nat
         /\ run.copy.spec \in Specs /\ run.copy.spec \in BudgetNamespaceSpecs
         /\ ~Rejected(run.copy.spec) /\ run.copy.spec.ttl # Bad
         /\ run.copy.created \in Nat /\ run.copy.status \in Statuses
         /\ Managed \in Namespaces
<1>1. /\ run \in Runs /\ run.copy \in BudgetNamespaces
      /\ run.copy.spec \in BudgetNamespaceSpecs /\ Managed \in Namespaces
  BY ManagedType DEF TypeOK
<1>2. run.bn \in BNs /\ run.now \in Nat /\ ~Rejected(run.copy.spec)
  BY <1>1 DEF Runs
<1>3. run.copy.spec.ttl # Bad
  BY <1>2 DEF Rejected
<1>4. run.copy.created \in Nat /\ run.copy.status \in Statuses /\ run.copy.spec \in Specs
  BY <1>1 DEF BudgetNamespaces
<1>5. clock \in Nat
  BY ReconcilerAssumption DEF TypeOK, OutsideTypeOK
<1> QED
  BY <1>1, <1>2, <1>3, <1>4, <1>5

\* What it would record of enforcement, and when it may.
SameRecords(r, s) ==
  /\ s.bn = r.bn /\ s.stale = r.stale /\ s.now = r.now
  /\ s.lastEnfAt = r.lastEnfAt /\ s.lastEnfOp = r.lastEnfOp

LEMMA CauseCarries ==
  ASSUME NEW r, NEW s, NEW at, Cause(r, at), SameCauses(r, s)
  PROVE  Cause(s, at)
  BY DEF Cause, SameCauses

-----------------------------------------------------------------------------
(* The steps, by what they do to the worker.                                *)

\* The steps of everything but the worker end its reconcile, leave it alone,
\* start one, or overtake its copy.
LEMMA AroundTheWorker ==
  ASSUME TypeOK, [Next]_vars, ~WorkerStep
  PROVE  \/ run' = None
         \/ UNCHANGED <<pc, run>>
         \/ \E b \in BNs, d \in 0 .. ReadSkew : ReconcileStart(b, d)
         \/ \E b, o : UserWritesBN(b, o)
<1>1. CASE \E b \in BNs : Dequeue(b)
  BY <1>1 DEF Dequeue, ReconcileNotFound, ReconcileRejected
<1>2. CASE CallFails \/ Crash \/ Restart
  BY <1>2 DEF CallFails, ReturnsError, Returns, Crash, Restart, TypeOK, Reconciling
<1>3. CASE CacheStep
  BY <1>3 DEF CacheStep, SyncBudgetNamespace, SyncResourceQuota, SyncNamespace,
     SyncLimitRange, SyncWorkloadCache
<1>4. CASE OutsideStep
  <2>1. ASSUME NEW n, NEW x,
               \/ UserDeletesNamespace(n) \/ UserLabelsNamespace(n, x)
               \/ UserWritesQuota(n, x) \/ UserWritesLimits(n, x)
               \/ UsageChanges(n, x) \/ SpendChanges(n, x) \/ UsersWriteWorkloads
        PROVE  UNCHANGED <<pc, run>>
    BY <2>1 DEF UserDeletesNamespace, UserLabelsNamespace, UserWritesQuota,
       UserWritesLimits, UsageChanges, SpendChanges, UsersWriteWorkloads
  <2>2. ASSUME NEW b, NEW s, CreateBN(b, s) \/ EditBN(b, s) \/ TouchBN(b) \/ DeleteBN(b)
        PROVE  \E o : UserWritesBN(b, o)
    BY <2>2 DEF CreateBN, EditBN, TouchBN, DeleteBN
  <2> QED
    BY <1>4, <2>1, <2>2 DEF OutsideStep
<1>5. CASE \/ Resync \/ Tick \/ UNCHANGED vars
           \/ \E n \in Namespaces : EmptyNamespace(n) \/ RemoveNamespace(n)
  BY <1>5 DEF Resync, Tick, EmptyNamespace, RemoveNamespace, vars
<1> QED
  BY <1>1, <1>2, <1>3, <1>4, <1>5 DEF Next

\* A write of a resource leaves a reconcile all but its opinion of its copy.
LEMMA OvertakenRun ==
  ASSUME TypeOK, NEW b, NEW o, UserWritesBN(b, o), run # None
  PROVE  /\ pc' = pc /\ run'.bn = run.bn /\ run'.copy = run.copy /\ run'.now = run.now
         /\ run'.quotaAtHardLimit = run.quotaAtHardLimit
         /\ run.bn # b => run' = run
         /\ run.bn = b => run'.stale
<1>1. run \in Runs
  BY ManagedType DEF TypeOK
<1> QED
  BY <1>1 DEF UserWritesBN, Runs

\* What the first steps of a reconcile change of it.
LEMMA EvaluatedRun ==
  ASSUME TypeOK, EvaluateSpend, ~ReturnsError
  PROVE  /\ run # None /\ SameCauses(run, run') /\ SameRecords(run, run')
         /\ run'.copy.status = resolveNamespaceSpendUSD(run.copy.spec, run.copy.status, run.now)
<1>1. run \in Runs /\ run # None
  BY ManagedType DEF TypeOK, EvaluateSpend, Reconciling
<1> DEFINE spec == run.copy.spec
           status == resolveNamespaceSpendUSD(spec, run.copy.status, run.now)
           amount == IF costBudgetEnabled(spec) THEN status.lastObservedSpendUSD ELSE 0
           cost == costBudgetEnabled(spec) /\ spendAtOrOverMax(amount, spec.cost.max)
<1>2. run' = [run EXCEPT !.copy.status = status, !.costSpend = amount,
                         !.costOverBudget = cost]
  BY DEF EvaluateSpend
<1> HIDE DEF status, amount, cost
<1>3. SameRecords(run, run') /\ run'.copy = [run.copy EXCEPT !.status = status]
  BY <1>1, <1>2 DEF Runs, SameRecords
<1>4. run.copy \in BudgetNamespaces
  BY <1>1 DEF Runs
<1>5. /\ run'.copy.spec = run.copy.spec /\ run'.copy.created = run.copy.created
      /\ run'.copy.status = status
  BY <1>3, <1>4 DEF BudgetNamespaces
<1> QED
  BY <1>1, <1>3, <1>5 DEF SameCauses, SameRecords, status

LEMMA RecoveringRun ==
  ASSUME TypeOK, Recover
  PROVE  run # None /\ run'.copy = run.copy /\ SameRecords(run, run')
<1>1. run \in Runs /\ run # None
  BY ManagedType DEF TypeOK, Recover, Reconciling
<1>2. PICK deferred : run' = [run EXCEPT !.recoveryDeferred = deferred]
  BY DEF Recover
<1> QED
  BY <1>1, <1>2 DEF Runs, SameRecords

\* The steps of a pass leave the reconcile where it is, or take it to the end.
LEMMA PassingRun ==
  ASSUME TypeOK,
         \/ StartPass \/ PassMovesOn \/ PassFails \/ PassReturns
         \/ \E w \in Workloads : PassPatches(w)
  PROVE  \/ run' = None
         \/ UNCHANGED <<pc, run>>
         \/ /\ run # None /\ pc' = "status" /\ run'.copy = run.copy
            /\ \/ SameRecords(run, run')
               \/ /\ run'.bn = run.bn /\ run'.stale = run.stale /\ run'.now = run.now
                  /\ run'.lastEnfAt = clock /\ run'.lastEnfOp = op /\ op # "none"
<1>1. CASE PassReturns
  <2>1. run \in Runs /\ run # None
    BY <1>1, PassHasRun DEF PassReturns, EndPass
  <2>2. run' = run \/ run' = [run EXCEPT !.lastEnfAt = clock, !.lastEnfOp = op]
    BY <1>1 DEF PassReturns
  <2>3. /\ run'.copy = run.copy
        /\ \/ SameRecords(run, run')
           \/ /\ run'.bn = run.bn /\ run'.stale = run.stale /\ run'.now = run.now
              /\ run'.lastEnfAt = clock /\ run'.lastEnfOp = op
    BY <2>1, <2>2 DEF Runs, SameRecords
  <2> QED
    BY <1>1, <2>1, <2>3 DEF PassReturns, EndPass, Continues
<1>2. CASE ~PassReturns
  BY <1>2 DEF StartPass, PassMovesOn, PassPatches, PassFails, ReturnsError, Returns
<1> QED
  BY <1>1, <1>2

-----------------------------------------------------------------------------
(* Every step of a reconcile has its cause.                                 *)

LEMMA WorkerKeepsCause ==
  ASSUME TypeOK, RunHasCause, WorkerStep
  PROVE  RunHasCause'
<1>1. CASE EnsureNamespace \/ ApplyQuota \/ ApplyLimitRange \/ DeleteNamespace
  <2>1. \/ run' = None
        \/ /\ UNCHANGED run
           /\ \/ pc' \in {"quota", "limits", "status"}
              \/ pc' = "evaluate" /\ shouldScaleDeploymentsToZero(run.copy.spec)
    BY <1>1 DEF EnsureNamespace, ApplyQuota, ApplyLimitRange, DeleteNamespace, Continues,
       ReturnsError, Returns
  <2> QED
    BY <2>1 DEF RunHasCause, Cause
<1>2. CASE EvaluateSpend
  <2>1. CASE ReturnsError
    BY <2>1 DEF ReturnsError, Returns, RunHasCause
  <2>2. CASE ~ReturnsError
    <3>1. /\ pc = "spend"
          /\ \/ pc' \in {"scale", "status"}
             \/ pc' = "recover" /\ run.copy.spec.restoreOnRecovery
      BY <1>2, <2>2 DEF EvaluateSpend, Continues
    <3>2. Cause(run, pc')
      BY <1>2, <2>2, <3>1, EvaluatedRun DEF RunHasCause, Cause
    <3> QED
      BY <1>2, <2>2, <3>2, EvaluatedRun, CauseCarries DEF RunHasCause
  <2> QED
    BY <2>1, <2>2
<1>3. CASE Recover
  <2>1. pc = "recover" /\ pc' \in {"restore", "status"}
    BY <1>3 DEF Recover, Continues
  <2>2. Cause(run, pc') /\ SameCauses(run, run')
    BY <1>3, <2>1, RecoveringRun DEF RunHasCause, Cause, SameCauses, SameRecords
  <2> QED
    BY <2>2, CauseCarries DEF RunHasCause
<1>4. CASE \/ StartPass \/ PassMovesOn \/ PassFails \/ PassReturns
           \/ \E w \in Workloads : PassPatches(w)
  BY <1>4, PassingRun DEF RunHasCause, Cause
<1>5. CASE UpdateStatus
  BY <1>5 DEF UpdateStatus, ReturnsError, Returns, RunHasCause
<1>6. CASE EvaluateQuota
  <2>1. CASE ReturnsError
    BY <2>1 DEF ReturnsError, Returns, RunHasCause
  <2>2. CASE ~ReturnsError
    <3>1. Cause(run, pc') /\ SameCauses(run, run')
      BY <1>6, <2>2, QuotaRun DEF RunHasCause, Cause, SameCauses
    <3> QED
      BY <3>1, CauseCarries DEF RunHasCause
  <2> QED
    BY <2>1, <2>2
<1> QED
  BY <1>1, <1>2, <1>3, <1>4, <1>5, <1>6 DEF WorkerStep

LEMMA NextCause ==
  ASSUME TypeOK, RunHasCause, [Next]_vars
  PROVE  RunHasCause'
<1>1. CASE WorkerStep
  BY <1>1, WorkerKeepsCause
<1>2. CASE run' = None \/ UNCHANGED <<pc, run>>
  BY <1>2 DEF RunHasCause
<1>3. ASSUME NEW b \in BNs, NEW d \in 0 .. ReadSkew, ReconcileStart(b, d)
      PROVE  RunHasCause'
  <2> DEFINE copy == bns[b].seen
  <2>1. run'.copy = copy /\ run'.now = clock /\ pc' = FirstStep(copy.spec, copy.created, clock)
    BY <1>3 DEF ReconcileStart
  <2> HIDE DEF copy
  <2>2. Cause(run', pc')
    BY <2>1 DEF Cause, FirstStep
  <2> QED
    BY <2>2 DEF RunHasCause
<1>4. ASSUME NEW b, NEW o, UserWritesBN(b, o) PROVE RunHasCause'
  <2>1. CASE run = None
    BY <1>4, <2>1 DEF UserWritesBN, RunHasCause
  <2>2. CASE run # None
    BY <1>4, <2>2, OvertakenRun, CauseCarries DEF RunHasCause, SameCauses
  <2> QED
    BY <2>1, <2>2
<1> QED
  BY <1>1, <1>2, <1>3, <1>4, AroundTheWorker

CauseInv == TypeOK /\ StatusInv /\ RecordInv /\ RunHasCause

LEMMA CauseInvariant == Spec => []CauseInv
<1>1. Init => RunHasCause
  BY DEF Init, RunHasCause
<1>2. TypeOK /\ RunHasCause /\ [Next]_vars => RunHasCause'
  BY NextCause
<1> QED
  BY <1>1, <1>2, RecordInvariant, PTL DEF Spec, CauseInv

-----------------------------------------------------------------------------
(* Restores.                                                                *)

\* Only StartPass begins a pass.
LEMMA PassBegins ==
  ASSUME TypeOK, [Next]_vars, op = "none", op' # "none"
  PROVE  StartPass
<1>1. [WSNext]_wsVars
  BY StepRefines
<1>2. CASE UNCHANGED wsVars
  BY <1>2 DEF wsVars
<1>3. ASSUME WorkerStep PROVE StartPass
  <2>1. CASE \/ EnsureNamespace \/ ApplyQuota \/ ApplyLimitRange
             \/ EvaluateQuota \/ EvaluateSpend \/ Recover \/ DeleteNamespace \/ UpdateStatus
    BY <2>1, WorkerOutsidePasses DEF wsVars
  <2>2. CASE \/ PassMovesOn \/ PassFails \/ PassReturns
             \/ \E w \in Workloads : PassPatches(w)
    BY <2>2 DEF PassMovesOn, NextKind, PassFails, AbortPass, PassReturns, EndPass,
       PassPatches, PatchWorkload
  <2> QED
    BY <1>3, <2>1, <2>2 DEF WorkerStep
<1>4. CASE \E b \in BNs : Dequeue(b)
  BY <1>4, WorkerOutsidePasses DEF wsVars
<1>5. CASE CallFails \/ Crash \/ Restart
  BY <1>5 DEF CallFails, Crash, Restart, PassStops, AbortPass, wsVars
<1>6. CASE CacheStep
  BY <1>6 DEF CacheStep, SyncBudgetNamespace, SyncResourceQuota, SyncNamespace,
     SyncLimitRange, SyncWorkloadCache, SyncWorkloads, wsVars
<1>7. CASE OutsideStep
  <2>1. CASE UsersWriteWorkloads
    BY <2>1 DEF UsersWriteWorkloads, UserStep, UserScale, UserCreate, UserAnnotate,
       UserLabel, UserDelete, UserWrite
  <2>2. CASE ~UsersWriteWorkloads
    BY <1>7, <2>2 DEF OutsideStep, CreateBN, EditBN, TouchBN, DeleteBN, UserWritesBN,
       UserDeletesNamespace, UserLabelsNamespace, UserWritesQuota, UserWritesLimits,
       UsageChanges, SpendChanges, wsVars
  <2> QED
    BY <2>1, <2>2
<1>8. CASE \/ Resync \/ Tick \/ UNCHANGED vars
           \/ \E n \in Namespaces : EmptyNamespace(n) \/ RemoveNamespace(n)
  BY <1>8 DEF Resync, Tick, EmptyNamespace, RemoveNamespace, PurgeWorkloads, vars, wsVars
<1> QED
  BY <1>3, <1>4, <1>5, <1>6, <1>7, <1>8 DEF Next

\* Later is late enough, too.
LEMMA CooldownStaysOver ==
  ASSUME NEW s \in Statuses, Dated(s), NEW spec \in BudgetNamespaceSpecs,
         ~Rejected(spec), spec.cooldown # Bad,
         NEW now \in Nat, CooldownOver(s, spec, now), NEW later \in Nat, now <= later
  PROVE  CooldownOver(s, spec, later)
<1> SUFFICES ASSUME s.lastEnforcementOperation = "ScaleToZero"
             PROVE  later >= s.lastEnforcementAt + enforcementCooldown(spec)
  BY DEF CooldownOver
<1>1. s.lastEnforcementAt \in Nat
  BY DEF Dated, Statuses, Times
<1>2. enforcementCooldown(spec) \in Int
  BY TimesAreIntegers
<1>3. now >= s.lastEnforcementAt + enforcementCooldown(spec)
  BY DEF CooldownOver
<1> QED
  BY <1>1, <1>2, <1>3

(***************************************************************************)
(* The restore itself is due (budgetnamespace_controller.go:342-365): when *)
(* it begins, the live resource asks for restores, and the cooldown of the *)
(* scale-to-zero that it records is over, unless the resource was written  *)
(* since the copy was read.  No assumption on the times is needed here.    *)
(***************************************************************************)
THEOREM RestoresAreDue == Spec => RestoreIsDue
<1> DEFINE Due ==
      op = "none" /\ op' = "Restore" /\ ~run.stale =>
        LET o == bns[run.bn].live IN
        /\ shouldScaleDeploymentsToZero(o.spec) /\ o.spec.restoreOnRecovery
        /\ scope' = o.spec.namespaceName
        /\ o.status.lastEnforcementOperation = "ScaleToZero" =>
             clock >= o.status.lastEnforcementAt + enforcementCooldown(o.spec)
<1>1. CauseInv /\ [Next]_vars => Due
  <2> SUFFICES ASSUME CauseInv, [Next]_vars,
                      op = "none", op' = "Restore", ~run.stale
               PROVE  LET o == bns[run.bn].live IN
                      /\ shouldScaleDeploymentsToZero(o.spec) /\ o.spec.restoreOnRecovery
                      /\ scope' = o.spec.namespaceName
                      /\ CooldownOver(o.status, o.spec, clock)
    BY DEF CooldownOver
  <2> DEFINE o == bns[run.bn].live
  <2>1. StartPass
    BY PassBegins DEF CauseInv
  <2>2. pc = "restore" /\ scope' = Managed
    BY <2>1 DEF StartPass, BeginPass, PassOp
  <2>3. run # None /\ run \in Runs /\ run.bn \in BNs /\ run.now \in Nat
    BY <2>2, RunTypes DEF CauseInv, TypeOK, Reconciling
  <2>4. o # None /\ o.spec = run.copy.spec /\ Dated(o.status)
    BY <2>3 DEF CauseInv, StatusInv, CopyIsLive, SameVersion, RecordInv, StatusesDated
  <2>5. o.status \in Statuses
    BY <2>3, <2>4, BnsStep DEF CauseInv, TypeOK, BudgetNamespaces
  <2>6. shouldScaleDeploymentsToZero(o.spec) /\ o.spec.restoreOnRecovery
    BY <2>2, <2>3, <2>4 DEF CauseInv, RunHasCause, Cause
  <2>7. /\ run.now <= clock /\ o.spec.cooldown # Bad
        /\ CooldownOver(o.status, o.spec, run.now)
    BY <2>2, <2>3, <2>4 DEF CauseInv, RecordInv, RunKnowsRecords, Known
  <2>8. o.spec \in BudgetNamespaceSpecs /\ ~Rejected(o.spec) /\ clock \in Nat
    BY <2>3, <2>4, RunTypes DEF CauseInv
  <2>9. CooldownOver(o.status, o.spec, clock)
    BY <2>3, <2>4, <2>5, <2>7, <2>8, CooldownStaysOver
  <2> QED
    BY <2>2, <2>4, <2>6, <2>9 DEF Managed
<1> HIDE DEF Due
<1>2. Spec => [][Due]_vars
  BY <1>1, CauseInvariant, PTL DEF Spec
<1> QED
  BY <1>2 DEF Due, RestoreIsDue

-----------------------------------------------------------------------------
(* Deletions.                                                               *)

\* A write that leaves the phase of a namespace alone, and a watch event.
LEMMA PhaseStays ==
  ASSUME ApiTypeOK, NEW m \in Namespaces, NEW n \in Namespaces, NEW o,
         NamespaceOpen(n) /\ n = m => o = None \/ o.phase = "active"
  PROVE  /\ ns' = [ns EXCEPT ![m] = Written(ns[m], o)] /\ NamespaceOpen(n) => ~Terminating(n)'
         /\ ns' = [ns EXCEPT ![m] = Synced(ns[m])] /\ NamespaceOpen(n) => ~Terminating(n)'
         /\ ns' = [k \in Namespaces |-> Synced(ns[k])] /\ NamespaceOpen(n) => ~Terminating(n)'
         /\ UNCHANGED ns /\ NamespaceOpen(n) => ~Terminating(n)'
<1>1. ns \in [Namespaces -> Views(NamespaceObjects \cup {None})]
  BY DEF ApiTypeOK
<1>2. Synced(ns[m]).live = ns[m].live /\ Written(ns[m], o).live = o
  BY <1>1 DEF Synced, InSync, Written, Views
<1>3. \A k \in Namespaces : Synced(ns[k]).live = ns[k].live
  BY <1>1 DEF Synced, InSync, Views
<1> HIDE DEF Synced, Written
<1> QED
  BY <1>1, <1>2, <1>3 DEF NamespaceOpen, Terminating

\* The namespace that a step begins to terminate is deleted by a user or, on
\* behalf of a resource, by the operator.
LEMMA Terminates ==
  ASSUME TypeOK, [Next]_vars, NEW n \in Namespaces, NamespaceOpen(n), Terminating(n)'
  PROVE  \/ UserDeletesNamespace(n)
         \/ DeleteNamespace /\ Managed = n
<1>1. ApiTypeOK /\ ns \in [Namespaces -> Views(NamespaceObjects \cup {None})]
  BY DEF TypeOK, ApiTypeOK
<1>2. ~UNCHANGED ns
  BY DEF NamespaceOpen, Terminating
<1>3. CASE EnsureNamespace
  <2>1. run # None /\ Managed \in Namespaces
    BY <1>3, ManagedType DEF EnsureNamespace, TypeOK, Reconciling
  <2>2. PICK o : ns' = [ns EXCEPT ![Managed] = Written(ns[Managed], o)]
                 /\ (ns[Managed].live # None => o.phase = ns[Managed].live.phase)
    <3>1. CASE ns[Managed].seen = None /\ ns[Managed].live = None
      BY <1>2, <1>3, <3>1 DEF EnsureNamespace
    <3>2. CASE ~(ns[Managed].seen = None /\ ns[Managed].live = None)
      <4>1. ns[Managed].live # None
        BY <1>2, <1>3, <3>2 DEF EnsureNamespace
      <4>2. ns[Managed].live \in NamespaceObjects
        BY <1>1, <2>1, <4>1, NsStep
      <4>3. PICK l : ns' = [ns EXCEPT ![Managed] =
                              Written(ns[Managed], [ns[Managed].live EXCEPT !.labels = l])]
        BY <1>2, <1>3, <3>2 DEF EnsureNamespace
      <4>4. [ns[Managed].live EXCEPT !.labels = l].phase = ns[Managed].live.phase
        BY <4>2 DEF NamespaceObjects
      <4> QED
        BY <4>3, <4>4
    <3> QED
      BY <3>1, <3>2
  <2> QED
    BY <1>1, <2>1, <2>2, PhaseStays DEF NamespaceOpen
<1>4. CASE DeleteNamespace
  <2>1. run # None /\ Managed \in Namespaces
    BY <1>4, ManagedType DEF DeleteNamespace, TypeOK, Reconciling
  <2>2. ns' = [ns EXCEPT ![Managed] = Terminated(ns[Managed])]
    BY <1>2, <1>4 DEF DeleteNamespace
  <2>3. Managed # n => ns'[n] = ns[n]
    BY <1>1, <2>1, <2>2
  <2> QED
    BY <1>4, <2>3 DEF NamespaceOpen, Terminating
<1>5. ASSUME NEW m \in Namespaces, UserDeletesNamespace(m) PROVE UserDeletesNamespace(n)
  <2>1. m # n => ns'[n] = ns[n]
    BY <1>1, <1>5 DEF UserDeletesNamespace
  <2> QED
    BY <1>5, <2>1 DEF NamespaceOpen, Terminating
<1>6. ASSUME NEW m \in Namespaces, NEW l, UserLabelsNamespace(m, l) PROVE FALSE
  <2>1. ns[m].live \in NamespaceObjects
    BY <1>1, <1>6, NsStep DEF UserLabelsNamespace
  <2>2. [ns[m].live EXCEPT !.labels = l].phase = ns[m].live.phase
    BY <2>1 DEF NamespaceObjects
  <2> QED
    BY <1>1, <1>6, <2>2, PhaseStays DEF UserLabelsNamespace, NamespaceOpen
<1>7. ASSUME NEW m \in Namespaces, RemoveNamespace(m) PROVE FALSE
  BY <1>1, <1>7, PhaseStays DEF RemoveNamespace
<1>8. ASSUME NEW m \in Namespaces, SyncNamespace(m) PROVE FALSE
  BY <1>1, <1>8, PhaseStays DEF SyncNamespace, NamespaceOpen
<1>9. CASE Restart
  BY <1>1, <1>9, PhaseStays DEF Restart, NamespaceOpen
<1>10. WorkerStep => EnsureNamespace \/ DeleteNamespace
  BY <1>2 DEF WorkerStep, ApplyQuota, ApplyLimitRange, EvaluateQuota, EvaluateSpend,
     Recover, StartPass, PassPatches, PassMovesOn, PassFails, PassReturns, UpdateStatus, apiVars
<1>11. CacheStep => \E m \in Namespaces : SyncNamespace(m)
  BY <1>2 DEF CacheStep, SyncBudgetNamespace, SyncResourceQuota, SyncLimitRange,
     SyncWorkloadCache, apiVars
<1>12. OutsideStep => \E m \in Namespaces :
                        UserDeletesNamespace(m) \/ \E l : UserLabelsNamespace(m, l)
  BY <1>2 DEF OutsideStep, CreateBN, EditBN, TouchBN, DeleteBN, UserWritesBN,
     UserWritesQuota, UserWritesLimits, UsageChanges, SpendChanges, UsersWriteWorkloads,
     apiVars
<1>13. \/ WorkerStep \/ Restart \/ CacheStep \/ OutsideStep
       \/ \E m \in Namespaces : RemoveNamespace(m)
  BY <1>2 DEF Next, Dequeue, ReconcileNotFound, ReconcileRejected, ReconcileStart,
     CallFails, Crash, Resync, EmptyNamespace, Tick, vars, apiVars
<1> QED
  BY <1>3, <1>4, <1>5, <1>6, <1>7, <1>8, <1>9, <1>10, <1>11, <1>12, <1>13

\* A TTL that was over is over.
LEMMA DeletingStays ==
  ASSUME NEW spec \in BudgetNamespaceSpecs, spec.ttl # Bad, NEW created \in Nat,
         NEW now \in Nat, Deleting(spec, created, now), NEW later \in Nat, now <= later
  PROVE  Deleting(spec, created, later)
<1>1. spec.ttl \in Int
  BY DEF BudgetNamespaceSpecs, Durations, Deleting
<1> QED
  BY <1>1, RulesAssumption DEF Deleting, Expiry

(***************************************************************************)
(* A namespace is deleted only when it is due                              *)
(* (budgetnamespace_controller.go:136-158, 389-400): on behalf of a live   *)
(* resource that names it and whose TTL and grace period are over, unless  *)
(* the resource was written since the copy was read.                       *)
(***************************************************************************)
THEOREM DeletionsAreDue == Spec => DeletionIsDue
<1> DEFINE Due ==
      \A n \in Namespaces :
        /\ NamespaceOpen(n) /\ Terminating(n)'
        /\ left'["namespace"] = left["namespace"]
        => run # None /\ (run.stale \/ (run.bn \in Naming(n) /\ TTLOver(run.bn)))
<1>1. CauseInv /\ [Next]_vars => Due
  <2> SUFFICES ASSUME CauseInv, [Next]_vars, NEW n \in Namespaces,
                      NamespaceOpen(n), Terminating(n)',
                      left'["namespace"] = left["namespace"]
               PROVE  run # None /\ (run.stale \/ (run.bn \in Naming(n) /\ TTLOver(run.bn)))
    OBVIOUS
  <2>1. ~UserDeletesNamespace(n)
    <3>1. left \in [EnvActKinds -> Nat]
      BY DEF CauseInv, TypeOK, OutsideTypeOK
    <3>2. "namespace" \in EnvActKinds
      BY DEF EnvActKinds
    <3> QED
      BY <3>1, <3>2 DEF UserDeletesNamespace, Happens
  <2>2. DeleteNamespace /\ Managed = n
    BY <2>1, Terminates DEF CauseInv
  <2>3. pc = "delete" /\ run # None /\ run \in Runs /\ run.bn \in BNs
    BY <2>2, RunTypes DEF DeleteNamespace, CauseInv, TypeOK, Reconciling
  <2>4. ASSUME ~run.stale PROVE run.bn \in Naming(n) /\ TTLOver(run.bn)
    <3> DEFINE o == bns[run.bn].live
    <3>1. o # None /\ o.spec = run.copy.spec /\ o.created = run.copy.created
      BY <2>3, <2>4 DEF CauseInv, StatusInv, CopyIsLive, SameVersion
    <3>2. /\ o.spec \in BudgetNamespaceSpecs /\ o.spec.ttl # Bad /\ o.created \in Nat
          /\ run.now \in Nat /\ clock \in Nat
      BY <2>3, <3>1, RunTypes DEF CauseInv
    <3>3. Deleting(o.spec, o.created, run.now) /\ run.now <= clock
      BY <2>3, <3>1 DEF CauseInv, RunHasCause, Cause, RecordInv, RunKnowsRecords
    <3>4. Deleting(o.spec, o.created, clock)
      BY <3>2, <3>3, DeletingStays
    <3> QED
      BY <2>2, <2>3, <3>1, <3>2, <3>4 DEF Naming, TTLOver, Managed
  <2> QED
    BY <2>3, <2>4
<1> HIDE DEF Due
<1>2. Spec => [][Due]_vars
  BY <1>1, CauseInvariant, PTL DEF Spec
<1> QED
  BY <1>2 DEF Due, DeletionIsDue

-----------------------------------------------------------------------------
(* Scale-downs.                                                             *)

\* What is written to the resources: a status by the worker, the rest by users.
LEMMA ResourceSteps ==
  ASSUME TypeOK, [Next]_vars
  PROVE  \/ UpdateStatus
         \/ \E b \in BNs : \/ \E s \in Specs : CreateBN(b, s) \/ EditBN(b, s)
                           \/ TouchBN(b) \/ DeleteBN(b)
         \/ \A b \in BNs : bns'[b].live = bns[b].live
<1>1. ASSUME NEW b \in BNs, SyncBudgetNamespace(b)
      PROVE  \A a \in BNs : bns'[a].live = bns[a].live
  BY <1>1, WrittenViews DEF SyncBudgetNamespace, TypeOK, ApiTypeOK
<1>2. CASE Restart
  BY <1>2, WrittenViews DEF Restart, TypeOK
<1>3. CASE UNCHANGED bns
  BY <1>3
<1>4. WorkerStep => UpdateStatus \/ UNCHANGED bns
  BY DEF WorkerStep, EnsureNamespace, ApplyQuota, ApplyLimitRange, EvaluateQuota,
     EvaluateSpend, Recover, StartPass, PassPatches, PassMovesOn, PassFails, PassReturns,
     DeleteNamespace, apiVars
<1>5. CacheStep => UNCHANGED bns \/ \E b \in BNs : SyncBudgetNamespace(b)
  BY DEF CacheStep, SyncResourceQuota, SyncNamespace, SyncLimitRange, SyncWorkloadCache,
     apiVars
<1>6. OutsideStep => \/ UNCHANGED bns
                     \/ \E b \in BNs : \/ \E s \in Specs : CreateBN(b, s) \/ EditBN(b, s)
                                       \/ TouchBN(b) \/ DeleteBN(b)
  BY DEF OutsideStep, UserDeletesNamespace, UserLabelsNamespace, UserWritesQuota,
     UserWritesLimits, UsageChanges, SpendChanges, UsersWriteWorkloads, apiVars
<1>7. \/ WorkerStep \/ CacheStep \/ OutsideStep \/ Restart \/ UNCHANGED bns
  BY DEF Next, Dequeue, ReconcileNotFound, ReconcileRejected, ReconcileStart, CallFails,
     Crash, Resync, EmptyNamespace, RemoveNamespace, Tick, vars, apiVars
<1> QED
  BY <1>1, <1>2, <1>3, <1>4, <1>5, <1>6, <1>7

LEMMA SeenSteps ==
  ASSUME NEW S, NEW K, NEW f \in [K -> Views(S)], NEW g,
         \/ g = f
         \/ \E k \in K : \E o : g = [f EXCEPT ![k] = Written(f[k], o)]
         \/ \E k \in K : g = [f EXCEPT ![k] = Synced(f[k])]
         \/ g = [k \in K |-> Synced(f[k])]
  PROVE  \A j \in K : g[j].seen \in {f[j].seen, f[j].live}
<1>1. \A k \in K : \A o : Written(f[k], o).seen = f[k].seen /\ Synced(f[k]).seen = f[k].live
  BY DEF Views, Written, Synced, InSync
<1>2. CASE g = f
  BY <1>2
<1>3. ASSUME NEW k \in K, NEW o, g = [f EXCEPT ![k] = Written(f[k], o)]
      PROVE  \A j \in K : g[j].seen \in {f[j].seen, f[j].live}
  <2> DEFINE v == Written(f[k], o)
  <2>1. v.seen = f[k].seen
    BY <1>1
  <2> HIDE DEF v
  <2>2. \A j \in K : g[j] = IF j = k THEN v ELSE f[j]
    BY <1>3 DEF v
  <2> QED
    BY <2>1, <2>2
<1>4. ASSUME NEW k \in K, g = [f EXCEPT ![k] = Synced(f[k])]
      PROVE  \A j \in K : g[j].seen \in {f[j].seen, f[j].live}
  <2> DEFINE v == Synced(f[k])
  <2>1. v.seen = f[k].live
    BY <1>1
  <2> HIDE DEF v
  <2>2. \A j \in K : g[j] = IF j = k THEN v ELSE f[j]
    BY <1>4 DEF v
  <2> QED
    BY <2>1, <2>2
<1>5. CASE g = [k \in K |-> Synced(f[k])]
  BY <1>1, <1>5
<1> QED
  BY <1>2, <1>3, <1>4, <1>5

\* The cache only ever takes over the live object.
LEMMA CacheSteps ==
  ASSUME TypeOK, [Next]_vars
  PROVE  /\ \A b \in BNs : bns'[b].seen \in {bns[b].seen, bns[b].live}
         /\ \A n \in Namespaces : rq'[n].seen \in {rq[n].seen, rq[n].live}
<1>1. /\ bns \in [BNs -> Views(BudgetNamespaces \cup {None})]
      /\ rq \in [Namespaces -> Views(ResourceQuotas \cup {None})]
  BY DEF TypeOK, ApiTypeOK
<1> DEFINE Bns == \A b \in BNs : bns'[b].seen \in {bns[b].seen, bns[b].live}
           Rq == \A n \in Namespaces : rq'[n].seen \in {rq[n].seen, rq[n].live}
<1>2. \/ UNCHANGED bns
      \/ \E b \in BNs : \E o : bns' = [bns EXCEPT ![b] = Written(bns[b], o)]
      \/ \E b \in BNs : bns' = [bns EXCEPT ![b] = Synced(bns[b])]
      \/ bns' = [b \in BNs |-> Synced(bns[b])]
  <2>1. UpdateStatus => \/ UNCHANGED bns
                        \/ \E b \in BNs : \E o : bns' = [bns EXCEPT ![b] = Written(bns[b], o)]
    <3>1. pc = "status" => run.bn \in BNs
      BY RunTypes DEF TypeOK, Reconciling
    <3> QED
      BY <3>1 DEF UpdateStatus
  <2>2. WorkerStep => UpdateStatus \/ UNCHANGED bns
    BY DEF WorkerStep, EnsureNamespace, ApplyQuota, ApplyLimitRange, EvaluateQuota,
       EvaluateSpend, Recover, StartPass, PassPatches, PassMovesOn, PassFails, PassReturns,
       DeleteNamespace, apiVars
  <2>3. CacheStep => \/ UNCHANGED bns
                     \/ \E b \in BNs : bns' = [bns EXCEPT ![b] = Synced(bns[b])]
    BY DEF CacheStep, SyncBudgetNamespace, SyncResourceQuota, SyncNamespace,
       SyncLimitRange, SyncWorkloadCache, apiVars
  <2>4. OutsideStep => \/ UNCHANGED bns
                       \/ \E b \in BNs : \E o : bns' = [bns EXCEPT ![b] = Written(bns[b], o)]
    BY DEF OutsideStep, CreateBN, EditBN, TouchBN, DeleteBN, UserWritesBN,
       UserDeletesNamespace, UserLabelsNamespace, UserWritesQuota, UserWritesLimits,
       UsageChanges, SpendChanges, UsersWriteWorkloads, apiVars
  <2>5. Restart => bns' = [b \in BNs |-> Synced(bns[b])]
    BY DEF Restart
  <2>6. \/ WorkerStep \/ CacheStep \/ OutsideStep \/ Restart \/ UNCHANGED bns
    BY DEF Next, Dequeue, ReconcileNotFound, ReconcileRejected, ReconcileStart, CallFails,
       Crash, Resync, EmptyNamespace, RemoveNamespace, Tick, vars, apiVars
  <2> QED
    BY <2>1, <2>2, <2>3, <2>4, <2>5, <2>6
<1>3. Bns
  BY <1>1, <1>2, SeenSteps
<1>4. \/ UNCHANGED rq
      \/ \E n \in Namespaces : \E o : rq' = [rq EXCEPT ![n] = Written(rq[n], o)]
      \/ \E n \in Namespaces : rq' = [rq EXCEPT ![n] = Synced(rq[n])]
      \/ rq' = [n \in Namespaces |-> Synced(rq[n])]
  <2>1. ApplyQuota => \/ UNCHANGED rq
                      \/ \E n \in Namespaces : \E o : rq' = [rq EXCEPT ![n] = Written(rq[n], o)]
    <3>1. pc = "quota" => Managed \in Namespaces
      BY RunTypes DEF TypeOK, Reconciling
    <3>2. ApplyQuota => \/ UNCHANGED rq
                        \/ rq' = [rq EXCEPT ![Managed] = rq[Managed]]
                        \/ \E o : rq' = [rq EXCEPT ![Managed] = Written(rq[Managed], o)]
      BY DEF ApplyQuota, Applied
    <3>3. Managed \in Namespaces => [rq EXCEPT ![Managed] = rq[Managed]] = rq
      BY <1>1
    <3> QED
      BY <3>1, <3>2, <3>3 DEF ApplyQuota
  <2>2. WorkerStep => ApplyQuota \/ UNCHANGED rq
    BY DEF WorkerStep, EnsureNamespace, ApplyLimitRange, EvaluateQuota, EvaluateSpend,
       Recover, UpdateStatus, StartPass, PassPatches, PassMovesOn, PassFails, PassReturns, DeleteNamespace, apiVars
  <2>3. CacheStep => \/ UNCHANGED rq
                     \/ \E n \in Namespaces : rq' = [rq EXCEPT ![n] = Synced(rq[n])]
    BY DEF CacheStep, SyncBudgetNamespace, SyncResourceQuota, SyncNamespace,
       SyncLimitRange, SyncWorkloadCache, apiVars
  <2>4. OutsideStep => \/ UNCHANGED rq
                       \/ \E n \in Namespaces : \E o :
                            rq' = [rq EXCEPT ![n] = Written(rq[n], o)]
    BY DEF OutsideStep, CreateBN, EditBN, TouchBN, DeleteBN, UserWritesBN,
       UserDeletesNamespace, UserLabelsNamespace, UserWritesQuota, UserWritesLimits,
       UsageChanges, SpendChanges, UsersWriteWorkloads, apiVars
  <2>5. ASSUME NEW n \in Namespaces, EmptyNamespace(n)
        PROVE  UNCHANGED rq \/ rq' = [rq EXCEPT ![n] = Written(rq[n], None)]
    BY <1>1, <2>5 DEF EmptyNamespace
  <2>6. Restart => rq' = [n \in Namespaces |-> Synced(rq[n])]
    BY DEF Restart
  <2>7. \/ WorkerStep \/ CacheStep \/ OutsideStep \/ Restart \/ UNCHANGED rq
        \/ \E n \in Namespaces : EmptyNamespace(n)
    BY DEF Next, Dequeue, ReconcileNotFound, ReconcileRejected, ReconcileStart, CallFails,
       Crash, Resync, RemoveNamespace, Tick, vars, apiVars
  <2> QED
    BY <2>1, <2>2, <2>3, <2>4, <2>5, <2>6, <2>7
<1>5. Rq
  BY <1>1, <1>4, SeenSteps
<1> QED
  BY <1>3, <1>5

\* No spec for namespace n takes this amount for too much.
CalmAmount(n, amount) ==
  \A s \in Specs :
    s.namespaceName = n /\ ~Rejected(s) /\ costBudgetEnabled(s) =>
      ~spendAtOrOverMax(amount, s.cost.max)

Harmless(n, status) ==
  status.lastObservedSpendUSD # None => CalmAmount(n, status.lastObservedSpendUSD)

\* While n is calm no copy of its quota, no recorded amount and no reconcile
\* holds a reason to scale it down.
CalmInv(n) ==
  /\ rq[n].seen # None => ~quotaUsedAtOrOverHard(rq[n].seen)
  /\ \A b \in BNs : /\ bns[b].live # None => Harmless(n, bns[b].live.status)
                    /\ bns[b].seen # None => Harmless(n, bns[b].seen.status)
  /\ run # None => /\ Harmless(n, run.copy.status)
                   /\ Managed = n => pc \notin {"scale", "grace"}
                   /\ Managed = n /\ pc = "spend" => ~run.quotaAtHardLimit

LEMMA HarmlessAsBefore ==
  ASSUME NEW n, NEW old, NEW new, Harmless(n, old),
         new.lastObservedSpendUSD = old.lastObservedSpendUSD
  PROVE  Harmless(n, new)
  BY DEF Harmless

\* No resource gets an amount that its reconcile did not have.
LEMMA ResourcesStayHarmless ==
  ASSUME TypeOK, NEW n \in Namespaces, CalmInv(n), [Next]_vars, NEW b \in BNs,
         bns'[b].live # None
  PROVE  Harmless(n, bns'[b].live.status)
<1>1. Harmless(n, NoStatus)
  BY DEF Harmless, NoStatus
<1>2. CASE \A a \in BNs : bns'[a].live = bns[a].live
  BY <1>2 DEF CalmInv
<1>3. CASE UpdateStatus
  <2>1. run # None /\ run.bn \in BNs
    BY <1>3, RunTypes DEF UpdateStatus, TypeOK, Reconciling
  <2> DEFINE o == bns[run.bn].live
             new == [o EXCEPT !.status = NewStatus(run.copy, run)]
  <2>2. \/ UNCHANGED bns
        \/ o # None /\ bns' = [bns EXCEPT ![run.bn] = Written(bns[run.bn], new)]
    BY <1>3 DEF UpdateStatus, StatusUpdateRefused
  <2>3. CASE UNCHANGED bns
    BY <2>3 DEF CalmInv
  <2>4. CASE o # None /\ bns' = [bns EXCEPT ![run.bn] = Written(bns[run.bn], new)]
    <3>1. o \in BudgetNamespaces
      BY <2>1, <2>4, BnsStep DEF TypeOK
    <3>2. new.status = NewStatus(run.copy, run)
      BY <3>1 DEF BudgetNamespaces
    <3>3. new.status.lastObservedSpendUSD = run.copy.status.lastObservedSpendUSD
      BY <3>2 DEF NewStatus
    <3> HIDE DEF new
    <3>4. Harmless(n, new.status)
      BY <2>1, <3>3, HarmlessAsBefore DEF CalmInv
    <3>5. ApiTypeOK
      BY DEF TypeOK
    <3>6. [bns EXCEPT ![run.bn] = Written(bns[run.bn], new)][b].live =
            IF b = run.bn THEN new ELSE bns[b].live
      BY <2>1, <3>5, WrittenViews
    <3> QED
      BY <2>4, <3>4, <3>6 DEF CalmInv
  <2> QED
    BY <2>2, <2>3, <2>4
<1>4. ASSUME NEW a \in BNs, NEW o, UserWritesBN(a, o),
             o # None => Harmless(n, o.status)
      PROVE  Harmless(n, bns'[b].live.status)
  <2>1. bns'[b].live = IF b = a THEN o ELSE bns[b].live
    BY <1>4, WrittenViews DEF UserWritesBN, TypeOK
  <2> QED
    BY <1>4, <2>1 DEF CalmInv
<1>5. ASSUME NEW a \in BNs, NEW s \in Specs, CreateBN(a, s)
      PROVE  Harmless(n, bns'[b].live.status)
  BY <1>1, <1>4, <1>5 DEF CreateBN
<1>6. ASSUME NEW a \in BNs, NEW s \in Specs, EditBN(a, s)
      PROVE  Harmless(n, bns'[b].live.status)
  <2>1. bns[a].live \in BudgetNamespaces /\ Harmless(n, bns[a].live.status)
    BY <1>6, BnsStep DEF EditBN, TypeOK, CalmInv
  <2>2. [bns[a].live EXCEPT !.spec = s, !.generation = @ + 1].status = bns[a].live.status
    BY <2>1 DEF BudgetNamespaces
  <2> QED
    BY <1>4, <1>6, <2>1, <2>2 DEF EditBN
<1>7. ASSUME NEW a \in BNs, TouchBN(a) \/ DeleteBN(a)
      PROVE  Harmless(n, bns'[b].live.status)
  BY <1>4, <1>7 DEF TouchBN, DeleteBN, CalmInv
<1> QED
  BY <1>2, <1>3, <1>5, <1>6, <1>7, ResourceSteps

\* A budget that is calm evaluates to no breach.
LEMMA CalmEvaluation ==
  ASSUME TypeOK, NEW n \in Namespaces, Calm(n), CalmInv(n), EvaluateSpend, ~ReturnsError
  PROVE  Harmless(n, run'.copy.status) /\ (Managed' = n => pc' # "scale")
<1> DEFINE spec == run.copy.spec
           old == run.copy.status
           status == resolveNamespaceSpendUSD(spec, old, run.now)
           amount == IF costBudgetEnabled(spec) THEN status.lastObservedSpendUSD ELSE 0
<1>1. /\ run # None /\ run'.copy.status = status /\ run'.copy.spec = spec
  BY EvaluatedRun DEF SameCauses
<1>2. /\ spec \in Specs /\ ~Rejected(spec) /\ old \in Statuses /\ Managed \in Namespaces
      /\ Harmless(n, old)
  BY <1>1, RunTypes DEF CalmInv
<1>3. \A m \in Namespaces : spend[m] # None /\ CalmAmount(n, spend[m])
  <2>1. \A m \in Namespaces : spend[m] # None
    BY ReconcilerAssumption, RulesAssumption DEF TypeOK, OutsideTypeOK
  <2> QED
    BY <2>1 DEF Calm, CalmAmount
<1>4. IF QueriesSpend(spec, old, run.now)
      THEN status.lastObservedSpendUSD = spend[Managed]
      ELSE status = old
  BY <1>2 DEF resolveNamespaceSpendUSD, Statuses, NamespaceSpendUSD, Managed
<1> HIDE DEF status
<1>5. Harmless(n, status)
  BY <1>2, <1>3, <1>4 DEF Harmless
<1>6. ASSUME Managed = n PROVE pc' # "scale"
  <2>1. ~run.quotaAtHardLimit
    BY <1>1, <1>6 DEF EvaluateSpend, CalmInv
  <2>2. ~(costBudgetEnabled(spec) /\ spendAtOrOverMax(amount, spec.cost.max))
    <3> SUFFICES ASSUME costBudgetEnabled(spec)
                 PROVE  ~spendAtOrOverMax(status.lastObservedSpendUSD, spec.cost.max)
      OBVIOUS
    <3>1. status.lastObservedSpendUSD # None
      BY <1>2, <1>3, <1>4 DEF QueriesSpend, Throttled
    <3> QED
      BY <1>2, <1>5, <1>6, <3>1 DEF Harmless, CalmAmount, Managed
  <2> DEFINE overCost == costBudgetEnabled(spec) /\ spendAtOrOverMax(amount, spec.cost.max)
  <2>3. Continues(IF run.quotaAtHardLimit \/ overCost THEN "scale"
                  ELSE IF spec.restoreOnRecovery THEN "recover" ELSE "status")
    BY DEF EvaluateSpend, status
  <2> QED
    BY <2>1, <2>2, <2>3 DEF Continues
<1> QED
  BY <1>1, <1>5, <1>6 DEF Managed

LEMMA CalmRun ==
  ASSUME TypeOK, NEW n \in Namespaces, Calm(n), CalmInv(n), [Next]_vars, run' # None
  PROVE  /\ Harmless(n, run'.copy.status)
         /\ Managed' = n => pc' \notin {"scale", "grace"}
         /\ Managed' = n /\ pc' = "spend" => ~run'.quotaAtHardLimit
<1>1. CASE UNCHANGED <<pc, run>>
  BY <1>1 DEF CalmInv, Managed
<1>2. ASSUME NEW b \in BNs, NEW d \in 0 .. ReadSkew, ReconcileStart(b, d)
      PROVE  /\ Harmless(n, run'.copy.status)
             /\ Managed' = n => pc' \notin {"scale", "grace"}
             /\ Managed' = n /\ pc' = "spend" => ~run'.quotaAtHardLimit
  <2> DEFINE copy == bns[b].seen
  <2>1. /\ copy # None /\ ~Rejected(copy.spec) /\ run'.copy = copy
        /\ pc' = FirstStep(copy.spec, copy.created, clock)
    BY <1>2 DEF ReconcileStart
  <2>2. copy \in BudgetNamespaces
    BY <2>1, BnsStep DEF TypeOK
  <2>3. Harmless(n, copy.status)
    BY <2>1 DEF CalmInv
  <2>4. copy.spec \in Specs /\ copy.spec \in BudgetNamespaceSpecs /\ copy.created \in Nat
    BY <2>2, ReconcilerAssumption DEF BudgetNamespaces
  <2> HIDE DEF copy
  <2>5. copy.spec.ttl # None => copy.spec.ttl \in Int
    BY <2>1, <2>4 DEF BudgetNamespaceSpecs, Durations, Rejected
  <2>6. clock \in Nat
    BY ReconcilerAssumption DEF TypeOK, OutsideTypeOK
  <2>7. ASSUME copy.spec.namespaceName = n PROVE ~Expired(copy.spec, copy.created, clock)
    <3>1. copy.spec.ttl # None => clock < copy.spec.ttl
      BY <2>1, <2>4, <2>7 DEF Calm
    <3> QED
      BY <2>4, <2>5, <2>6, <3>1 DEF Expired, Expiry
  <2>8. ASSUME copy.spec.namespaceName = n PROVE pc' = "namespace"
    <3>1. copy.spec.ttl # Bad
      BY <2>1 DEF Rejected
    <3>2. ~Deleting(copy.spec, copy.created, clock)
      BY <2>4, <2>6, <2>7, <2>8, <3>1, DeletingIsExpired
    <3> QED
      BY <2>1, <2>7, <2>8, <3>2 DEF FirstStep
  <2> QED
    BY <2>1, <2>3, <2>8 DEF Managed
<1>3. ASSUME NEW b, NEW o, UserWritesBN(b, o)
      PROVE  /\ Harmless(n, run'.copy.status)
             /\ Managed' = n => pc' \notin {"scale", "grace"}
             /\ Managed' = n /\ pc' = "spend" => ~run'.quotaAtHardLimit
  <2>1. run # None
    BY <1>3 DEF UserWritesBN
  <2> QED
    BY <1>3, <2>1, OvertakenRun DEF CalmInv, Managed
<1>4. CASE EnsureNamespace \/ ApplyQuota \/ ApplyLimitRange \/ DeleteNamespace
  <2>1. UNCHANGED run /\ pc' \in {"quota", "limits", "evaluate", "status"}
    BY <1>4 DEF EnsureNamespace, ApplyQuota, ApplyLimitRange, DeleteNamespace, Continues,
       ReturnsError, Returns
  <2> QED
    BY <2>1 DEF CalmInv
<1>5. CASE EvaluateSpend
  <2>1. ~ReturnsError
    BY DEF ReturnsError, Returns
  <2>2. pc' \in {"scale", "recover", "status"}
    BY <1>5, <2>1 DEF EvaluateSpend, Continues
  <2> QED
    BY <1>5, <2>1, <2>2, CalmEvaluation
<1>6. CASE Recover
  <2>1. pc' \in {"restore", "status"}
    BY <1>6 DEF Recover, Continues
  <2> QED
    BY <1>6, <2>1, RecoveringRun DEF CalmInv
<1>7. CASE \/ StartPass \/ PassMovesOn \/ PassFails \/ PassReturns
           \/ \E w \in Workloads : PassPatches(w)
  <2>1. CASE run # None /\ pc' = "status" /\ run'.copy = run.copy
    BY <2>1 DEF CalmInv
  <2> QED
    BY <1>1, <1>7, <2>1, PassingRun
<1>8. CASE UpdateStatus
  BY <1>8 DEF UpdateStatus, ReturnsError, Returns
<1>9. CASE ~WorkerStep
  BY <1>1, <1>2, <1>3, <1>9, AroundTheWorker
<1>10. CASE EvaluateQuota
  <2>1. ~ReturnsError
    BY DEF ReturnsError, Returns
  <2>2. /\ run # None /\ run'.copy = run.copy /\ pc' = "spend"
        /\ run'.quotaAtHardLimit = quotaUsedAtOrOverHard(rq[Managed].seen)
    BY <1>10, <2>1, QuotaRun
  <2>3. rq[Managed].seen # None
    BY <1>10, <2>1 DEF EvaluateQuota
  <2> QED
    BY <2>2, <2>3 DEF CalmInv, Managed
<1> QED
  BY <1>4, <1>5, <1>6, <1>7, <1>8, <1>9, <1>10 DEF WorkerStep

LEMMA NextCalmInv ==
  ASSUME TypeOK, NEW n \in Namespaces, Calm(n), CalmInv(n), [Next]_vars
  PROVE  CalmInv(n)'
<1>1. rq'[n].seen # None => ~quotaUsedAtOrOverHard(rq'[n].seen)
  BY CacheSteps DEF CalmInv, Calm
<1>2. ASSUME NEW b \in BNs
      PROVE  /\ bns'[b].live # None => Harmless(n, bns'[b].live.status)
             /\ bns'[b].seen # None => Harmless(n, bns'[b].seen.status)
  <2>1. bns'[b].seen \in {bns[b].seen, bns[b].live}
    BY CacheSteps
  <2> QED
    BY <2>1, ResourcesStayHarmless DEF CalmInv
<1> QED
  BY <1>1, <1>2, CalmRun DEF CalmInv

LEMMA InitCalmInv ==
  ASSUME Init, NEW n \in Namespaces
  PROVE  CalmInv(n)
<1>1. Harmless(n, NoStatus)
  BY DEF Harmless, NoStatus
<1>2. ASSUME NEW b \in BNs
      PROVE  Harmless(n, bns[b].live.status) /\ Harmless(n, bns[b].seen.status)
  <2>1. PICK s \in Specs : bns[b] = InSync([created |-> 0, generation |-> 1, spec |-> s,
                                            status |-> NoStatus])
    BY DEF Init
  <2>2. bns[b].live.status = NoStatus /\ bns[b].seen.status = NoStatus
    BY <2>1 DEF InSync
  <2> QED
    BY <1>1, <2>2
<1>3. rq[n].seen = None /\ run = None
  BY DEF Init, InSync
<1> QED
  BY <1>2, <1>3 DEF CalmInv

\* A scale-to-zero of n belongs to a reconcile that found a reason.
LEMMA CalmIsSafe ==
  ASSUME TypeOK, NEW n \in Namespaces, CalmInv(n)
  PROVE  ~(op = "ScaleToZero" /\ scope = n)
<1> SUFFICES ASSUME op = "ScaleToZero", scope = n PROVE FALSE
  OBVIOUS
<1>1. run # None /\ pc \in Passes /\ op = PassOp /\ Managed = n
  BY PassHasRun DEF TypeOK
<1>2. pc \in {"scale", "grace"}
  BY <1>1 DEF Passes, PassOp
<1> QED
  BY <1>1, <1>2 DEF CalmInv

(***************************************************************************)
(* No scale-down without a reason                                          *)
(* (budgetnamespace_controller.go:297-341, 377-388): a namespace whose     *)
(* quota, TTL and bills never give a reason is never scaled to zero, with  *)
(* caches, statuses and throttled queries of any age, spec edits, crashes  *)
(* and other namespaces' breaches going on.                                *)
(***************************************************************************)
THEOREM CalmNamespacesAreLeftAlone == Spec => CalmIsLeftAlone
<1>1. ASSUME NEW n \in Namespaces
      PROVE  Spec => ([]Calm(n) => []~(op = "ScaleToZero" /\ scope = n))
  <2>1. Init => CalmInv(n)
    BY InitCalmInv
  <2>2. TypeOK /\ Calm(n) /\ CalmInv(n) /\ [Next]_vars => CalmInv(n)'
    BY NextCalmInv
  <2>3. TypeOK /\ CalmInv(n) => ~(op = "ScaleToZero" /\ scope = n)
    BY CalmIsSafe
  <2> QED
    BY <2>1, <2>2, <2>3, TypeCorrect, PTL DEF Spec
<1> QED
  BY <1>1 DEF CalmIsLeftAlone

=============================================================================
