---------------------- MODULE ReconcilerStatus_proofs ----------------------
(***************************************************************************)
(* status.observedGeneration tells the truth, for every instance of the    *)
(* controller.  StatusMatchesSpec is not inductive: a status is computed   *)
(* from a copy read many steps before.  What makes it true is that a copy  *)
(* no write has overtaken still describes the live resource, and that an   *)
(* observed generation is never ahead of the real one.                     *)
(***************************************************************************)
EXTENDS BudgetReconciler_proofs

\* What StatusMatchesSpec says of one resource.
Describes(o) ==
  LET c == o.status.conditions IN
  /\ o.status.managedNamespace = o.spec.namespaceName
  /\ o.status.expiresAt =
       IF o.spec.ttl = None THEN None ELSE Stored(Expiry(o.spec, o.created))
  /\ o.spec.ttl # None => c["Expired"].observedGeneration = o.generation
  /\ ~shouldScaleDeploymentsToZero(o.spec)
       <=> c["OverBudget"].reason = "EnforcementDisabled"

Truthful(o) ==
  /\ o.status.observedGeneration <= o.generation
  /\ o.status.observedGeneration = o.generation => Describes(o)

StatusesTruthful == \A b \in BNs : bns[b].live # None => Truthful(bns[b].live)

SameVersion(copy, o) ==
  copy.spec = o.spec /\ copy.created = o.created /\ copy.generation = o.generation

\* The copy of a reconcile that no write has overtaken is the live resource.
CopyIsLive ==
  run # None /\ ~run.stale =>
    bns[run.bn].live # None /\ SameVersion(run.copy, bns[run.bn].live)

\* A reconcile that updates the status has evaluated the budget, found the
\* resource expired, or has nothing to enforce.
Evaluated ==
  /\ pc \in {"spend", "recover", "scale", "restore"} => run.quotaEvaluated
  /\ pc \in {"grace", "delete"} => run.expired
  /\ pc = "status" => \/ ~shouldScaleDeploymentsToZero(run.copy.spec)
                      \/ run.quotaEvaluated \/ run.expired

StatusInv == StatusesTruthful /\ CopyIsLive /\ Evaluated

\* What a write of one resource, and a watch event, leave of all of them.
LEMMA WrittenViews ==
  ASSUME ApiTypeOK, NEW b \in BNs, NEW o
  PROVE  \A a \in BNs :
           /\ [bns EXCEPT ![b] = Written(bns[b], o)][a].live =
                IF a = b THEN o ELSE bns[a].live
           /\ Synced(bns[a]).live = bns[a].live
  BY DEF ApiTypeOK, Views, Written, Synced, InSync

-----------------------------------------------------------------------------
(* A new status describes the resource its copy is a copy of.               *)

LEMMA NewConditionsTell ==
  ASSUME NEW spec, NEW g \in Nat, NEW old \in [ConditionTypes -> Conditions],
         NEW r \in Runs,
         ~shouldScaleDeploymentsToZero(spec) \/ r.quotaEvaluated \/ r.expired
  PROVE  LET c == NewConditions(spec, g, old, r) IN
         /\ spec.ttl # None => c["Expired"].observedGeneration = g
         /\ ~shouldScaleDeploymentsToZero(spec)
              <=> c["OverBudget"].reason = "EnforcementDisabled"
<1> DEFINE c == NewConditions(spec, g, old, r)
           over == r.quotaAtHardLimit \/ r.costOverBudget
           because == overBudgetReason(r.quotaAtHardLimit, r.costOverBudget)
<1>1. because # "EnforcementDisabled"
  BY ReasonType DEF Runs
<1>2. c["Expired"] =
        IF spec.ttl = None THEN old["Expired"]
        ELSE IF r.expired
          THEN [status |-> TRUE, reason |-> "TTLExpired", observedGeneration |-> g]
        ELSE [status |-> FALSE, reason |-> "TTLActive", observedGeneration |-> g]
  BY DEF NewConditions, ConditionTypes
<1>3. c["OverBudget"] =
        IF ~shouldScaleDeploymentsToZero(spec)
          THEN [status |-> FALSE, reason |-> "EnforcementDisabled", observedGeneration |-> g]
        ELSE IF r.quotaEvaluated /\ over
          THEN [status |-> TRUE, reason |-> because, observedGeneration |-> g]
        ELSE IF r.quotaEvaluated
          THEN [status |-> FALSE, reason |-> "WithinBudget", observedGeneration |-> g]
        ELSE IF r.expired
          THEN [status |-> FALSE, reason |-> "TTLExpired", observedGeneration |-> g]
        ELSE old["OverBudget"]
  BY DEF NewConditions, ConditionTypes
<1> HIDE DEF c, because, over
<1>4. spec.ttl # None => c["Expired"].observedGeneration = g
  BY <1>2
<1>5. ~shouldScaleDeploymentsToZero(spec)
        <=> c["OverBudget"].reason = "EnforcementDisabled"
  BY <1>1, <1>3
<1> QED
  BY <1>4, <1>5 DEF c

LEMMA UpdatedIsTruthful ==
  ASSUME NEW r \in Runs, NEW o \in BudgetNamespaces, SameVersion(r.copy, o),
         ~shouldScaleDeploymentsToZero(r.copy.spec) \/ r.quotaEvaluated \/ r.expired
  PROVE  Truthful([o EXCEPT !.status = NewStatus(r.copy, r)])
<1> DEFINE status == NewStatus(r.copy, r)
           new == [o EXCEPT !.status = status]
           c == NewConditions(r.copy.spec, r.copy.generation, r.copy.status.conditions, r)
<1>1. /\ r.copy.generation \in Nat
      /\ r.copy.status.conditions \in [ConditionTypes -> Conditions]
  BY DEF Runs, BudgetNamespaces, Statuses
<1>2. /\ r.copy.spec.ttl # None => c["Expired"].observedGeneration = r.copy.generation
      /\ ~shouldScaleDeploymentsToZero(r.copy.spec)
           <=> c["OverBudget"].reason = "EnforcementDisabled"
  BY <1>1, NewConditionsTell
<1>3. /\ status.observedGeneration = r.copy.generation
      /\ status.managedNamespace = r.copy.spec.namespaceName
      /\ status.expiresAt = IF r.copy.spec.ttl = None THEN None
                            ELSE Stored(Expiry(r.copy.spec, r.copy.created))
      /\ status.conditions = c
  BY DEF NewStatus
<1> HIDE DEF status, c
<1>4. /\ new.spec = o.spec /\ new.created = o.created /\ new.generation = o.generation
      /\ new.status = status
  BY DEF BudgetNamespaces
<1>5. new.status.observedGeneration <= new.generation
  BY <1>1, <1>3, <1>4 DEF SameVersion
<1> HIDE DEF new
<1>6. Describes(new)
  BY <1>2, <1>3, <1>4 DEF Describes, SameVersion
<1> QED
  BY <1>5, <1>6 DEF Truthful, new, status

\* A new resource has not been observed.
LEMMA NewIsTruthful ==
  ASSUME NEW created, NEW s
  PROVE  Truthful([created |-> created, generation |-> 1, spec |-> s, status |-> NoStatus])
<1> DEFINE new == [created |-> created, generation |-> 1, spec |-> s, status |-> NoStatus]
<1>1. new.status = NoStatus /\ new.generation = 1
  OBVIOUS
<1>2. NoStatus.observedGeneration = 0
  BY DEF NoStatus
<1> HIDE DEF new
<1>3. Truthful(new)
  BY <1>1, <1>2 DEF Truthful
<1> QED
  BY <1>3 DEF new

\* A write of the spec moves the generation on.
LEMMA EditedIsTruthful ==
  ASSUME NEW o \in BudgetNamespaces, NEW s \in Specs, Truthful(o)
  PROVE  Truthful([o EXCEPT !.spec = s, !.generation = @ + 1])
<1> DEFINE new == [o EXCEPT !.spec = s, !.generation = @ + 1]
<1>1. new.status = o.status /\ new.generation = o.generation + 1
  BY DEF BudgetNamespaces
<1>2. o.status.observedGeneration \in Nat /\ o.generation \in Nat
  BY DEF BudgetNamespaces, Statuses
<1> HIDE DEF new
<1>3. Truthful(new)
  BY <1>1, <1>2 DEF Truthful
<1> QED
  BY <1>3 DEF new

-----------------------------------------------------------------------------
(* Steps of the worker.                                                     *)

\* A step that leaves the resources alone and the reconcile its copy.
LEMMA RunGoesOn ==
  ASSUME StatusInv, UNCHANGED bns, Evaluated',
         \/ run' = None
         \/ /\ run # None
            /\ run'.bn = run.bn /\ run'.stale = run.stale
            /\ SameVersion(run'.copy, run.copy)
  PROVE  StatusInv'
<1>1. StatusesTruthful'
  BY DEF StatusInv, StatusesTruthful
<1>2. CopyIsLive'
  BY DEF StatusInv, CopyIsLive, SameVersion
<1> QED
  BY <1>1, <1>2 DEF StatusInv

LEMMA Ends ==
  ASSUME StatusInv, UNCHANGED bns, NEW at, Returns(at)
  PROVE  StatusInv'
<1>1. pc' = "idle" /\ run' = None
  BY DEF Returns
<1>2. Evaluated'
  BY <1>1 DEF Evaluated
<1> QED
  BY <1>1, <1>2, RunGoesOn

LEMMA EndsInError ==
  ASSUME StatusInv, UNCHANGED bns, ReturnsError
  PROVE  StatusInv'
  BY Ends DEF ReturnsError

\* A step that leaves the reconcile where it is, or takes it one call on.
LEMMA SameRun ==
  ASSUME StatusInv, UNCHANGED <<bns, run>>, Evaluated'
  PROVE  StatusInv'
<1>1. StatusesTruthful' /\ CopyIsLive'
  BY DEF StatusInv, StatusesTruthful, CopyIsLive
<1> QED
  BY <1>1 DEF StatusInv

LEMMA GuardsKeepStatusInv ==
  ASSUME TypeOK, StatusInv, EnsureNamespace \/ ApplyQuota \/ ApplyLimitRange
  PROVE  StatusInv'
<1>1. UNCHANGED bns
  BY DEF EnsureNamespace, ApplyQuota, ApplyLimitRange
<1>2. \/ ReturnsError
      \/ /\ UNCHANGED run
         /\ \/ pc' \in {"quota", "limits"}
            \/ pc' = IF shouldScaleDeploymentsToZero(run.copy.spec) THEN "evaluate"
                                                                     ELSE "status"
  BY DEF EnsureNamespace, ApplyQuota, ApplyLimitRange, Continues
<1>3. CASE ReturnsError
  BY <1>1, <1>3, EndsInError
<1>4. CASE ~ReturnsError
  <2>1. Evaluated'
    BY <1>2, <1>4 DEF Evaluated
  <2> QED
    BY <1>1, <1>2, <1>4, <2>1, SameRun
<1> QED
  BY <1>3, <1>4

LEMMA EvaluateQuotaKeepsStatusInv ==
  ASSUME TypeOK, StatusInv, EvaluateQuota
  PROVE  StatusInv'
<1>1. UNCHANGED bns
  BY DEF EvaluateQuota, apiVars
<1>2. CASE ReturnsError
  BY <1>1, <1>2, EndsInError
<1>3. CASE ~ReturnsError
  <2>1. Evaluated' /\ SameVersion(run'.copy, run.copy)
    BY <1>3, QuotaRun DEF Evaluated, SameVersion
  <2> QED
    BY <1>1, <1>3, <2>1, QuotaRun, RunGoesOn
<1> QED
  BY <1>2, <1>3

LEMMA EvaluateSpendKeepsStatusInv ==
  ASSUME TypeOK, StatusInv, EvaluateSpend
  PROVE  StatusInv'
<1>1. UNCHANGED bns
  BY DEF EvaluateSpend, apiVars
<1>2. run \in Runs /\ run # None
  BY ManagedType DEF TypeOK, EvaluateSpend, Reconciling
<1>3. CASE ReturnsError
  BY <1>1, <1>3, EndsInError
<1>4. CASE ~ReturnsError
  <2> DEFINE spec == run.copy.spec
             status == resolveNamespaceSpendUSD(spec, run.copy.status, run.now)
             amount == IF costBudgetEnabled(spec) THEN status.lastObservedSpendUSD ELSE 0
             cost == costBudgetEnabled(spec) /\ spendAtOrOverMax(amount, spec.cost.max)
  <2>1. run' = [run EXCEPT !.copy.status = status, !.costSpend = amount,
                           !.costOverBudget = cost]
    BY <1>4 DEF EvaluateSpend
  <2> HIDE DEF status, amount, cost
  <2>2. /\ run'.bn = run.bn /\ run'.stale = run.stale
        /\ run'.quotaEvaluated = run.quotaEvaluated
        /\ run'.copy = [run.copy EXCEPT !.status = status]
    BY <1>2, <2>1 DEF Runs
  <2>3. SameVersion(run'.copy, run.copy)
    BY <1>2, <2>2 DEF SameVersion, Runs, BudgetNamespaces
  <2>4. pc' \in {"scale", "recover", "status"}
    BY <1>4 DEF EvaluateSpend, Continues
  <2>5. Evaluated'
    BY <2>2, <2>4 DEF EvaluateSpend, StatusInv, Evaluated
  <2> QED
    BY <1>1, <1>2, <2>2, <2>3, <2>5, RunGoesOn
<1> QED
  BY <1>3, <1>4

LEMMA RecoverKeepsStatusInv ==
  ASSUME TypeOK, StatusInv, Recover
  PROVE  StatusInv'
<1>1. UNCHANGED bns
  BY DEF Recover, apiVars
<1>2. run \in Runs /\ run # None
  BY ManagedType DEF TypeOK, Recover, Reconciling
<1>3. PICK deferred : run' = [run EXCEPT !.recoveryDeferred = deferred]
  BY DEF Recover
<1>4. /\ run'.bn = run.bn /\ run'.stale = run.stale /\ run'.copy = run.copy
      /\ run'.quotaEvaluated = run.quotaEvaluated
  BY <1>2, <1>3 DEF Runs
<1>5. pc = "recover" /\ pc' \in {"restore", "status"}
  BY DEF Recover, Continues
<1>6. Evaluated'
  BY <1>4, <1>5 DEF StatusInv, Evaluated
<1> QED
  BY <1>1, <1>2, <1>4, <1>6, RunGoesOn DEF SameVersion

LEMMA PassKeepsStatusInv ==
  ASSUME TypeOK, StatusInv,
         \/ StartPass \/ PassMovesOn \/ PassFails \/ PassReturns
         \/ \E w \in Workloads : PassPatches(w)
  PROVE  StatusInv'
<1>1. UNCHANGED bns
  BY DEF StartPass, PassMovesOn, PassFails, PassReturns, PassPatches, apiVars
<1>2. CASE PassFails
  BY <1>1, <1>2, EndsInError DEF PassFails
<1>3. CASE PassReturns
  <2>1. run \in Runs /\ run # None /\ pc \in Passes
    BY <1>3, PassHasRun DEF PassReturns, EndPass
  <2>2. run' = run \/ run' = [run EXCEPT !.lastEnfAt = clock, !.lastEnfOp = op]
    BY <1>3 DEF PassReturns
  <2>3. /\ run'.bn = run.bn /\ run'.stale = run.stale /\ run'.copy = run.copy
        /\ run'.quotaEvaluated = run.quotaEvaluated /\ run'.expired = run.expired
    BY <2>1, <2>2 DEF Runs
  <2>4. pc' = "status"
    BY <1>3 DEF PassReturns, Continues
  <2>5. Evaluated'
    BY <2>1, <2>3, <2>4 DEF StatusInv, Evaluated, Passes
  <2> QED
    BY <1>1, <2>1, <2>3, <2>5, RunGoesOn DEF SameVersion
<1>4. CASE \/ StartPass \/ PassMovesOn \/ \E w \in Workloads : PassPatches(w)
  <2>1. UNCHANGED <<pc, run>>
    BY <1>4 DEF StartPass, PassMovesOn, PassPatches
  <2>2. Evaluated'
    BY <2>1 DEF StatusInv, Evaluated
  <2> QED
    BY <1>1, <2>1, <2>2, SameRun
<1> QED
  BY <1>2, <1>3, <1>4

LEMMA DeleteNamespaceKeepsStatusInv ==
  ASSUME StatusInv, DeleteNamespace
  PROVE  StatusInv'
<1>1. Evaluated'
  BY DEF DeleteNamespace, Continues, StatusInv, Evaluated
<1> QED
  BY <1>1, SameRun DEF DeleteNamespace

LEMMA UpdateStatusKeepsStatusInv ==
  ASSUME TypeOK, StatusInv, UpdateStatus
  PROVE  StatusInv'
<1>1. run \in Runs /\ run # None /\ run.bn \in BNs
  BY ManagedType DEF TypeOK, UpdateStatus, Reconciling, Runs
<1>2. CASE StatusUpdateRefused(run.bn)
  BY <1>2, EndsInError DEF UpdateStatus
<1>3. CASE ~StatusUpdateRefused(run.bn)
  <2> DEFINE o == bns[run.bn].live
             new == [o EXCEPT !.status = NewStatus(run.copy, run)]
  <2>1. PICK at : Returns(at)
    BY <1>3 DEF UpdateStatus
  <2>2. CASE UNCHANGED bns
    BY <2>1, <2>2, Ends
  <2>3. CASE bns' = [bns EXCEPT ![run.bn] = Written(bns[run.bn], new)]
    <3>1. o \in BudgetNamespaces /\ SameVersion(run.copy, o)
      BY <1>1, <1>3, BnsStep
         DEF StatusUpdateRefused, TypeOK, WorkerTypeOK, Runs, StatusInv, CopyIsLive
    <3>2. Truthful(new)
      BY <1>1, <3>1, UpdatedIsTruthful DEF UpdateStatus, StatusInv, Evaluated
    <3> HIDE DEF new
    <3>3. StatusesTruthful'
      BY <1>1, <2>3, <3>2, WrittenViews DEF TypeOK, StatusInv, StatusesTruthful
    <3>4. CopyIsLive' /\ Evaluated'
      BY <2>1 DEF Returns, CopyIsLive, Evaluated
    <3> QED
      BY <3>3, <3>4 DEF StatusInv
  <2> QED
    BY <1>3, <2>2, <2>3 DEF UpdateStatus
<1> QED
  BY <1>2, <1>3

LEMMA DeletingIsExpired ==
  ASSUME NEW spec \in BudgetNamespaceSpecs, spec.ttl # Bad,
         NEW created \in Nat, NEW now \in Nat, Deleting(spec, created, now)
  PROVE  Expired(spec, created, now)
<1>1. spec.ttl \in Int
  BY DEF BudgetNamespaceSpecs, Durations, Deleting
<1> QED
  BY <1>1, RulesAssumption DEF Deleting, Expired, Expiry

LEMMA DequeueKeepsStatusInv ==
  ASSUME TypeOK, StatusInv, NEW b \in BNs, Dequeue(b)
  PROVE  StatusInv'
<1>1. UNCHANGED bns /\ pc = "idle" /\ run = None
  BY DEF Dequeue, ReconcileNotFound, ReconcileRejected, ReconcileStart, Ready, apiVars,
     TypeOK, Reconciling
<1>2. CASE UNCHANGED <<pc, run>>
  BY <1>1, <1>2, SameRun DEF Evaluated
<1>3. ASSUME NEW d \in 0 .. ReadSkew, ReconcileStart(b, d) PROVE StatusInv'
  <2> DEFINE copy == bns[b].seen
  <2>1. /\ run'.bn = b /\ run'.copy = copy /\ run'.stale = ~bns[b].current
        /\ run'.expired = Expired(copy.spec, copy.created, clock)
    BY <1>3 DEF ReconcileStart
  <2>2. StatusesTruthful'
    BY <1>1 DEF StatusInv, StatusesTruthful
  <2>3. bns[b].current => copy = bns[b].live
    BY CurrentCopy DEF TypeOK
  <2>4. copy # None
    BY <1>3 DEF ReconcileStart
  <2>5. CopyIsLive'
    BY <1>1, <2>1, <2>3, <2>4 DEF CopyIsLive, SameVersion
  <2>6. pc' = FirstStep(copy.spec, copy.created, clock)
    BY <1>3 DEF ReconcileStart
  <2>7. CASE Expired(copy.spec, copy.created, clock)
    <3>1. run'.expired
      BY <2>1, <2>7
    <3>2. pc' \in {"delete", "grace", "status"}
      BY <2>6, <2>7 DEF FirstStep
    <3> QED
      BY <2>2, <2>5, <3>1, <3>2 DEF StatusInv, Evaluated
  <2>8. CASE ~Expired(copy.spec, copy.created, clock)
    <3>1. /\ copy.spec \in BudgetNamespaceSpecs /\ copy.spec.ttl # Bad
          /\ copy.created \in Nat /\ clock \in Nat
      BY <1>3, BnsStep, ReconcilerAssumption
         DEF ReconcileStart, Rejected, BudgetNamespaces, TypeOK, OutsideTypeOK
    <3>2. ~Deleting(copy.spec, copy.created, clock)
      BY <2>8, <3>1, DeletingIsExpired
    <3>3. pc' = "namespace"
      BY <2>6, <2>8, <3>2 DEF FirstStep
    <3> QED
      BY <2>2, <2>5, <3>3 DEF StatusInv, Evaluated
  <2> QED
    BY <2>7, <2>8
<1> QED
  BY <1>2, <1>3 DEF Dequeue, ReconcileNotFound, ReconcileRejected

LEMMA WorkerStepKeepsStatusInv ==
  ASSUME TypeOK, StatusInv, WorkerStep
  PROVE  StatusInv'
  BY GuardsKeepStatusInv, EvaluateQuotaKeepsStatusInv, EvaluateSpendKeepsStatusInv,
     RecoverKeepsStatusInv,
     PassKeepsStatusInv, DeleteNamespaceKeepsStatusInv, UpdateStatusKeepsStatusInv
     DEF WorkerStep

-----------------------------------------------------------------------------
(* Failures, watches, users and the cluster.                                *)

LEMMA FailureKeepsStatusInv ==
  ASSUME TypeOK, StatusInv, CallFails \/ Crash \/ Restart
  PROVE  StatusInv'
<1>1. CASE CallFails
  BY <1>1, EndsInError DEF CallFails, apiVars
<1>2. CASE Crash
  <2>1. UNCHANGED bns /\ run' = None /\ Evaluated'
    BY <1>2 DEF Crash, apiVars, Evaluated
  <2> QED
    BY <2>1, RunGoesOn
<1>3. CASE Restart
  <2>1. run' = None /\ pc' = "idle" /\ \A b \in BNs : bns'[b].live = bns[b].live
    BY <1>3, WrittenViews DEF Restart, TypeOK, Reconciling
  <2> QED
    BY <2>1 DEF StatusInv, StatusesTruthful, CopyIsLive, Evaluated
<1> QED
  BY <1>1, <1>2, <1>3

LEMMA CacheStepKeepsStatusInv ==
  ASSUME TypeOK, StatusInv, CacheStep
  PROVE  StatusInv'
<1>1. UNCHANGED <<pc, run>>
  BY DEF CacheStep, SyncBudgetNamespace, SyncResourceQuota, SyncNamespace,
         SyncLimitRange, SyncWorkloadCache
<1>2. \A b \in BNs : bns'[b].live = bns[b].live
  <2>1. ASSUME NEW a \in BNs, SyncBudgetNamespace(a)
        PROVE  \A b \in BNs : bns'[b].live = bns[b].live
    BY <2>1, WrittenViews DEF SyncBudgetNamespace, TypeOK, ApiTypeOK
  <2> QED
    BY <2>1 DEF CacheStep, SyncResourceQuota, SyncNamespace, SyncLimitRange,
                SyncWorkloadCache, apiVars
<1>3. run # None => run.bn \in BNs
  BY ManagedType DEF TypeOK, Runs
<1> QED
  BY <1>1, <1>2, <1>3 DEF StatusInv, StatusesTruthful, CopyIsLive, Evaluated

\* A write of a resource overtakes the copy that a reconcile has of it.
LEMMA UserWriteKeepsStatusInv ==
  ASSUME TypeOK, StatusInv, NEW b \in BNs, NEW o, UserWritesBN(b, o),
         o # None => Truthful(o)
  PROVE  StatusInv'
<1>1. \A a \in BNs : bns'[a].live = IF a = b THEN o ELSE bns[a].live
  BY WrittenViews DEF UserWritesBN, TypeOK
<1>2. StatusesTruthful'
  BY <1>1 DEF StatusInv, StatusesTruthful
<1>3. CASE run = None
  BY <1>2, <1>3 DEF UserWritesBN, StatusInv, CopyIsLive, Evaluated, TypeOK, Reconciling
<1>4. CASE run # None
  <2>1. run \in Runs /\ run.bn \in BNs
    BY <1>4, ManagedType DEF TypeOK, Runs
  <2>2. run' = IF run.bn = b THEN [run EXCEPT !.stale = TRUE] ELSE run
    BY <1>4 DEF UserWritesBN
  <2>3. /\ run'.bn = run.bn /\ run'.copy = run.copy
        /\ run'.expired = run.expired /\ run'.quotaEvaluated = run.quotaEvaluated
        /\ run.bn = b => run'.stale
    BY <2>1, <2>2 DEF Runs
  <2>4. CopyIsLive'
    BY <1>1, <1>4, <2>1, <2>2, <2>3 DEF StatusInv, CopyIsLive
  <2>5. Evaluated'
    BY <2>3 DEF UserWritesBN, StatusInv, Evaluated
  <2> QED
    BY <1>2, <2>4, <2>5 DEF StatusInv
<1> QED
  BY <1>3, <1>4

LEMMA UserOfBNKeepsStatusInv ==
  ASSUME TypeOK, StatusInv, NEW b \in BNs,
         \/ \E s \in Specs : CreateBN(b, s) \/ EditBN(b, s)
         \/ TouchBN(b) \/ DeleteBN(b)
  PROVE  StatusInv'
<1>1. ASSUME NEW s \in Specs, CreateBN(b, s) PROVE StatusInv'
  <2> DEFINE new == [created |-> Stored(clock), generation |-> 1, spec |-> s,
                     status |-> NoStatus]
  <2>1. Truthful(new)
    BY NewIsTruthful
  <2>2. UserWritesBN(b, new)
    BY <1>1 DEF CreateBN
  <2> HIDE DEF new
  <2> QED
    BY <2>1, <2>2, UserWriteKeepsStatusInv
<1>2. ASSUME NEW s \in Specs, EditBN(b, s) PROVE StatusInv'
  <2>1. bns[b].live \in BudgetNamespaces /\ Truthful(bns[b].live)
    BY <1>2, BnsStep DEF EditBN, TypeOK, StatusInv, StatusesTruthful
  <2>2. Truthful([bns[b].live EXCEPT !.spec = s, !.generation = @ + 1])
    BY <2>1, EditedIsTruthful
  <2>3. UserWritesBN(b, [bns[b].live EXCEPT !.spec = s, !.generation = @ + 1])
    BY <1>2 DEF EditBN
  <2> QED
    BY <2>2, <2>3, UserWriteKeepsStatusInv
<1>3. CASE TouchBN(b)
  BY <1>3, UserWriteKeepsStatusInv DEF TouchBN, StatusInv, StatusesTruthful
<1>4. CASE DeleteBN(b)
  BY <1>4, UserWriteKeepsStatusInv DEF DeleteBN
<1> QED
  BY <1>1, <1>2, <1>3, <1>4

LEMMA ElsewhereKeepsStatusInv ==
  ASSUME StatusInv, UNCHANGED <<bns, pc, run>>
  PROVE  StatusInv'
  BY DEF StatusInv, StatusesTruthful, CopyIsLive, Evaluated

LEMMA NextStatusInv ==
  ASSUME TypeOK, StatusInv, [Next]_vars
  PROVE  StatusInv'
<1>1. CASE OutsideStep
  <2>1. ASSUME NEW n, NEW x,
               \/ UserDeletesNamespace(n) \/ UserLabelsNamespace(n, x)
               \/ UserWritesQuota(n, x) \/ UserWritesLimits(n, x)
               \/ UsageChanges(n, x) \/ SpendChanges(n, x) \/ UsersWriteWorkloads
        PROVE  UNCHANGED <<bns, pc, run>>
    BY <2>1 DEF UserDeletesNamespace, UserLabelsNamespace, UserWritesQuota,
       UserWritesLimits, UsageChanges, SpendChanges, UsersWriteWorkloads, apiVars
  <2> QED
    BY <1>1, <2>1, UserOfBNKeepsStatusInv, ElsewhereKeepsStatusInv DEF OutsideStep
<1>2. CASE \/ \E n \in Namespaces : EmptyNamespace(n) \/ RemoveNamespace(n)
           \/ Tick \/ Resync \/ UNCHANGED vars
  BY <1>2, ElsewhereKeepsStatusInv DEF EmptyNamespace, RemoveNamespace, Tick, Resync,
     vars, apiVars
<1> QED
  BY <1>1, <1>2, DequeueKeepsStatusInv, WorkerStepKeepsStatusInv, FailureKeepsStatusInv,
     CacheStepKeepsStatusInv DEF Next

LEMMA InitStatusInv == Init => StatusInv
<1> SUFFICES ASSUME Init PROVE StatusInv
  OBVIOUS
<1>1. \A b \in BNs : Truthful(bns[b].live)
  <2> SUFFICES ASSUME NEW b \in BNs PROVE Truthful(bns[b].live)
    OBVIOUS
  <2>1. PICK s \in Specs :
          bns[b] = InSync([created |-> 0, generation |-> 1, spec |-> s,
                           status |-> NoStatus])
    BY DEF Init
  <2> QED
    BY <2>1, NewIsTruthful DEF InSync
<1>2. run = None /\ pc = "idle"
  BY DEF Init
<1> QED
  BY <1>1, <1>2 DEF StatusInv, StatusesTruthful, CopyIsLive, Evaluated

LEMMA StatusInvariant == Spec => []StatusInv
<1>1. TypeOK /\ StatusInv /\ [Next]_vars => StatusInv'
  BY NextStatusInv
<1> QED
  BY <1>1, InitStatusInv, TypeCorrect, PTL DEF Spec

(***************************************************************************)
(* status.observedGeneration never lies: whatever is edited, deleted and   *)
(* created again while reconciles of older copies are under way, a status  *)
(* that claims the present generation was computed from the present spec   *)
(* (budgetnamespace_controller.go:402-524).                                *)
(***************************************************************************)
THEOREM StatusIsTruthful == Spec => []StatusMatchesSpec
<1>1. StatusInv => StatusMatchesSpec
  BY DEF StatusInv, StatusesTruthful, Truthful, Describes, StatusMatchesSpec
<1> QED
  BY <1>1, StatusInvariant, PTL

=============================================================================
