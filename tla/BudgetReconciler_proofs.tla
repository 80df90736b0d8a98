----------------------- MODULE BudgetReconciler_proofs -----------------------
(***************************************************************************)
(* The controller stays within its types and implements WorkloadScale: for *)
(* every set of BudgetNamespaces, namespaces, specs and workloads,         *)
(* whatever users, the cluster and failures do.  What is proved of the     *)
(* passes then holds of the whole.                                         *)
(***************************************************************************)
EXTENDS ReconcilerRules_proofs, WorkloadScale_proofs

-----------------------------------------------------------------------------
(* Every step of the controller is a step of its passes, or leaves the      *)
(* workloads alone.                                                         *)

LEMMA ManagedType ==
  ASSUME WorkerTypeOK, run # None
  PROVE  /\ run \in Runs
         /\ run.copy \in BudgetNamespaces /\ run.copy.spec \in BudgetNamespaceSpecs
         /\ Managed \in Namespaces
<1>1. run \in Runs
  BY DEF WorkerTypeOK
<1>2. run.copy \in BudgetNamespaces
  BY <1>1 DEF Runs
<1>3. run.copy.spec \in BudgetNamespaceSpecs
  BY <1>2, ReconcilerAssumption DEF BudgetNamespaces
<1>4. Managed \in Namespaces
  BY <1>3 DEF Managed, BudgetNamespaceSpecs
<1> QED
  BY <1>1, <1>2, <1>3, <1>4

LEMMA WorkerOutsidePasses ==
  ASSUME \/ \E b \in BNs : Dequeue(b)
         \/ EnsureNamespace \/ ApplyQuota \/ ApplyLimitRange
         \/ EvaluateQuota \/ EvaluateSpend \/ Recover \/ DeleteNamespace \/ UpdateStatus
  PROVE  UNCHANGED wsVars
<1>1. ASSUME NEW b \in BNs, Dequeue(b) PROVE UNCHANGED wsVars
  BY <1>1 DEF Dequeue, ReconcileNotFound, ReconcileRejected, ReconcileStart
<1>2. CASE EnsureNamespace
  BY <1>2 DEF EnsureNamespace
<1>3. CASE ApplyQuota
  BY <1>3 DEF ApplyQuota
<1>4. CASE ApplyLimitRange
  BY <1>4 DEF ApplyLimitRange
<1>5. CASE EvaluateQuota \/ EvaluateSpend
  BY <1>5 DEF EvaluateQuota, EvaluateSpend
<1>6. CASE Recover
  BY <1>6 DEF Recover
<1>7. CASE DeleteNamespace
  BY <1>7 DEF DeleteNamespace
<1>8. CASE UpdateStatus
  BY <1>8 DEF UpdateStatus
<1> QED
  BY <1>1, <1>2, <1>3, <1>4, <1>5, <1>6, <1>7, <1>8

\* The steps of a pass are pass steps of WorkloadScale.
LEMMA WorkerPasses ==
  ASSUME TypeOK,
         \/ StartPass \/ PassMovesOn \/ PassFails \/ PassReturns
         \/ \E w \in Workloads : PassPatches(w)
  PROVE  PassStep
<1>1. CASE StartPass
  <2>1. PassOp \in {"ScaleToZero", "Restore"}
    BY DEF PassOp
  <2>2. Managed \in Namespaces
    BY <1>1, ManagedType DEF StartPass, Passes, TypeOK, Reconciling
  <2> QED
    BY <1>1, <2>1, <2>2 DEF StartPass, PassStep
<1>2. CASE PassMovesOn
  BY <1>2 DEF PassMovesOn, PassStep
<1>3. CASE PassFails
  BY <1>3 DEF PassFails, PassStep
<1>4. CASE PassReturns
  BY <1>4 DEF PassReturns, PassStep
<1>5. ASSUME NEW w \in Workloads, PassPatches(w) PROVE PassStep
  BY <1>5 DEF PassPatches, PassStep
<1> QED
  BY <1>1, <1>2, <1>3, <1>4, <1>5

LEMMA WorkerStepRefines == TypeOK /\ WorkerStep => [WSNext]_wsVars
  BY WorkerOutsidePasses, WorkerPasses DEF WorkerStep, WSNext

\* A failure or a crash cuts a pass short, if there is one.
LEMMA FailureRefines == CallFails \/ Crash \/ Restart => [WSNext]_wsVars
<1>1. PassStops => [WSNext]_wsVars
  BY DEF PassStops, WSNext, PassStep
<1>2. CallFails => PassStops
  BY DEF CallFails
<1>3. Crash => PassStops
  BY DEF Crash
<1>4. Restart => UNCHANGED wsVars
  BY DEF Restart
<1> QED
  BY <1>1, <1>2, <1>3, <1>4

LEMMA CacheStepRefines == CacheStep => [WSNext]_wsVars
<1> SUFFICES ASSUME CacheStep PROVE [WSNext]_wsVars
  OBVIOUS
<1>1. ASSUME NEW b \in BNs, SyncBudgetNamespace(b) PROVE UNCHANGED wsVars
  BY <1>1 DEF SyncBudgetNamespace
<1>2. ASSUME NEW n \in Namespaces,
             SyncResourceQuota(n) \/ SyncNamespace(n) \/ SyncLimitRange(n)
      PROVE  UNCHANGED wsVars
  BY <1>2 DEF SyncResourceQuota, SyncNamespace, SyncLimitRange
<1>3. ASSUME NEW k \in Kinds, SyncWorkloadCache(k) PROVE WSNext
  BY <1>3 DEF SyncWorkloadCache, WSNext
<1> QED
  BY <1>1, <1>2, <1>3 DEF CacheStep

\* Users of BudgetNamespaces, the namespaces and their guards, and the cluster.
LEMMA OutsideStepRefines == OutsideStep => [WSNext]_wsVars
<1> SUFFICES ASSUME OutsideStep PROVE [WSNext]_wsVars
  OBVIOUS
<1>1. ASSUME NEW b \in BNs, NEW s \in Specs, CreateBN(b, s) \/ EditBN(b, s)
      PROVE  UNCHANGED wsVars
  BY <1>1 DEF CreateBN, EditBN, UserWritesBN
<1>2. ASSUME NEW b \in BNs, TouchBN(b) \/ DeleteBN(b)
      PROVE  UNCHANGED wsVars
  BY <1>2 DEF TouchBN, DeleteBN, UserWritesBN
<1>3. ASSUME NEW n, NEW x,
             \/ UserDeletesNamespace(n) \/ UserLabelsNamespace(n, x)
             \/ UserWritesQuota(n, x) \/ UserWritesLimits(n, x)
             \/ UsageChanges(n, x) \/ SpendChanges(n, x)
      PROVE  UNCHANGED wsVars
  BY <1>3 DEF UserDeletesNamespace, UserLabelsNamespace, UserWritesQuota,
              UserWritesLimits, UsageChanges, SpendChanges
<1>4. CASE UsersWriteWorkloads
  BY <1>4 DEF UsersWriteWorkloads, WSNext
<1> QED
  BY <1>1, <1>2, <1>3, <1>4 DEF OutsideStep

LEMMA StepRefines == TypeOK /\ [Next]_vars => [WSNext]_wsVars
<1> SUFFICES ASSUME TypeOK, [Next]_vars PROVE [WSNext]_wsVars
  OBVIOUS
<1>1. CASE \E b \in BNs : Dequeue(b)
  BY <1>1, WorkerOutsidePasses
<1>2. CASE WorkerStep
  BY <1>2, WorkerStepRefines
<1>3. CASE CallFails \/ Crash \/ Restart
  BY <1>3, FailureRefines
<1>4. CASE CacheStep
  BY <1>4, CacheStepRefines
<1>5. CASE OutsideStep
  BY <1>5, OutsideStepRefines
<1>6. ASSUME NEW n \in Namespaces, EmptyNamespace(n) PROVE WSNext
  BY <1>6 DEF EmptyNamespace, WSNext
<1>7. ASSUME NEW n \in Namespaces, RemoveNamespace(n) PROVE UNCHANGED wsVars
  BY <1>7 DEF RemoveNamespace
<1>8. CASE Tick \/ Resync
  BY <1>8 DEF Tick, Resync
<1>9. CASE UNCHANGED vars
  BY <1>9 DEF vars
<1> QED
  BY <1>1, <1>2, <1>3, <1>4, <1>5, <1>6, <1>7, <1>8, <1>9 DEF Next

-----------------------------------------------------------------------------
(* Types.                                                                   *)

\* The part of TypeOK that is not about the passes.
ControllerTypeOK ==
  ApiTypeOK /\ OutsideTypeOK /\ WorkerTypeOK /\ (Reconciling <=> run # None)

\* A write to one object, and the watch event of one or of all.
LEMMA ViewsStep ==
  ASSUME NEW S, NEW K, NEW f \in [K -> Views(S)], NEW k \in K, NEW o \in S
  PROVE  /\ [f EXCEPT ![k] = Written(f[k], o)] \in [K -> Views(S)]
         /\ [f EXCEPT ![k] = Synced(f[k])] \in [K -> Views(S)]
         /\ [j \in K |-> Synced(f[j])] \in [K -> Views(S)]
         /\ f[k].live \in S /\ f[k].seen \in S
  BY ViewType

\* A copy that is current is the object.
LEMMA CurrentCopy ==
  ASSUME ApiTypeOK
  PROVE  /\ \A b \in BNs : bns[b].current => bns[b].seen = bns[b].live
         /\ \A n \in Namespaces : rq[n].current => rq[n].seen = rq[n].live
  BY DEF ApiTypeOK, Views

LEMMA BnsStep ==
  ASSUME ApiTypeOK, NEW b \in BNs, NEW o \in BudgetNamespaces \cup {None}
  PROVE  /\ [bns EXCEPT ![b] = Written(bns[b], o)]
              \in [BNs -> Views(BudgetNamespaces \cup {None})]
         /\ [bns EXCEPT ![b] = Synced(bns[b])]
              \in [BNs -> Views(BudgetNamespaces \cup {None})]
         /\ bns[b].live \in BudgetNamespaces \cup {None}
         /\ bns[b].seen \in BudgetNamespaces \cup {None}
  BY ViewsStep DEF ApiTypeOK

LEMMA NsStep ==
  ASSUME ApiTypeOK, NEW n \in Namespaces, NEW o \in NamespaceObjects \cup {None}
  PROVE  /\ [ns EXCEPT ![n] = Written(ns[n], o)]
              \in [Namespaces -> Views(NamespaceObjects \cup {None})]
         /\ [ns EXCEPT ![n] = Synced(ns[n])]
              \in [Namespaces -> Views(NamespaceObjects \cup {None})]
         /\ ns[n].live \in NamespaceObjects \cup {None}
  BY ViewsStep DEF ApiTypeOK

LEMMA TerminatedType ==
  ASSUME ApiTypeOK, NEW n \in Namespaces, NamespaceOpen(n)
  PROVE  [ns EXCEPT ![n] = Terminated(ns[n])]
           \in [Namespaces -> Views(NamespaceObjects \cup {None})]
<1>1. ns[n].live \in NamespaceObjects
  BY NsStep DEF NamespaceOpen
<1>2. [ns[n].live EXCEPT !.phase = "terminating"] \in NamespaceObjects
  BY <1>1 DEF NamespaceObjects
<1> QED
  BY <1>2, NsStep DEF Terminated

LEMMA RqStep ==
  ASSUME ApiTypeOK, NEW n \in Namespaces, NEW o \in ResourceQuotas \cup {None}
  PROVE  /\ [rq EXCEPT ![n] = Written(rq[n], o)]
              \in [Namespaces -> Views(ResourceQuotas \cup {None})]
         /\ [rq EXCEPT ![n] = Synced(rq[n])]
              \in [Namespaces -> Views(ResourceQuotas \cup {None})]
         /\ rq[n].live \in ResourceQuotas \cup {None}
  BY ViewsStep DEF ApiTypeOK

LEMMA LrStep ==
  ASSUME ApiTypeOK, NEW n \in Namespaces, NEW o \in Limits \cup {None}
  PROVE  /\ [lr EXCEPT ![n] = Written(lr[n], o)]
              \in [Namespaces -> Views(Limits \cup {None})]
         /\ [lr EXCEPT ![n] = Synced(lr[n])]
              \in [Namespaces -> Views(Limits \cup {None})]
  BY ViewsStep DEF ApiTypeOK

LEMMA AllSynced ==
  ASSUME ApiTypeOK
  PROVE  /\ [b \in BNs |-> Synced(bns[b])] \in [BNs -> Views(BudgetNamespaces \cup {None})]
         /\ [n \in Namespaces |-> Synced(ns[n])]
              \in [Namespaces -> Views(NamespaceObjects \cup {None})]
         /\ [n \in Namespaces |-> Synced(rq[n])]
              \in [Namespaces -> Views(ResourceQuotas \cup {None})]
         /\ [n \in Namespaces |-> Synced(lr[n])]
              \in [Namespaces -> Views(Limits \cup {None})]
  BY DEF ApiTypeOK, Views, Synced, InSync

\* Every return of a reconcile but the one of UpdateStatus.
LEMMA ReturnType ==
  ASSUME WorkerTypeOK, OutsideTypeOK, run # None, NEW at \in Times, Returns(at)
  PROVE  WorkerTypeOK' /\ (Reconciling <=> run # None)'
<1>1. run.bn \in BNs
  BY ManagedType DEF Runs
<1> QED
  BY <1>1 DEF WorkerTypeOK, Returns, Reconciling

LEMMA ReturnsErrorType ==
  ASSUME WorkerTypeOK, OutsideTypeOK, run # None, ReturnsError
  PROVE  WorkerTypeOK' /\ (Reconciling <=> run # None)'
<1>1. PICK d \in 0 .. MaxBackoff : Returns(clock + d)
  BY DEF ReturnsError
<1>2. clock + d \in Times
  BY ReconcilerAssumption DEF OutsideTypeOK, Times
<1> QED
  BY <1>1, <1>2, ReturnType

LEMMA EnsureNamespaceType ==
  ASSUME TypeOK, EnsureNamespace
  PROVE  ControllerTypeOK'
<1> USE DEF TypeOK
<1>1. pc = "namespace" /\ run # None
  BY DEF EnsureNamespace, Reconciling
<1>2. /\ Managed \in Namespaces
      /\ run.copy.spec.labels \in LabelMaps
  BY <1>1, ManagedType DEF BudgetNamespaceSpecs
<1>3. ns \in [Namespaces -> Views(NamespaceObjects \cup {None})]
  BY DEF ApiTypeOK
<1> DEFINE want == run.copy.spec.labels
           differing == {k \in DOMAIN want : k \notin DOMAIN ns[Managed].seen.labels
                                             \/ ns[Managed].seen.labels[k] # want[k]}
           patched == [ns[Managed].live EXCEPT
                         !.labels = Merged([k \in differing |-> want[k]], @)]
<1>4. [phase |-> "active", labels |-> want] \in NamespaceObjects
  BY <1>2 DEF NamespaceObjects
<1>5. ns[Managed].live # None => patched \in NamespaceObjects
  <2> SUFFICES ASSUME ns[Managed].live # None PROVE patched \in NamespaceObjects
    OBVIOUS
  <2>1. ns[Managed].live \in NamespaceObjects
    BY <1>2, <1>3, ViewType
  <2>2. ns[Managed].live.labels \in LabelMaps
    BY <2>1 DEF NamespaceObjects
  <2>3. differing \in SUBSET DOMAIN want
    OBVIOUS
  <2>4. Merged([k \in differing |-> want[k]], ns[Managed].live.labels) \in LabelMaps
    BY <1>2, <2>2, <2>3, MergedType
  <2> QED
    BY <2>1, <2>4 DEF NamespaceObjects
<1>6. \/ UNCHANGED ns
      \/ ns' = [ns EXCEPT ![Managed] = Written(ns[Managed], [phase |-> "active", labels |-> want])]
      \/ /\ ns[Managed].live # None
         /\ ns' = [ns EXCEPT ![Managed] = Written(ns[Managed], patched)]
  BY DEF EnsureNamespace
<1> HIDE DEF want, differing, patched
<1>7. ns' \in [Namespaces -> Views(NamespaceObjects \cup {None})]
  <2>1. ASSUME NEW o \in NamespaceObjects \cup {None}
        PROVE  [ns EXCEPT ![Managed] = Written(ns[Managed], o)]
                 \in [Namespaces -> Views(NamespaceObjects \cup {None})]
    BY <1>2, NsStep
  <2> QED
    BY <1>3, <1>4, <1>5, <1>6, <2>1
<1>8. ApiTypeOK'
  BY <1>7 DEF ApiTypeOK, EnsureNamespace
<1>9. ReturnsError => WorkerTypeOK' /\ (Reconciling <=> run # None)'
  BY <1>1, ReturnsErrorType
<1>10. Continues("quota") /\ UNCHANGED run =>
        WorkerTypeOK' /\ (Reconciling <=> run # None)'
  BY <1>1 DEF WorkerTypeOK, Continues, Reconciling
<1>11. OutsideTypeOK'
  BY DEF EnsureNamespace, OutsideTypeOK, outsideVars
<1> QED
  BY <1>8, <1>9, <1>10, <1>11 DEF EnsureNamespace, ControllerTypeOK

LEMMA ApplyQuotaType ==
  ASSUME TypeOK, ApplyQuota
  PROVE  ControllerTypeOK'
<1> USE DEF TypeOK
<1>1. pc = "quota" /\ run # None
  BY DEF ApplyQuota, Reconciling
<1>2. Managed \in Namespaces /\ run.copy.spec \in Specs
  BY <1>1, ManagedType DEF BudgetNamespaces
<1> DEFINE view == rq[Managed]
           same == view.seen # None /\ view.seen.hard = run.copy.spec.quota
           used == IF view.seen = None THEN EmptyMap ELSE view.live.used
           object == [hard |-> run.copy.spec.quota, used |-> used]
<1>3. ~same /\ ~ApplyFails(view, same) => object \in ResourceQuotas
  <2> SUFFICES ASSUME ~same, ~ApplyFails(view, same) PROVE used \in Usages \cup {EmptyMap}
    BY <1>2 DEF ResourceQuotas
  <2>1. CASE view.seen # None
    <3>1. view.live = view.seen /\ view.live \in ResourceQuotas
      BY <1>2, <2>1, RqStep, CurrentCopy, NoneIsNoObject DEF ApplyFails
    <3> QED
      BY <2>1, <3>1 DEF ResourceQuotas
  <2> QED
    BY <2>1
<1>4. \/ UNCHANGED rq
      \/ /\ object \in ResourceQuotas
         /\ rq' = [rq EXCEPT ![Managed] = Written(rq[Managed], object)]
  BY <1>2, <1>3 DEF ApplyQuota, Applied, ApiTypeOK
<1> HIDE DEF object
<1>5. ApiTypeOK'
  <2>1. ASSUME NEW o \in ResourceQuotas \cup {None}
        PROVE  [rq EXCEPT ![Managed] = Written(rq[Managed], o)]
                 \in [Namespaces -> Views(ResourceQuotas \cup {None})]
    BY <1>2, RqStep
  <2>2. rq' \in [Namespaces -> Views(ResourceQuotas \cup {None})]
    BY <1>4, <2>1 DEF ApiTypeOK
  <2> QED
    BY <2>2 DEF ApiTypeOK, ApplyQuota
<1>6. ReturnsError => WorkerTypeOK' /\ (Reconciling <=> run # None)'
  BY <1>1, ReturnsErrorType
<1>7. Continues("limits") /\ UNCHANGED run =>
        WorkerTypeOK' /\ (Reconciling <=> run # None)'
  BY <1>1 DEF WorkerTypeOK, Continues, Reconciling
<1>8. OutsideTypeOK'
  BY DEF ApplyQuota, OutsideTypeOK, outsideVars
<1> QED
  BY <1>5, <1>6, <1>7, <1>8 DEF ApplyQuota, ControllerTypeOK

LEMMA ApplyLimitRangeType ==
  ASSUME TypeOK, ApplyLimitRange
  PROVE  ControllerTypeOK'
<1> USE DEF TypeOK
<1>1. pc = "limits" /\ run # None
  BY DEF ApplyLimitRange, Reconciling
<1>2. Managed \in Namespaces /\ run.copy.spec.limits \in Limits
  BY <1>1, ManagedType DEF BudgetNamespaceSpecs
<1>3. \/ UNCHANGED lr
      \/ lr' = [lr EXCEPT ![Managed] = Written(lr[Managed], run.copy.spec.limits)]
  BY <1>2 DEF ApplyLimitRange, Applied, ApiTypeOK
<1>4. ApiTypeOK'
  <2>1. [lr EXCEPT ![Managed] = Written(lr[Managed], run.copy.spec.limits)]
          \in [Namespaces -> Views(Limits \cup {None})]
    BY <1>2, LrStep
  <2> QED
    BY <1>3, <2>1 DEF ApiTypeOK, ApplyLimitRange
<1>5. ReturnsError => WorkerTypeOK' /\ (Reconciling <=> run # None)'
  BY <1>1, ReturnsErrorType
<1>6. (Continues("evaluate") \/ Continues("status")) /\ UNCHANGED run =>
        WorkerTypeOK' /\ (Reconciling <=> run # None)'
  BY <1>1 DEF WorkerTypeOK, Continues, Reconciling
<1>7. OutsideTypeOK'
  BY DEF ApplyLimitRange, OutsideTypeOK, outsideVars
<1> QED
  BY <1>4, <1>5, <1>6, <1>7 DEF ApplyLimitRange, ControllerTypeOK

\* The steps that write to no object but workloads and move on or return.
LEMMA MovesOnType ==
  ASSUME TypeOK, run # None, UNCHANGED apiVars, UNCHANGED <<outsideVars, zeroedAt>>,
         \/ ReturnsError
         \/ UNCHANGED <<queue, pc, run>>
         \/ (Continues("status") \/ Continues("restore")) /\ run' \in Runs
         \/ (Continues("scale") \/ Continues("recover")) /\ run' \in Runs
         \/ Continues("spend") /\ run' \in Runs
  PROVE  ControllerTypeOK'
<1> USE DEF TypeOK
<1>1. ApiTypeOK' /\ OutsideTypeOK'
  BY DEF ApiTypeOK, OutsideTypeOK, apiVars, outsideVars
<1>2. WorkerTypeOK' /\ (Reconciling <=> run # None)'
  BY ReturnsErrorType, NoneIsNoObject DEF WorkerTypeOK, Continues, Reconciling
<1> QED
  BY <1>1, <1>2 DEF ControllerTypeOK

\* What the look at the ResourceQuota leaves of the reconcile.
LEMMA QuotaRun ==
  ASSUME TypeOK, EvaluateQuota, ~ReturnsError
  PROVE  /\ pc = "evaluate" /\ pc' = "spend" /\ UNCHANGED queue
         /\ run \in Runs /\ run # None /\ run.copy.spec.cooldown # Bad
         /\ run'.bn = run.bn /\ run'.copy = run.copy /\ run'.stale = run.stale
         /\ run'.now = run.now /\ run'.expired = run.expired
         /\ run'.requeueAfterTTL = run.requeueAfterTTL
         /\ run'.lastEnfAt = run.lastEnfAt /\ run'.lastEnfOp = run.lastEnfOp
         /\ run' \in Runs /\ run'.quotaEvaluated
         /\ run'.quotaAtHardLimit = quotaUsedAtOrOverHard(rq[Managed].seen)
<1>1. run # None /\ run \in Runs
  BY ManagedType DEF TypeOK, EvaluateQuota, Reconciling
<1> DEFINE overQuota == quotaUsedAtOrOverHard(rq[Managed].seen)
<1>2. /\ pc = "evaluate" /\ pc' = "spend" /\ UNCHANGED queue
      /\ run.copy.spec.cooldown # Bad
      /\ run' = [run EXCEPT !.quotaEvaluated = TRUE, !.quotaAtHardLimit = overQuota]
  BY DEF EvaluateQuota, Continues
<1> HIDE DEF overQuota
<1>3. overQuota \in BOOLEAN
  BY DEF overQuota, quotaUsedAtOrOverHard
<1>4. /\ run'.bn = run.bn /\ run'.copy = run.copy /\ run'.stale = run.stale
      /\ run'.now = run.now /\ run'.expired = run.expired
      /\ run'.requeueAfterTTL = run.requeueAfterTTL
      /\ run'.lastEnfAt = run.lastEnfAt /\ run'.lastEnfOp = run.lastEnfOp
      /\ run'.quotaEvaluated /\ run'.quotaAtHardLimit = overQuota
  BY <1>1, <1>2 DEF Runs
<1>5. run' \in Runs
  BY <1>1, <1>2, <1>3 DEF Runs
<1> QED
  BY <1>1, <1>2, <1>4, <1>5 DEF overQuota

LEMMA EvaluateQuotaType ==
  ASSUME TypeOK, EvaluateQuota
  PROVE  ControllerTypeOK'
<1>1. run # None
  BY DEF EvaluateQuota, TypeOK, Reconciling
<1>2. UNCHANGED apiVars /\ UNCHANGED <<outsideVars, zeroedAt>>
  BY DEF EvaluateQuota
<1>3. CASE ReturnsError
  BY <1>1, <1>2, <1>3, MovesOnType
<1>4. CASE ~ReturnsError
  <2>1. Continues("spend") /\ run' \in Runs
    BY <1>4, QuotaRun DEF Continues
  <2> QED
    BY <1>1, <1>2, <2>1, MovesOnType
<1> QED
  BY <1>3, <1>4

LEMMA EvaluateSpendType ==
  ASSUME TypeOK, EvaluateSpend
  PROVE  ControllerTypeOK'
<1> USE DEF TypeOK
<1>1. pc = "spend" /\ run # None
  BY DEF EvaluateSpend, Reconciling
<1>2. /\ Managed \in Namespaces /\ run \in Runs
      /\ run.copy.status \in Statuses /\ spend[Managed] \in Spends
  BY <1>1, ManagedType DEF BudgetNamespaces, OutsideTypeOK
<1> DEFINE spec == run.copy.spec
           enabled == costBudgetEnabled(spec)
           status == resolveNamespaceSpendUSD(spec, run.copy.status, run.now)
           amount == IF enabled THEN status.lastObservedSpendUSD ELSE 0
           overCost == enabled /\ spendAtOrOverMax(amount, spec.cost.max)
           evaluated == [run EXCEPT !.copy.status = status, !.costSpend = amount,
                                    !.costOverBudget = overCost]
<1>3. status \in Statuses
  BY <1>2 DEF resolveNamespaceSpendUSD, Managed, Statuses, Runs, Times, NamespaceSpendUSD
<1>4. amount \in Spends \cup {0}
  BY <1>2 DEF resolveNamespaceSpendUSD, QueriesSpend, Managed, Statuses, Throttled,
              NamespaceSpendUSD
<1>5. overCost \in BOOLEAN
  OBVIOUS
<1>6. \/ ReturnsError
      \/ /\ run' = evaluated
         /\ Continues("scale") \/ Continues("recover") \/ Continues("status")
  BY DEF EvaluateSpend
<1> HIDE DEF status, amount, overCost
<1>7. evaluated \in Runs
  <2>1. [run.copy EXCEPT !.status = status] \in BudgetNamespaces
    BY <1>2, <1>3 DEF Runs, BudgetNamespaces
  <2>2. [run.copy EXCEPT !.status = status].spec = run.copy.spec
    BY <1>2 DEF Runs, BudgetNamespaces
  <2>3. [run.copy EXCEPT !.status = status]
          \in {copy \in BudgetNamespaces : ~Rejected(copy.spec)}
    BY <1>2, <2>1, <2>2 DEF Runs
  <2> QED
    BY <1>2, <1>4, <1>5, <2>3 DEF Runs
<1>8. UNCHANGED apiVars /\ UNCHANGED <<outsideVars, zeroedAt>>
  BY DEF EvaluateSpend
<1> QED
  BY <1>1, <1>6, <1>7, <1>8, MovesOnType

LEMMA RecoverType ==
  ASSUME TypeOK, Recover
  PROVE  ControllerTypeOK'
<1> USE DEF TypeOK
<1>1. pc = "recover" /\ run # None /\ run \in Runs
  BY ManagedType DEF Recover, Reconciling
<1>2. ASSUME NEW d \in BOOLEAN PROVE [run EXCEPT !.recoveryDeferred = d] \in Runs
  BY <1>1 DEF Runs
<1>3. run' \in Runs /\ (Continues("restore") \/ Continues("status"))
  BY <1>2 DEF Recover
<1>4. UNCHANGED apiVars /\ UNCHANGED <<outsideVars, zeroedAt>>
  BY DEF Recover
<1> QED
  BY <1>1, <1>3, <1>4, MovesOnType

\* A pass in progress belongs to the reconcile in progress.
LEMMA PassHasRun ==
  ASSUME TypeOK, op # "none"
  PROVE  run # None /\ run \in Runs /\ pc \in Passes
  BY ManagedType DEF TypeOK, Passes, Reconciling

LEMMA PassType ==
  ASSUME TypeOK,
         \/ StartPass \/ PassMovesOn \/ PassFails \/ PassReturns
         \/ \E w \in Workloads : PassPatches(w)
  PROVE  ControllerTypeOK'
<1> USE DEF TypeOK
<1>1. CASE StartPass
  BY <1>1, MovesOnType DEF StartPass, Passes, Reconciling
<1>2. CASE PassMovesOn
  BY <1>2, MovesOnType, PassHasRun DEF PassMovesOn, NextKind
<1>3. CASE PassFails
  BY <1>3, MovesOnType, PassHasRun DEF PassFails, AbortPass
<1>4. CASE PassReturns
  <2>1. op \in {"ScaleToZero", "Restore"} /\ run \in Runs /\ run # None
    BY <1>4, PassHasRun DEF PassReturns, EndPass, WSTypeOK, Ops
  <2>2. clock \in Times
    BY ReconcilerAssumption DEF OutsideTypeOK, Times
  <2>3. [run EXCEPT !.lastEnfAt = clock, !.lastEnfOp = op] \in Runs
    BY <2>1, <2>2 DEF Runs
  <2>4. run' \in Runs
    BY <1>4, <2>1, <2>3 DEF PassReturns
  <2> QED
    BY <1>4, <2>1, <2>4, MovesOnType DEF PassReturns
<1>5. ASSUME NEW w \in Workloads, PassPatches(w) PROVE ControllerTypeOK'
  <2>1. op # "none" /\ run # None
    BY <1>5, PassHasRun DEF PassPatches, PatchWorkload
  <2>2. zeroedAt' \in [Namespaces -> Times]
    <3>1. clock \in Times /\ zeroedAt \in [Namespaces -> Times]
      BY ReconcilerAssumption DEF OutsideTypeOK, Times
    <3>2. \/ zeroedAt' = zeroedAt
          \/ zeroedAt' = [zeroedAt EXCEPT ![NamespaceOf[w]] = clock]
      BY <1>5 DEF PassPatches
    <3> QED
      BY <3>1, <3>2
  <2>3. OutsideTypeOK'
    BY <1>5, <2>2 DEF PassPatches, OutsideTypeOK, outsideVars
  <2>4. ApiTypeOK' /\ WorkerTypeOK' /\ (Reconciling <=> run # None)'
    BY <1>5 DEF PassPatches, ApiTypeOK, WorkerTypeOK, Reconciling, apiVars
  <2> QED
    BY <2>3, <2>4 DEF ControllerTypeOK
<1> QED
  BY <1>1, <1>2, <1>3, <1>4, <1>5

LEMMA DequeueType ==
  ASSUME TypeOK, NEW b \in BNs, Dequeue(b)
  PROVE  ControllerTypeOK'
<1> USE DEF TypeOK
<1>1. pc = "idle" /\ run = None /\ clock \in Nat
  BY ReconcilerAssumption DEF Dequeue, ReconcileNotFound, ReconcileRejected,
     ReconcileStart, Ready, Reconciling, OutsideTypeOK
<1>2. ApiTypeOK'
  BY DEF Dequeue, ReconcileNotFound, ReconcileRejected, ReconcileStart, ApiTypeOK, apiVars
<1>3. ReconcileNotFound(b) => ControllerTypeOK'
  BY <1>1, <1>2 DEF ReconcileNotFound, ControllerTypeOK, OutsideTypeOK, WorkerTypeOK,
     outsideVars, Reconciling, Times
<1>4. ASSUME ReconcileRejected(b) PROVE ControllerTypeOK'
  <2>1. PICK d \in 0 .. MaxBackoff : queue' = [queue EXCEPT ![b] = clock + d]
    BY <1>4 DEF ReconcileRejected
  <2>2. clock + d \in Times
    BY <1>1, ReconcilerAssumption DEF Times
  <2> QED
    BY <1>1, <1>2, <1>4, <2>1, <2>2 DEF ReconcileRejected, ControllerTypeOK,
       OutsideTypeOK, WorkerTypeOK, outsideVars, Reconciling
<1>5. ASSUME NEW d \in 0 .. ReadSkew, ReconcileStart(b, d) PROVE ControllerTypeOK'
  <2> DEFINE copy == bns[b].seen
  <2>1. copy \in {bn \in BudgetNamespaces : ~Rejected(bn.spec)}
    BY <1>5, BnsStep DEF ReconcileStart
  <2>2. /\ copy.spec \in BudgetNamespaceSpecs /\ copy.spec.ttl # Bad
        /\ copy.created \in Nat /\ copy.status \in Statuses
    BY <2>1, ReconcilerAssumption DEF BudgetNamespaces, Rejected
  <2>3. /\ Expired(copy.spec, copy.created, clock) \in BOOLEAN
        /\ (~bns[b].current) \in BOOLEAN
    BY DEF Expired
  <2>4. RequeueAfterTTL(copy.spec, copy.created, clock, clock + d) \in Int
    BY <1>1, <2>2, RequeueType, ReconcilerAssumption
  <2>5. copy.status.lastEnforcementAt \in Times
        /\ copy.status.lastEnforcementOperation \in {"", "ScaleToZero", "Restore"}
    BY <2>2 DEF Statuses
  <2> HIDE DEF copy
  <2>6. run' \in Runs
    BY <1>1, <1>5, <2>1, <2>3, <2>4, <2>5 DEF ReconcileStart, Runs, copy
  <2>7. pc' \in {"namespace", "delete", "grace", "status"}
    BY <1>5 DEF ReconcileStart, FirstStep
  <2>8. clock' \in 0 .. MaxClock
    BY <1>1, <1>5, ReconcilerAssumption DEF ReconcileStart
  <2>9. OutsideTypeOK'
    BY <1>5, <2>8 DEF ReconcileStart, OutsideTypeOK
  <2>10. WorkerTypeOK'
    BY <1>5, <2>6, <2>7 DEF ReconcileStart, WorkerTypeOK, Times
  <2> QED
    BY <1>2, <2>6, <2>7, <2>9, <2>10, NoneIsNoObject DEF ControllerTypeOK, Reconciling
<1> QED
  BY <1>3, <1>4, <1>5 DEF Dequeue

LEMMA DeleteNamespaceType ==
  ASSUME TypeOK, DeleteNamespace
  PROVE  ControllerTypeOK'
<1> USE DEF TypeOK
<1>1. run # None /\ Managed \in Namespaces
  BY ManagedType DEF DeleteNamespace, Reconciling
<1>2. NamespaceOpen(Managed) =>
        [ns EXCEPT ![Managed] = Terminated(ns[Managed])]
          \in [Namespaces -> Views(NamespaceObjects \cup {None})]
  BY <1>1, TerminatedType DEF ApiTypeOK
<1>3. ApiTypeOK'
  BY <1>2 DEF DeleteNamespace, ApiTypeOK
<1>4. OutsideTypeOK' /\ WorkerTypeOK' /\ (Reconciling <=> run # None)'
  BY <1>1 DEF DeleteNamespace, Continues, OutsideTypeOK, WorkerTypeOK, Reconciling,
     outsideVars
<1> QED
  BY <1>3, <1>4 DEF ControllerTypeOK

LEMMA UpdateStatusType ==
  ASSUME TypeOK, UpdateStatus
  PROVE  ControllerTypeOK'
<1> USE DEF TypeOK
<1>1. /\ run # None /\ run \in Runs /\ run.bn \in BNs
      /\ run.copy \in BudgetNamespaces /\ run.copy.spec.ttl # Bad
  BY ManagedType DEF UpdateStatus, Reconciling, Runs, Rejected
<1> DEFINE b == run.bn
           status == NewStatus(run.copy, run)
           delay == RequeueAfter(run.copy.spec, run.expired, run.requeueAfterTTL)
           at == IF delay > 0 THEN clock + delay ELSE None
           object == [bns[b].live EXCEPT !.status = status]
<1>2. status \in Statuses
  BY <1>1, NewStatusType
<1>3. at \in Times
  <2>1. delay \in Int
    BY <1>1, RequeueAfterType DEF Runs
  <2>2. clock \in Nat
    BY ReconcilerAssumption DEF OutsideTypeOK
  <2> HIDE DEF delay
  <2> QED
    BY <2>1, <2>2 DEF Times
<1> HIDE DEF status, at
<1>4. CASE StatusUpdateRefused(b)
  <2>1. ReturnsError /\ UNCHANGED bns
    BY <1>4 DEF UpdateStatus
  <2> QED
    BY <1>1, <2>1, MovesOnType DEF UpdateStatus, apiVars
<1>5. CASE ~StatusUpdateRefused(b)
  <2>1. bns[b].live \in BudgetNamespaces
    BY <1>1, <1>5, BnsStep DEF StatusUpdateRefused
  <2>2. object \in BudgetNamespaces
    BY <1>2, <2>1 DEF BudgetNamespaces
  <2>3. [bns EXCEPT ![b] = Written(bns[b], object)]
          \in [BNs -> Views(BudgetNamespaces \cup {None})]
    BY <1>1, <2>2, BnsStep
  <2>4. \/ bns' = bns
        \/ bns' = [bns EXCEPT ![b] = Written(bns[b], object)]
    BY <1>5 DEF UpdateStatus, status
  <2>5. ApiTypeOK'
    BY <2>3, <2>4 DEF UpdateStatus, ApiTypeOK
  <2>6. Returns(at)
    BY <1>5 DEF UpdateStatus, at
  <2>7. WorkerTypeOK' /\ (Reconciling <=> run # None)'
    BY <1>1, <1>3, <2>6, ReturnType
  <2>8. OutsideTypeOK'
    BY DEF UpdateStatus, OutsideTypeOK, outsideVars
  <2> QED
    BY <2>5, <2>7, <2>8 DEF ControllerTypeOK
<1> QED
  BY <1>4, <1>5

LEMMA WorkerStepType ==
  ASSUME TypeOK, WorkerStep
  PROVE  ControllerTypeOK'
  BY EnsureNamespaceType, ApplyQuotaType, ApplyLimitRangeType, EvaluateQuotaType,
     EvaluateSpendType, RecoverType, PassType, DeleteNamespaceType, UpdateStatusType DEF WorkerStep

LEMMA FailureType ==
  ASSUME TypeOK, CallFails \/ Crash \/ Restart
  PROVE  ControllerTypeOK'
<1> USE DEF TypeOK
<1>1. ASSUME NEW act, Happens(act), act \in EnvActKinds PROVE left' \in [EnvActKinds -> Nat]
  BY <1>1 DEF Happens, OutsideTypeOK
<1>2. CASE CallFails
  <2>1. OutsideTypeOK' /\ ApiTypeOK'
    BY <1>1, <1>2 DEF CallFails, OutsideTypeOK, ApiTypeOK, apiVars, EnvActKinds
  <2>2. WorkerTypeOK' /\ (Reconciling <=> run # None)'
    BY <1>2, ReturnsErrorType DEF CallFails
  <2> QED
    BY <2>1, <2>2 DEF ControllerTypeOK
<1>3. CASE Crash
  <2>1. OutsideTypeOK' /\ ApiTypeOK'
    BY <1>1, <1>3 DEF Crash, OutsideTypeOK, ApiTypeOK, apiVars, EnvActKinds
  <2>2. WorkerTypeOK' /\ (Reconciling <=> run # None)'
    BY <1>3 DEF Crash, WorkerTypeOK, Reconciling, Times
  <2> QED
    BY <2>1, <2>2 DEF ControllerTypeOK
<1>4. CASE Restart
  <2>1. /\ bns' \in [BNs -> Views(BudgetNamespaces \cup {None})]
        /\ ns' \in [Namespaces -> Views(NamespaceObjects \cup {None})]
        /\ rq' \in [Namespaces -> Views(ResourceQuotas \cup {None})]
        /\ lr' \in [Namespaces -> Views(Limits \cup {None})]
    BY <1>4, AllSynced DEF Restart
  <2>2. OutsideTypeOK'
    BY <1>4, ReconcilerAssumption DEF Restart, OutsideTypeOK
  <2>3. WorkerTypeOK' /\ (Reconciling <=> run # None)'
    BY <1>4 DEF Restart, WorkerTypeOK, Reconciling, Times
  <2> QED
    BY <2>1, <2>2, <2>3 DEF ControllerTypeOK, ApiTypeOK
<1> QED
  BY <1>2, <1>3, <1>4

LEMMA CacheStepType ==
  ASSUME TypeOK, CacheStep
  PROVE  ControllerTypeOK'
<1> USE DEF TypeOK
<1>1. ASSUME NEW b \in BNs, SyncBudgetNamespace(b) PROVE ControllerTypeOK'
  <2>1. bns' \in [BNs -> Views(BudgetNamespaces \cup {None})]
    BY <1>1, BnsStep DEF SyncBudgetNamespace
  <2>2. WorkerTypeOK'
    BY <1>1 DEF SyncBudgetNamespace, WorkerTypeOK, Times
  <2> QED
    BY <1>1, <2>1, <2>2 DEF SyncBudgetNamespace, ControllerTypeOK, ApiTypeOK,
       OutsideTypeOK, outsideVars, Reconciling
<1>2. ASSUME NEW n \in Namespaces, SyncResourceQuota(n) PROVE ControllerTypeOK'
  <2>1. rq' \in [Namespaces -> Views(ResourceQuotas \cup {None})]
    BY <1>2, RqStep DEF SyncResourceQuota
  <2>2. WorkerTypeOK'
    BY <1>2 DEF SyncResourceQuota, WorkerTypeOK, Times
  <2> QED
    BY <1>2, <2>1, <2>2 DEF SyncResourceQuota, ControllerTypeOK, ApiTypeOK,
       OutsideTypeOK, outsideVars, Reconciling
<1>3. ASSUME NEW n \in Namespaces, SyncNamespace(n) PROVE ControllerTypeOK'
  <2>1. ns' \in [Namespaces -> Views(NamespaceObjects \cup {None})]
    BY <1>3, NsStep DEF SyncNamespace
  <2> QED
    BY <1>3, <2>1 DEF SyncNamespace, ControllerTypeOK, ApiTypeOK, OutsideTypeOK,
       outsideVars, WorkerTypeOK, Reconciling
<1>4. ASSUME NEW n \in Namespaces, SyncLimitRange(n) PROVE ControllerTypeOK'
  <2>1. lr' \in [Namespaces -> Views(Limits \cup {None})]
    BY <1>4, LrStep DEF SyncLimitRange
  <2> QED
    BY <1>4, <2>1 DEF SyncLimitRange, ControllerTypeOK, ApiTypeOK, OutsideTypeOK,
       outsideVars, WorkerTypeOK, Reconciling
<1>5. ASSUME NEW k \in Kinds, SyncWorkloadCache(k) PROVE ControllerTypeOK'
  BY <1>5 DEF SyncWorkloadCache, ControllerTypeOK, ApiTypeOK, apiVars, OutsideTypeOK,
     outsideVars, WorkerTypeOK, Reconciling
<1> QED
  BY <1>1, <1>2, <1>3, <1>4, <1>5 DEF CacheStep

LEMMA UserWritesBNType ==
  ASSUME TypeOK, NEW b \in BNs, NEW o \in BudgetNamespaces \cup {None},
         UserWritesBN(b, o), left' \in [EnvActKinds -> Nat]
  PROVE  ControllerTypeOK'
<1> USE DEF TypeOK
<1>1. bns' \in [BNs -> Views(BudgetNamespaces \cup {None})]
  BY BnsStep DEF UserWritesBN
<1>2. run' \in Runs \cup {None} /\ (run # None <=> run' # None)
  <2>1. run # None => [run EXCEPT !.stale = TRUE] \in Runs
    BY ManagedType DEF Runs
  <2> QED
    BY <2>1, NoneIsNoObject DEF UserWritesBN, WorkerTypeOK
<1>3. WorkerTypeOK' /\ (Reconciling <=> run # None)'
  BY <1>2 DEF UserWritesBN, WorkerTypeOK, Reconciling
<1> QED
  BY <1>1, <1>3 DEF UserWritesBN, ControllerTypeOK, ApiTypeOK, OutsideTypeOK

LEMMA EditedType ==
  ASSUME NEW o \in BudgetNamespaces, NEW s \in Specs
  PROVE  [o EXCEPT !.spec = s, !.generation = @ + 1] \in BudgetNamespaces
<1>1. o.generation + 1 \in Nat
  BY DEF BudgetNamespaces
<1>2. [o EXCEPT !.spec = s] \in BudgetNamespaces
  BY DEF BudgetNamespaces
<1>3. ASSUME NEW p \in BudgetNamespaces, NEW g \in Nat
      PROVE  [p EXCEPT !.generation = g] \in BudgetNamespaces
  BY DEF BudgetNamespaces
<1> QED
  BY <1>1, <1>2, <1>3

LEMMA UserOfBNType ==
  ASSUME TypeOK, NEW b \in BNs, NEW s \in Specs,
         CreateBN(b, s) \/ EditBN(b, s) \/ TouchBN(b) \/ DeleteBN(b)
  PROVE  ControllerTypeOK'
<1> USE DEF TypeOK
<1>1. left' \in [EnvActKinds -> Nat]
  BY DEF CreateBN, EditBN, TouchBN, DeleteBN, Happens, OutsideTypeOK, EnvActKinds
<1>2. ASSUME NEW o \in BudgetNamespaces \cup {None}, UserWritesBN(b, o)
      PROVE  ControllerTypeOK'
  BY <1>1, <1>2, UserWritesBNType
<1>3. CASE CreateBN(b, s)
  <2>1. Stored(clock) \in Nat
    BY StoredType, ReconcilerAssumption DEF OutsideTypeOK
  <2>2. [created |-> Stored(clock), generation |-> 1, spec |-> s, status |-> NoStatus]
          \in BudgetNamespaces
    BY <2>1, NoStatusType DEF BudgetNamespaces
  <2> QED
    BY <1>2, <1>3, <2>2 DEF CreateBN
<1>4. CASE EditBN(b, s)
  <2>1. bns[b].live \in BudgetNamespaces
    BY <1>4, BnsStep DEF EditBN
  <2>2. [bns[b].live EXCEPT !.spec = s, !.generation = @ + 1] \in BudgetNamespaces
    BY <2>1, EditedType
  <2>3. UserWritesBN(b, [bns[b].live EXCEPT !.spec = s, !.generation = @ + 1])
    BY <1>4 DEF EditBN
  <2> QED
    BY <1>2, <2>2, <2>3
<1>5. CASE TouchBN(b)
  BY <1>2, <1>5, BnsStep DEF TouchBN
<1>6. CASE DeleteBN(b)
  BY <1>2, <1>6 DEF DeleteBN
<1> QED
  BY <1>3, <1>4, <1>5, <1>6

\* A step outside the operator that keeps to the types of what it writes.
LEMMA AroundType ==
  ASSUME TypeOK, ApiTypeOK', spend' \in [Namespaces -> Spends],
         left' \in [EnvActKinds -> Nat], UNCHANGED <<clock, querier, zeroedAt, queue, pc, run>>
  PROVE  ControllerTypeOK'
BY DEF TypeOK, ControllerTypeOK, OutsideTypeOK, WorkerTypeOK, Reconciling

\* Users, the cluster and the billing export change one object each.
LEMMA UserOfNamespaceType ==
  ASSUME TypeOK, NEW n \in Namespaces,
         \/ UserDeletesNamespace(n)
         \/ \E l \in {s.labels : s \in Specs} \cup {EmptyMap} : UserLabelsNamespace(n, l)
         \/ \E q \in Tampered({s.quota : s \in Specs}) : UserWritesQuota(n, q)
         \/ \E l \in Tampered(Limits) : UserWritesLimits(n, l)
         \/ \E u \in Usages : UsageChanges(n, u)
         \/ \E a \in Spends : SpendChanges(n, a)
  PROVE  ControllerTypeOK'
<1> USE DEF TypeOK
<1>0. ASSUME NEW act \in EnvActKinds, Happens(act) PROVE left' \in [EnvActKinds -> Nat]
  BY <1>0 DEF Happens, OutsideTypeOK
<1>1. ASSUME UserDeletesNamespace(n) PROVE ControllerTypeOK'
  <2>1. ns' \in [Namespaces -> Views(NamespaceObjects \cup {None})]
    BY <1>1, TerminatedType DEF UserDeletesNamespace
  <2>8. Happens("namespace") /\ ApiTypeOK'
    BY <1>1, <2>1 DEF UserDeletesNamespace, ApiTypeOK
  <2>9. left' \in [EnvActKinds -> Nat]
    BY <1>0, <2>8 DEF EnvActKinds
  <2> QED
    BY <1>1, <2>8, <2>9, AroundType DEF UserDeletesNamespace, OutsideTypeOK
<1>2. ASSUME NEW l \in {s.labels : s \in Specs} \cup {EmptyMap}, UserLabelsNamespace(n, l)
      PROVE  ControllerTypeOK'
  <2>1. l \in LabelMaps
    BY EmptyMapType, ReconcilerAssumption DEF BudgetNamespaceSpecs
  <2>2. ns[n].live \in NamespaceObjects
    BY <1>2, NsStep DEF UserLabelsNamespace
  <2>3. [ns[n].live EXCEPT !.labels = l] \in NamespaceObjects
    BY <2>1, <2>2 DEF NamespaceObjects
  <2>4. ns' \in [Namespaces -> Views(NamespaceObjects \cup {None})]
    BY <1>2, <2>3, NsStep DEF UserLabelsNamespace
  <2>8. Happens("tamper") /\ ApiTypeOK'
    BY <1>2, <2>4 DEF UserLabelsNamespace, ApiTypeOK
  <2>9. left' \in [EnvActKinds -> Nat]
    BY <1>0, <2>8 DEF EnvActKinds
  <2> QED
    BY <1>2, <2>8, <2>9, AroundType DEF UserLabelsNamespace, OutsideTypeOK
<1>3. ASSUME NEW q \in Tampered({s.quota : s \in Specs}), UserWritesQuota(n, q)
      PROVE  ControllerTypeOK'
  <2> DEFINE object == IF q = None THEN None ELSE [rq[n].live EXCEPT !.hard = q]
  <2>1. rq[n].live \in ResourceQuotas
    BY <1>3, RqStep DEF UserWritesQuota
  <2>2. object \in ResourceQuotas \cup {None}
    BY <2>1 DEF ResourceQuotas, Tampered
  <2>3. rq' = [rq EXCEPT ![n] = Written(rq[n], object)]
    BY <1>3 DEF UserWritesQuota
  <2> HIDE DEF object
  <2>4. rq' \in [Namespaces -> Views(ResourceQuotas \cup {None})]
    BY <2>2, <2>3, RqStep
  <2>8. Happens("tamper") /\ ApiTypeOK'
    BY <1>3, <2>4 DEF UserWritesQuota, ApiTypeOK
  <2>9. left' \in [EnvActKinds -> Nat]
    BY <1>0, <2>8 DEF EnvActKinds
  <2> QED
    BY <1>3, <2>8, <2>9, AroundType DEF UserWritesQuota, OutsideTypeOK
<1>4. ASSUME NEW l \in Tampered(Limits), UserWritesLimits(n, l)
      PROVE  ControllerTypeOK'
  <2>1. l \in Limits \cup {None}
    BY DEF Tampered
  <2>2. lr' \in [Namespaces -> Views(Limits \cup {None})]
    BY <1>4, <2>1, LrStep DEF UserWritesLimits
  <2>8. Happens("tamper") /\ ApiTypeOK'
    BY <1>4, <2>2 DEF UserWritesLimits, ApiTypeOK
  <2>9. left' \in [EnvActKinds -> Nat]
    BY <1>0, <2>8 DEF EnvActKinds
  <2> QED
    BY <1>4, <2>8, <2>9, AroundType DEF UserWritesLimits, OutsideTypeOK
<1>5. ASSUME NEW u \in Usages, UsageChanges(n, u) PROVE ControllerTypeOK'
  <2>1. rq[n].live \in ResourceQuotas
    BY <1>5, RqStep DEF UsageChanges
  <2>2. [rq[n].live EXCEPT !.used = u] \in ResourceQuotas
    BY <2>1 DEF ResourceQuotas
  <2>3. rq' \in [Namespaces -> Views(ResourceQuotas \cup {None})]
    BY <1>5, <2>2, RqStep DEF UsageChanges
  <2>8. Happens("usage") /\ ApiTypeOK'
    BY <1>5, <2>3 DEF UsageChanges, ApiTypeOK
  <2>9. left' \in [EnvActKinds -> Nat]
    BY <1>0, <2>8 DEF EnvActKinds
  <2> QED
    BY <1>5, <2>8, <2>9, AroundType DEF UsageChanges, OutsideTypeOK
<1>6. ASSUME NEW a \in Spends, SpendChanges(n, a) PROVE ControllerTypeOK'
  <2>1. Happens("bill") /\ ApiTypeOK' /\ spend' \in [Namespaces -> Spends]
    BY <1>6 DEF SpendChanges, ApiTypeOK, apiVars, OutsideTypeOK
  <2>2. left' \in [EnvActKinds -> Nat]
    BY <1>0, <2>1 DEF EnvActKinds
  <2> QED
    BY <1>6, <2>1, <2>2, AroundType DEF SpendChanges
<1> QED
  BY <1>1, <1>2, <1>3, <1>4, <1>5, <1>6

LEMMA OutsideStepType ==
  ASSUME TypeOK, OutsideStep
  PROVE  ControllerTypeOK'
<1>1. UsersWriteWorkloads => ControllerTypeOK'
  BY DEF UsersWriteWorkloads, TypeOK, ControllerTypeOK, ApiTypeOK, apiVars, OutsideTypeOK,
     outsideVars, WorkerTypeOK, Reconciling
<1>2. ASSUME NEW b \in BNs, TouchBN(b) \/ DeleteBN(b) PROVE ControllerTypeOK'
  <2>1. bns[b].live \in BudgetNamespaces
    BY <1>2, BnsStep DEF TouchBN, DeleteBN, TypeOK
  <2>2. PICK s \in Specs : TRUE
    BY <2>1 DEF BudgetNamespaces
  <2> QED
    BY <1>2, <2>2, UserOfBNType
<1> QED
  BY <1>1, <1>2, UserOfBNType, UserOfNamespaceType DEF OutsideStep

LEMMA ClusterType ==
  ASSUME TypeOK,
         \/ \E n \in Namespaces : EmptyNamespace(n) \/ RemoveNamespace(n)
         \/ Tick \/ Resync
  PROVE  ControllerTypeOK'
<1> USE DEF TypeOK
<1>1. ASSUME NEW n \in Namespaces, EmptyNamespace(n) PROVE ControllerTypeOK'
  <2>1. /\ rq' \in [Namespaces -> Views(ResourceQuotas \cup {None})]
        /\ lr' \in [Namespaces -> Views(Limits \cup {None})]
    <3>1. /\ rq' = rq \/ rq' = [rq EXCEPT ![n] = Written(rq[n], None)]
          /\ lr' = lr \/ lr' = [lr EXCEPT ![n] = Written(lr[n], None)]
      BY <1>1 DEF EmptyNamespace, ApiTypeOK
    <3>2. [rq EXCEPT ![n] = Written(rq[n], None)]
            \in [Namespaces -> Views(ResourceQuotas \cup {None})]
      BY RqStep
    <3>3. [lr EXCEPT ![n] = Written(lr[n], None)]
            \in [Namespaces -> Views(Limits \cup {None})]
      BY LrStep
    <3> QED
      BY <3>1, <3>2, <3>3 DEF ApiTypeOK
  <2> QED
    BY <1>1, <2>1 DEF EmptyNamespace, ControllerTypeOK, ApiTypeOK, OutsideTypeOK,
       outsideVars, WorkerTypeOK, Reconciling
<1>2. ASSUME NEW n \in Namespaces, RemoveNamespace(n) PROVE ControllerTypeOK'
  <2>1. ns' \in [Namespaces -> Views(NamespaceObjects \cup {None})]
    BY <1>2, NsStep DEF RemoveNamespace
  <2> QED
    BY <1>2, <2>1 DEF RemoveNamespace, ControllerTypeOK, ApiTypeOK, OutsideTypeOK,
       outsideVars, WorkerTypeOK, Reconciling
<1>3. CASE Tick
  <2>1. clock' \in 0 .. MaxClock
    BY <1>3, ReconcilerAssumption DEF Tick, OutsideTypeOK
  <2> QED
    BY <1>3, <2>1 DEF Tick, ControllerTypeOK, ApiTypeOK, apiVars, OutsideTypeOK,
       WorkerTypeOK, Reconciling
<1>4. CASE Resync
  <2>1. WorkerTypeOK'
    BY <1>4 DEF Resync, WorkerTypeOK, Times
  <2> QED
    BY <1>4, <2>1 DEF Resync, ControllerTypeOK, ApiTypeOK, apiVars, OutsideTypeOK,
       outsideVars, Reconciling
<1> QED
  BY <1>1, <1>2, <1>3, <1>4

\* A pass belongs to the reconcile in progress and is for its namespace.
PassOwned == op # "none" => pc \in Passes /\ op = PassOp /\ scope = Managed

LEMMA TypeOKParts == TypeOK <=> WSTypeOK /\ ControllerTypeOK /\ PassOwned
  BY DEF TypeOK, ControllerTypeOK, PassOwned

LEMMA OwnerStays ==
  ASSUME TypeOK, UNCHANGED <<op, scope, pc>>, op # "none" => Managed' = Managed
  PROVE  PassOwned'
  BY DEF TypeOK, PassOwned, PassOp

LEMMA WorkerStepOwns ==
  ASSUME TypeOK, WorkerStep
  PROVE  PassOwned'
<1>1. CASE \/ EnsureNamespace \/ ApplyQuota \/ ApplyLimitRange
           \/ EvaluateQuota \/ EvaluateSpend \/ Recover \/ DeleteNamespace \/ UpdateStatus
  <2>1. op = "none"
    BY <1>1 DEF TypeOK, Passes, EnsureNamespace, ApplyQuota, ApplyLimitRange,
                EvaluateQuota, EvaluateSpend, Recover, DeleteNamespace, UpdateStatus
  <2>2. UNCHANGED wsVars
    BY <1>1, WorkerOutsidePasses
  <2> QED
    BY <2>1, <2>2 DEF wsVars, PassOwned
<1>2. CASE StartPass
  BY <1>2 DEF StartPass, BeginPass, PassOwned, PassOp, Managed
<1>3. ASSUME NEW w \in Workloads, PassPatches(w) PROVE PassOwned'
  BY <1>3, OwnerStays DEF PassPatches, PatchWorkload, Managed
<1>4. CASE PassMovesOn
  BY <1>4, OwnerStays DEF PassMovesOn, NextKind, Managed
<1>5. CASE PassFails \/ PassReturns
  BY <1>5 DEF PassFails, AbortPass, PassReturns, EndPass, PassOwned
<1> QED
  BY <1>1, <1>2, <1>3, <1>4, <1>5 DEF WorkerStep

\* A write of a BudgetNamespace leaves the reconcile in progress its copy.
LEMMA UserWritesBNOwns ==
  ASSUME TypeOK, NEW b, NEW o, UserWritesBN(b, o)
  PROVE  PassOwned'
<1>1. op # "none" => Managed' = Managed
  <2> SUFFICES ASSUME op # "none" PROVE Managed' = Managed
    OBVIOUS
  <2>1. run \in Runs
    BY PassHasRun
  <2>2. [run EXCEPT !.stale = TRUE].copy = run.copy
    BY <2>1 DEF Runs
  <2> QED
    BY <2>2 DEF UserWritesBN, Managed
<1> QED
  BY <1>1, OwnerStays DEF UserWritesBN, wsVars

LEMMA OutsideStepOwns ==
  ASSUME TypeOK, OutsideStep
  PROVE  PassOwned'
<1>1. ASSUME NEW b \in BNs, NEW s \in Specs, CreateBN(b, s) \/ EditBN(b, s)
      PROVE  PassOwned'
  BY <1>1, UserWritesBNOwns DEF CreateBN, EditBN
<1>2. ASSUME NEW b \in BNs, TouchBN(b) \/ DeleteBN(b)
      PROVE  PassOwned'
  BY <1>2, UserWritesBNOwns DEF TouchBN, DeleteBN
<1>3. ASSUME NEW n, NEW x,
             \/ UserDeletesNamespace(n) \/ UserLabelsNamespace(n, x)
             \/ UserWritesQuota(n, x) \/ UserWritesLimits(n, x)
             \/ UsageChanges(n, x) \/ SpendChanges(n, x)
      PROVE  PassOwned'
  BY <1>3, OwnerStays DEF wsVars, Managed, UserDeletesNamespace, UserLabelsNamespace,
     UserWritesQuota, UserWritesLimits, UsageChanges, SpendChanges
<1>4. ASSUME UsersWriteWorkloads PROVE PassOwned'
  <2>1. UNCHANGED <<op, scope>>
    BY <1>4 DEF UsersWriteWorkloads, UserStep, UserScale, UserCreate, UserAnnotate,
                UserLabel, UserDelete, UserWrite
  <2> QED
    BY <1>4, <2>1, OwnerStays DEF UsersWriteWorkloads, Managed
<1> QED
  BY <1>1, <1>2, <1>3, <1>4 DEF OutsideStep

LEMMA PassOwnedStep ==
  ASSUME TypeOK, [Next]_vars
  PROVE  PassOwned'
<1>1. ASSUME NEW b \in BNs, Dequeue(b) PROVE PassOwned'
  <2>1. pc = "idle" /\ UNCHANGED wsVars
    BY <1>1, WorkerOutsidePasses DEF Dequeue, ReconcileNotFound, ReconcileRejected,
                                     ReconcileStart, Ready
  <2> QED
    BY <2>1 DEF TypeOK, Passes, wsVars, PassOwned
<1>2. CASE WorkerStep
  BY <1>2, WorkerStepOwns
<1>3. CASE CallFails \/ Crash
  BY <1>3 DEF CallFails, Crash, PassStops, AbortPass, wsVars, PassOwned
<1>4. CASE Restart
  BY <1>4 DEF Restart, TypeOK, Passes, wsVars, PassOwned
<1>5. CASE CacheStep
  BY <1>5, OwnerStays DEF CacheStep, SyncBudgetNamespace, SyncResourceQuota,
     SyncNamespace, SyncLimitRange, SyncWorkloadCache, SyncWorkloads, wsVars, Managed
<1>6. CASE OutsideStep
  BY <1>6, OutsideStepOwns
<1>7. CASE \/ \E n \in Namespaces : EmptyNamespace(n) \/ RemoveNamespace(n)
           \/ Tick \/ Resync
  BY <1>7, OwnerStays DEF EmptyNamespace, RemoveNamespace, PurgeWorkloads, Tick, Resync,
     wsVars, Managed
<1>8. CASE UNCHANGED vars
  BY <1>8, OwnerStays DEF vars, wsVars, Managed
<1> QED
  BY <1>1, <1>2, <1>3, <1>4, <1>5, <1>6, <1>7, <1>8 DEF Next

LEMMA NextType ==
  ASSUME TypeOK, [Next]_vars
  PROVE  ControllerTypeOK'
<1>1. CASE UNCHANGED vars
  BY <1>1 DEF vars, apiVars, outsideVars, TypeOK, ControllerTypeOK, ApiTypeOK,
              OutsideTypeOK, WorkerTypeOK, Reconciling
<1> QED
  BY <1>1, DequeueType, WorkerStepType, FailureType, CacheStepType, OutsideStepType,
     ClusterType DEF Next

-----------------------------------------------------------------------------
(* The invariant: the passes' own invariant and the types.  Neither is      *)
(* inductive alone: only within its types is a step of the controller a     *)
(* step of WorkloadScale, and WSTypeOK is kept by the passes' invariant.    *)

ControllerInv == WSInv /\ TypeOK

LEMMA InSyncType ==
  ASSUME NEW S, NEW o \in S
  PROVE  InSync(o) \in Views(S)
BY DEF InSync, Views

LEMMA InitInv == Init => ControllerInv
<1> SUFFICES ASSUME Init PROVE ControllerInv
  OBVIOUS
<1>1. WSInv
  BY WSInitInv DEF Init
<1>2. ApiTypeOK
  <2>1. bns \in [BNs -> Views(BudgetNamespaces \cup {None})]
    <3>1. ASSUME NEW s \in Specs
          PROVE  [created |-> 0, generation |-> 1, spec |-> s, status |-> NoStatus]
                   \in BudgetNamespaces
      BY NoStatusType DEF BudgetNamespaces
    <3>2. ASSUME NEW o \in BudgetNamespaces
          PROVE  InSync(o) \in Views(BudgetNamespaces \cup {None})
      BY InSyncType
    <3>3. {InSync([created |-> 0, generation |-> 1, spec |-> s, status |-> NoStatus]) :
             s \in Specs} \subseteq Views(BudgetNamespaces \cup {None})
      BY <3>1, <3>2
    <3> QED
      BY <3>3 DEF Init
  <2>2. ns \in [Namespaces -> Views(NamespaceObjects \cup {None})]
    <3>1. [phase |-> "active", labels |-> EmptyMap] \in NamespaceObjects
      BY EmptyMapType DEF NamespaceObjects
    <3>2. /\ InSync(None) \in Views(NamespaceObjects \cup {None})
          /\ InSync([phase |-> "active", labels |-> EmptyMap])
               \in Views(NamespaceObjects \cup {None})
      BY <3>1, InSyncType
    <3> QED
      BY <3>2 DEF Init
  <2>3. /\ InSync(None) \in Views(ResourceQuotas \cup {None})
        /\ InSync(None) \in Views(Limits \cup {None})
    BY InSyncType
  <2> QED
    BY <2>1, <2>2, <2>3 DEF Init, ApiTypeOK
<1>3. OutsideTypeOK /\ WorkerTypeOK
  BY ReconcilerAssumption DEF Init, OutsideTypeOK, WorkerTypeOK, Times
<1>4. (Reconciling <=> run # None) /\ PassOwned
  BY DEF Init, WSInit, Reconciling, PassOwned
<1> QED
  BY <1>1, <1>2, <1>3, <1>4, TypeOKParts DEF ControllerInv, ControllerTypeOK, WSInv

LEMMA NextInv == ControllerInv /\ [Next]_vars => ControllerInv'
<1> SUFFICES ASSUME ControllerInv, [Next]_vars PROVE ControllerInv'
  OBVIOUS
<1>1. WSInv'
  BY StepRefines, WSNextInv DEF ControllerInv
<1>2. ControllerTypeOK' /\ PassOwned'
  BY NextType, PassOwnedStep DEF ControllerInv
<1>3. TypeOK'
  BY <1>1, <1>2 DEF TypeOK, ControllerTypeOK, PassOwned, WSInv
<1> QED
  BY <1>1, <1>3 DEF ControllerInv

LEMMA ControllerInvariant == Spec => []ControllerInv
  BY InitInv, NextInv, PTL DEF Spec

(***************************************************************************)
(* Every variable of the controller has its type; a reconcile in progress  *)
(* has its locals, and a pass belongs to the reconcile that started it and *)
(* is for the namespace of that reconcile's copy.                          *)
(***************************************************************************)
THEOREM TypeCorrect == Spec => []TypeOK
<1>1. ControllerInv => TypeOK
  BY DEF ControllerInv
<1> QED
  BY <1>1, ControllerInvariant, PTL

(***************************************************************************)
(* The controller implements WorkloadScale: whatever it does to workloads  *)
(* is a pass of that specification or a part of one.                       *)
(***************************************************************************)
THEOREM ControllerRefinesPasses == Spec => PassesAreWorkloadScale
<1>1. Init => WSInit
  BY DEF Init
<1>2. TypeOK /\ [Next]_vars => [WSNext]_wsVars
  BY StepRefines
<1> QED
  BY <1>1, <1>2, TypeCorrect, PTL DEF Spec, PassesAreWorkloadScale, WSSpec

(***************************************************************************)
(* The whole controller never loses a replica count: through conflicts,    *)
(* retries, crashes, stale reads and edits of the spec, a workload keeps   *)
(* the count its user gave it, running or in the annotation.               *)
(***************************************************************************)
THEOREM ControllerPreservesCounts == Spec => []CountPreserved
  BY ControllerRefinesPasses, CountsArePreserved, PTL DEF PassesAreWorkloadScale

(***************************************************************************)
(* The whole controller keeps the ledger: it only ever takes a workload to *)
(* zero and brings back the count its user asked for.                      *)
(***************************************************************************)
THEOREM ControllerKeepsLedger == Spec => LedgerIsKept
  BY ControllerRefinesPasses, PassesKeepLedger, PTL DEF PassesAreWorkloadScale

=============================================================================
