-------------------------- MODULE BudgetReconciler --------------------------
(***************************************************************************)
(* The controller: BudgetNamespaceReconciler.Reconcile with its work queue *)
(* and watches, the BudgetNamespaces, the namespaces they name, each with  *)
(* its ResourceQuota, LimitRange and workloads, and what happens around    *)
(* them (users, the namespace and quota controllers, the billing export,   *)
(* failing calls and crashes).                                             *)
(*                                                                         *)
(* One reconcile runs at a time.  Each of its API calls is a step of its   *)
(* own, so that everything else can move in between; reads come from the   *)
(* informer cache.  The workload passes are those of WorkloadScale.        *)
(***************************************************************************)
EXTENDS WorkloadScale, BudgetRules

CONSTANTS
  BNs,             \* the BudgetNamespaces
  Specs,           \* the specs users give them
  Usages,          \* the values of the ResourceQuota's status.used
  Spends,          \* the amounts a billing query can return
  Clients,         \* whether a starting process gets a BigQuery client
  Resyncs,         \* whether the informers' periodic resync is modelled
  TrackZeroed,     \* whether the history variable zeroedAt is kept
  MaxClock,        \* bound: the horizon; its last tick stands for all later ones
  Budget,          \* bound: how often each of EnvActKinds happens
  MaxBackoff,      \* bound: delay of a rate-limited retry
  ReadSkew         \* bound: time between the two clock readings of Reconcile

\* What users, the cluster and the network do around the operator.
EnvActKinds ==
  {"edit", "touch", "delete", "create", "usage", "bill", "namespace", "tamper",
   "fail", "crash"}

EmptyMap == [k \in {} |-> 0]

LabelKeys == UNION {DOMAIN s.labels : s \in Specs}

LabelValues == UNION {{s.labels[k] : k \in DOMAIN s.labels} : s \in Specs}

LabelMaps == UNION {[K -> LabelValues] : K \in SUBSET LabelKeys}

\* Container defaults are only compared and written.
Limits == {s.limits : s \in Specs}

BudgetNamespaceSpecs ==
  [namespaceName : Namespaces, ttl : Durations, labels : LabelMaps,
   quota : {s.quota : s \in Specs}, limits : Limits,
   enabled : BOOLEAN, action : Actions, restoreOnRecovery : BOOLEAN,
   cooldown : Durations, cost : CostBudgetSpecs \cup {None}]

ASSUME ReconcilerAssumption ==
  /\ Specs \subseteq BudgetNamespaceSpecs
  /\ \A s \in Specs : IsQuotaSpec(s.quota)
  /\ Spends \subseteq Int
  /\ Clients \subseteq BOOLEAN /\ Clients # {}
  /\ Resyncs \in BOOLEAN
  /\ TrackZeroed \in BOOLEAN
  /\ Budget \in [EnvActKinds -> Nat]
  /\ MaxClock \in Nat /\ MaxBackoff \in Nat /\ ReadSkew \in Nat

VARIABLES
  clock,      \* the time
  bns,        \* the BudgetNamespaces: views of [created, generation, spec, status]
  ns,         \* per namespace, the Namespace: a view of [phase, labels]
  rq,         \* its costguard-quota: a view of [hard, used]
  lr,         \* its costguard-limitrange: a view of the limits
  spend,      \* what the billing export says the namespace has cost
  queue,      \* per BudgetNamespace: None, or when its request is ready
  querier,    \* whether the running process has a BigQuery client
  pc,         \* where the worker is
  run,        \* the local variables of the reconcile in progress, or None
  left,       \* how often each of EnvActKinds may still happen
  zeroedAt    \* history: when a scale-to-zero patch last landed in it

apiVars == <<bns, ns, rq, lr>>
outsideVars == <<clock, spend, left, querier>>
vars == <<wsVars, apiVars, outsideVars, queue, pc, run, zeroedAt>>

Passes == {"scale", "restore", "grace"}

Reconciling == pc \notin {"idle", "down"}

Happens(act) == left[act] > 0 /\ left' = [left EXCEPT ![act] = @ - 1]

NamespaceOpen(n) == ns[n].live # None /\ ns[n].live.phase = "active"

Terminated(view) == Written(view, [view.live EXCEPT !.phase = "terminating"])

\* The namespace that the reconcile in progress is about.
Managed == run.copy.spec.namespaceName

-----------------------------------------------------------------------------
(* How a reconcile returns.  A request that a watch event added meanwhile   *)
(* is ready at once and swallows the delayed one.                           *)

Returns(at) ==
  /\ pc' = "idle"
  /\ run' = None
  /\ queue' = [queue EXCEPT ![run.bn] = IF @ = None THEN at ELSE @]

\* Mutant: an error is logged and dropped.
ReturnsNothing == Returns(None)

\* An error, or Result{Requeue: true}: the rate limiter chooses the delay.
ReturnsError == \E d \in 0 .. MaxBackoff : Returns(clock + d)

Continues(next) == pc' = next /\ UNCHANGED queue

-----------------------------------------------------------------------------
(* The start of Reconcile: Get, validate, the TTL.                          *)

Ready(b) ==
  pc = "idle" /\ queue[b] # None /\ (queue[b] <= clock \/ clock = MaxClock)

Rejected(spec) == ~validateCostBudgetSpec(spec) \/ spec.ttl = Bad

ReconcileNotFound(b) ==
  /\ Ready(b)
  /\ bns[b].seen = None
  /\ queue' = [queue EXCEPT ![b] = None]
  /\ UNCHANGED <<wsVars, apiVars, outsideVars, zeroedAt, pc, run>>

ReconcileRejected(b) ==
  /\ Ready(b)
  /\ bns[b].seen # None
  /\ Rejected(bns[b].seen.spec)
  /\ \E d \in 0 .. MaxBackoff : queue' = [queue EXCEPT ![b] = clock + d]
  /\ UNCHANGED <<wsVars, apiVars, outsideVars, zeroedAt, pc, run>>

\* Mutant: there is no grace period.
FirstStepWithoutGrace(spec, created, now) ==
  IF Expired(spec, created, now) THEN "delete" ELSE "namespace"

\* Where the reconcile of a resource in this part of its life goes on.
FirstStep(spec, created, now) ==
  CASE ~Expired(spec, created, now) -> "namespace"
    [] Deleting(spec, created, now) -> "delete"
    [] OTHER -> IF shouldScaleDeploymentsToZero(spec) THEN "grace" ELSE "status"

\* The clock is read for now, and again d ticks later for the requeue.
ReconcileStart(b, d) ==
  LET copy == bns[b].seen IN
  /\ Ready(b)
  /\ copy # None
  /\ ~Rejected(copy.spec)
  /\ clock + d <= MaxClock
  /\ clock' = clock + d
  /\ queue' = [queue EXCEPT ![b] = None]
  /\ pc' = FirstStep(copy.spec, copy.created, clock)
  /\ run' = [bn |-> b, copy |-> copy, stale |-> ~bns[b].current, now |-> clock,
             expired |-> Expired(copy.spec, copy.created, clock),
             requeueAfterTTL |-> RequeueAfterTTL(copy.spec, copy.created, clock, clock + d),
             lastEnfAt |-> copy.status.lastEnforcementAt,
             lastEnfOp |-> copy.status.lastEnforcementOperation,
             recoveryDeferred |-> FALSE, quotaEvaluated |-> FALSE,
             quotaAtHardLimit |-> FALSE, costOverBudget |-> FALSE, costSpend |-> 0]
  /\ UNCHANGED <<wsVars, apiVars, spend, left, querier, zeroedAt>>

Dequeue(b) ==
  \/ ReconcileNotFound(b)
  \/ ReconcileRejected(b)
  \/ \E d \in 0 .. ReadSkew : ReconcileStart(b, d)

-----------------------------------------------------------------------------
(* The namespace and its guards, while the TTL has not expired.             *)

\* A JSON merge patch of a map, applied to it.
Merged(patch, map) ==
  [k \in DOMAIN patch \cup DOMAIN map |-> IF k \in DOMAIN patch THEN patch[k] ELSE map[k]]

\* controllerutil.CreateOrPatch: the patch holds the entries that differ from
\* the cached Namespace, and needs the live one to be there.
EnsureNamespace ==
  LET n == Managed
      want == run.copy.spec.labels
      differing == {k \in DOMAIN want : k \notin DOMAIN ns[n].seen.labels
                                        \/ ns[n].seen.labels[k] # want[k]}
      Writes(object) == ns' = [ns EXCEPT ![n] = Written(@, object)]
  IN
  /\ pc = "namespace"
  /\ \/ /\ ns[n].seen = None /\ ns[n].live = None
        /\ Writes([phase |-> "active", labels |-> want])
        /\ Continues("quota") /\ UNCHANGED run
     \/ /\ ns[n].seen # None /\ differing = {}
        /\ Continues("quota") /\ UNCHANGED <<ns, run>>
     \/ /\ ns[n].seen # None /\ differing # {} /\ ns[n].live # None
        /\ Writes([ns[n].live EXCEPT !.labels = Merged([k \in differing |-> want[k]], @)])
        /\ Continues("quota") /\ UNCHANGED run
     \/ /\ IF ns[n].seen = None THEN ns[n].live # None
                                ELSE differing # {} /\ ns[n].live = None
        /\ ReturnsError /\ UNCHANGED ns
  /\ UNCHANGED <<wsVars, bns, rq, lr, outsideVars, zeroedAt>>

(***************************************************************************)
(* controllerutil.CreateOrUpdate of an object in the namespace: nothing is *)
(* written when the cached object is as wanted; Create needs an open       *)
(* namespace without the object; Update needs the cached object to be      *)
(* current, or the resourceVersion it sends conflicts.                     *)
(***************************************************************************)
ApplyFails(view, same) ==
  IF view.seen = None THEN view.live # None \/ ~NamespaceOpen(Managed)
                      ELSE ~same /\ ~view.current

\* Mutant: an object that is there is taken to be as wanted.
CreatedOnly(view, same, object) ==
  IF view.seen # None THEN view ELSE Written(view, object)

Applied(view, same, object) ==
  IF same THEN view ELSE Written(view, object)

\* The hard limits are parsed first, then the ResourceQuota is applied.
ApplyQuota ==
  LET view == rq[Managed]
      quota == run.copy.spec.quota
      same == view.seen # None /\ view.seen.hard = quota
      used == IF view.seen = None THEN EmptyMap ELSE view.live.used
  IN
  /\ pc = "quota"
  /\ IF quota = Bad \/ ApplyFails(view, same)
     THEN ReturnsError /\ UNCHANGED rq
     ELSE /\ rq' = [rq EXCEPT ![Managed] =
                     Applied(view, same, [hard |-> quota, used |-> used])]
          /\ Continues("limits") /\ UNCHANGED run
  /\ UNCHANGED <<wsVars, bns, ns, lr, outsideVars, zeroedAt>>

\* The container defaults are parsed first, then the LimitRange is applied.
ApplyLimitRange ==
  LET view == lr[Managed]
      limits == run.copy.spec.limits
      same == view.seen = limits
  IN
  /\ pc = "limits"
  /\ IF limits = Bad \/ ApplyFails(view, same)
     THEN ReturnsError /\ UNCHANGED lr
     ELSE /\ lr' = [lr EXCEPT ![Managed] = Applied(view, same, limits)]
          /\ Continues(IF shouldScaleDeploymentsToZero(run.copy.spec) THEN "evaluate" ELSE "status")
          /\ UNCHANGED run
  /\ UNCHANGED <<wsVars, bns, ns, rq, outsideVars, zeroedAt>>

-----------------------------------------------------------------------------
(* Enforcement.                                                             *)

\* The query sums the cost of the namespace's rows in the billing export.
NamespaceSpendUSD(n) == spend[n]

\* The status does not answer, so BigQuery is asked.
QueriesSpend(spec, status, now) ==
  costBudgetEnabled(spec) /\ ~Throttled(spec, status, now)

\* The status of the copy, with the answer in it when BigQuery was asked.
resolveNamespaceSpendUSD(spec, status, now) ==
  IF QueriesSpend(spec, status, now)
  THEN [status EXCEPT !.lastCostQueryAt = now,
                      !.lastObservedSpendUSD = NamespaceSpendUSD(spec.namespaceName)]
  ELSE status

\* The cooldown is parsed, then the ResourceQuota read from the cache.
EvaluateQuota ==
  LET overQuota == quotaUsedAtOrOverHard(rq[Managed].seen) IN
  /\ pc = "evaluate"
  /\ IF run.copy.spec.cooldown = Bad \/ rq[Managed].seen = None
     THEN ReturnsError
     ELSE /\ run' = [run EXCEPT !.quotaEvaluated = TRUE, !.quotaAtHardLimit = overQuota]
          /\ Continues("spend")
  /\ UNCHANGED <<wsVars, apiVars, outsideVars, zeroedAt>>

(***************************************************************************)
(* The spend is taken from the status or from BigQuery, whose answer goes  *)
(* into the copy of the resource only; with it the breach is decided.      *)
(***************************************************************************)
EvaluateSpend ==
  LET spec == run.copy.spec
      enabled == costBudgetEnabled(spec)
      status == resolveNamespaceSpendUSD(spec, run.copy.status, run.now)
      amount == IF enabled THEN status.lastObservedSpendUSD ELSE 0
      overCost == enabled /\ spendAtOrOverMax(amount, spec.cost.max)
  IN
  /\ pc = "spend"
  /\ IF \/ enabled /\ ~querier
        \/ QueriesSpend(spec, run.copy.status, run.now) /\ ~validateTableRef(spec)
     THEN ReturnsError
     ELSE /\ run' = [run EXCEPT !.copy.status = status, !.costSpend = amount,
                                !.costOverBudget = overCost]
          /\ Continues(IF run.quotaAtHardLimit \/ overCost THEN "scale"
                       ELSE IF spec.restoreOnRecovery THEN "recover" ELSE "status")
  /\ UNCHANGED <<wsVars, apiVars, outsideVars, zeroedAt>>

\* Within budget with restoreOnRecovery: restore, wait for the cooldown, or
\* find nothing to restore.
Recover ==
  LET spec == run.copy.spec
      wanted == workloadsPendingRestore(Managed) /\ withinCostBudgetForRestore(spec, run.costSpend)
      allowed == canRestoreAfterScaleDown(run.lastEnfOp, run.lastEnfAt,
                                          enforcementCooldown(spec), run.now)
  IN
  /\ pc = "recover"
  /\ run' = [run EXCEPT !.recoveryDeferred = wanted /\ ~allowed]
  /\ Continues(IF wanted /\ allowed THEN "restore" ELSE "status")
  /\ UNCHANGED <<wsVars, apiVars, outsideVars, zeroedAt>>

PassOp == IF pc = "restore" THEN "Restore" ELSE "ScaleToZero"

StartPass ==
  /\ pc \in Passes
  /\ BeginPass(PassOp, Managed)
  /\ UNCHANGED <<apiVars, outsideVars, zeroedAt, queue, pc, run>>

\* Mutant: the controller sets the replicas itself, without the annotation.
PassPatchesUnsaved(w) ==
  /\ op # "none" /\ items[w] # None /\ workloads[w] # None
  /\ workloads' = [workloads EXCEPT ![w] = [@ EXCEPT !.replicas = 0]]
  /\ items' = [items EXCEPT ![w] = None]
  /\ acted' = TRUE
  /\ UNCHANGED <<wcache, op, scope, kind, base>>
  /\ UNCHANGED <<apiVars, outsideVars, zeroedAt, queue, pc, run>>

PassPatches(w) ==
  /\ PatchWorkload(w)
  /\ zeroedAt' = IF op = "ScaleToZero" /\ TrackZeroed
                  THEN [zeroedAt EXCEPT ![NamespaceOf[w]] = clock] ELSE zeroedAt
  /\ UNCHANGED <<apiVars, outsideVars, queue, pc, run>>

PassMovesOn ==
  /\ NextKind
  /\ UNCHANGED <<apiVars, outsideVars, zeroedAt, queue, pc, run>>

\* A patch of a workload that is gone is an error, which ends the reconcile.
PassFails ==
  /\ \E w \in Workloads : items[w] # None /\ workloads[w] = None
  /\ AbortPass
  /\ ReturnsError
  /\ UNCHANGED <<apiVars, outsideVars, zeroedAt>>

\* The pass returns its count: the operation is recorded if it is positive.
PassReturns ==
  /\ EndPass
  /\ run' = IF acted THEN [run EXCEPT !.lastEnfAt = clock, !.lastEnfOp = op] ELSE run
  /\ Continues("status")
  /\ UNCHANGED <<apiVars, outsideVars, zeroedAt>>

\* The TTL and its grace period are over: delete the Namespace.
DeleteNamespace ==
  /\ pc = "delete"
  /\ ns' = IF NamespaceOpen(Managed) THEN [ns EXCEPT ![Managed] = Terminated(@)] ELSE ns
  /\ Continues("status")
  /\ UNCHANGED <<wsVars, bns, rq, lr, outsideVars, zeroedAt, run>>

-----------------------------------------------------------------------------
(* The end of Reconcile.                                                    *)

\* Mutant: a conflict goes unnoticed.
StatusUpdateRefusedUnlessGone(b) == bns[b].live = None

\* Status().Update conflicts, or finds the resource gone.
StatusUpdateRefused(b) == bns[b].live = None \/ run.stale

\* An update that changes nothing makes no new version and no event.
UpdateStatus ==
  LET b == run.bn
      status == NewStatus(run.copy, run)
      delay == RequeueAfter(run.copy.spec, run.expired, run.requeueAfterTTL)
  IN
  /\ pc = "status"
  /\ IF StatusUpdateRefused(b)
     THEN ReturnsError /\ UNCHANGED bns
     ELSE /\ bns' = IF status = bns[b].live.status THEN bns
                    ELSE [bns EXCEPT ![b] = Written(@, [@.live EXCEPT !.status = status])]
          /\ Returns(IF delay > 0 THEN clock + delay ELSE None)
  /\ UNCHANGED <<wsVars, ns, rq, lr, outsideVars, zeroedAt>>

-----------------------------------------------------------------------------
(* Failures.                                                                *)

\* Mutant: the pass is forgotten, not stopped.
PassGoesOn == UNCHANGED wsVars

PassStops == IF op = "none" THEN UNCHANGED wsVars ELSE AbortPass

\* An API call or a billing query of the reconcile fails.
CallFails ==
  /\ Happens("fail")
  /\ Reconciling
  /\ PassStops
  /\ ReturnsError
  /\ UNCHANGED <<apiVars, clock, spend, querier, zeroedAt>>

\* The process dies, or loses the leader election.
Crash ==
  /\ Happens("crash")
  /\ pc # "down"
  /\ PassStops
  /\ pc' = "down"
  /\ run' = None
  /\ queue' = [b \in BNs |-> None]
  /\ UNCHANGED <<apiVars, clock, spend, querier, zeroedAt>>

\* The next process makes a BigQuery client, or goes on without one, and lists
\* everything before its worker starts; every resource it finds gets a request.
Restart ==
  /\ pc = "down"
  /\ wcache = workloads
  /\ pc' = "idle"
  /\ querier' \in Clients
  /\ bns' = [b \in BNs |-> Synced(bns[b])]
  /\ ns' = [n \in Namespaces |-> Synced(ns[n])]
  /\ rq' = [n \in Namespaces |-> Synced(rq[n])]
  /\ lr' = [n \in Namespaces |-> Synced(lr[n])]
  /\ queue' = [b \in BNs |-> IF bns[b].live = None THEN None ELSE 0]
  /\ UNCHANGED <<wsVars, clock, spend, left, zeroedAt, run>>

-----------------------------------------------------------------------------
(* Watches.                                                                 *)

\* A BudgetNamespace event: For(&BudgetNamespace{}), without a predicate.
SyncBudgetNamespace(b) ==
  /\ pc # "down" /\ ~bns[b].current
  /\ bns' = [bns EXCEPT ![b] = Synced(@)]
  /\ queue' = [queue EXCEPT ![b] = 0]
  /\ UNCHANGED <<wsVars, ns, rq, lr, outsideVars, zeroedAt, pc, run>>

\* The BudgetNamespaces of the cache that name the quota's namespace.
resourceQuotaToRequests(n) ==
  {b \in BNs : bns[b].seen # None /\ bns[b].seen.spec.namespaceName = n}

SyncResourceQuota(n) ==
  /\ pc # "down" /\ ~rq[n].current
  /\ rq' = [rq EXCEPT ![n] = Synced(@)]
  /\ queue' = [b \in BNs |-> IF b \in resourceQuotaToRequests(n) THEN 0 ELSE queue[b]]
  /\ UNCHANGED <<wsVars, bns, ns, lr, outsideVars, zeroedAt, pc, run>>

\* Namespaces and LimitRanges are read but not watched for requests.
SyncNamespace(n) ==
  /\ pc # "down" /\ ~ns[n].current
  /\ ns' = [ns EXCEPT ![n] = Synced(@)]
  /\ UNCHANGED <<wsVars, bns, rq, lr, outsideVars, zeroedAt, queue, pc, run>>

SyncLimitRange(n) ==
  /\ pc # "down" /\ ~lr[n].current
  /\ lr' = [lr EXCEPT ![n] = Synced(@)]
  /\ UNCHANGED <<wsVars, bns, ns, rq, outsideVars, zeroedAt, queue, pc, run>>

(***************************************************************************)
(* Every ten hours the informers hand all they have to the watches again,  *)
(* and every BudgetNamespace gets a request.  That is beyond any horizon   *)
(* of a model, so it happens at the last tick, which stands for all later  *)
(* ones.                                                                   *)
(***************************************************************************)
Resync ==
  /\ Resyncs
  /\ pc # "down" /\ clock = MaxClock
  /\ queue' = [b \in BNs |-> IF bns[b].seen = None THEN queue[b] ELSE 0]
  /\ UNCHANGED <<wsVars, apiVars, outsideVars, zeroedAt, pc, run>>

SyncWorkloadCache(k) ==
  /\ SyncWorkloads(k)
  /\ UNCHANGED <<apiVars, outsideVars, zeroedAt, queue, pc, run>>

-----------------------------------------------------------------------------
(* Users and the cluster.                                                   *)

\* A write of BudgetNamespace b by a user: a copy that is being reconciled is
\* out of date from now on.
UserWritesBN(b, object) ==
  /\ bns' = [bns EXCEPT ![b] = Written(@, object)]
  /\ run' = IF run # None /\ run.bn = b THEN [run EXCEPT !.stale = TRUE] ELSE run
  /\ UNCHANGED <<wsVars, ns, rq, lr, clock, spend, querier, zeroedAt, queue, pc>>

CreateBN(b, spec) ==
  /\ Happens("create")
  /\ bns[b].live = None
  /\ UserWritesBN(b, [created |-> Stored(clock), generation |-> 1,
                      spec |-> spec, status |-> NoStatus])

EditBN(b, spec) ==
  /\ Happens("edit")
  /\ bns[b].live # None
  /\ spec # bns[b].live.spec
  /\ UserWritesBN(b, [bns[b].live EXCEPT !.spec = spec, !.generation = @ + 1])

\* A new version of the same spec: a label or an annotation of the resource.
TouchBN(b) ==
  /\ Happens("touch")
  /\ bns[b].live # None
  /\ UserWritesBN(b, bns[b].live)

\* There is no finalizer: the resource is gone at once.
DeleteBN(b) ==
  /\ Happens("delete")
  /\ bns[b].live # None
  /\ UserWritesBN(b, None)

UserDeletesNamespace(n) ==
  /\ Happens("namespace")
  /\ NamespaceOpen(n)
  /\ ns' = [ns EXCEPT ![n] = Terminated(@)]
  /\ UNCHANGED <<wsVars, bns, rq, lr, clock, spend, querier, zeroedAt, queue, pc, run>>

\* Users write what the operator applied: the labels of the Namespace ...
UserLabelsNamespace(n, labels) ==
  /\ Happens("tamper")
  /\ ns[n].live # None
  /\ labels # ns[n].live.labels
  /\ ns' = [ns EXCEPT ![n] = Written(@, [@.live EXCEPT !.labels = labels])]
  /\ UNCHANGED <<wsVars, bns, rq, lr, clock, spend, querier, zeroedAt, queue, pc, run>>

\* ... the hard limits of the ResourceQuota, or they delete it (hard is None) ...
UserWritesQuota(n, hard) ==
  /\ Happens("tamper")
  /\ rq[n].live # None
  /\ hard # rq[n].live.hard
  /\ rq' = [rq EXCEPT ![n] =
              Written(@, IF hard = None THEN None ELSE [@.live EXCEPT !.hard = hard])]
  /\ UNCHANGED <<wsVars, bns, ns, lr, clock, spend, querier, zeroedAt, queue, pc, run>>

\* ... and the LimitRange.
UserWritesLimits(n, limits) ==
  /\ Happens("tamper")
  /\ lr[n].live # None
  /\ limits # lr[n].live
  /\ lr' = [lr EXCEPT ![n] = Written(@, limits)]
  /\ UNCHANGED <<wsVars, bns, ns, rq, clock, spend, querier, zeroedAt, queue, pc, run>>

Terminating(n) == ns[n].live # None /\ ns[n].live.phase = "terminating"

NamespaceEmpty(n) ==
  /\ \A w \in In(n) : workloads[w] = None
  /\ rq[n].live = None /\ lr[n].live = None

\* The namespace controller empties a terminating namespace ...
EmptyNamespace(n) ==
  /\ Terminating(n) /\ ~NamespaceEmpty(n)
  /\ PurgeWorkloads(n)
  /\ rq' = [rq EXCEPT ![n] = IF @.live = None THEN @ ELSE Written(@, None)]
  /\ lr' = [lr EXCEPT ![n] = IF @.live = None THEN @ ELSE Written(@, None)]
  /\ UNCHANGED <<bns, ns, outsideVars, zeroedAt, queue, pc, run>>

\* ... and then removes it.
RemoveNamespace(n) ==
  /\ Terminating(n) /\ NamespaceEmpty(n)
  /\ ns' = [ns EXCEPT ![n] = Written(@, None)]
  /\ UNCHANGED <<wsVars, bns, rq, lr, outsideVars, zeroedAt, queue, pc, run>>

\* The quota controller reports what the namespace uses.
UsageChanges(n, used) ==
  /\ Happens("usage")
  /\ rq[n].live # None
  /\ used # rq[n].live.used
  /\ rq' = [rq EXCEPT ![n] = Written(@, [@.live EXCEPT !.used = used])]
  /\ UNCHANGED <<wsVars, bns, ns, lr, clock, spend, querier, zeroedAt, queue, pc, run>>

SpendChanges(n, amount) ==
  /\ Happens("bill")
  /\ amount # spend[n]
  /\ spend' = [spend EXCEPT ![n] = amount]
  /\ UNCHANGED <<wsVars, apiVars, clock, querier, zeroedAt, queue, pc, run>>

\* Users write workloads, and create them in an open namespace only.
UsersWriteWorkloads ==
  /\ UserStep
  /\ \A w \in Workloads : workloads[w] = None /\ workloads'[w] # None =>
                           NamespaceOpen(NamespaceOf[w])
  /\ UNCHANGED <<apiVars, outsideVars, zeroedAt, queue, pc, run>>

Tick ==
  /\ clock < MaxClock
  /\ clock' = clock + 1
  /\ UNCHANGED <<wsVars, apiVars, spend, left, querier, zeroedAt, queue, pc, run>>

-----------------------------------------------------------------------------
(* The operator starts on BudgetNamespaces that were just created, with     *)
(* each namespace absent or already there.                                  *)

Init ==
  /\ WSInit
  /\ clock = 0
  /\ bns \in [BNs -> {InSync([created |-> 0, generation |-> 1, spec |-> s,
                              status |-> NoStatus]) : s \in Specs}]
  /\ ns \in [Namespaces -> {InSync(None), InSync([phase |-> "active", labels |-> EmptyMap])}]
  /\ \A w \in Workloads : workloads[w] # None => NamespaceOpen(NamespaceOf[w])
  /\ rq = [n \in Namespaces |-> InSync(None)]
  /\ lr = [n \in Namespaces |-> InSync(None)]
  /\ spend \in [Namespaces -> Spends]
  /\ queue = [b \in BNs |-> 0]
  /\ querier \in Clients
  /\ pc = "idle"
  /\ run = None
  /\ left = Budget
  /\ zeroedAt = [n \in Namespaces |-> None]

\* The steps of the worker once it has a request.
WorkerStep ==
  \/ EnsureNamespace
  \/ ApplyQuota
  \/ ApplyLimitRange
  \/ EvaluateQuota
  \/ EvaluateSpend
  \/ Recover
  \/ StartPass
  \/ \E w \in Workloads : PassPatches(w)
  \/ PassMovesOn
  \/ PassFails
  \/ PassReturns
  \/ DeleteNamespace
  \/ UpdateStatus

CacheStep ==
  \/ \E b \in BNs : SyncBudgetNamespace(b)
  \/ \E n \in Namespaces : SyncResourceQuota(n) \/ SyncNamespace(n) \/ SyncLimitRange(n)
  \/ \E k \in Kinds : SyncWorkloadCache(k)

\* What users leave of an object the operator applied.
Tampered(values) == (values \ {Bad}) \cup {None}

OutsideStep ==
  \/ \E b \in BNs : \E s \in Specs : CreateBN(b, s) \/ EditBN(b, s)
  \/ \E b \in BNs : TouchBN(b) \/ DeleteBN(b)
  \/ \E n \in Namespaces :
       \/ UserDeletesNamespace(n)
       \/ \E l \in {s.labels : s \in Specs} \cup {EmptyMap} : UserLabelsNamespace(n, l)
       \/ \E q \in Tampered({s.quota : s \in Specs}) : UserWritesQuota(n, q)
       \/ \E l \in Tampered(Limits) : UserWritesLimits(n, l)
       \/ \E u \in Usages : UsageChanges(n, u)
       \/ \E a \in Spends : SpendChanges(n, a)
  \/ UsersWriteWorkloads

Next ==
  \/ \E b \in BNs : Dequeue(b)
  \/ WorkerStep
  \/ CallFails
  \/ Crash
  \/ Restart
  \/ CacheStep
  \/ OutsideStep
  \/ Resync
  \/ \E n \in Namespaces : EmptyNamespace(n) \/ RemoveNamespace(n)
  \/ Tick

(***************************************************************************)
(* The worker and every informer keep running, the queue hands out each    *)
(* ready request in the end, a dead process is started again, the          *)
(* namespace controller does its work, the informers resync, and time      *)
(* passes.  Nothing is assumed of users, usage, spend or failures.         *)
(***************************************************************************)
Fairness ==
  /\ WF_vars(WorkerStep)
  /\ \A b \in BNs : SF_vars(Dequeue(b)) /\ WF_vars(SyncBudgetNamespace(b))
  /\ \A n \in Namespaces :
       /\ WF_vars(SyncResourceQuota(n)) /\ WF_vars(SyncNamespace(n))
       /\ WF_vars(SyncLimitRange(n))
       /\ WF_vars(EmptyNamespace(n)) /\ WF_vars(RemoveNamespace(n))
  /\ \A k \in Kinds : WF_vars(SyncWorkloadCache(k))
  /\ SF_vars(Restart)
  /\ WF_vars(Resync) /\ WF_vars(Tick)

Spec == Init /\ [][Next]_vars

FairSpec == Spec /\ Fairness

-----------------------------------------------------------------------------
(* Types.                                                                   *)

Times == Nat \cup {None}

Conditions ==
  [status : BOOLEAN, reason : Reasons, observedGeneration : Nat] \cup {None}

Statuses ==
  [observedGeneration : Nat, managedNamespace : Namespaces \cup {None}, expiresAt : Int \cup {None},
   lastEnforcementAt : Times, lastEnforcementOperation : {"", "ScaleToZero", "Restore"},
   lastCostQueryAt : Times, lastObservedSpendUSD : Spends \cup {None},
   conditions : [ConditionTypes -> Conditions]]

BudgetNamespaces ==
  [created : Nat, generation : Nat, spec : Specs, status : Statuses]

NamespaceObjects ==
  [phase : {"active", "terminating"}, labels : LabelMaps]

ResourceQuotas ==
  [hard : {s.quota : s \in Specs}, used : Usages \cup {EmptyMap}]

Runs ==
  [bn : BNs, copy : {copy \in BudgetNamespaces : ~Rejected(copy.spec)},
   stale : BOOLEAN, now : Nat, expired : BOOLEAN, requeueAfterTTL : Int,
   lastEnfAt : Times, lastEnfOp : {"", "ScaleToZero", "Restore"}, recoveryDeferred : BOOLEAN,
   quotaEvaluated : BOOLEAN, quotaAtHardLimit : BOOLEAN, costOverBudget : BOOLEAN,
   costSpend : Spends \cup {0}]

\* What a spec asks of the enforcements and queries on its behalf.
Terms(spec) ==
  [cooldown |-> IF spec.cooldown = Bad THEN None ELSE enforcementCooldown(spec),
   interval |-> IF costBudgetEnabled(spec) THEN costBudgetQueryInterval(spec) ELSE None]

ASSUME NoneIsNoObject ==
  /\ None \notin BudgetNamespaces /\ None \notin Runs
  /\ None \notin NamespaceObjects /\ None \notin ResourceQuotas
  /\ \A spec \in Specs : Terms(spec) # None

ApiTypeOK ==
  /\ bns \in [BNs -> Views(BudgetNamespaces \cup {None})]
  /\ ns \in [Namespaces -> Views(NamespaceObjects \cup {None})]
  /\ rq \in [Namespaces -> Views(ResourceQuotas \cup {None})]
  /\ lr \in [Namespaces -> Views(Limits \cup {None})]

OutsideTypeOK ==
  /\ clock \in 0 .. MaxClock
  /\ spend \in [Namespaces -> Spends]
  /\ querier \in BOOLEAN
  /\ left \in [EnvActKinds -> Nat]
  /\ zeroedAt \in [Namespaces -> Times]

WorkerTypeOK ==
  /\ queue \in [BNs -> Times]
  /\ pc \in {"idle", "down", "namespace", "quota", "limits", "evaluate", "spend",
             "recover", "scale", "restore", "grace", "delete", "status"}
  /\ run \in Runs \cup {None}

\* The types, and that a reconcile has locals and a pass belongs to one.
TypeOK ==
  /\ WSTypeOK
  /\ ApiTypeOK
  /\ OutsideTypeOK
  /\ WorkerTypeOK
  /\ Reconciling <=> run # None
  /\ op # "none" => pc \in Passes /\ op = PassOp /\ scope = Managed

-----------------------------------------------------------------------------
(* Safety.                                                                  *)

(***************************************************************************)
(* The controller's passes are the passes of WorkloadScale, so whatever is *)
(* true of those, CountPreserved first of all, is true of the controller.  *)
(***************************************************************************)
PassesAreWorkloadScale == WSSpec

(***************************************************************************)
(* status.observedGeneration tells the truth: when it is the generation of *)
(* the resource, the managed namespace, the expiry, the TTL condition and  *)
(* the enforcement condition in the status were computed from this very    *)
(* spec, although the reconcile read the resource from the cache and wrote *)
(* it many calls later (budgetnamespace_controller.go:402-524).            *)
(***************************************************************************)
StatusMatchesSpec ==
  \A b \in BNs :
    LET o == bns[b].live
        c == o.status.conditions
    IN
    o # None /\ o.status.observedGeneration = o.generation =>
      /\ o.status.managedNamespace = o.spec.namespaceName
      /\ o.status.expiresAt =
           IF o.spec.ttl = None THEN None ELSE Stored(Expiry(o.spec, o.created))
      /\ o.spec.ttl # None => c["Expired"].observedGeneration = o.generation
      /\ ~shouldScaleDeploymentsToZero(o.spec)
           <=> c["OverBudget"].reason = "EnforcementDisabled"

\* A reconcile may be due for a resource with this spec although nothing of
\* it changes: its TTL runs, or its enforcement polls.
NeedsWakeup(spec) == spec.ttl # None \/ shouldScaleDeploymentsToZero(spec)

\* The request of b is ready d from now, or when a rate-limited retry is.
ReadyWithin(b, d) ==
  queue[b] # None /\ (queue[b] <= clock + d \/ queue[b] <= clock + MaxBackoff)

(***************************************************************************)
(* No wake-up is lost.  Whenever the worker is done with a BudgetNamespace *)
(* that has a TTL or enforcement, and no event of it is on its way, its    *)
(* request is in the queue, at most a poll interval away while enforcement *)
(* is on and at most the cap of the TTL requeue otherwise.  Errors,        *)
(* conflicts, status updates that change nothing and requests that         *)
(* swallow a timer all keep this (budgetnamespace_controller.go:517-538).  *)
(***************************************************************************)
WakeupScheduled ==
  \A b \in BNs :
    LET o == bns[b].live IN
    /\ pc # "down" /\ (run # None => run.bn # b)
    /\ o # None /\ bns[b].current
    /\ NeedsWakeup(o.spec)
    => /\ ReadyWithin(b, ttlRequeueCap)
       /\ shouldScaleDeploymentsToZero(o.spec) /\ o.spec.ttl # Bad
          /\ ~Expired(o.spec, o.created, clock)
            => ReadyWithin(b, enforcementPollInterval)

(***************************************************************************)
(* Anti-flap, as recorded: when the status goes from a scale-to-zero to a  *)
(* restore, the cooldown lies between the two                              *)
(* (budgetnamespace_enforcement.go:39-49).                                 *)
(***************************************************************************)
RecordedCooldown ==
  [][\A b \in BNs :
       LET before == bns[b].live
           after == bns'[b].live
       IN
       /\ before # None /\ after # None
       /\ before.status.lastEnforcementOperation = "ScaleToZero"
       /\ after.status.lastEnforcementOperation = "Restore"
       => after.status.lastEnforcementAt >=
            before.status.lastEnforcementAt + enforcementCooldown(after.spec)]_vars

(***************************************************************************)
(* The throttle, as recorded: two successive billing queries in the status *)
(* are at least the query interval apart (cost_budget.go:120-141).         *)
(***************************************************************************)
RecordedQueryInterval ==
  [][\A b \in BNs :
       LET before == bns[b].live
           after == bns'[b].live
       IN
       /\ before # None /\ after # None
       /\ before.status.lastCostQueryAt # None
       /\ after.status.lastCostQueryAt # before.status.lastCostQueryAt
       => after.status.lastCostQueryAt >=
            before.status.lastCostQueryAt + costBudgetQueryInterval(after.spec)]_vars

\* The log of enforcements and queries that the statuses are.
LastEnforcement(status) ==
  IF status.lastEnforcementOperation = "" THEN None
  ELSE [op |-> status.lastEnforcementOperation, at |-> status.lastEnforcementAt]

termsBN == [b \in BNs |-> IF bns[b].live = None THEN None ELSE Terms(bns[b].live.spec)]

lastBN == [b \in BNs |-> IF bns[b].live = None THEN None
                         ELSE LastEnforcement(bns[b].live.status)]

queriedBN == [b \in BNs |-> IF bns[b].live = None THEN None
                            ELSE bns[b].live.status.lastCostQueryAt]

Log == INSTANCE EnforcementLog WITH
  Resources <- BNs, now <- clock, terms <- termsBN, last <- lastBN, queried <- queriedBN

(***************************************************************************)
(* The statuses are an EnforcementLog: beyond cooldown and interval, that  *)
(* no reconcile, however old its copy, takes the record back in time or    *)
(* ahead of the clock, and that users only change or drop it as a whole    *)
(* (budgetnamespace_controller.go:331-375, 402-524).                       *)
(***************************************************************************)
LogIsKept == Log!Spec

(***************************************************************************)
(* The restore itself, not its record: it begins when the spec of the      *)
(* resource asks for it and the cooldown of what the status records is     *)
(* over, unless the reconcile works from a copy that a write has overtaken *)
(* (budgetnamespace_controller.go:342-365).                                *)
(***************************************************************************)
RestoreIsDue ==
  [][op = "none" /\ op' = "Restore" /\ ~run.stale =>
       LET o == bns[run.bn].live IN
       /\ shouldScaleDeploymentsToZero(o.spec) /\ o.spec.restoreOnRecovery
       /\ scope' = o.spec.namespaceName
       /\ o.status.lastEnforcementOperation = "ScaleToZero" =>
            clock >= o.status.lastEnforcementAt + enforcementCooldown(o.spec)]_vars

-----------------------------------------------------------------------------
(* Liveness, under Fairness.  A timestamp plus a duration that lies beyond  *)
(* the horizon never comes, so the premises keep them within it.            *)

Reachable(at, duration) == at = None \/ at + duration <= MaxClock

\* The spec of b parses and b lives.
Sound(b) ==
  /\ bns[b].live # None
  /\ LET spec == bns[b].live.spec IN
     /\ ~Rejected(spec)
     /\ Bad \notin {spec.quota, spec.limits, spec.cooldown}

Unexpired(b) == ~Expired(bns[b].live.spec, bns[b].live.created, clock)

TTLOver(b) ==
  /\ bns[b].live # None
  /\ bns[b].live.spec.ttl # Bad
  /\ Deleting(bns[b].live.spec, bns[b].live.created, clock)

\* The BudgetNamespaces that name namespace n.
Naming(n) == {b \in BNs : bns[b].live # None /\ bns[b].live.spec.namespaceName = n}

(***************************************************************************)
(* The operator deletes a namespace on behalf of a resource that names it  *)
(* and whose TTL and grace period are over, unless the resource has been   *)
(* written since the copy was made that the reconcile works from: to edit  *)
(* the TTL in time is not enough (budgetnamespace_controller.go:136-158,   *)
(* 389-400).                                                               *)
(***************************************************************************)
DeletionIsDue ==
  [][\A n \in Namespaces :
       /\ NamespaceOpen(n) /\ Terminating(n)'
       /\ left'["namespace"] = left["namespace"]
       => run # None /\ (run.stale \/ (run.bn \in Naming(n) /\ TTLOver(run.bn)))]_vars

\* Nothing gives a reason to scale namespace n down, whichever of the specs its
\* users give.  A spend may be the one of another namespace (CostConditionIsOwn).
Calm(n) ==
  /\ rq[n].live # None => ~quotaUsedAtOrOverHard(rq[n].live)
  /\ \A s \in Specs :
       s.namespaceName = n /\ ~Rejected(s) =>
         /\ s.ttl # None => clock < s.ttl
         /\ costBudgetEnabled(s) =>
              \A m \in Namespaces : ~spendAtOrOverMax(spend[m], s.cost.max)

(***************************************************************************)
(* A namespace that never gave a reason is never scaled down: not by a     *)
(* quota that has just been made, an answer that is not there yet, a       *)
(* throttled query, a crash or a copy of any age                           *)
(* (budgetnamespace_controller.go:297-341, 377-388).                       *)
(***************************************************************************)
CalmIsLeftAlone ==
  \A n \in Namespaces : []Calm(n) => []~(op = "ScaleToZero" /\ scope = n)

\* b enforces the budget of n, whose quota is in place.
EnforcesQuota(b, n) ==
  /\ b \in Naming(n)
  /\ Sound(b) /\ Unexpired(b)
  /\ shouldScaleDeploymentsToZero(bns[b].live.spec)
  /\ rq[n].live # None /\ rq[n].live.hard = bns[b].live.spec.quota

\* b can see, or will be able to, the spend that it should act on.
SeesSpend(b, n) ==
  LET o == bns[b].live IN
  costBudgetEnabled(o.spec) =>
    /\ querier /\ validateTableRef(o.spec)
    /\ \/ o.status.lastObservedSpendUSD = spend[n]
       \/ Reachable(o.status.lastCostQueryAt, costBudgetQueryInterval(o.spec))

Enforces(b, n) == EnforcesQuota(b, n) /\ SeesSpend(b, n)

OverBudget(b, n) ==
  LET spec == bns[b].live.spec IN
  \/ quotaUsedAtOrOverHard(rq[n].live)
  \/ costBudgetEnabled(spec) /\ spendAtOrOverMax(spend[n], spec.cost.max)

\* Within budget, with the cooldown of the last scale-to-zero coming to an end.
MayRestore(b, n) ==
  LET o == bns[b].live IN
  /\ o.spec.restoreOnRecovery
  /\ ~quotaUsedAtOrOverHard(rq[n].live)
  /\ withinCostBudgetForRestore(o.spec, spend[n])
  /\ o.status.lastEnforcementOperation = "ScaleToZero" =>
       Reachable(o.status.lastEnforcementAt, enforcementCooldown(o.spec))

(***************************************************************************)
(* A namespace is deleted when the TTL and the grace period of every       *)
(* BudgetNamespace that names it are over, whatever conflicts, failures    *)
(* and crashes come between (budgetnamespace_controller.go:136-158,        *)
(* 389-400).  One that is not over would create it again.                  *)
(***************************************************************************)
ExpiredIsDeleted ==
  \A n \in Namespaces :
    <>[](Naming(n) # {} /\ \A b \in Naming(n) : TTLOver(b) /\ Sound(b))
      => <>[](ns[n].live = None)

(***************************************************************************)
(* A breach that lasts is enforced: no workload without the exempt label   *)
(* keeps running, however often users, or another BudgetNamespace of the   *)
(* same namespace, scale it up again                                       *)
(* (budgetnamespace_controller.go:297-341, 528-538).                       *)
(***************************************************************************)
BreachIsEnforced ==
  \A b \in BNs, n \in Namespaces :
    <>[](Enforces(b, n) /\ OverBudget(b, n)) =>
      \A w \in In(n) : []<>(workloads[w] = None \/ ~ScaleTarget(workloads[w]))

(***************************************************************************)
(* A recovery that lasts is followed by a restore: no workload with a      *)
(* saved count stays at zero (budgetnamespace_controller.go:342-375).      *)
(***************************************************************************)
RecoveryIsRestored ==
  \A b \in BNs, n \in Namespaces :
    <>[](Enforces(b, n) /\ MayRestore(b, n)) =>
      \A w \in In(n) : []<>~RestoreTarget(workloads[w])

\* Namespace n is open and has the labels, quota and limits of this spec.
Guarded(n, spec) ==
  /\ NamespaceOpen(n)
  /\ \A k \in DOMAIN spec.labels : /\ k \in DOMAIN ns[n].live.labels
                                   /\ ns[n].live.labels[k] = spec.labels[k]
  /\ rq[n].live # None /\ rq[n].live.hard = spec.quota
  /\ lr[n].live = spec.limits

(***************************************************************************)
(* A namespace ends up with the labels, the quota and the limits of the    *)
(* BudgetNamespaces that name it, when these agree: also when it is        *)
(* deleted or written behind the operator's back, or a spec changes in the *)
(* middle of a reconcile (budgetnamespace_controller.go:161-295).          *)
(***************************************************************************)
NamespaceIsGuarded ==
  \A n \in Namespaces, s \in Specs :
    <>[](Naming(n) # {} /\ \A b \in Naming(n) : /\ Sound(b) /\ Unexpired(b)
                                                /\ bns[b].live.spec = s)
      => <>[]Guarded(n, s)

-----------------------------------------------------------------------------
(* What the documentation says and the code does not do.                    *)

(***************************************************************************)
(* api/v1alpha1/budgetnamespace_types.go:74: enforcementCooldown is the    *)
(* time to wait after scale-to-zero before allowing restore.  Stated of    *)
(* the patches themselves rather than of what the status remembers.        *)
(***************************************************************************)
CooldownAfterScaleToZero ==
  [][op = "none" /\ op' = "Restore" /\ zeroedAt[Managed] # None =>
       run.now >= zeroedAt[Managed] + enforcementCooldown(run.copy.spec)]_vars

(***************************************************************************)
(* budgetnamespace_controller.go:161-163: if TTL is expired, delete        *)
(* Namespace after the grace period.                                       *)
(***************************************************************************)
AnyExpiredIsDeleted ==
  \A n \in Namespaces :
    <>[](Naming(n) # {} /\ \A b \in Naming(n) : TTLOver(b)) => <>[](ns[n].live = None)

(***************************************************************************)
(* README.md:13-14: the operator enforces over-budget actions by scaling   *)
(* workloads to zero, based on quota pressure.  Stated of the quota alone, *)
(* whether or not the spend can be seen.                                   *)
(***************************************************************************)
QuotaBreachIsEnforced ==
  \A b \in BNs, n \in Namespaces :
    <>[](EnforcesQuota(b, n) /\ quotaUsedAtOrOverHard(rq[n].live)) =>
      \A w \in In(n) : []<>(workloads[w] = None \/ ~ScaleTarget(workloads[w]))

(***************************************************************************)
(* docs/architecture.md:29, 75: cost budget pressure is the sum of the     *)
(* cost of the rows of spec.namespaceName in the billing export.  While    *)
(* the bills stay as they are, a status of the present generation that     *)
(* says CostBudgetExceeded is about a namespace that costs too much.       *)
(***************************************************************************)
CostConditionIsOwn ==
  \A b \in BNs :
    LET o == bns[b].live IN
    /\ left["bill"] = Budget["bill"]
    /\ o # None /\ o.status.observedGeneration = o.generation
    /\ costBudgetEnabled(o.spec)
    /\ o.status.conditions["OverBudget"].reason = "CostBudgetExceeded"
    => spendAtOrOverMax(spend[o.spec.namespaceName], o.spec.cost.max)

=============================================================================
