# Verification of costguard-operator

TLA+ models of the operator in `src/`, the TLC runs that check them on small
instances, and TLAPS proofs. `PROJECT.json` lists components, runs, mutants,
the map from definitions to source lines, findings, hazards and theorems.

    tlc -workers 2 -config Recovery.cfg MCBudgetReconciler
    tlapm WorkloadScale_proofs.tla

Line numbers below are of `src/internal/controller/` unless a path is given;
*controller.go*, *enforcement.go* and *watches.go* are the files
`budgetnamespace_controller.go`, `budgetnamespace_enforcement.go` and
`budgetnamespace_watches.go`.

## 1. The system

The operator watches `BudgetNamespace` resources. For each it keeps a
Kubernetes namespace with a ResourceQuota and a LimitRange, scales the
namespace's Deployments and StatefulSets to zero when the quota is used up or
the billed cost reaches a maximum, optionally restores them when the pressure is
gone and a cooldown has passed, and deletes the namespace after a TTL and a
grace period.

| Component | State it keeps | Operations | Interacts through |
|---|---|---|---|
| Reconciler (controller.go) | none between reconciles except the resource's status | `Reconcile`: ensure namespace, quota, limits; evaluate; scale or restore; delete; update status; requeue | API server (writes), informer caches (reads), work queue |
| Workload passes (workload_scale.go, enforcement.go) | the `pre-scale-replicas` annotation on each workload | scale to zero, restore, is anything pending | merge patches without optimistic lock, lists from the cache |
| Enforcement rules (enforcement.go) | `lastEnforcementAt`, `lastEnforcementOperation` in the status | cooldown, may restore | called by the reconciler |
| Cost budget (cost_budget.go) | `lastCostQueryAt`, `lastObservedSpendUSD` in the status | validate, throttle, compare | calls the billing query |
| Billing query (internal/billing/spend.go) | none | `NamespaceSpendUSD` | BigQuery |
| Watches (watches.go, `SetupWithManager`) | work queue | events to requests | informers |
| Manager (cmd/main.go) | process, leader lease | start, stop | everything above |

**What is hard.** Nothing is persistent but API objects, every read comes from a
cache that lags by any number of writes, and a reconcile is a sequence of
separate API calls, each of which can fail, conflict or be the last one before
a crash. Users, the namespace controller and the quota controller write the same
objects at the same time. Time alone makes things due (expiry, grace period,
cooldown, query interval), so every way out of a reconcile must leave a timer, a
retry or an event behind. `PROJECT.json` lists the places as hazards, each with
the properties that cover it.

**What correctness means.**
- Passes: a replica count is never lost, however passes, users and stale lists
  mix (`CountPreserved`); what users see of a workload is a ledger that takes it
  to zero and brings back only the count they asked for (`LedgerIsKept`); the
  controller's passes are these passes (`PassesAreWorkloadScale`).
- Reconciler: no wake-up is lost (`WakeupScheduled`); the status belongs to the
  generation it names (`StatusMatchesSpec`); breaches are enforced, recoveries
  restored, expired namespaces deleted, namespaces guarded (the four liveness
  properties), also with several BudgetNamespaces for one namespace and with
  users who write what the operator applied.
- Records: a status is a log of enforcements and queries that is never taken
  back in time or ahead of the clock (`LogIsKept`), in which restores respect the
  cooldown and queries the throttle (`RecordedCooldown`, `RecordedQueryInterval`).
- Causes: a restore is asked for and its cooldown over (`RestoreIsDue`), a
  deletion is on behalf of a resource that is over (`DeletionIsDue`), and a
  namespace that never gave a reason is never scaled down (`CalmIsLeftAlone`).

## 2. The modules

| Module | Models |
|---|---|
| `ApiObjects` | an API object with its cached copy (external: API server, informers) |
| `ReplicaLedger` | abstract: what the operator promises the users of a workload |
| `EnforcementLog` | abstract: what a status records of enforcements and queries, and when |
| `WorkloadScale` | the passes over workloads, with passes allowed at any time; implements `ReplicaLedger` |
| `BudgetRules` | the pure decisions of a reconcile: TTL phase, breach, cooldown, throttle, status, requeue |
| `BudgetReconciler` | the controller; extends both and drives the passes; implements `WorkloadScale` and `EnforcementLog` |
| `MCWorkloadScale`, `MCBudgetReconciler` | the instances TLC checks |
| `WorkloadScale_proofs` | the invariant of the passes, and that they keep the ledger |
| `ReconcilerRules_proofs` | lemmas about the operators of `BudgetRules` and `ApiObjects` |
| `BudgetReconciler_proofs` | types of the controller, and its refinement of `WorkloadScale` |
| `ReconcilerStatus_proofs` | `StatusMatchesSpec` |
| `ReconcilerWakeup_proofs` | `WakeupScheduled` |
| `ReconcilerRecord_proofs` | `RecordedCooldown`, `RecordedQueryInterval` |
| `ReconcilerLog_proofs` | `LogIsKept`, the refinement of `EnforcementLog` |
| `ReconcilerCauses_proofs` | `RestoreIsDue`, `DeletionIsDue`, `CalmIsLeftAlone` |

### ReplicaLedger

Two variables, what a workload runs and what count it is promised, and no
annotations, caches, passes or namespaces. The operator may park a workload
whose count is promised and bring that count back; it may touch one whose count
it has not learnt yet; only users change counts otherwise. `WorkloadScale`
implements it with `spec.replicas` for what runs and `base` for the promise
(`Ledger`, an `INSTANCE ... WITH`), so the controller does too.

### EnforcementLog

For each resource what its status records last of enforcement and of billing
queries, and the terms of its spec (cooldown and query interval); no copies,
passes, conflicts or crashes. An entry that is added is of the past, not before
the one it replaces and as far from it as the terms ask for; users change the
terms, or drop resource and record together. `BudgetReconciler` implements it
(`Log`) with the fields of the live statuses, which are written at the end of a
reconcile from locals of its beginning.

### ApiObjects

`Written` is a write of the API server, `Synced` the watch event. Events that
pile up are delivered as one: the cache goes from the version it has to the live
one. A copy that lags behind by any number of writes is reachable, because the
event may arrive at any time after any write; what is not is a cache that moves
and is still behind. A reconcile cannot tell the two: it reads the copy once,
and either copy is refused by the API server where the resource is updated, and
overtaken (`run.stale`) where a property speaks of it.

### WorkloadScale

`workloads` is what the API server holds, `wcache` the informer caches, `op`,
`kind`, `items` the pass in progress with the listed copies it has still to
patch, `acted` whether its count is positive. A workload is its replica count,
its annotation (`None`, a count or `Malformed`) and the exempt label of its pod
template. The API server defaults `spec.replicas`, so the nil case of the code
does not arise; negative annotation values are treated by the code like zero.

| Action | Code |
|---|---|
| `BeginPass` | the call of `scaleWorkloadsToZero` or `restoreScaledWorkloads`, up to the first list |
| `PatchWorkload` | one `c.Patch`: the merge patch is computed from the listed copy and applied to the live object |
| `NextKind` | the list of the StatefulSets |
| `EndPass` | return of the count |
| `AbortPass` | an error return or a crash, patches already made stay |
| `SyncWorkloads` | an informer catches up |
| `User...`, `PurgeWorkloads` | other writers |

The order of patches within a list is arbitrary, as the order of a cache list
is. `ScaledToZero` writes the annotation only if the *listed* copy has none,
because a merge patch only holds what differs from it.

`base` is a history variable. `base[w]` is the count to be preserved: it is
forgotten whenever a user writes the count or the annotation of `w`, and set
when the cache has seen that write and no patch computed from before it is in
flight. `CountPreserved` says that from then on `w` runs `base[w]` replicas
without an annotation, or none with `base[w]` in it. The window it leaves out,
from a user's write until the cache has it, is where `zeroed_restorable` lives.

### BudgetRules

Operators with the names of the Go functions. A spec is a record of parsed
fields: `None` for blank, `Bad` for text a parser rejects, `NaN` for what
`ParseFloat` makes of it. Amounts are integers in units of the epsilon (1e-9
USD), so that the comparison `spend + epsilon >= max` is exact at the boundary;
`FormatFloat(..., -1)` and `ParseFloat` round-trip, so the stored spend is the
spend. Times lose the fraction of a second when stored (`Stored`), with
`Second` ticks to a second. `RequeueAfterTTL` takes two readings of the clock,
as the code does.

### BudgetReconciler

`bns`, `ns`, `rq`, `lr` are views: the live object, the cached one, and whether
the cache is up to date; `ns`, `rq` and `lr` are indexed by namespace, and the
reconcile in progress is about the namespace its copy names (`Managed`), so
several BudgetNamespaces can share one, and an edit of `spec.namespaceName`
moves a resource to another. `queue[b]` is `None` or the time the request is ready;
the queue of controller-runtime holds one entry per key, so an immediate request
swallows a delayed one (`Returns`). `pc` and `run` are the worker and the local
variables of `Reconcile`; there is one worker (`MaxConcurrentReconciles` is not
set).

| Step (`pc`) | Code (controller.go) |
|---|---|
| `Dequeue`: not found, rejected, start | 99-159 |
| `EnsureNamespace` | 164-190, `CreateOrPatch` |
| `ApplyQuota`, `ApplyLimitRange` | 192-295, `CreateOrUpdate`: no write if the cached object is as wanted, conflict if it is not current, refused in a terminating namespace |
| `EvaluateQuota` | 297-310, the cooldown and the read of the ResourceQuota |
| `EvaluateSpend` | 312-329 with cost_budget.go:108-143 |
| `Recover` | 342-375 |
| `StartPass`, `PassPatches`, `PassMovesOn`, `PassFails`, `PassReturns` | 329-341, 353-365, 377-388 |
| `DeleteNamespace` | 389-400 |
| `UpdateStatus` | 402-538 |

`CallFails` is the failure of any call, `Crash` and `Restart` the process.
`run.stale` records that the copy was not the live version when it was read or
that the resource has been written since: `Status().Update` then conflicts.
A status update that changes nothing makes no new version and no event.
`SyncBudgetNamespace` and `SyncResourceQuota` are the two watches, and request
reconciles; Namespaces, LimitRanges and workloads are cached but not watched.
`Resync` hands the cached resources to the watch again. `querier` is whether
the process got a BigQuery client when it started (cmd/main.go:197-200): one
that did not goes on without, until it is restarted.
The remaining actions are users (of BudgetNamespaces, workloads, and of the
namespace's labels, ResourceQuota and LimitRange that the operator applied), the
namespace and quota controllers, the billing export and the clock.

`BudgetReconciler` extends `WorkloadScale` and shares its variables, so the
refinement mapping of `PassesAreWorkloadScale` is the identity: every step of
the controller is a step of `WSSpec` or leaves its variables alone.

## 3. The runs

A tick is ten seconds; the constants have the code's values (grace period and
deletion poll 1, poll 3, cap 60, default cooldown 12, default query interval
360), and the specs of the runs give cooldown and query interval as 20 s.
`MaxClock` is the horizon of a run; its last tick stands for all later time, and
every timer fires there.

| Run | Checks | Instance |
|---|---|---|
| workload_counts | `WSTypeOK`, `CountPreserved`, `LedgerIsKept` | one Deployment, counts 0..2, all user writes without limit |
| recovery | `RecoveryIsRestored`, `BreachIsEnforced`, `RecordedCooldown`, `RecordedQueryInterval`, `LogIsKept`, `RestoreIsDue`, `CalmIsLeftAlone` | cost budget, the bill changes once, a user scales and deletes without limit, clock to 2 |
| shared | `BreachIsEnforced`, `RecoveryIsRestored` | two BudgetNamespaces of one namespace, one going by quota and restoring, one going by cost; usage changes once |
| edits | `StatusMatchesSpec`, `WakeupScheduled`, `DeletionIsDue` | two namespaces; edit (of `namespaceName` and everything else), delete, create, once each; no workloads; two ticks to a second, so that stored times lose their fraction |
| expiry | `TypeOK`, `WakeupScheduled`, `ExpiredIsDeleted`, `PassesAreWorkloadScale` | a StatefulSet, TTL, one failing call, one conflicting write, one crash; a spec that validates and one that does not |
| guards | `NamespaceIsGuarded` | namespace deleted once, labels, quota or limits written or deleted once, spec edited once; no enforcement and no TTL, so only events, retries and the resync wake the worker; no workloads |

Each finishes within five minutes with two workers. Six more runs show a
statement of the documentation that the code does not meet; see section 5.

**Bounds.** `MaxReplicas` tells the old count, the new count and zero apart in
`workload_counts`; where counts are only zero or not, it is 1. One workload is
enough for what TLC shows about races on a workload, since passes treat
workloads independently. Passes over several workloads of both kinds, stopped
half-way, are beyond TLC once the controller drives them: for them there are the
theorems on `CountPreserved`, `LedgerIsKept` and `PassesAreWorkloadScale`, while
the restore and the enforcement that liveness promises are shown for one
workload. `Budget` says how often each outside event may happen; one event can
fall between any two steps of the worker, and the smallest interesting stories
(edit within a reconcile, crash within a pass) need one to three. `MaxClock`
covers the cooldown, the query interval, or TTL plus grace period of its run;
`shared` and `guards` stay at clock 0, their last tick, where every requeue is
ready at once and timers add no order of events: a later time differs from it
only in which timers are due. In `shared` a cooldown therefore never ends, and
`RecoveryIsRestored` there is about the workloads the other BudgetNamespace took
down. `MaxBackoff` is the choice of the retry delay; it is 0 in the runs, a
retry that is ready at once but may be taken at any later moment, and arbitrary
in the theorems. `ReadSkew` is the time between the two clock readings: zero
except in `requeue_lost`, where one tick stands for the target lying between two
readings that are in reality microseconds apart. `TrackZeroed` switches a
history variable on where a property needs it. `Clients` says which starts get a
BigQuery client, `Resyncs` whether the resync happens.

**Fairness** (`Fairness`). Weak fairness of the worker's steps, the informers,
the namespace controller and the clock: each runs as long as it can. Strong
fairness of `Dequeue`, because the queue hands out every ready request while the
worker is repeatedly busy with others, and of `Restart`, because the pod is
restarted by its Deployment once its caches can sync. Weak fairness of `Resync`,
because controller-runtime resyncs its informers every ten hours unless told
otherwise (cmd/main.go does not). It happens at the last tick only, and only
`guards` switches it on: everything else that is shown to happen, happens
without it. Nothing is assumed of users, usage or spend; failures and crashes
are bounded by `Budget`.

**Reading the liveness properties.** Their premises are `<>[]`: the budget is
breached (or not, or the TTL over) from some time on. They keep a
pending cooldown or query interval within the horizon (`Reachable`), because one
that starts at the last tick never ends. A breach of the cost budget therefore
counts when the spend in the status is the real one, or another query is still
to come. A lasting breach is stated for each BudgetNamespace that enforces it:
with another one of the same namespace restoring, the workloads are down again
and again rather than for ever, and so the conclusions are `[]<>`. A namespace
is deleted when the TTL of *every* BudgetNamespace that names it is over, for
one that is not over creates it again; it is guarded when they agree on the spec.

**Reading the properties of causes.** `RestoreIsDue` and `DeletionIsDue` speak of
the live resource and excuse a copy that a write has overtaken: a reconcile that
reads an old status may restore too early (`cooldown_lost`), and one that reads
an old TTL may delete what has just been extended. Deletions by users are told
apart by `left`, which counts them. `CalmIsLeftAlone` has no excuse, so it asks
for calm under every spec the users may give, and for bills below the maximum in
*every* namespace, because a spend can be another namespace's (`retargeted`). In
the run, one spec and a bill that stays at 0 make the namespace calm; edits,
usage and crashes are the theorem's.

**Mutants.** For every property of a passing run `PROJECT.json` names a mutant
of the code the property catches: a parse error ignored, the annotation not
saved, a default restored, the poll dropped, a conflict or an error swallowed,
an existing object taken to be as wanted, the cooldown, the throttle or the grace
period gone, a resource without a TTL taken to be expired.

## 4. The proofs

| Theorem | Says |
|---|---|
| `WSInvariant` | `WSSpec => []WSInv` |
| `WSTypeCorrect` | `WSSpec => []WSTypeOK` |
| `CountsArePreserved` | `WSSpec => []CountPreserved` |
| `PassesKeepLedger` | `WSSpec => LedgerIsKept` |
| `TypeCorrect` | `Spec => []TypeOK` |
| `ControllerRefinesPasses` | `Spec => PassesAreWorkloadScale` |
| `ControllerPreservesCounts` | `Spec => []CountPreserved` |
| `ControllerKeepsLedger` | `Spec => LedgerIsKept` |
| `StatusIsTruthful` | `Spec => []StatusMatchesSpec` |
| `WakeupsAreScheduled` | `ReadSkew = 0` implies `Spec => []WakeupScheduled` |
| `RestoresKeepTheCooldown` | `WholeSeconds` implies `Spec => RecordedCooldown` |
| `QueriesKeepTheInterval` | `WholeSeconds` implies `Spec => RecordedQueryInterval` |
| `ControllerKeepsLog` | `WholeSeconds` implies `Spec => LogIsKept` |
| `RestoresAreDue` | `Spec => RestoreIsDue` |
| `DeletionsAreDue` | `Spec => DeletionIsDue` |
| `CalmNamespacesAreLeftAlone` | `Spec => CalmIsLeftAlone` |

They hold for any sets of workloads, namespaces and BudgetNamespaces, any specs
and any bounds that satisfy the assumptions of the modules: Deployments and
StatefulSets are disjoint, bounds are natural numbers, poll and deletion poll do
not exceed the cap of the TTL requeue (as in the code), a quota is a map of
natural numbers, and the special values differ from each other, from the
integers and from objects.

**Counts.** `CountPreserved` is not inductive: a patch moves the count according
to a copy that may be arbitrarily old. `WSInv` adds that the cached copy and a
copy still to be patched hold the same count as the live object, though possibly
in the other of the two forms (`CountPreservedEverywhere`), and that copies still
to be patched are targets of the pass (`ItemsAreTargets`). Lemma
`PatchKeepsCount` is the heart: if listed and live object hold count `b`, and the
listed one is a target, the patched object holds `b`. There are four cases, and
the two crossed ones are what makes the lock-free patches safe: a scale-to-zero
computed from a running copy on a workload already parked writes the same
annotation again, and a restore computed from a parked copy on a workload already
running changes nothing. `PassesKeepLedger` then maps each step of the passes to
a step of the ledger or a stutter; it is `WSInv` that makes a patch a `Park` or
an `Unpark` whenever a count is promised.

**Types and refinement.** `StepRefines` goes through the actions of the
controller: those that drive a pass are the corresponding action of
`WorkloadScale`, the others leave its variables unchanged. That a pass is for a
namespace at all needs the types of the locals, and the types of the workloads
need the invariant of the passes, so the invariant is `WSInv /\ TypeOK`. `TypeOK`
says besides types that a reconcile in progress has its locals and that a pass
belongs to the reconcile that started it. Counts and ledger carry over to the
controller through `WorkloadScale`.

**Status.** A status is computed from a copy read many steps earlier.
`StatusInv` adds what makes it true: an observed generation is never ahead of
the real one (`StatusesTruthful`), the copy of a reconcile that no write has
overtaken is the live resource (`CopyIsLive`), and a reconcile that gets to the
status update has evaluated the budget, found the resource expired or has
nothing to enforce (`Evaluated`), so that the OverBudget condition is a new one.

**Wake-ups.** The requeue asked for at the end of a reconcile was computed at its
start, and a request added by a watch event swallows it. `WakeupInv` adds what
the locals know of the time (`RunKnowsTime`): the clock has not gone back, expiry
and delay were computed from the copy at `run.now`, and the queue holds nothing
of the resource under reconcile but a request that is ready. `RequeueIsTimely`
shows the delay positive and within the poll interval or the cap when the time is
read once, `CopyIsLive` that it is the delay the live spec calls for, and
`ErrorIsRetried` covers the other ways out. The assumption `ReadSkew = 0` is
needed: `requeue_lost` is the counterexample without it.

**Records.** A restore, or a query, is decided from the status in the copy and
recorded when the reconcile ends. `RecordInv` says what the locals have to do
with the live status while no write has overtaken the copy: at each step either
they repeat what the live status records, or they hold an operation or a query
that may follow it (`Known`). An update from an overtaken copy is refused, so
what replaces a record is one of the two. The status keeps seconds
(`StoredIsWhole`), and dropping the fraction cannot take a time back below a
whole number of seconds it has reached (`StoredKeepsDistance`). That is where
the assumption `WholeSeconds`, that cooldowns and query intervals are whole
seconds, is needed: a restore 2.5 s after a scale-to-zero may be recorded 2 s
after it. The property is about the records: patches that are not recorded are
`cooldown_lost`.

**The log.** `LogIsKept` asks for more than the distances: an entry may not be
ahead of the clock or before the one it replaces, although it was decided many
steps before the update that makes it. `LogInv` adds to `RecordInv` that what a
status records is of the past (`StatusesPast`), and that a reconcile that can
still record something has nothing older to record than what is there
(`RunFollows`): it read both the clock and the copy after the last entry was
made. `StoredIsBetween` carries this over the loss of the fraction, since a
stored time is a whole second. `ResourceSteps` shows that live resources are
written by the status update and by users only; `UpdateIsLogged` maps the one to
`Record`, `UserIsLogged` the others to `Change`, and every other step is a
`Pass`. The assumption is `WholeSeconds` again.

**Causes.** What the worker does has a reason in the spec it has copied, found
at the start of the reconcile or on the way (`RunHasCause`: enforcement is on,
recovery is to restore, the TTL or its grace period is over). `CopyIsLive` makes
it a reason in the live resource unless that has been written since, `Known` the
same for the cooldown. `Terminates` shows which steps terminate a namespace.

**Calm.** `CalmIsLeftAlone` has no such excuse, so its invariant is about copies
of every age: while a namespace is calm, no cached quota is used up, no status,
live, cached or in the copy of a reconcile, holds an amount that reaches a
maximum (`Harmless`), and no reconcile of it has found its quota used up or is
on its way to a pass (`CalmInv`). The amounts come from queries alone, and a
query that is throttled has an answer (`CalmEvaluation`). The theorem is an
implication between two invariances, proved for one namespace at a time.

Only model-checked: the four liveness properties `BreachIsEnforced`,
`RecoveryIsRestored`, `ExpiredIsDeleted` and `NamespaceIsGuarded`. They rest on
fairness, which TLAPS does not do.

## 5. Where the code and its documentation disagree

| Run | Statement | What happens |
|---|---|---|
| zeroed_restorable | docs/architecture.md:48, previous replicas are saved before scale-down | a user's scale-up during a restore, and a stale list, leave a workload at zero without annotation |
| cooldown_lost | api/v1alpha1/budgetnamespace_types.go:74, wait after scale-to-zero | a scale-to-zero the cached status does not know of starts no cooldown; the throttle of the billing query (budgetnamespace_types.go:108) reads the same cached status and is missed in the same way |
| bad_cost_budget | controller.go:163, delete if TTL is expired | an invalid cost budget keeps the namespace for ever |
| requeue_lost | docs/architecture.md:68, bounded requeues | a target between two clock readings leaves no requeue |
| retargeted | docs/architecture.md:29, 75, the spend is that of `spec.namespaceName` | within the query interval after an edit of `namespaceName` the new namespace is judged by the spend of the old one |
| quota_unenforced | README.md:13-14, over-budget actions on quota pressure | with a cost budget and no BigQuery client every reconcile ends in an error before the quota breach is acted on |

Each of these properties holds of the code but for the story its run shows; the
hazards of `PROJECT.json` without a property say why nothing can be checked
there, mostly because no document says what should happen (no clean-up when a
BudgetNamespace is deleted or enforcement switched off while workloads are at
zero, an annotation that outlives a manual scale-up, the Expired condition that
outlives the TTL, a TTL extended just before a reconcile that does not know it
yet, which of two BudgetNamespaces decides on the quota, a NaN maximum). A
billing query whose record is lost is made again, which costs a query and
changes no state.

## 6. Not modelled

- Recorded events, logs, condition messages and transition times. An annotation
  of the namespace is treated as one of its labels.
- The SQL of the billing query, its lookback window, the BigQuery job and the
  iteration over its rows: they are BigQuery's, and the controller sees one
  amount or an error. The formatting of the amount as text.
- Flags, TLS, metrics and health probes of the process: nothing in the
  controller depends on them. Two processes at once: the leader lease excludes it.
- A failing list in `resourceQuotaToRequests`: the cache it reads does not fail
  once it is synced, and the worker starts only then.
- Generated code, scheme registration, manifests, terraform, test drivers.

## 7. Plan

Done, in this order: `WorkloadScale` with its proofs, `BudgetRules`,
`BudgetReconciler` with its runs, the refinement proof; then several namespaces
and BudgetNamespaces, tampering, resync and missing clients, `ReplicaLedger` and
its refinement, and the proofs of types, status, wake-ups and records; then
`EnforcementLog` and its refinement, and the causes of restores, deletions and
scale-downs.

Next:
1. What a pass does to the workloads of its namespace as a theorem: when it ends
   with its record, every listed target has been patched or was gone.
2. The steps of the liveness arguments that are safety (for `ExpiredIsDeleted`:
   a resource past its grace period has a request and every reconcile of it
   reaches `DeleteNamespace` or an error) as theorems.
