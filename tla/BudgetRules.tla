----------------------------- MODULE BudgetRules -----------------------------
(***************************************************************************)
(* The decisions of one reconcile of a BudgetNamespace, as operators on    *)
(* its spec, its creation time and the clock: which part of its life the   *)
(* resource is in, whether the namespace is over budget, whether workloads *)
(* may come back, what the status becomes and when to look again.          *)
(*                                                                         *)
(* A spec is a record with the fields                                      *)
(*   namespaceName     the namespace to manage                             *)
(*   ttl               None, Bad (does not parse) or a duration            *)
(*   labels            the labels and annotations of the namespace         *)
(*   quota             Bad, or the hard limit of each resource             *)
(*   limits            Bad, or the container defaults of the LimitRange    *)
(*   enabled, action, restoreOnRecovery, cooldown    spec.enforcement      *)
(*   cost              None or [enabled, table, cluster, max, lookback,    *)
(*                     interval]                                           *)
(* where blank strings are None, strings that do not parse are Bad, and    *)
(* cost.max can also be NaN.  Amounts are counted in units of 1e-9 USD,    *)
(* times in ticks.                                                         *)
(***************************************************************************)
EXTENDS Integers, ApiObjects

CONSTANTS
  Bad,                              \* a string that the parser rejects
  NaN,                              \* what ParseFloat makes of "NaN"
  Second,                           \* ticks per second, the precision of metav1.Time
  ttlDeleteGracePeriod,             \* 10 s in the code
  enforcementPollInterval,          \* 30 s
  ttlRequeueCap,                    \* 10 min
  deletePollInterval,               \* 10 s
  defaultEnforcementCooldown,       \* 2 min
  defaultCostBudgetQueryInterval    \* 1 h

ASSUME RulesAssumption ==
  /\ Second \in Nat \ {0}
  /\ ttlDeleteGracePeriod \in Nat \ {0}
  /\ enforcementPollInterval \in Nat \ {0}
  /\ ttlRequeueCap \in Nat \ {0}
  /\ deletePollInterval \in Nat \ {0}
  /\ enforcementPollInterval <= ttlRequeueCap /\ deletePollInterval <= ttlRequeueCap
  /\ defaultEnforcementCooldown \in Nat
  /\ defaultCostBudgetQueryInterval \in Nat
  /\ None \notin Int /\ Bad \notin Int /\ NaN \notin Int
  /\ None # Bad /\ None # NaN /\ Bad # NaN

\* The fields of a spec.  The CRD asks for text of at least one character in
\* most of them, which need not be what the code can parse.
Durations == Int \cup {None, Bad}

HardLimits == {"cpu", "memory", "storage", "persistentvolumeclaims", "pods"}

\* A model can leave out the limits it does not need.
IsQuotaSpec(quota) ==
  quota # Bad => DOMAIN quota \subseteq HardLimits /\ quota \in [DOMAIN quota -> Nat]

Actions == {"", "None", "ScaleToZero"}

CostBudgetSpecs ==
  [enabled : BOOLEAN, table : STRING \cup {None, Bad}, cluster : STRING \cup {None},
   max : Int \cup {None, Bad, NaN}, lookback : Durations, interval : Durations]

\* A metav1.Time as it is stored: the fraction of a second is dropped.
Stored(t) == IF t = None THEN None ELSE t - (t % Second)

-----------------------------------------------------------------------------
(* Enforcement.                                                             *)

shouldScaleDeploymentsToZero(spec) ==
  /\ spec.action # "None"
  /\ spec.enabled
  /\ spec.action \in {"", "ScaleToZero"}

\* The error of an unparsable cooldown is in the caller.
enforcementCooldown(spec) ==
  IF spec.cooldown = None THEN defaultEnforcementCooldown ELSE spec.cooldown

\* Mutant: the cooldown is never waited for.
canRestoreAnyTime(lastOp, lastAt, cooldown, now) == TRUE

canRestoreAfterScaleDown(lastOp, lastAt, cooldown, now) ==
  \/ lastOp # "ScaleToZero"
  \/ lastAt = None
  \/ now >= lastAt + cooldown

\* quota is a ResourceQuota: a resource without a used entry is not counted.
quotaUsedAtOrOverHard(quota) ==
  \E r \in DOMAIN quota.hard \cap DOMAIN quota.used : quota.used[r] >= quota.hard[r]

-----------------------------------------------------------------------------
(* The cost budget.                                                         *)

costBudgetEnabled(spec) == spec.cost # None /\ spec.cost.enabled

\* NaN passes: no comparison with it is true.
validateCostBudgetSpec(spec) ==
  costBudgetEnabled(spec) =>
    /\ spec.cost.table # None
    /\ spec.cost.cluster # None
    /\ spec.cost.max \notin {None, Bad}
    /\ spec.cost.max # NaN => spec.cost.max > 0
    /\ spec.cost.lookback # Bad
    /\ spec.cost.interval # Bad

\* The table must be project.dataset.table; only the query finds out.
validateTableRef(spec) == spec.cost.table # Bad

costBudgetQueryInterval(spec) ==
  IF spec.cost.interval \in {None, Bad} THEN defaultCostBudgetQueryInterval
                                        ELSE spec.cost.interval

costBudgetEpsilon == 1

spendAtOrOverMax(spend, max) == max # NaN /\ spend + costBudgetEpsilon >= max

withinCostBudgetForRestore(spec, spend) ==
  costBudgetEnabled(spec) =>
    spec.cost.max # NaN /\ spend + costBudgetEpsilon < spec.cost.max

\* Mutants: the throttle is gone; it ignores how long ago the last query was.
NeverThrottled(spec, status, now) == FALSE

ThrottledWhenever(spec, status, now) ==
  status.lastCostQueryAt # None /\ status.lastObservedSpendUSD # None

\* resolveNamespaceSpendUSD answers from the status, without a query.
Throttled(spec, status, now) ==
  /\ status.lastCostQueryAt # None
  /\ now < status.lastCostQueryAt + costBudgetQueryInterval(spec)
  /\ status.lastObservedSpendUSD # None

-----------------------------------------------------------------------------
(* The TTL.                                                                 *)

Expiry(spec, created) == created + spec.ttl

\* Mutant: a TTL that is not set is one of no time at all.
ExpiredUnset(spec, created, now) == spec.ttl = None \/ now >= Expiry(spec, created)

Expired(spec, created, now) == spec.ttl # None /\ now >= Expiry(spec, created)

Deleting(spec, created, now) ==
  spec.ttl # None /\ now >= Expiry(spec, created) + ttlDeleteGracePeriod

\* Mutant: nothing is asked for during the grace period.
RequeueUntilExpiry(spec, created, now, later) ==
  IF spec.ttl = None THEN 0
  ELSE IF Deleting(spec, created, now) THEN deletePollInterval
  ELSE IF Expired(spec, created, now) THEN 0
  ELSE Expiry(spec, created) - later

(***************************************************************************)
(* The requeue that the TTL asks for.  The phase is decided with the first *)
(* reading of the clock and the delay is time.Until, a second reading, so  *)
(* it can be zero or negative.                                             *)
(***************************************************************************)
RequeueAfterTTL(spec, created, now, later) ==
  LET target == Expiry(spec, created) +
                IF Expired(spec, created, now) THEN ttlDeleteGracePeriod ELSE 0
  IN  IF spec.ttl = None THEN 0
      ELSE IF Deleting(spec, created, now) THEN deletePollInterval
      ELSE IF target - later < ttlRequeueCap THEN target - later
      ELSE ttlRequeueCap

\* Mutant: the poll only shortens a delay that the TTL asks for.
RequeueWithoutPoll(spec, expired, requeueAfterTTL) ==
  IF shouldScaleDeploymentsToZero(spec) /\ ~expired
     /\ enforcementPollInterval < requeueAfterTTL
  THEN enforcementPollInterval
  ELSE requeueAfterTTL

\* The delay of the Result; zero or less is no requeue at all.
RequeueAfter(spec, expired, requeueAfterTTL) ==
  IF shouldScaleDeploymentsToZero(spec) /\ ~expired
     /\ (requeueAfterTTL = 0 \/ enforcementPollInterval < requeueAfterTTL)
  THEN enforcementPollInterval
  ELSE requeueAfterTTL

-----------------------------------------------------------------------------
(* The status.                                                              *)

ConditionTypes == {"Expired", "OverBudget", "EnforcementRecoveryDeferred", "Ready"}

Reasons ==
  {"TTLExpired", "TTLActive", "NamespaceReady", "EnforcementDisabled", "WithinBudget",
   "CostBudgetAndQuotaExceeded", "CostBudgetExceeded", "ResourceQuotaAtOrOverHard",
   "NotApplicable", "NotDeferred", "AwaitingEnforcementCooldown"}

NoStatus ==
  [observedGeneration |-> 0, managedNamespace |-> None, expiresAt |-> None,
   lastEnforcementAt |-> None, lastEnforcementOperation |-> "",
   lastCostQueryAt |-> None, lastObservedSpendUSD |-> None,
   conditions |-> [c \in ConditionTypes |-> None]]

overBudgetReason(quotaAtHardLimit, costOverBudget) ==
  CASE quotaAtHardLimit /\ costOverBudget -> "CostBudgetAndQuotaExceeded"
    [] costOverBudget /\ ~quotaAtHardLimit -> "CostBudgetExceeded"
    [] OTHER -> "ResourceQuotaAtOrOverHard"

\* The conditions after a reconcile of generation g.  r holds what it found
\* out; a type that is not set keeps the condition that was there.
NewConditions(spec, g, old, r) ==
  LET Condition(status, reason) ==
        [status |-> status, reason |-> reason, observedGeneration |-> g]
      enforced == shouldScaleDeploymentsToZero(spec)
      over == r.quotaAtHardLimit \/ r.costOverBudget
  IN
  [old EXCEPT
     !["Expired"] =
        IF spec.ttl = None THEN @
        ELSE IF r.expired THEN Condition(TRUE, "TTLExpired")
        ELSE Condition(FALSE, "TTLActive"),
     !["OverBudget"] =
        IF ~enforced THEN Condition(FALSE, "EnforcementDisabled")
        ELSE IF r.quotaEvaluated /\ over
          THEN Condition(TRUE, overBudgetReason(r.quotaAtHardLimit, r.costOverBudget))
        ELSE IF r.quotaEvaluated THEN Condition(FALSE, "WithinBudget")
        ELSE IF r.expired THEN Condition(FALSE, "TTLExpired")
        ELSE @,
     !["EnforcementRecoveryDeferred"] =
        IF ~enforced \/ ~r.quotaEvaluated THEN Condition(FALSE, "NotApplicable")
        ELSE IF r.recoveryDeferred THEN Condition(TRUE, "AwaitingEnforcementCooldown")
        ELSE Condition(FALSE, "NotDeferred"),
     !["Ready"] =
        IF r.expired THEN Condition(FALSE, "TTLExpired")
        ELSE Condition(TRUE, "NamespaceReady")]

\* The status that Status().Update sends: copy is the resource as it was read,
\* with the cost query fields resolveNamespaceSpendUSD may have set.
NewStatus(copy, r) ==
  [observedGeneration |-> copy.generation,
   managedNamespace |-> copy.spec.namespaceName,
   expiresAt |-> IF copy.spec.ttl = None THEN None
                 ELSE Stored(Expiry(copy.spec, copy.created)),
   lastEnforcementAt |-> Stored(r.lastEnfAt),
   lastEnforcementOperation |-> r.lastEnfOp,
   lastCostQueryAt |-> Stored(copy.status.lastCostQueryAt),
   lastObservedSpendUSD |-> copy.status.lastObservedSpendUSD,
   conditions |-> NewConditions(copy.spec, copy.generation, copy.status.conditions, r)]

=============================================================================
