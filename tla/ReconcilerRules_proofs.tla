----------------------- MODULE ReconcilerRules_proofs -----------------------
(***************************************************************************)
(* What the operators of BudgetRules and ApiObjects return: the facts      *)
(* about one reconcile's data that the proofs about its steps rest on.     *)
(***************************************************************************)
EXTENDS BudgetReconciler, TLAPS

-----------------------------------------------------------------------------
(* Objects in the API server and their cached copies.                       *)

LEMMA ViewType ==
  ASSUME NEW S, NEW v \in Views(S), NEW o \in S
  PROVE  /\ Written(v, o) \in Views(S) /\ Synced(v) \in Views(S) /\ InSync(o) \in Views(S)
         /\ v.live \in S /\ v.seen \in S /\ v.current \in BOOLEAN
  BY DEF Views, Written, Synced, InSync

-----------------------------------------------------------------------------
(* Times.                                                                   *)

LEMMA StoredType ==
  ASSUME NEW t \in Int
  PROVE  Stored(t) \in Int /\ (t \in Nat => Stored(t) \in Nat)
<1> DEFINE r == t % Second
<1>1. r \in Int /\ 0 <= r
  BY RulesAssumption
<1>2. t \in Nat => r <= t
  BY RulesAssumption
<1>3. t # None
  BY RulesAssumption
<1> HIDE DEF r
<1>4. t - r \in Int /\ (t \in Nat => t - r \in Nat)
  BY <1>1, <1>2
<1> QED
  BY <1>3, <1>4 DEF Stored, r

LEMMA StoredTimes ==
  ASSUME NEW t \in Times
  PROVE  Stored(t) \in Times
  BY StoredType, RulesAssumption DEF Times, Stored

LEMMA RequeueType ==
  ASSUME NEW spec \in BudgetNamespaceSpecs, spec.ttl # Bad, NEW created \in Nat,
         NEW now \in Nat, NEW later \in Nat
  PROVE  RequeueAfterTTL(spec, created, now, later) \in Int
<1>1. spec.ttl \in Int \cup {None}
  BY DEF BudgetNamespaceSpecs, Durations
<1> QED
  BY <1>1, RulesAssumption DEF RequeueAfterTTL, Expiry

LEMMA RequeueAfterType ==
  ASSUME NEW spec, NEW expired \in BOOLEAN, NEW t \in Int
  PROVE  RequeueAfter(spec, expired, t) \in Int
<1>1. enforcementPollInterval \in Int
  BY RulesAssumption
<1>2. RequeueAfter(spec, expired, t) \in {enforcementPollInterval, t}
  BY DEF RequeueAfter
<1> QED
  BY <1>1, <1>2

-----------------------------------------------------------------------------
(* The status.                                                              *)

LEMMA ReasonType ==
  ASSUME NEW q \in BOOLEAN, NEW c \in BOOLEAN
  PROVE  overBudgetReason(q, c) \in
           {"CostBudgetAndQuotaExceeded", "CostBudgetExceeded", "ResourceQuotaAtOrOverHard"}
<1>1. CASE q /\ c
  BY <1>1 DEF overBudgetReason
<1>2. CASE ~q /\ c
  BY <1>2 DEF overBudgetReason
<1>3. CASE ~c
  BY <1>3 DEF overBudgetReason
<1> QED
  BY <1>1, <1>2, <1>3

LEMMA ConditionsType ==
  ASSUME NEW spec, NEW g \in Nat, NEW old \in [ConditionTypes -> Conditions],
         NEW r \in Runs
  PROVE  NewConditions(spec, g, old, r) \in [ConditionTypes -> Conditions]
<1> DEFINE C(status, reason) ==
             [status |-> status, reason |-> reason, observedGeneration |-> g]
<1>1. ASSUME NEW s \in BOOLEAN, NEW reason \in Reasons
      PROVE  C(s, reason) \in Conditions
  BY <1>1 DEF Conditions
<1>2. overBudgetReason(r.quotaAtHardLimit, r.costOverBudget) \in Reasons
  BY ReasonType DEF Runs, Reasons
<1> HIDE DEF C
<1>3. /\ C(FALSE, "TTLActive") \in Conditions /\ C(TRUE, "TTLExpired") \in Conditions
      /\ C(FALSE, "EnforcementDisabled") \in Conditions
      /\ C(TRUE, overBudgetReason(r.quotaAtHardLimit, r.costOverBudget)) \in Conditions
      /\ C(FALSE, "WithinBudget") \in Conditions /\ C(FALSE, "TTLExpired") \in Conditions
      /\ C(FALSE, "NotApplicable") \in Conditions /\ C(FALSE, "NotDeferred") \in Conditions
      /\ C(TRUE, "AwaitingEnforcementCooldown") \in Conditions
      /\ C(TRUE, "NamespaceReady") \in Conditions
  BY <1>1, <1>2 DEF Reasons
<1> QED
  BY <1>3 DEF NewConditions, C

LEMMA NewStatusType ==
  ASSUME NEW copy \in BudgetNamespaces, copy.spec.ttl # Bad, NEW r \in Runs
  PROVE  NewStatus(copy, r) \in Statuses
<1>1. /\ copy.generation \in Nat /\ copy.created \in Nat
      /\ copy.spec \in BudgetNamespaceSpecs
      /\ copy.status \in Statuses
  BY ReconcilerAssumption DEF BudgetNamespaces
<1>2. NewConditions(copy.spec, copy.generation, copy.status.conditions, r)
        \in [ConditionTypes -> Conditions]
  BY <1>1, ConditionsType DEF Statuses
<1>3. copy.spec.namespaceName \in Namespaces
  BY <1>1 DEF BudgetNamespaceSpecs
<1>4. copy.spec.ttl # None => Stored(Expiry(copy.spec, copy.created)) \in Int
  <2>1. copy.spec.ttl # None => copy.spec.ttl \in Int
    BY <1>1 DEF BudgetNamespaceSpecs, Durations
  <2>2. copy.spec.ttl # None => Expiry(copy.spec, copy.created) \in Int
    BY <1>1, <2>1 DEF Expiry
  <2> QED
    BY <2>2, StoredType
<1>5. Stored(r.lastEnfAt) \in Times /\ Stored(copy.status.lastCostQueryAt) \in Times
  BY <1>1, StoredTimes DEF Runs, Statuses
<1>6. /\ r.lastEnfOp \in {"", "ScaleToZero", "Restore"}
      /\ copy.status.lastObservedSpendUSD \in Spends \cup {None}
  BY <1>1 DEF Runs, Statuses
<1> QED
  BY <1>1, <1>2, <1>3, <1>4, <1>5, <1>6 DEF NewStatus, Statuses

LEMMA NoStatusType == NoStatus \in Statuses
  BY DEF NoStatus, Statuses, Times, Conditions

-----------------------------------------------------------------------------
(* Labels.                                                                  *)

LEMMA MergedType ==
  ASSUME NEW f \in LabelMaps, NEW g \in LabelMaps, NEW K \in SUBSET DOMAIN f
  PROVE  Merged([k \in K |-> f[k]], g) \in LabelMaps
<1>1. PICK D \in SUBSET LabelKeys : f \in [D -> LabelValues]
  BY DEF LabelMaps
<1>2. PICK E \in SUBSET LabelKeys : g \in [E -> LabelValues]
  BY DEF LabelMaps
<1>3. Merged([k \in K |-> f[k]], g) \in [K \cup E -> LabelValues]
  BY <1>1, <1>2 DEF Merged
<1>4. K \cup E \in SUBSET LabelKeys
  BY <1>1, <1>2
<1> QED
  BY <1>3, <1>4 DEF LabelMaps

LEMMA EmptyMapType == EmptyMap \in LabelMaps
<1>1. EmptyMap \in [{} -> LabelValues] /\ {} \in SUBSET LabelKeys
  BY DEF EmptyMap
<1> QED
  BY <1>1 DEF LabelMaps

=============================================================================
