------------------------- MODULE MCBudgetReconciler -------------------------
(***************************************************************************)
(* Instances of BudgetReconciler.  A tick is ten seconds: the grace period *)
(* and the deletion poll are 1, the enforcement poll is 3, the cap of the  *)
(* TTL requeue is 60, the default cooldown is 12 and the default query     *)
(* interval is 360.                                                        *)
(***************************************************************************)
EXTENDS BudgetReconciler

AllInN1 == [w \in Workloads |-> "n1"]

\* Enforcement on, no TTL, no cost budget, one resource with hard limit 1.
Enforced ==
  [namespaceName |-> "n1",
   ttl |-> None, labels |-> <<>>, quota |-> [pods |-> 1], limits |-> "small",
   enabled |-> TRUE, action |-> "ScaleToZero", restoreOnRecovery |-> FALSE,
   cooldown |-> None, cost |-> None]

Restoring == [Enforced EXCEPT !.restoreOnRecovery = TRUE, !.cooldown = 2]

ShortLived == [Restoring EXCEPT !.ttl = 1]

\* Spend below 3 - epsilon, asked for every 20 seconds.
CostLimited ==
  [Restoring EXCEPT !.cost = [enabled |-> TRUE, table |-> "p.d.t", cluster |-> "c",
                              max |-> 3, lookback |-> None, interval |-> 2]]

CostEnforced == [CostLimited EXCEPT !.restoreOnRecovery = FALSE]

\* The CRD accepts any text for maxSpendUSD.
BadCostShortLived ==
  [ShortLived EXCEPT !.cost = [enabled |-> TRUE, table |-> "p.d.t", cluster |-> "c",
                               max |-> Bad, lookback |-> None, interval |-> None]]

\* Enforcement off and no TTL: nothing polls.
Unenforced == [Enforced EXCEPT !.enabled = FALSE, !.labels = [team |-> "a"]]

\* The same with another quota and other limits, for edits of the spec.
Resized == [Unenforced EXCEPT !.quota = [pods |-> 2], !.limits = "large"]

\* The other namespace, without enforcement.
Elsewhere == [Unenforced EXCEPT !.namespaceName = "n2"]

CostElsewhere == [CostLimited EXCEPT !.namespaceName = "n2"]

MCUsages == {[pods |-> 0], [pods |-> 1]}

SpecsRestoring == {Restoring}
SpecsShortLived == {ShortLived}
SpecsExpiry == {ShortLived, BadCostShortLived}
SpecsBadCost == {BadCostShortLived}
SpecsCost == {CostLimited}
SpecsShared == {Restoring, CostEnforced}
SpecsEdits == {ShortLived, Elsewhere}
SpecsGuards == {Unenforced, Resized}
SpecsRetargeted == {CostLimited, CostElsewhere}

\* How often users, the cluster and the network interfere.
NoBudget == [k \in EnvActKinds |-> 0]

Edit1 == [NoBudget EXCEPT !["edit"] = 1]
Bill1 == [NoBudget EXCEPT !["bill"] = 1]
Usage1 == [NoBudget EXCEPT !["usage"] = 1]
Usage2 == [NoBudget EXCEPT !["usage"] = 2]
FailCrashTouch == [NoBudget EXCEPT !["fail"] = 1, !["crash"] = 1, !["touch"] = 1]
EditRecreate == [NoBudget EXCEPT !["edit"] = 1, !["delete"] = 1, !["create"] = 1]
NamespaceEditTamper ==
  [NoBudget EXCEPT !["namespace"] = 1, !["edit"] = 1, !["tamper"] = 1]

=============================================================================
