----------------------- MODULE ReconcilerRecord_proofs -----------------------
(***************************************************************************)
(* What the status records of enforcement and of billing queries keeps its *)
(* distance, for every instance of the controller whose cooldowns and      *)
(* query intervals are whole seconds: a recorded restore comes a cooldown  *)
(* after the scale-to-zero it follows, a recorded query an interval after  *)
(* the one before.  The decision is taken many steps before it is          *)
(* recorded, from the status in a cached copy; what makes it right is that *)
(* the record is refused when that copy has been overtaken, and that the   *)
(* fraction of a second a record loses does not make up for a whole one.   *)
(***************************************************************************)
EXTENDS ReconcilerStatus_proofs

\* The status keeps seconds: a cooldown with a fraction can look cut short by it.
WholeSeconds ==
  \A spec \in Specs :
    /\ spec.cooldown # Bad => enforcementCooldown(spec) % Second = 0
    /\ costBudgetEnabled(spec) => costBudgetQueryInterval(spec) % Second = 0

IsStored(t) == t # None => t % Second = 0

\* What is recorded is dated, in seconds.
Dated(s) ==
  /\ IsStored(s.lastEnforcementAt) /\ IsStored(s.lastCostQueryAt)
  /\ s.lastEnforcementOperation # "" => s.lastEnforcementAt # None
  /\ s.lastCostQueryAt # None => s.lastObservedSpendUSD # None

StatusesDated == \A b \in BNs : bns[b].live # None => Dated(bns[b].live.status)

Remembered(r, s) ==
  r.lastEnfOp = s.lastEnforcementOperation /\ r.lastEnfAt = s.lastEnforcementAt

QueryRemembered(r, s) ==
  /\ r.copy.status.lastCostQueryAt = s.lastCostQueryAt
  /\ r.copy.status.lastObservedSpendUSD = s.lastObservedSpendUSD

\* At this time a restore, or a query, may follow what the status records.
CooldownOver(s, spec, at) ==
  s.lastEnforcementOperation = "ScaleToZero" =>
    at >= s.lastEnforcementAt + enforcementCooldown(spec)

IntervalOver(s, spec, at) ==
  s.lastCostQueryAt # None => at >= s.lastCostQueryAt + costBudgetQueryInterval(spec)

OperationKnown(r, s) ==
  \/ Remembered(r, s)
  \/ /\ r.lastEnfAt # None
     /\ r.lastEnfOp = "Restore" =>
          r.copy.spec.cooldown # Bad /\ CooldownOver(s, r.copy.spec, r.lastEnfAt)

QueryKnown(r, s) ==
  \/ QueryRemembered(r, s)
  \/ /\ r.copy.status.lastObservedSpendUSD # None
     /\ r.copy.status.lastCostQueryAt = r.now
     /\ costBudgetEnabled(r.copy.spec) /\ IntervalOver(s, r.copy.spec, r.now)

\* What the locals of reconcile r have to do with the live status s when the
\* worker is at step at.
Known(r, s, at) ==
  /\ OperationKnown(r, s) /\ QueryKnown(r, s)
  /\ at # "status" => Remembered(r, s)
  /\ at \in {"namespace", "quota", "limits", "evaluate", "spend"} => QueryRemembered(r, s)
  /\ at = "restore" => CooldownOver(s, r.copy.spec, r.now)

RunKnowsRecords ==
  run # None =>
    /\ run.now <= clock
    /\ pc \in {"spend", "recover", "restore"} => run.copy.spec.cooldown # Bad
    /\ ~run.stale => Known(run, bns[run.bn].live.status, pc)

RecordInv == StatusesDated /\ RunKnowsRecords

\* No record changes in this step.
RecordsStay ==
  \A b \in BNs :
    bns[b].live # None /\ bns'[b].live # None =>
      bns'[b].live.status = bns[b].live.status

-----------------------------------------------------------------------------
(* Steps of the worker.                                                     *)

\* A reconcile ends.
LEMMA EndKeepsRecords ==
  ASSUME RecordInv, UNCHANGED bns, NEW at, Returns(at)
  PROVE  RecordInv' /\ RecordsStay
  BY DEF Returns, RecordInv, StatusesDated, RunKnowsRecords, RecordsStay

LEMMA ErrorKeepsRecords ==
  ASSUME RecordInv, UNCHANGED bns, ReturnsError
  PROVE  RecordInv' /\ RecordsStay
  BY EndKeepsRecords DEF ReturnsError

\* A reconcile goes on.
LEMMA CallKeepsRecords ==
  ASSUME RecordInv, UNCHANGED <<bns, clock>>, run # None,
         run'.now = run.now, run'.bn = run.bn, run'.stale = run.stale,
         pc' \in {"spend", "recover", "restore"} => run'.copy.spec.cooldown # Bad,
         ~run.stale => Known(run', bns[run.bn].live.status, pc')
  PROVE  RecordInv' /\ RecordsStay
<1>1. StatusesDated' /\ RecordsStay
  BY DEF RecordInv, StatusesDated, RecordsStay
<1>2. RunKnowsRecords'
  BY DEF RecordInv, RunKnowsRecords
<1> QED
  BY <1>1, <1>2 DEF RecordInv

LEMMA GuardsKeepRecords ==
  ASSUME TypeOK, RecordInv,
         EnsureNamespace \/ ApplyQuota \/ ApplyLimitRange \/ DeleteNamespace
  PROVE  RecordInv' /\ RecordsStay
<1>1. UNCHANGED <<bns, clock>> /\ run # None
  BY DEF EnsureNamespace, ApplyQuota, ApplyLimitRange, DeleteNamespace, outsideVars,
     TypeOK, Reconciling
<1>2. CASE ReturnsError
  BY <1>1, <1>2, ErrorKeepsRecords
<1>3. CASE ~ReturnsError
  <2>1. /\ UNCHANGED run
        /\ \/ pc \in {"namespace", "quota", "limits"} /\ pc' \in {"quota", "limits", "evaluate", "status"}
           \/ pc' = "status"
    BY <1>3 DEF EnsureNamespace, ApplyQuota, ApplyLimitRange, DeleteNamespace, Continues
  <2>2. ~run.stale => Known(run, bns[run.bn].live.status, pc')
    BY <1>1, <2>1 DEF RecordInv, RunKnowsRecords, Known
  <2> QED
    BY <1>1, <2>1, <2>2, CallKeepsRecords
<1> QED
  BY <1>2, <1>3

\* A query is only sent when the last one is an interval old.
LEMMA QueryWaits ==
  ASSUME NEW spec, NEW status, NEW s, NEW now,
         Dated(s), QueriesSpend(spec, status, now),
         status.lastCostQueryAt = s.lastCostQueryAt,
         status.lastObservedSpendUSD = s.lastObservedSpendUSD,
         s.lastCostQueryAt # None =>
           \/ now < s.lastCostQueryAt + costBudgetQueryInterval(spec)
           \/ now >= s.lastCostQueryAt + costBudgetQueryInterval(spec)
  PROVE  IntervalOver(s, spec, now)
  BY DEF QueriesSpend, Throttled, Dated, IntervalOver

LEMMA TimesAreIntegers ==
  ASSUME NEW spec \in BudgetNamespaceSpecs
  PROVE  /\ spec.cooldown # Bad => enforcementCooldown(spec) \in Int
         /\ costBudgetEnabled(spec) => costBudgetQueryInterval(spec) \in Int
<1>1. spec.cooldown # Bad => enforcementCooldown(spec) \in Int
  BY RulesAssumption DEF BudgetNamespaceSpecs, Durations, enforcementCooldown
<1>2. ASSUME costBudgetEnabled(spec) PROVE costBudgetQueryInterval(spec) \in Int
  <2>1. spec.cost \in CostBudgetSpecs
    BY <1>2 DEF BudgetNamespaceSpecs, costBudgetEnabled
  <2>2. spec.cost.interval \in Durations
    BY <2>1 DEF CostBudgetSpecs
  <2> QED
    BY <2>2, RulesAssumption DEF Durations, costBudgetQueryInterval
<1> QED
  BY <1>1, <1>2

LEMMA EvaluateQuotaKeepsRecords ==
  ASSUME TypeOK, RecordInv, EvaluateQuota
  PROVE  RecordInv' /\ RecordsStay
<1>1. UNCHANGED <<bns, clock>>
  BY DEF EvaluateQuota, apiVars, outsideVars
<1>2. CASE ReturnsError
  BY <1>1, <1>2, ErrorKeepsRecords
<1>3. CASE ~ReturnsError
  <2>1. ~run.stale => Known(run', bns[run.bn].live.status, pc')
    BY <1>3, QuotaRun DEF RecordInv, RunKnowsRecords, Known, OperationKnown, QueryKnown,
       Remembered, QueryRemembered
  <2> QED
    BY <1>1, <1>3, <2>1, QuotaRun, CallKeepsRecords
<1> QED
  BY <1>2, <1>3

LEMMA EvaluateSpendKeepsRecords ==
  ASSUME TypeOK, StatusInv, RecordInv, EvaluateSpend
  PROVE  RecordInv' /\ RecordsStay
<1>1. UNCHANGED <<bns, clock>>
  BY DEF EvaluateSpend, apiVars, outsideVars
<1>2. run \in Runs /\ run # None /\ run.bn \in BNs
  BY ManagedType DEF TypeOK, EvaluateSpend, Reconciling, Runs
<1>3. CASE ReturnsError
  BY <1>1, <1>3, ErrorKeepsRecords
<1>4. CASE ~ReturnsError
  <2> DEFINE spec == run.copy.spec
             status == resolveNamespaceSpendUSD(spec, run.copy.status, run.now)
             amount == IF costBudgetEnabled(spec) THEN status.lastObservedSpendUSD ELSE 0
             cost == costBudgetEnabled(spec) /\ spendAtOrOverMax(amount, spec.cost.max)
             s == bns[run.bn].live.status
  <2>1. run' = [run EXCEPT !.copy.status = status, !.costSpend = amount,
                           !.costOverBudget = cost]
    BY <1>4 DEF EvaluateSpend
  <2>2. spec.cooldown # Bad /\ pc = "spend" /\ pc' \in {"scale", "recover", "status"}
    BY <1>2, <1>4 DEF EvaluateSpend, Continues, RecordInv, RunKnowsRecords
  <2> HIDE DEF status, amount, cost
  <2>3. /\ run'.bn = run.bn /\ run'.stale = run.stale /\ run'.now = run.now
        /\ run'.lastEnfAt = run.lastEnfAt /\ run'.lastEnfOp = run.lastEnfOp
        /\ run'.copy = [run.copy EXCEPT !.status = status]
    BY <1>2, <2>1 DEF Runs
  <2>4. run'.copy.spec = spec /\ run'.copy.status = status
    BY <1>2, <2>3 DEF Runs, BudgetNamespaces
  <2>5. ASSUME ~run.stale PROVE Known(run', s, pc')
    <3>1. Remembered(run, s) /\ QueryRemembered(run, s) /\ Dated(s)
      BY <1>2, <2>2, <2>5
         DEF RecordInv, RunKnowsRecords, Known, StatusesDated, StatusInv, CopyIsLive
    <3>2. Remembered(run', s)
      BY <2>3, <3>1 DEF Remembered
    <3>3. QueryKnown(run', s)
      <4>1. CASE QueriesSpend(spec, run.copy.status, run.now)
        <5>1. /\ run.copy.spec \in BudgetNamespaceSpecs /\ ~Rejected(run.copy.spec)
              /\ run.copy.status \in Statuses /\ run.now \in Nat
              /\ NamespaceSpendUSD(spec.namespaceName) # None
          <6>1. run.copy \in BudgetNamespaces /\ ~Rejected(run.copy.spec) /\ run.now \in Nat
            BY <1>2 DEF Runs
          <6>2. spec \in BudgetNamespaceSpecs /\ run.copy.status \in Statuses
            BY <6>1, ReconcilerAssumption DEF BudgetNamespaces
          <6>3. NamespaceSpendUSD(spec.namespaceName) \in Int
            BY <6>2, ReconcilerAssumption
               DEF BudgetNamespaceSpecs, NamespaceSpendUSD, TypeOK, OutsideTypeOK
          <6> QED
            BY <6>1, <6>2, <6>3, RulesAssumption
        <5>2. /\ status.lastCostQueryAt = run.now
              /\ status.lastObservedSpendUSD = NamespaceSpendUSD(spec.namespaceName)
          BY <4>1, <5>1 DEF status, resolveNamespaceSpendUSD, Statuses
        <5>3. IntervalOver(s, spec, run.now)
          <6>1. costBudgetQueryInterval(spec) \in Int
            BY <4>1, <5>1, TimesAreIntegers DEF QueriesSpend
          <6>2. s.lastCostQueryAt \in Times
            BY <3>1, <5>1 DEF QueryRemembered, Statuses
          <6>3. s.lastCostQueryAt # None =>
                  \/ run.now < s.lastCostQueryAt + costBudgetQueryInterval(spec)
                  \/ run.now >= s.lastCostQueryAt + costBudgetQueryInterval(spec)
            BY <5>1, <6>1, <6>2 DEF Times
          <6> QED
            BY <3>1, <4>1, <6>3, QueryWaits DEF QueryRemembered
        <5> QED
          BY <2>3, <2>4, <4>1, <5>1, <5>2, <5>3 DEF QueryKnown, QueriesSpend
      <4>2. CASE ~QueriesSpend(spec, run.copy.status, run.now)
        BY <2>4, <3>1, <4>2 DEF QueryKnown, QueryRemembered, status, resolveNamespaceSpendUSD
      <4> QED
        BY <4>1, <4>2
    <3> QED
      BY <2>2, <3>2, <3>3 DEF Known, OperationKnown
  <2>6. pc' \in {"spend", "recover", "restore"} => run'.copy.spec.cooldown # Bad
    BY <2>2, <2>4
  <2> QED
    BY <1>1, <1>2, <2>3, <2>5, <2>6, CallKeepsRecords
<1> QED
  BY <1>3, <1>4

LEMMA RecoverKeepsRecords ==
  ASSUME TypeOK, StatusInv, RecordInv, Recover
  PROVE  RecordInv' /\ RecordsStay
<1> DEFINE s == bns[run.bn].live.status
<1>1. UNCHANGED <<bns, clock>>
  BY DEF Recover, apiVars, outsideVars
<1>2. run \in Runs /\ run # None /\ run.bn \in BNs
  BY ManagedType DEF TypeOK, Recover, Reconciling, Runs
<1>3. PICK deferred : run' = [run EXCEPT !.recoveryDeferred = deferred]
  BY DEF Recover
<1>4. /\ run'.bn = run.bn /\ run'.stale = run.stale /\ run'.now = run.now
      /\ run'.lastEnfAt = run.lastEnfAt /\ run'.lastEnfOp = run.lastEnfOp
      /\ run'.copy = run.copy
  BY <1>2, <1>3 DEF Runs
<1>5. /\ pc = "recover" /\ pc' \in {"restore", "status"}
      /\ pc' = "restore" => canRestoreAfterScaleDown(run.lastEnfOp, run.lastEnfAt,
                              enforcementCooldown(run.copy.spec), run.now)
  BY DEF Recover, Continues
<1>6. run.copy.spec.cooldown # Bad
  BY <1>2, <1>5 DEF RecordInv, RunKnowsRecords
<1>7. ASSUME ~run.stale PROVE Known(run', s, pc')
  <2>1. Remembered(run, s) /\ QueryKnown(run, s) /\ Dated(s)
    BY <1>2, <1>5, <1>7
       DEF RecordInv, RunKnowsRecords, Known, StatusesDated, StatusInv, CopyIsLive
  <2>2. Remembered(run', s) /\ QueryKnown(run', s)
    BY <1>4, <2>1 DEF Remembered, QueryKnown, QueryRemembered
  <2>3. pc' = "restore" => CooldownOver(s, run'.copy.spec, run'.now)
    BY <1>4, <1>5, <2>1 DEF canRestoreAfterScaleDown, CooldownOver, Remembered, Dated
  <2> QED
    BY <1>5, <2>2, <2>3 DEF Known, OperationKnown
<1> QED
  BY <1>1, <1>2, <1>4, <1>6, <1>7, CallKeepsRecords

LEMMA PassKeepsRecords ==
  ASSUME TypeOK, StatusInv, RecordInv,
         \/ StartPass \/ PassMovesOn \/ PassFails \/ PassReturns
         \/ \E w \in Workloads : PassPatches(w)
  PROVE  RecordInv' /\ RecordsStay
<1> DEFINE s == bns[run.bn].live.status
<1>1. UNCHANGED <<bns, clock>>
  BY DEF StartPass, PassMovesOn, PassFails, PassReturns, PassPatches, apiVars, outsideVars
<1>2. run \in Runs /\ run # None /\ run.bn \in BNs
  <2>1. run # None
    <3>1. CASE StartPass
      BY <3>1 DEF StartPass, TypeOK, Reconciling, Passes
    <3>2. CASE ~StartPass
      <4>1. op # "none"
        BY <3>2 DEF PassMovesOn, NextKind, PassFails, AbortPass, PassReturns, EndPass,
           PassPatches, PatchWorkload
      <4> QED
        BY <4>1, PassHasRun
    <3> QED
      BY <3>1, <3>2
  <2> QED
    BY <2>1, ManagedType DEF TypeOK, Runs
<1>3. CASE PassFails
  BY <1>1, <1>3, ErrorKeepsRecords DEF PassFails
<1>4. CASE StartPass \/ PassMovesOn \/ \E w \in Workloads : PassPatches(w)
  <2>1. UNCHANGED <<pc, run>>
    BY <1>4 DEF StartPass, PassMovesOn, PassPatches
  <2>2. RunKnowsRecords' /\ StatusesDated' /\ RecordsStay
    BY <1>1, <2>1 DEF RecordInv, RunKnowsRecords, StatusesDated, RecordsStay
  <2> QED
    BY <2>2 DEF RecordInv
<1>5. CASE PassReturns
  <2>1. pc \in Passes /\ op = PassOp /\ pc' = "status"
    BY <1>5 DEF PassReturns, Continues, EndPass, TypeOK
  <2>2. run' = run \/ run' = [run EXCEPT !.lastEnfAt = clock, !.lastEnfOp = op]
    BY <1>5 DEF PassReturns
  <2>3. /\ run'.bn = run.bn /\ run'.stale = run.stale /\ run'.now = run.now
        /\ run'.copy = run.copy
        /\ \/ run' = run
           \/ run'.lastEnfAt = clock /\ run'.lastEnfOp = op
    BY <1>2, <2>2 DEF Runs
  <2>4. clock # None /\ clock \in Nat /\ run.now \in Nat /\ run.now <= clock
    <3>1. clock \in Nat
      BY ReconcilerAssumption DEF TypeOK, OutsideTypeOK
    <3>2. run.now \in Nat
      BY <1>2 DEF Runs
    <3>3. run.now <= clock
      BY <1>2 DEF RecordInv, RunKnowsRecords
    <3> QED
      BY <3>1, <3>2, <3>3, RulesAssumption
  <2>5. ASSUME ~run.stale PROVE Known(run', s, pc')
    <3>1. /\ Remembered(run, s) /\ QueryKnown(run, s) /\ Dated(s) /\ s \in Statuses
          /\ pc = "restore" => CooldownOver(s, run.copy.spec, run.now)
      <4>1. bns[run.bn].live # None
        BY <1>2, <2>5 DEF StatusInv, CopyIsLive
      <4>2. s \in Statuses
        BY <1>2, <4>1, BnsStep DEF TypeOK, BudgetNamespaces
      <4> QED
        BY <1>2, <2>1, <2>5, <4>1, <4>2
           DEF RecordInv, RunKnowsRecords, Known, StatusesDated, Passes
    <3>2. QueryKnown(run', s)
      BY <2>3, <3>1 DEF QueryKnown, QueryRemembered
    <3>3. OperationKnown(run', s)
      <4>1. CASE run' = run
        BY <3>1, <4>1 DEF OperationKnown
      <4>2. CASE run'.lastEnfAt = clock /\ run'.lastEnfOp = op
        <5>1. CASE op = "Restore"
          <6>1. pc = "restore"
            BY <2>1, <5>1 DEF PassOp
          <6>2. run.copy.spec \in BudgetNamespaceSpecs /\ ~Rejected(run.copy.spec)
            BY <1>2, ManagedType DEF TypeOK, Runs
          <6>3. enforcementCooldown(run.copy.spec) \in Int
            BY <1>2, <6>1, <6>2, TimesAreIntegers DEF RecordInv, RunKnowsRecords
          <6>4. s.lastEnforcementOperation = "ScaleToZero" => s.lastEnforcementAt \in Nat
            BY <3>1 DEF Dated, Statuses, Times
          <6>5. s.lastEnforcementOperation = "ScaleToZero" =>
                  run.now >= s.lastEnforcementAt + enforcementCooldown(run.copy.spec)
            BY <3>1, <6>1 DEF CooldownOver
          <6>6. s.lastEnforcementOperation = "ScaleToZero" =>
                  clock >= s.lastEnforcementAt + enforcementCooldown(run.copy.spec)
            BY <2>4, <6>3, <6>4, <6>5
          <6>7. run.copy.spec.cooldown # Bad
            BY <1>2, <6>1 DEF RecordInv, RunKnowsRecords
          <6> QED
            BY <2>3, <2>4, <4>2, <6>6, <6>7 DEF OperationKnown, CooldownOver
        <5>2. CASE op # "Restore"
          BY <2>4, <4>2, <5>2 DEF OperationKnown
        <5> QED
          BY <5>1, <5>2
      <4> QED
        BY <2>3, <4>1, <4>2
    <3> QED
      BY <2>1, <3>2, <3>3 DEF Known
  <2> QED
    BY <1>1, <1>2, <2>1, <2>3, <2>5, CallKeepsRecords
<1> QED
  BY <1>3, <1>4, <1>5

\* The two distances, of one resource and one step.
CooldownKept(before, after) ==
  /\ before.status.lastEnforcementOperation = "ScaleToZero"
  /\ after.status.lastEnforcementOperation = "Restore"
  => after.status.lastEnforcementAt >=
       before.status.lastEnforcementAt + enforcementCooldown(after.spec)

IntervalKept(before, after) ==
  /\ before.status.lastCostQueryAt # None
  /\ after.status.lastCostQueryAt # before.status.lastCostQueryAt
  => after.status.lastCostQueryAt >=
       before.status.lastCostQueryAt + costBudgetQueryInterval(after.spec)

DistancesKept ==
  \A b \in BNs :
    bns[b].live # None /\ bns'[b].live # None =>
      CooldownKept(bns[b].live, bns'[b].live) /\ IntervalKept(bns[b].live, bns'[b].live)

LEMMA StayingKeepsDistances ==
  ASSUME RecordsStay
  PROVE  DistancesKept
  BY DEF RecordsStay, DistancesKept, CooldownKept, IntervalKept

-----------------------------------------------------------------------------
(* What is lost when a time is stored.                                      *)

LEMMA StoredIsWhole ==
  ASSUME NEW t \in Times
  PROVE  Stored(t) \in Times /\ IsStored(Stored(t)) /\ (Stored(t) = None <=> t = None)
<1>1. CASE t = None
  BY <1>1 DEF Stored, IsStored, Times
<1>2. CASE t # None
  <2> DEFINE q == t \div Second
  <2>1. t \in Nat /\ q \in Nat /\ Second \in Int /\ Second > 0
    BY <1>2, RulesAssumption DEF Times
  <2>2. t = Second * q + (t % Second) /\ t % Second \in 0 .. Second - 1
    BY <2>1
  <2> HIDE DEF q
  <2>3. t - (t % Second) = q * Second /\ t - (t % Second) \in Nat
    BY <2>1, <2>2
  <2>4. (q * Second) % Second = 0
    BY <2>1
  <2>5. Stored(t) = t - (t % Second)
    BY <1>2 DEF Stored
  <2> HIDE DEF Stored
  <2>6. Stored(t) # None
    BY <2>3, <2>5, RulesAssumption
  <2> QED
    BY <1>2, <2>3, <2>4, <2>5, <2>6 DEF IsStored, Times
<1> QED
  BY <1>1, <1>2

\* Nothing is lost of whole seconds ...
LEMMA StoredAgain ==
  ASSUME NEW t \in Times, IsStored(t)
  PROVE  Stored(t) = t
  BY RulesAssumption DEF Stored, IsStored, Times

\* ... and too little to fall short of whole seconds.
LEMMA StoredKeepsDistance ==
  ASSUME NEW t \in Nat, NEW from \in Nat, NEW d \in Int,
         from % Second = 0, d % Second = 0, t >= from + d
  PROVE  Stored(t) >= from + d
<1> DEFINE k == from \div Second
           l == d \div Second
           q == t \div Second
<1>1. k \in Int /\ l \in Int /\ q \in Int /\ Second \in Int /\ Second > 0
  BY RulesAssumption
<1>2. from = Second * k /\ d = Second * l
  BY <1>1
<1>3. t = Second * q + (t % Second) /\ t % Second \in 0 .. Second - 1
  BY <1>1
<1>4. Stored(t) = t - (t % Second)
  BY RulesAssumption DEF Stored
<1> HIDE DEF k, l, q
<1>5. /\ Second * q \in Int /\ Second * (k + l) \in Int
      /\ Second * (q + 1) = Second * q + Second
      /\ from + d = Second * (k + l)
  BY <1>1, <1>2
<1>6. Second * (k + l) < Second * (q + 1)
  BY <1>1, <1>3, <1>5
<1>7. k + l <= q
  <2>1. SUFFICES ASSUME k + l >= q + 1 PROVE FALSE
    BY <1>1
  <2>2. Second * (k + l) >= Second * (q + 1)
    BY <1>1, <2>1
  <2> QED
    BY <1>1, <1>5, <1>6, <2>2
<1>8. Second * (k + l) <= Second * q
  BY <1>1, <1>7
<1> QED
  BY <1>3, <1>4, <1>5, <1>8

\* A record that is not refused keeps its distance from the one it replaces.
LEMMA RecordKeepsDistance ==
  ASSUME NEW r \in Runs, NEW o \in BudgetNamespaces,
         SameVersion(r.copy, o), Dated(o.status), Known(r, o.status, "status")
  PROVE  LET new == [o EXCEPT !.status = NewStatus(r.copy, r)]
         IN  /\ Dated(new.status)
             /\ WholeSeconds => CooldownKept(o, new) /\ IntervalKept(o, new)
<1> DEFINE status == NewStatus(r.copy, r)
           new == [o EXCEPT !.status = status]
           s == o.status
           spec == r.copy.spec
<1>1. /\ r.lastEnfAt \in Times /\ r.copy.status.lastCostQueryAt \in Times /\ r.now \in Nat
      /\ s.lastEnforcementAt \in Times /\ s.lastCostQueryAt \in Times
      /\ spec \in Specs /\ ~Rejected(spec)
  BY DEF Runs, BudgetNamespaces, Statuses
<1>2. /\ status.lastEnforcementAt = Stored(r.lastEnfAt)
      /\ status.lastEnforcementOperation = r.lastEnfOp
      /\ status.lastCostQueryAt = Stored(r.copy.status.lastCostQueryAt)
      /\ status.lastObservedSpendUSD = r.copy.status.lastObservedSpendUSD
  BY DEF NewStatus
<1> HIDE DEF status
<1>3. new.status = status /\ new.spec = spec
  BY DEF BudgetNamespaces, SameVersion
<1> HIDE DEF new
<1>4. OperationKnown(r, s) /\ QueryKnown(r, s)
  BY DEF Known
<1>5. r.now # None
  BY <1>1, RulesAssumption
<1>6. Dated(new.status)
  <2>1. r.lastEnfOp # "" => r.lastEnfAt # None
    BY <1>4 DEF Dated, OperationKnown, Remembered
  <2>2. r.copy.status.lastCostQueryAt # None => r.copy.status.lastObservedSpendUSD # None
    BY <1>4, <1>5 DEF Dated, QueryKnown, QueryRemembered
  <2> QED
    BY <1>1, <1>2, <1>3, <2>1, <2>2, StoredIsWhole DEF Dated
<1>7. spec \in BudgetNamespaceSpecs
  BY <1>1, ReconcilerAssumption
<1>8. ASSUME WholeSeconds PROVE CooldownKept(o, new)
  <2> SUFFICES ASSUME s.lastEnforcementOperation = "ScaleToZero", r.lastEnfOp = "Restore"
               PROVE  Stored(r.lastEnfAt) >= s.lastEnforcementAt + enforcementCooldown(spec)
    BY <1>2, <1>3 DEF CooldownKept
  <2>1. /\ r.lastEnfAt # None /\ spec.cooldown # Bad
        /\ r.lastEnfAt >= s.lastEnforcementAt + enforcementCooldown(spec)
    BY <1>4 DEF OperationKnown, Remembered, CooldownOver
  <2>2. r.lastEnfAt \in Nat
    BY <1>1, <2>1 DEF Times
  <2>3. s.lastEnforcementAt \in Nat /\ s.lastEnforcementAt % Second = 0
    BY <1>1 DEF Times, Dated, IsStored
  <2>4. enforcementCooldown(spec) \in Int /\ enforcementCooldown(spec) % Second = 0
    BY <1>1, <1>7, <1>8, <2>1, TimesAreIntegers DEF WholeSeconds
  <2> QED
    BY <2>1, <2>2, <2>3, <2>4, StoredKeepsDistance
<1>9. ASSUME WholeSeconds PROVE IntervalKept(o, new)
  <2> SUFFICES ASSUME s.lastCostQueryAt # None,
                      Stored(r.copy.status.lastCostQueryAt) # s.lastCostQueryAt
               PROVE  Stored(r.copy.status.lastCostQueryAt) >=
                        s.lastCostQueryAt + costBudgetQueryInterval(spec)
    BY <1>2, <1>3 DEF IntervalKept
  <2>1. Stored(s.lastCostQueryAt) = s.lastCostQueryAt
    BY <1>1, StoredAgain DEF Dated
  <2>2. /\ r.copy.status.lastCostQueryAt = r.now /\ costBudgetEnabled(spec)
        /\ r.now >= s.lastCostQueryAt + costBudgetQueryInterval(spec)
    BY <1>4, <2>1 DEF QueryKnown, QueryRemembered, IntervalOver
  <2>3. s.lastCostQueryAt \in Nat /\ s.lastCostQueryAt % Second = 0
    BY <1>1 DEF Times, Dated, IsStored
  <2>4. /\ costBudgetQueryInterval(spec) \in Int
        /\ costBudgetQueryInterval(spec) % Second = 0
    BY <1>1, <1>7, <1>9, <2>2, TimesAreIntegers DEF WholeSeconds
  <2>5. Stored(r.now) >= s.lastCostQueryAt + costBudgetQueryInterval(spec)
    BY <1>1, <2>2, <2>3, <2>4, StoredKeepsDistance
  <2> QED
    BY <2>2, <2>5
<1> QED
  BY <1>6, <1>8, <1>9 DEF new, status

LEMMA UpdateKeepsRecords ==
  ASSUME TypeOK, StatusInv, RecordInv, UpdateStatus
  PROVE  RecordInv' /\ (WholeSeconds => DistancesKept)
<1>1. run \in Runs /\ run # None /\ run.bn \in BNs
  BY ManagedType DEF TypeOK, UpdateStatus, Reconciling, Runs
<1>2. CASE StatusUpdateRefused(run.bn)
  BY <1>2, ErrorKeepsRecords, StayingKeepsDistances DEF UpdateStatus
<1>3. CASE ~StatusUpdateRefused(run.bn)
  <2> DEFINE o == bns[run.bn].live
             new == [o EXCEPT !.status = NewStatus(run.copy, run)]
  <2>1. PICK at : Returns(at)
    BY <1>3 DEF UpdateStatus
  <2>2. CASE UNCHANGED bns
    BY <2>1, <2>2, EndKeepsRecords, StayingKeepsDistances
  <2>3. CASE bns' = [bns EXCEPT ![run.bn] = Written(bns[run.bn], new)]
    <3>1. o \in BudgetNamespaces /\ o # None /\ SameVersion(run.copy, o)
      BY <1>1, <1>3, BnsStep
         DEF StatusUpdateRefused, TypeOK, StatusInv, CopyIsLive
    <3>2. Dated(o.status) /\ Known(run, o.status, "status")
      BY <1>1, <1>3, <3>1
         DEF UpdateStatus, StatusUpdateRefused, RecordInv, StatusesDated, RunKnowsRecords
    <3>3. /\ Dated(new.status)
          /\ WholeSeconds => CooldownKept(o, new) /\ IntervalKept(o, new)
      BY <1>1, <3>1, <3>2, RecordKeepsDistance
    <3> HIDE DEF new
    <3>4. \A b \in BNs : bns'[b].live = IF b = run.bn THEN new ELSE bns[b].live
      BY <1>1, <2>3, WrittenViews DEF TypeOK
    <3>5. StatusesDated'
      BY <3>3, <3>4 DEF RecordInv, StatusesDated
    <3>6. RunKnowsRecords'
      BY <2>1 DEF Returns, RunKnowsRecords
    <3>7. WholeSeconds => DistancesKept
      BY <3>3, <3>4 DEF DistancesKept, CooldownKept, IntervalKept
    <3> QED
      BY <3>5, <3>6, <3>7 DEF RecordInv
  <2> QED
    BY <1>3, <2>2, <2>3 DEF UpdateStatus
<1> QED
  BY <1>2, <1>3

\* A step that leaves the live resources, the worker and its reconcile alone.
LEMMA ElsewhereKeepsRecords ==
  ASSUME TypeOK, RecordInv, UNCHANGED <<pc, run>>,
         NEW t \in Nat, clock' = t, clock <= t,
         \A b \in BNs : bns'[b].live = bns[b].live
  PROVE  RecordInv' /\ RecordsStay
<1>1. StatusesDated' /\ RecordsStay
  BY DEF RecordInv, StatusesDated, RecordsStay
<1>2. clock \in Nat
  BY ReconcilerAssumption DEF TypeOK, OutsideTypeOK
<1>3. ASSUME run # None PROVE run.now \in Nat /\ run.bn \in BNs /\ run.now <= clock
  BY <1>3, ManagedType DEF TypeOK, Runs, RecordInv, RunKnowsRecords
<1>4. run' # None => run'.now <= clock'
  BY <1>2, <1>3
<1>5. RunKnowsRecords'
  BY <1>3, <1>4 DEF RecordInv, RunKnowsRecords
<1> QED
  BY <1>1, <1>5 DEF RecordInv

LEMMA DequeueKeepsRecords ==
  ASSUME TypeOK, RecordInv, NEW b \in BNs, Dequeue(b)
  PROVE  RecordInv' /\ RecordsStay
<1>1. UNCHANGED bns
  BY DEF Dequeue, ReconcileNotFound, ReconcileRejected, ReconcileStart, apiVars
<1>2. clock \in Nat
  BY ReconcilerAssumption DEF TypeOK, OutsideTypeOK
<1>3. CASE UNCHANGED <<pc, run, clock>>
  BY <1>1, <1>2, <1>3, ElsewhereKeepsRecords
<1>4. ASSUME NEW d \in 0 .. ReadSkew, ReconcileStart(b, d)
      PROVE  RecordInv' /\ RecordsStay
  <2> DEFINE copy == bns[b].seen
  <2>1. /\ run'.bn = b /\ run'.copy = copy /\ run'.stale = ~bns[b].current
        /\ run'.now = clock
        /\ run'.lastEnfAt = copy.status.lastEnforcementAt
        /\ run'.lastEnfOp = copy.status.lastEnforcementOperation
    BY <1>4 DEF ReconcileStart
  <2>2. pc' \in {"namespace", "delete", "grace", "status"}
    BY <1>4 DEF ReconcileStart, FirstStep
  <2>3. run'.now <= clock'
    BY <1>2, <1>4, <2>1, ReconcilerAssumption DEF ReconcileStart
  <2>4. bns[b].current => copy = bns[b].live
    BY CurrentCopy DEF TypeOK
  <2>5. ~run'.stale => Known(run', bns'[b].live.status, pc')
    BY <1>1, <2>1, <2>2, <2>4
       DEF Known, OperationKnown, QueryKnown, Remembered, QueryRemembered
  <2>6. RunKnowsRecords'
    BY <2>1, <2>2, <2>3, <2>5 DEF RunKnowsRecords
  <2>7. StatusesDated' /\ RecordsStay
    BY <1>1 DEF RecordInv, StatusesDated, RecordsStay
  <2> QED
    BY <2>6, <2>7 DEF RecordInv
<1> QED
  BY <1>3, <1>4 DEF Dequeue, ReconcileNotFound, ReconcileRejected, outsideVars

LEMMA WorkerStepKeepsRecords ==
  ASSUME TypeOK, StatusInv, RecordInv, WorkerStep
  PROVE  RecordInv' /\ (WholeSeconds => DistancesKept)
  BY GuardsKeepRecords, EvaluateQuotaKeepsRecords, EvaluateSpendKeepsRecords,
     RecoverKeepsRecords, PassKeepsRecords,
     UpdateKeepsRecords, StayingKeepsDistances DEF WorkerStep

-----------------------------------------------------------------------------
(* Failures, watches, users and the cluster.                                *)

LEMMA FailureKeepsRecords ==
  ASSUME TypeOK, RecordInv, CallFails \/ Crash \/ Restart
  PROVE  RecordInv' /\ RecordsStay
<1>1. CASE CallFails
  BY <1>1, ErrorKeepsRecords DEF CallFails, apiVars
<1>2. CASE Crash \/ Restart
  <2>1. run' = None
    BY <1>2 DEF Crash, Restart, TypeOK, Reconciling
  <2>2. \A b \in BNs : bns'[b].live = bns[b].live
    BY <1>2, WrittenViews DEF Crash, Restart, TypeOK, apiVars
  <2> QED
    BY <2>1, <2>2 DEF RecordInv, StatusesDated, RunKnowsRecords, RecordsStay
<1> QED
  BY <1>1, <1>2

LEMMA CacheStepKeepsRecords ==
  ASSUME TypeOK, RecordInv, CacheStep
  PROVE  RecordInv' /\ RecordsStay
<1>1. UNCHANGED <<pc, run, clock>>
  BY DEF CacheStep, SyncBudgetNamespace, SyncResourceQuota, SyncNamespace,
         SyncLimitRange, SyncWorkloadCache, outsideVars
<1>2. \A b \in BNs : bns'[b].live = bns[b].live
  <2>1. ASSUME NEW a \in BNs, SyncBudgetNamespace(a)
        PROVE  \A b \in BNs : bns'[b].live = bns[b].live
    BY <2>1, WrittenViews DEF SyncBudgetNamespace, TypeOK, ApiTypeOK
  <2> QED
    BY <2>1 DEF CacheStep, SyncResourceQuota, SyncNamespace, SyncLimitRange,
                SyncWorkloadCache, apiVars
<1>3. clock \in Nat
  BY ReconcilerAssumption DEF TypeOK, OutsideTypeOK
<1> QED
  BY <1>1, <1>2, <1>3, ElsewhereKeepsRecords

\* Users write specs; what they replace as a whole starts without records.
LEMMA UserWriteKeepsRecords ==
  ASSUME TypeOK, RecordInv, NEW b \in BNs, NEW o, UserWritesBN(b, o),
         o # None => /\ Dated(o.status)
                     /\ bns[b].live # None => o.status = bns[b].live.status
  PROVE  RecordInv' /\ RecordsStay
<1>1. \A a \in BNs : bns'[a].live = IF a = b THEN o ELSE bns[a].live
  BY WrittenViews DEF UserWritesBN, TypeOK
<1>2. StatusesDated' /\ RecordsStay
  BY <1>1 DEF RecordInv, StatusesDated, RecordsStay
<1>3. CASE run = None
  BY <1>2, <1>3 DEF UserWritesBN, RecordInv, RunKnowsRecords
<1>4. CASE run # None
  <2>1. run \in Runs /\ run.bn \in BNs
    BY <1>4, ManagedType DEF TypeOK, Runs
  <2>2. run' = IF run.bn = b THEN [run EXCEPT !.stale = TRUE] ELSE run
    BY <1>4 DEF UserWritesBN
  <2>3. CASE run.bn = b
    <3>1. run'.stale /\ run'.copy = run.copy /\ run'.now = run.now
      BY <2>1, <2>2, <2>3 DEF Runs
    <3> QED
      BY <1>2, <1>4, <3>1 DEF UserWritesBN, RecordInv, RunKnowsRecords
  <2>4. CASE run.bn # b
    <3>1. run' = run /\ bns'[run.bn].live = bns[run.bn].live
      BY <1>1, <2>1, <2>2, <2>4
    <3> QED
      BY <1>2, <1>4, <3>1 DEF UserWritesBN, RecordInv, RunKnowsRecords
  <2> QED
    BY <2>3, <2>4
<1> QED
  BY <1>3, <1>4

LEMMA NothingRecorded == Dated(NoStatus)
  BY DEF Dated, IsStored, NoStatus

LEMMA UserOfBNKeepsRecords ==
  ASSUME TypeOK, RecordInv, NEW b \in BNs,
         \/ \E s \in Specs : CreateBN(b, s) \/ EditBN(b, s)
         \/ TouchBN(b) \/ DeleteBN(b)
  PROVE  RecordInv' /\ RecordsStay
<1>1. ASSUME NEW s \in Specs, CreateBN(b, s) PROVE RecordInv' /\ RecordsStay
  <2> DEFINE new == [created |-> Stored(clock), generation |-> 1, spec |-> s,
                     status |-> NoStatus]
  <2>1. Dated(new.status) /\ UserWritesBN(b, new) /\ bns[b].live = None
    BY <1>1, NothingRecorded DEF CreateBN
  <2> HIDE DEF new
  <2> QED
    BY <2>1, UserWriteKeepsRecords
<1>2. ASSUME NEW s \in Specs, EditBN(b, s) PROVE RecordInv' /\ RecordsStay
  <2> DEFINE new == [bns[b].live EXCEPT !.spec = s, !.generation = @ + 1]
  <2>1. bns[b].live \in BudgetNamespaces /\ Dated(bns[b].live.status)
    BY <1>2, BnsStep DEF EditBN, TypeOK, RecordInv, StatusesDated
  <2>2. new.status = bns[b].live.status /\ UserWritesBN(b, new)
    BY <1>2, <2>1 DEF EditBN, BudgetNamespaces
  <2> HIDE DEF new
  <2> QED
    BY <2>1, <2>2, UserWriteKeepsRecords
<1>3. CASE TouchBN(b)
  BY <1>3, UserWriteKeepsRecords DEF TouchBN, RecordInv, StatusesDated
<1>4. CASE DeleteBN(b)
  BY <1>4, UserWriteKeepsRecords DEF DeleteBN
<1> QED
  BY <1>1, <1>2, <1>3, <1>4

LEMMA OutsideKeepsRecords ==
  ASSUME TypeOK, RecordInv,
         \/ OutsideStep \/ Resync \/ Tick \/ UNCHANGED vars
         \/ \E n \in Namespaces : EmptyNamespace(n) \/ RemoveNamespace(n)
  PROVE  RecordInv' /\ RecordsStay
<1>1. clock \in Nat /\ clock + 1 \in Nat /\ clock <= clock /\ clock <= clock + 1
  BY ReconcilerAssumption DEF TypeOK, OutsideTypeOK
<1>2. ASSUME UNCHANGED <<bns, pc, run>>, clock' = clock \/ clock' = clock + 1
      PROVE  RecordInv' /\ RecordsStay
  BY <1>1, <1>2, ElsewhereKeepsRecords
<1>3. CASE OutsideStep
  <2>1. ASSUME NEW n, NEW x,
               \/ UserDeletesNamespace(n) \/ UserLabelsNamespace(n, x)
               \/ UserWritesQuota(n, x) \/ UserWritesLimits(n, x)
               \/ UsageChanges(n, x) \/ SpendChanges(n, x) \/ UsersWriteWorkloads
        PROVE  UNCHANGED <<bns, pc, run, clock>>
    BY <2>1 DEF UserDeletesNamespace, UserLabelsNamespace, UserWritesQuota,
       UserWritesLimits, UsageChanges, SpendChanges, UsersWriteWorkloads, apiVars,
       outsideVars
  <2> QED
    BY <1>2, <1>3, <2>1, UserOfBNKeepsRecords DEF OutsideStep
<1>4. CASE \/ Resync \/ Tick \/ UNCHANGED vars
           \/ \E n \in Namespaces : EmptyNamespace(n) \/ RemoveNamespace(n)
  BY <1>2, <1>4 DEF Resync, Tick, EmptyNamespace, RemoveNamespace, vars, apiVars,
     outsideVars
<1> QED
  BY <1>3, <1>4

LEMMA NextRecordInv ==
  ASSUME TypeOK, StatusInv, RecordInv, [Next]_vars
  PROVE  RecordInv' /\ (WholeSeconds => DistancesKept)
<1>1. CASE WorkerStep
  BY <1>1, WorkerStepKeepsRecords
<1>2. CASE ~WorkerStep
  <2>1. RecordInv' /\ RecordsStay
    BY <1>2, DequeueKeepsRecords, FailureKeepsRecords, CacheStepKeepsRecords,
       OutsideKeepsRecords DEF Next
  <2> QED
    BY <2>1, StayingKeepsDistances
<1> QED
  BY <1>1, <1>2

LEMMA InitRecordInv == Init => RecordInv
<1> SUFFICES ASSUME Init PROVE RecordInv
  OBVIOUS
<1>1. \A b \in BNs : Dated(bns[b].live.status)
  <2> SUFFICES ASSUME NEW b \in BNs PROVE Dated(bns[b].live.status)
    OBVIOUS
  <2>1. PICK s \in Specs :
          bns[b] = InSync([created |-> 0, generation |-> 1, spec |-> s,
                           status |-> NoStatus])
    BY DEF Init
  <2> QED
    BY <2>1, NothingRecorded DEF InSync
<1>2. run = None
  BY DEF Init
<1> QED
  BY <1>1, <1>2 DEF RecordInv, StatusesDated, RunKnowsRecords

LEMMA RecordInvariant == Spec => [](TypeOK /\ StatusInv /\ RecordInv)
<1>1. TypeOK /\ StatusInv /\ RecordInv /\ [Next]_vars => RecordInv'
  BY NextRecordInv
<1> QED
  BY <1>1, InitRecordInv, TypeCorrect, StatusInvariant, PTL DEF Spec

(***************************************************************************)
(* Anti-flap, as recorded (budgetnamespace_enforcement.go:39-49): when the *)
(* status goes from a scale-to-zero to a restore, the cooldown of the spec *)
(* lies between the two, whatever is edited, fails or crashes meanwhile.   *)
(***************************************************************************)
THEOREM RestoresKeepTheCooldown ==
  ASSUME WholeSeconds
  PROVE  Spec => RecordedCooldown
<1> DEFINE Kept == \A b \in BNs :
             LET before == bns[b].live
                 after == bns'[b].live
             IN
             /\ before # None /\ after # None
             /\ before.status.lastEnforcementOperation = "ScaleToZero"
             /\ after.status.lastEnforcementOperation = "Restore"
             => after.status.lastEnforcementAt >=
                  before.status.lastEnforcementAt + enforcementCooldown(after.spec)
<1>1. TypeOK /\ StatusInv /\ RecordInv /\ [Next]_vars => Kept
  BY NextRecordInv DEF DistancesKept, CooldownKept
<1> HIDE DEF Kept
<1>2. Spec => [][Kept]_vars
  BY <1>1, RecordInvariant, PTL DEF Spec
<1> QED
  BY <1>2 DEF Kept, RecordedCooldown

(***************************************************************************)
(* The throttle, as recorded (cost_budget.go:120-141): two successive      *)
(* billing queries in the status are a query interval of the spec apart,   *)
(* although a query is recorded long after it was sent, or not at all.     *)
(***************************************************************************)
THEOREM QueriesKeepTheInterval ==
  ASSUME WholeSeconds
  PROVE  Spec => RecordedQueryInterval
<1> DEFINE Kept == \A b \in BNs :
             LET before == bns[b].live
                 after == bns'[b].live
             IN
             /\ before # None /\ after # None
             /\ before.status.lastCostQueryAt # None
             /\ after.status.lastCostQueryAt # before.status.lastCostQueryAt
             => after.status.lastCostQueryAt >=
                  before.status.lastCostQueryAt + costBudgetQueryInterval(after.spec)
<1>1. TypeOK /\ StatusInv /\ RecordInv /\ [Next]_vars => Kept
  BY NextRecordInv DEF DistancesKept, IntervalKept
<1> HIDE DEF Kept
<1>2. Spec => [][Kept]_vars
  BY <1>1, RecordInvariant, PTL DEF Spec
<1> QED
  BY <1>2 DEF Kept, RecordedQueryInterval

=============================================================================
