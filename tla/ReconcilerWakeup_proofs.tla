---------------------- MODULE ReconcilerWakeup_proofs ----------------------
(***************************************************************************)
(* No wake-up is lost, for every instance of the controller in which the   *)
(* two clock readings of Reconcile fall together.  WakeupScheduled is not  *)
(* inductive: the requeue that UpdateStatus asks for was computed when the *)
(* reconcile started, and a request that a watch event added meanwhile     *)
(* swallows it.                                                            *)
(***************************************************************************)
EXTENDS ReconcilerStatus_proofs

\* What the locals of a reconcile know of the time, and what its queue entry is.
RunKnowsTime ==
  run # None =>
    /\ run.now <= clock
    /\ run.expired <=> Expired(run.copy.spec, run.copy.created, run.now)
    /\ run.requeueAfterTTL =
         RequeueAfterTTL(run.copy.spec, run.copy.created, run.now, run.now)
    /\ queue[run.bn] \in {None, 0}

\* What WakeupScheduled says of one resource.
Wakeup(b) ==
  LET o == bns[b].live IN
  /\ pc # "down" /\ (run # None => run.bn # b)
  /\ o # None /\ bns[b].current
  /\ NeedsWakeup(o.spec)
  => /\ ReadyWithin(b, ttlRequeueCap)
     /\ shouldScaleDeploymentsToZero(o.spec) /\ o.spec.ttl # Bad
        /\ ~Expired(o.spec, o.created, clock)
          => ReadyWithin(b, enforcementPollInterval)

WakeupInv == (\A b \in BNs : Wakeup(b)) /\ RunKnowsTime

\* The requeue of a reconcile, when its time is read once.
LEMMA RequeueIsTimely ==
  ASSUME NEW spec \in BudgetNamespaceSpecs, spec.ttl # Bad, NEW created \in Nat,
         NEW now \in Nat, NEW expired \in BOOLEAN,
         expired <=> Expired(spec, created, now), NeedsWakeup(spec)
  PROVE  LET delay == RequeueAfter(spec, expired, RequeueAfterTTL(spec, created, now, now))
         IN  /\ delay \in Int /\ 0 < delay /\ delay <= ttlRequeueCap
             /\ shouldScaleDeploymentsToZero(spec) /\ ~expired
                  => delay <= enforcementPollInterval
<1> DEFINE t == RequeueAfterTTL(spec, created, now, now)
           delay == RequeueAfter(spec, expired, t)
<1>1. CASE spec.ttl = None
  <2>1. ~expired /\ t = 0 /\ shouldScaleDeploymentsToZero(spec)
    BY <1>1 DEF Expired, RequeueAfterTTL, NeedsWakeup
  <2>2. delay = enforcementPollInterval
    BY <2>1 DEF RequeueAfter
  <2> QED
    BY <2>2, RulesAssumption
<1>2. CASE spec.ttl # None
  <2>1. spec.ttl \in Int
    BY <1>2 DEF BudgetNamespaceSpecs, Durations
  <2>2. t \in Int /\ 0 < t /\ t <= ttlRequeueCap
    <3>1. CASE Deleting(spec, created, now)
      <4>1. t = deletePollInterval
        BY <1>2, <3>1 DEF RequeueAfterTTL
      <4> QED
        BY <4>1, RulesAssumption
    <3>2. CASE ~Deleting(spec, created, now)
      <4> DEFINE target == Expiry(spec, created) +
                   IF Expired(spec, created, now) THEN ttlDeleteGracePeriod ELSE 0
      <4>1. target \in Int /\ now < target
        BY <1>2, <2>1, <3>2, RulesAssumption DEF Deleting, Expired, Expiry
      <4>2. t = IF target - now < ttlRequeueCap THEN target - now ELSE ttlRequeueCap
        BY <1>2, <3>2 DEF RequeueAfterTTL
      <4> HIDE DEF target, t
      <4> QED
        BY <4>1, <4>2, RulesAssumption
    <3> QED
      BY <3>1, <3>2
  <2> HIDE DEF t
  <2>3. delay = IF shouldScaleDeploymentsToZero(spec) /\ ~expired
                   /\ enforcementPollInterval < t
                THEN enforcementPollInterval ELSE t
    BY <2>2 DEF RequeueAfter
  <2> HIDE DEF delay
  <2>4. /\ delay \in Int /\ 0 < delay /\ delay <= ttlRequeueCap
        /\ shouldScaleDeploymentsToZero(spec) /\ ~expired
             => delay <= enforcementPollInterval
    BY <2>2, <2>3, RulesAssumption
  <2> QED
    BY <2>4 DEF delay, t
<1> QED
  BY <1>1, <1>2

-----------------------------------------------------------------------------
(* Wake-ups that a step leaves alone.                                       *)

LEMMA WakeupCarries ==
  ASSUME NEW b, Wakeup(b), bns'[b] = bns[b], queue'[b] = queue[b], clock' = clock,
         pc # "down", (run' # None => run'.bn # b) => (run # None => run.bn # b)
  PROVE  Wakeup(b)'
  BY DEF Wakeup, ReadyWithin, NeedsWakeup, shouldScaleDeploymentsToZero, Expired, Expiry

\* A step that leaves the queue, the resources and the clock alone.
LEMMA WakeupStays ==
  ASSUME WakeupInv, UNCHANGED <<bns, queue, clock>>, pc # "down", RunKnowsTime',
         run # None => run' # None /\ run'.bn = run.bn
  PROVE  WakeupInv'
<1>1. ASSUME NEW b \in BNs PROVE Wakeup(b)'
  BY WakeupCarries DEF WakeupInv
<1> QED
  BY <1>1 DEF WakeupInv

LEMMA RunStays ==
  ASSUME WakeupInv, UNCHANGED <<bns, queue, clock, run>>, pc # "down"
  PROVE  WakeupInv'
<1>1. RunKnowsTime'
  BY DEF WakeupInv, RunKnowsTime
<1> QED
  BY <1>1, WakeupStays

\* A request that is ready now, in a queue that was left alone otherwise.
LEMMA WakeupNow ==
  ASSUME NEW t \in Nat, clock' = t, NEW b \in BNs, queue'[b] = 0
  PROVE  Wakeup(b)'
<1>1. 0 # None /\ 0 <= t + ttlRequeueCap /\ 0 <= t + enforcementPollInterval
  BY RulesAssumption
<1> QED
  BY <1>1 DEF Wakeup, ReadyWithin

-----------------------------------------------------------------------------
(* Steps of the worker.                                                     *)

\* A reconcile that ends in an error, or in a conflict, is retried.
LEMMA ErrorIsRetried ==
  ASSUME TypeOK, WakeupInv, UNCHANGED <<bns, clock>>, run # None, ReturnsError
  PROVE  WakeupInv'
<1>1. pc # "down" /\ run.bn \in BNs
  BY ManagedType DEF TypeOK, Reconciling, Runs
<1>2. clock \in Nat /\ queue \in [BNs -> Times]
  BY ReconcilerAssumption DEF TypeOK, OutsideTypeOK, WorkerTypeOK
<1>3. PICK d \in 0 .. MaxBackoff : Returns(clock + d)
  BY DEF ReturnsError
<1>4. /\ run' = None
      /\ \A b \in BNs : b # run.bn => queue'[b] = queue[b]
      /\ queue'[run.bn] \in {0, clock + d}
  BY <1>2, <1>1, <1>3 DEF Returns, WakeupInv, RunKnowsTime
<1>5. clock + d # None /\ clock + d <= clock + MaxBackoff
  BY <1>2, ReconcilerAssumption, RulesAssumption
<1>6. queue'[run.bn] # None /\ queue'[run.bn] <= clock + MaxBackoff
  BY <1>2, <1>4, <1>5, ReconcilerAssumption, RulesAssumption
<1>7. ASSUME NEW b \in BNs PROVE Wakeup(b)'
  <2>1. CASE b = run.bn
    BY <1>6, <2>1 DEF Wakeup, ReadyWithin
  <2>2. CASE b # run.bn
    BY <1>1, <1>4, <2>2, WakeupCarries DEF WakeupInv
  <2> QED
    BY <2>1, <2>2
<1>8. RunKnowsTime'
  BY <1>4 DEF RunKnowsTime
<1> QED
  BY <1>7, <1>8 DEF WakeupInv

\* What a reconcile knows of the time, it knows from its start.
SameTimes(r, s) ==
  /\ s.bn = r.bn /\ s.now = r.now /\ s.expired = r.expired
  /\ s.requeueAfterTTL = r.requeueAfterTTL
  /\ s.copy.spec = r.copy.spec /\ s.copy.created = r.copy.created

\* A call of a reconcile ends it in an error, or takes it on.
LEMMA CallGoesOn ==
  ASSUME TypeOK, WakeupInv, UNCHANGED <<bns, clock>>, run # None,
         ReturnsError \/ (UNCHANGED queue /\ run' # None /\ SameTimes(run, run'))
  PROVE  WakeupInv'
<1>1. CASE ReturnsError
  BY <1>1, ErrorIsRetried
<1>2. CASE UNCHANGED queue /\ run' # None /\ SameTimes(run, run')
  <2>1. pc # "down"
    BY DEF TypeOK, Reconciling
  <2>2. RunKnowsTime'
    BY <1>2 DEF WakeupInv, RunKnowsTime, SameTimes
  <2> QED
    BY <1>2, <2>1, <2>2, WakeupStays DEF SameTimes
<1> QED
  BY <1>1, <1>2

LEMMA GuardsKeepWakeups ==
  ASSUME TypeOK, WakeupInv,
         EnsureNamespace \/ ApplyQuota \/ ApplyLimitRange \/ DeleteNamespace
  PROVE  WakeupInv'
<1>1. UNCHANGED <<bns, clock>> /\ run # None
  BY DEF EnsureNamespace, ApplyQuota, ApplyLimitRange, DeleteNamespace, outsideVars,
     TypeOK, Reconciling
<1>2. ReturnsError \/ UNCHANGED <<queue, run>>
  BY DEF EnsureNamespace, ApplyQuota, ApplyLimitRange, DeleteNamespace, Continues
<1> QED
  BY <1>1, <1>2, CallGoesOn DEF SameTimes

LEMMA EvaluateKeepsWakeups ==
  ASSUME TypeOK, TypeOK', WakeupInv, EvaluateQuota \/ EvaluateSpend \/ Recover
  PROVE  WakeupInv'
<1>1. UNCHANGED <<bns, clock>>
  BY DEF EvaluateQuota, EvaluateSpend, Recover, apiVars, outsideVars
<1>2. run \in Runs /\ run # None
  BY ManagedType DEF TypeOK, EvaluateQuota, EvaluateSpend, Recover, Reconciling
<1>3. ASSUME EvaluateSpend, ~ReturnsError
      PROVE  UNCHANGED queue /\ run' # None /\ SameTimes(run, run')
  <2> DEFINE spec == run.copy.spec
             status == resolveNamespaceSpendUSD(spec, run.copy.status, run.now)
             amount == IF costBudgetEnabled(spec) THEN status.lastObservedSpendUSD ELSE 0
             cost == costBudgetEnabled(spec) /\ spendAtOrOverMax(amount, spec.cost.max)
  <2>1. run' = [run EXCEPT !.copy.status = status, !.costSpend = amount,
                           !.costOverBudget = cost]
    BY <1>3 DEF EvaluateSpend
  <2> HIDE DEF status, amount, cost
  <2>2. /\ run'.bn = run.bn /\ run'.now = run.now /\ run'.expired = run.expired
        /\ run'.requeueAfterTTL = run.requeueAfterTTL
        /\ run'.copy = [run.copy EXCEPT !.status = status]
    BY <1>2, <2>1 DEF Runs
  <2>3. run'.copy.spec = run.copy.spec /\ run'.copy.created = run.copy.created
    BY <1>2, <2>2 DEF Runs, BudgetNamespaces
  <2>4. UNCHANGED queue
    BY <1>3 DEF EvaluateSpend, Continues
  <2>5. pc' \in {"scale", "recover", "status"}
    BY <1>3 DEF EvaluateSpend, Continues
  <2>6. run' # None
    BY <2>5 DEF TypeOK, Reconciling
  <2> QED
    BY <2>2, <2>3, <2>4, <2>6 DEF SameTimes
<1>4. ASSUME Recover PROVE UNCHANGED queue /\ run' # None /\ SameTimes(run, run')
  <2>1. PICK deferred : run' = [run EXCEPT !.recoveryDeferred = deferred]
    BY <1>4 DEF Recover
  <2>2. SameTimes(run, run')
    BY <1>2, <2>1 DEF Runs, SameTimes
  <2>3. UNCHANGED queue /\ pc' \in {"restore", "status"}
    BY <1>4 DEF Recover, Continues
  <2>4. run' # None
    BY <2>3 DEF TypeOK, Reconciling
  <2> QED
    BY <2>2, <2>3, <2>4
<1>5. ASSUME EvaluateQuota, ~ReturnsError
      PROVE  UNCHANGED queue /\ run' # None /\ SameTimes(run, run')
  <2>1. pc' = "spend"
    BY <1>5, QuotaRun
  <2>2. run' # None
    BY <2>1 DEF TypeOK, Reconciling
  <2> QED
    BY <1>5, <2>2, QuotaRun DEF SameTimes
<1> QED
  BY <1>1, <1>2, <1>3, <1>4, <1>5, CallGoesOn

LEMMA PassKeepsWakeups ==
  ASSUME TypeOK, TypeOK', WakeupInv,
         \/ StartPass \/ PassMovesOn \/ PassFails \/ PassReturns
         \/ \E w \in Workloads : PassPatches(w)
  PROVE  WakeupInv'
<1>1. UNCHANGED <<bns, clock>>
  BY DEF StartPass, PassMovesOn, PassFails, PassReturns, PassPatches, apiVars, outsideVars
<1>2. run \in Runs /\ run # None
  <2>1. CASE StartPass
    BY <2>1, ManagedType DEF StartPass, TypeOK, Reconciling, Passes
  <2>2. CASE ~StartPass
    <3>1. op # "none"
      BY <2>2 DEF PassMovesOn, NextKind, PassFails, AbortPass, PassReturns, EndPass,
         PassPatches, PatchWorkload
    <3> QED
      BY <3>1, PassHasRun
  <2> QED
    BY <2>1, <2>2
<1>3. CASE PassFails
  BY <1>1, <1>2, <1>3, CallGoesOn DEF PassFails
<1>4. CASE PassReturns
  <2>1. run' = run \/ run' = [run EXCEPT !.lastEnfAt = clock, !.lastEnfOp = op]
    BY <1>4 DEF PassReturns
  <2>2. SameTimes(run, run')
    BY <1>2, <2>1 DEF Runs, SameTimes
  <2>3. UNCHANGED queue /\ pc' = "status"
    BY <1>4 DEF PassReturns, Continues
  <2>4. run' # None
    BY <2>3 DEF TypeOK, Reconciling
  <2> QED
    BY <1>1, <1>2, <2>2, <2>3, <2>4, CallGoesOn
<1>5. CASE StartPass \/ PassMovesOn \/ \E w \in Workloads : PassPatches(w)
  <2>1. UNCHANGED <<queue, run>>
    BY <1>5 DEF StartPass, PassMovesOn, PassPatches
  <2> QED
    BY <1>1, <1>2, <2>1, CallGoesOn DEF SameTimes
<1> QED
  BY <1>3, <1>4, <1>5

LEMMA LaterIsExpired ==
  ASSUME NEW spec \in BudgetNamespaceSpecs, spec.ttl # Bad, NEW created \in Nat,
         NEW now \in Nat, NEW later \in Nat, now <= later, Expired(spec, created, now)
  PROVE  Expired(spec, created, later)
<1>1. spec.ttl \in Int
  BY DEF BudgetNamespaceSpecs, Durations, Expired
<1> QED
  BY <1>1 DEF Expired, Expiry

\* The reconcile ends well, and its resource stays as it is: its requeue, or
\* the request that swallows it, is the next wake-up.
LEMMA RequeueIsWakeup ==
  ASSUME TypeOK, StatusInv, WakeupInv, run # None, ~run.stale, UNCHANGED <<bns, clock>>,
         NEW b, b = run.bn,
         LET delay == RequeueAfter(run.copy.spec, run.expired, run.requeueAfterTTL)
         IN  Returns(IF delay > 0 THEN clock + delay ELSE None)
  PROVE  Wakeup(b)'
<1> DEFINE o == bns[b].live
           spec == o.spec
           delay == RequeueAfter(run.copy.spec, run.expired, run.requeueAfterTTL)
<1>1. run \in Runs /\ b \in BNs /\ run.expired \in BOOLEAN /\ run.now \in Nat
  BY ManagedType DEF TypeOK, Runs
<1>2. clock \in Nat /\ queue \in [BNs -> Times]
  BY ReconcilerAssumption DEF TypeOK, OutsideTypeOK, WorkerTypeOK
<1>3. /\ spec \in BudgetNamespaceSpecs /\ spec.ttl # Bad /\ o.created \in Nat
      /\ run.copy.spec = spec /\ run.copy.created = o.created
  <2>1. run.copy \in BudgetNamespaces /\ ~Rejected(run.copy.spec)
    BY <1>1 DEF Runs
  <2>2. run.copy.spec \in BudgetNamespaceSpecs /\ run.copy.created \in Nat
    BY <2>1, ReconcilerAssumption DEF BudgetNamespaces
  <2> QED
    BY <2>1, <2>2 DEF Rejected, StatusInv, CopyIsLive, SameVersion
<1>4. /\ run.now <= clock
      /\ run.expired <=> Expired(spec, o.created, run.now)
      /\ run.requeueAfterTTL = RequeueAfterTTL(spec, o.created, run.now, run.now)
      /\ queue[b] \in {None, 0}
  BY <1>3 DEF WakeupInv, RunKnowsTime
<1>5. CASE ~NeedsWakeup(spec)
  BY <1>5 DEF Wakeup, NeedsWakeup, shouldScaleDeploymentsToZero
<1>6. CASE NeedsWakeup(spec) /\ queue[b] = 0
  <2>1. queue'[b] = 0
    BY <1>1, <1>2, <1>6, RulesAssumption DEF Returns
  <2> QED
    BY <1>1, <1>2, <2>1, WakeupNow
<1>7. CASE NeedsWakeup(spec) /\ queue[b] = None
  <2>1. /\ delay \in Int /\ 0 < delay /\ delay <= ttlRequeueCap
        /\ shouldScaleDeploymentsToZero(spec) /\ ~run.expired
             => delay <= enforcementPollInterval
    BY <1>1, <1>3, <1>4, <1>7, RequeueIsTimely
  <2>2. queue'[b] = clock + delay
    BY <1>1, <1>2, <1>7, <2>1 DEF Returns
  <2> HIDE DEF delay
  <2>3. queue'[b] # None /\ queue'[b] <= clock + ttlRequeueCap
    BY <1>2, <2>1, <2>2, RulesAssumption
  <2>4. shouldScaleDeploymentsToZero(spec) /\ ~Expired(spec, o.created, clock)
          => queue'[b] <= clock + enforcementPollInterval
    <3>1. run.expired => Expired(spec, o.created, clock)
      BY <1>1, <1>2, <1>3, <1>4, LaterIsExpired
    <3> QED
      BY <1>2, <2>1, <2>2, <3>1, RulesAssumption
  <2> QED
    BY <2>3, <2>4 DEF Wakeup, ReadyWithin, shouldScaleDeploymentsToZero, Expired, Expiry
<1> QED
  BY <1>4, <1>5, <1>6, <1>7

LEMMA UpdateStatusKeepsWakeups ==
  ASSUME TypeOK, StatusInv, WakeupInv, UpdateStatus
  PROVE  WakeupInv'
<1> DEFINE o == bns[run.bn].live
           new == [o EXCEPT !.status = NewStatus(run.copy, run)]
<1>1. pc # "down" /\ run # None /\ run.bn \in BNs /\ UNCHANGED clock
  BY ManagedType DEF TypeOK, UpdateStatus, Reconciling, Runs, outsideVars
<1>2. CASE StatusUpdateRefused(run.bn)
  BY <1>1, <1>2, ErrorIsRetried DEF UpdateStatus
<1>3. CASE ~StatusUpdateRefused(run.bn)
  <2>1. ~run.stale
    BY <1>3 DEF StatusUpdateRefused
  <2>2. /\ UNCHANGED bns \/ bns' = [bns EXCEPT ![run.bn] = Written(bns[run.bn], new)]
        /\ LET delay == RequeueAfter(run.copy.spec, run.expired, run.requeueAfterTTL)
           IN  Returns(IF delay > 0 THEN clock + delay ELSE None)
    BY <1>3 DEF UpdateStatus
  <2> HIDE DEF new
  <2>3. /\ run' = None
        /\ \A b \in BNs : b # run.bn => queue'[b] = queue[b] /\ bns'[b] = bns[b]
    BY <1>1, <2>2 DEF Returns, TypeOK, ApiTypeOK, WorkerTypeOK
  <2>4. ASSUME NEW b, b = run.bn PROVE Wakeup(b)'
    <3>1. CASE UNCHANGED bns
      BY <1>1, <2>1, <2>2, <2>4, <3>1, RequeueIsWakeup
    <3>2. CASE bns' = [bns EXCEPT ![run.bn] = Written(bns[run.bn], new)]
      <4>1. ~bns'[b].current
        BY <1>1, <2>4, <3>2 DEF Written, TypeOK, ApiTypeOK, Views
      <4> QED
        BY <4>1 DEF Wakeup
    <3> QED
      BY <2>2, <3>1, <3>2
  <2>5. ASSUME NEW b \in BNs PROVE Wakeup(b)'
    <3>1. CASE b # run.bn
      BY <1>1, <2>3, <3>1, WakeupCarries DEF WakeupInv
    <3> QED
      BY <2>4, <3>1
  <2>6. RunKnowsTime'
    BY <2>3 DEF RunKnowsTime
  <2> QED
    BY <2>5, <2>6 DEF WakeupInv
<1> QED
  BY <1>2, <1>3

LEMMA StartKeepsWakeups ==
  ASSUME ReadSkew = 0, TypeOK, TypeOK', WakeupInv, NEW b \in BNs, NEW d \in 0 .. ReadSkew,
         ReconcileStart(b, d)
  PROVE  WakeupInv'
<1> DEFINE copy == bns[b].seen
<1>1. clock \in Nat /\ d = 0 /\ queue \in [BNs -> Times]
  BY ReconcilerAssumption DEF TypeOK, OutsideTypeOK, WorkerTypeOK
<1> DEFINE later == clock + d
<1>2. later = clock
  BY <1>1
<1>3. /\ clock' = later /\ UNCHANGED bns
      /\ queue' = [queue EXCEPT ![b] = None]
      /\ run' = [bn |-> b, copy |-> copy, stale |-> ~bns[b].current, now |-> clock,
                 expired |-> Expired(copy.spec, copy.created, clock),
                 requeueAfterTTL |-> RequeueAfterTTL(copy.spec, copy.created, clock, later),
                 lastEnfAt |-> copy.status.lastEnforcementAt,
                 lastEnfOp |-> copy.status.lastEnforcementOperation,
                 recoveryDeferred |-> FALSE, quotaEvaluated |-> FALSE,
                 quotaAtHardLimit |-> FALSE, costOverBudget |-> FALSE, costSpend |-> 0]
  BY DEF ReconcileStart, apiVars
<1> HIDE DEF later
<1>4. run' # None
  BY DEF ReconcileStart, FirstStep, TypeOK, Reconciling
<1>5. /\ UNCHANGED <<bns, clock>>
      /\ queue' = [queue EXCEPT ![b] = None]
      /\ run'.bn = b /\ run'.copy = copy /\ run'.now = clock
      /\ run'.expired = Expired(copy.spec, copy.created, clock)
      /\ run'.requeueAfterTTL = RequeueAfterTTL(copy.spec, copy.created, clock, clock)
  BY <1>2, <1>3, Zenon
<1>6. pc = "idle" /\ run = None
  BY DEF ReconcileStart, Ready, TypeOK, Reconciling
<1>7. ASSUME NEW a \in BNs PROVE Wakeup(a)'
  <2>1. CASE a = b
    BY <1>5, <1>4, <2>1 DEF Wakeup
  <2>2. CASE a # b
    BY <1>1, <1>5, <1>6, <2>2, WakeupCarries DEF WakeupInv
  <2> QED
    BY <2>1, <2>2
<1> HIDE DEF copy
<1>8. RunKnowsTime'
  BY <1>1, <1>5 DEF RunKnowsTime
<1> QED
  BY <1>7, <1>8 DEF WakeupInv

LEMMA DequeueKeepsWakeups ==
  ASSUME ReadSkew = 0, TypeOK, TypeOK', WakeupInv, NEW b \in BNs, Dequeue(b)
  PROVE  WakeupInv'
<1>1. clock \in Nat /\ queue \in [BNs -> Times]
  BY ReconcilerAssumption DEF TypeOK, OutsideTypeOK, WorkerTypeOK
<1>2. pc = "idle" /\ run = None
  BY DEF Dequeue, ReconcileNotFound, ReconcileRejected, ReconcileStart, Ready,
     TypeOK, Reconciling
<1>3. CASE ReconcileNotFound(b) \/ ReconcileRejected(b)
  <2>1. UNCHANGED <<bns, clock, run>> /\ \A a \in BNs : a # b => queue'[a] = queue[a]
    BY <1>1, <1>3 DEF ReconcileNotFound, ReconcileRejected, apiVars, outsideVars
  <2>2. ASSUME NEW a \in BNs, a = b PROVE Wakeup(a)'
    <3>1. CASE ReconcileNotFound(b)
      <4>1. bns'[a].current => bns'[a].live = None
        BY <2>1, <2>2, <3>1, CurrentCopy DEF ReconcileNotFound, TypeOK
      <4> QED
        BY <4>1 DEF Wakeup
    <3>2. CASE ReconcileRejected(b)
      <4>1. PICK d \in 0 .. MaxBackoff : queue'[b] = clock + d
        BY <1>1, <3>2 DEF ReconcileRejected
      <4>2. clock + d # None /\ clock + d <= clock + MaxBackoff
        BY <1>1, ReconcilerAssumption, RulesAssumption
      <4> QED
        BY <2>1, <2>2, <4>1, <4>2 DEF Wakeup, ReadyWithin
    <3> QED
      BY <1>3, <3>1, <3>2
  <2>3. ASSUME NEW a \in BNs PROVE Wakeup(a)'
    <3>1. CASE a # b
      BY <1>2, <2>1, <3>1, WakeupCarries DEF WakeupInv
    <3> QED
      BY <2>2, <3>1
  <2>4. RunKnowsTime'
    BY <1>2, <2>1 DEF RunKnowsTime
  <2> QED
    BY <2>3, <2>4 DEF WakeupInv
<1> QED
  BY <1>3, StartKeepsWakeups DEF Dequeue

LEMMA WorkerStepKeepsWakeups ==
  ASSUME TypeOK, TypeOK', StatusInv, WakeupInv, WorkerStep
  PROVE  WakeupInv'
  BY GuardsKeepWakeups, EvaluateKeepsWakeups, PassKeepsWakeups, UpdateStatusKeepsWakeups
     DEF WorkerStep

-----------------------------------------------------------------------------
(* Failures, watches, users and the cluster.                                *)

LEMMA FailureKeepsWakeups ==
  ASSUME TypeOK, WakeupInv, CallFails \/ Crash \/ Restart
  PROVE  WakeupInv'
<1>1. CASE CallFails
  BY <1>1, ErrorIsRetried DEF CallFails, apiVars, TypeOK, Reconciling
<1>2. CASE Crash
  BY <1>2 DEF Crash, WakeupInv, Wakeup, RunKnowsTime
<1>3. CASE Restart
  <2>1. clock \in Nat /\ clock' = clock
    BY <1>3, ReconcilerAssumption DEF Restart, TypeOK, OutsideTypeOK
  <2>2. ASSUME NEW b \in BNs PROVE Wakeup(b)'
    <3>1. CASE bns[b].live = None
      BY <1>3, <3>1 DEF Restart, Wakeup, Synced, InSync
    <3>2. CASE bns[b].live # None
      <4>1. queue'[b] = 0
        BY <1>3, <3>2 DEF Restart
      <4> QED
        BY <2>1, <4>1, WakeupNow
    <3> QED
      BY <3>1, <3>2
  <2>3. RunKnowsTime'
    BY <1>3 DEF Restart, RunKnowsTime, TypeOK, Reconciling
  <2> QED
    BY <2>2, <2>3 DEF WakeupInv
<1> QED
  BY <1>1, <1>2, <1>3

\* A step elsewhere.
LEMMA SameStateKeepsWakeups ==
  ASSUME WakeupInv, UNCHANGED <<clock, bns, queue, pc, run>>
  PROVE  WakeupInv'
<1>1. ASSUME NEW b \in BNs PROVE Wakeup(b)'
  BY DEF WakeupInv, Wakeup, ReadyWithin, NeedsWakeup, shouldScaleDeploymentsToZero,
         Expired, Expiry
<1>2. RunKnowsTime'
  BY DEF WakeupInv, RunKnowsTime
<1> QED
  BY <1>1, <1>2 DEF WakeupInv

\* A watch event adds requests that are ready at once.
LEMMA EventsKeepWakeups ==
  ASSUME TypeOK, WakeupInv, UNCHANGED <<clock, pc, run>>, pc # "down",
         \A b \in BNs : queue'[b] = 0 \/ (queue'[b] = queue[b] /\ bns'[b] = bns[b])
  PROVE  WakeupInv'
<1>1. ASSUME NEW b \in BNs PROVE Wakeup(b)'
  <2>1. CASE queue'[b] = 0
    <3>1. clock \in Nat
      BY ReconcilerAssumption DEF TypeOK, OutsideTypeOK
    <3> QED
      BY <2>1, <3>1, WakeupNow
  <2>2. CASE queue'[b] = queue[b] /\ bns'[b] = bns[b]
    BY <2>2, WakeupCarries DEF WakeupInv
  <2> QED
    BY <2>1, <2>2
<1>2. RunKnowsTime'
  <2>1. run # None => run.bn \in BNs
    BY ManagedType DEF TypeOK, Runs
  <2> QED
    BY <2>1 DEF WakeupInv, RunKnowsTime
<1> QED
  BY <1>1, <1>2 DEF WakeupInv

LEMMA CacheStepKeepsWakeups ==
  ASSUME TypeOK, WakeupInv, CacheStep \/ Resync
  PROVE  WakeupInv'
<1>1. ASSUME NEW a \in BNs, SyncBudgetNamespace(a) PROVE WakeupInv'
  <2>1. /\ pc # "down" /\ UNCHANGED <<clock, pc, run>>
        /\ bns' = [bns EXCEPT ![a] = Synced(bns[a])] /\ queue' = [queue EXCEPT ![a] = 0]
    BY <1>1 DEF SyncBudgetNamespace, outsideVars
  <2>2. queue'[a] = 0 /\ \A b \in BNs : b # a => queue'[b] = queue[b]
    BY <2>1 DEF TypeOK, WorkerTypeOK
  <2>3. \A b \in BNs : b # a => bns'[b] = bns[b]
    BY <2>1 DEF TypeOK, ApiTypeOK
  <2> QED
    BY <2>1, <2>2, <2>3, EventsKeepWakeups
<1>2. ASSUME NEW n \in Namespaces, SyncResourceQuota(n) PROVE WakeupInv'
  BY <1>2, EventsKeepWakeups DEF SyncResourceQuota, outsideVars
<1>3. CASE Resync
  <2>1. /\ pc # "down" /\ UNCHANGED <<bns, clock, pc, run>>
        /\ \A b \in BNs : queue'[b] = 0 \/ queue'[b] = queue[b]
    BY <1>3 DEF Resync, apiVars, outsideVars
  <2> QED
    BY <2>1, EventsKeepWakeups
<1>4. ASSUME NEW n \in Namespaces, SyncNamespace(n) \/ SyncLimitRange(n) PROVE WakeupInv'
  BY <1>4, SameStateKeepsWakeups DEF SyncNamespace, SyncLimitRange, outsideVars
<1>5. ASSUME NEW k \in Kinds, SyncWorkloadCache(k) PROVE WakeupInv'
  BY <1>5, SameStateKeepsWakeups DEF SyncWorkloadCache, apiVars, outsideVars
<1> QED
  BY <1>1, <1>2, <1>3, <1>4, <1>5 DEF CacheStep

\* A user's write of a resource makes its cached copy old, and leaves the others.
LEMMA UserWriteKeepsWakeups ==
  ASSUME TypeOK, WakeupInv, NEW b \in BNs, NEW o, UserWritesBN(b, o)
  PROVE  WakeupInv'
<1>1. /\ UNCHANGED <<clock, queue, pc>>
      /\ ~bns'[b].current /\ \A a \in BNs : a # b => bns'[a] = bns[a]
  BY DEF UserWritesBN, Written, TypeOK, ApiTypeOK, Views
<1>2. \/ run = None /\ run' = None
      \/ run # None /\ run' # None /\ SameTimes(run, run')
  <2>1. CASE run = None
    BY <2>1 DEF UserWritesBN
  <2>2. CASE run # None
    <3>1. run \in Runs
      BY <2>2, ManagedType DEF TypeOK
    <3>2. run' = run \/ run' = [run EXCEPT !.stale = TRUE]
      BY DEF UserWritesBN
    <3>3. run' \in Runs /\ SameTimes(run, run')
      BY <3>1, <3>2 DEF Runs, SameTimes
    <3> QED
      BY <2>2, <3>3, NoneIsNoObject
  <2> QED
    BY <2>1, <2>2
<1>3. ASSUME NEW a \in BNs PROVE Wakeup(a)'
  <2>1. CASE a = b
    BY <1>1, <2>1 DEF Wakeup
  <2>2. CASE a # b /\ pc # "down"
    BY <1>1, <1>2, <2>2, WakeupCarries DEF WakeupInv, SameTimes
  <2>3. CASE pc = "down"
    BY <1>1, <2>3 DEF Wakeup
  <2> QED
    BY <2>1, <2>2, <2>3
<1>4. RunKnowsTime'
  BY <1>1, <1>2 DEF WakeupInv, RunKnowsTime, SameTimes
<1> QED
  BY <1>3, <1>4 DEF WakeupInv

LEMMA OutsideStepKeepsWakeups ==
  ASSUME TypeOK, WakeupInv, OutsideStep
  PROVE  WakeupInv'
<1>1. ASSUME NEW b \in BNs, NEW s \in Specs, CreateBN(b, s) \/ EditBN(b, s)
      PROVE  WakeupInv'
  BY <1>1, UserWriteKeepsWakeups DEF CreateBN, EditBN
<1>2. ASSUME NEW b \in BNs, TouchBN(b) \/ DeleteBN(b) PROVE WakeupInv'
  BY <1>2, UserWriteKeepsWakeups DEF TouchBN, DeleteBN
<1>3. ASSUME NEW n, NEW x,
             \/ UserDeletesNamespace(n) \/ UserLabelsNamespace(n, x)
             \/ UserWritesQuota(n, x) \/ UserWritesLimits(n, x)
             \/ UsageChanges(n, x) \/ SpendChanges(n, x) \/ UsersWriteWorkloads
      PROVE  UNCHANGED <<clock, bns, queue, pc, run>>
  BY <1>3 DEF UserDeletesNamespace, UserLabelsNamespace, UserWritesQuota,
     UserWritesLimits, UsageChanges, SpendChanges, UsersWriteWorkloads, apiVars, outsideVars
<1> QED
  BY <1>1, <1>2, <1>3, SameStateKeepsWakeups DEF OutsideStep

\* Time brings a request nearer, and can only make a resource expire.
LEMMA TickKeepsWakeups ==
  ASSUME TypeOK, WakeupInv, Tick
  PROVE  WakeupInv'
<1>1. /\ UNCHANGED <<bns, queue, pc, run>> /\ clock' = clock + 1 /\ clock \in Nat
      /\ queue \in [BNs -> Times]
  BY ReconcilerAssumption DEF Tick, apiVars, TypeOK, OutsideTypeOK, WorkerTypeOK
<1>2. ASSUME NEW b \in BNs, NEW d \in Nat, ReadyWithin(b, d)
      PROVE  queue[b] # None /\ (queue[b] <= clock + 1 + d \/ queue[b] <= clock + 1 + MaxBackoff)
  <2>1. queue[b] \in Nat
    BY <1>1, <1>2 DEF Times, ReadyWithin
  <2> QED
    BY <1>1, <1>2, <2>1, ReconcilerAssumption DEF ReadyWithin
<1>3. ASSUME NEW b \in BNs, bns[b].live # None, bns[b].live.spec.ttl # Bad,
             Expired(bns[b].live.spec, bns[b].live.created, clock)
      PROVE  Expired(bns[b].live.spec, bns[b].live.created, clock + 1)
  <2>1. bns[b].live.spec \in BudgetNamespaceSpecs /\ bns[b].live.created \in Nat
    BY <1>3, BnsStep, ReconcilerAssumption DEF TypeOK, BudgetNamespaces
  <2> QED
    BY <1>1, <1>3, <2>1, LaterIsExpired
<1>4. ASSUME NEW b \in BNs PROVE Wakeup(b)'
  BY <1>1, <1>2, <1>3, RulesAssumption
     DEF WakeupInv, Wakeup, ReadyWithin, NeedsWakeup, shouldScaleDeploymentsToZero,
         Expired, Expiry
<1>5. RunKnowsTime'
  <2>1. run # None => run.now \in Nat
    BY ManagedType DEF TypeOK, Runs
  <2> QED
    BY <1>1, <2>1 DEF WakeupInv, RunKnowsTime
<1> QED
  BY <1>4, <1>5 DEF WakeupInv

-----------------------------------------------------------------------------
(* The theorem.                                                             *)

LEMMA NextWakeupInv ==
  ASSUME ReadSkew = 0, TypeOK, TypeOK', StatusInv, WakeupInv, [Next]_vars
  PROVE  WakeupInv'
<1>1. CASE \/ \E n \in Namespaces : EmptyNamespace(n) \/ RemoveNamespace(n)
           \/ UNCHANGED vars
  BY <1>1, SameStateKeepsWakeups DEF EmptyNamespace, RemoveNamespace, vars, apiVars,
     outsideVars
<1> QED
  BY <1>1, DequeueKeepsWakeups, WorkerStepKeepsWakeups, FailureKeepsWakeups,
     CacheStepKeepsWakeups, OutsideStepKeepsWakeups, TickKeepsWakeups DEF Next

LEMMA InitWakeupInv == Init => WakeupInv
<1> SUFFICES ASSUME Init PROVE WakeupInv
  OBVIOUS
<1>1. run = None /\ clock = 0 /\ \A b \in BNs : queue[b] = 0
  BY DEF Init
<1>2. 0 # None /\ 0 <= 0 + ttlRequeueCap /\ 0 <= 0 + enforcementPollInterval
  BY RulesAssumption
<1> QED
  BY <1>1, <1>2 DEF WakeupInv, Wakeup, ReadyWithin, RunKnowsTime

(***************************************************************************)
(* No wake-up is lost when the two clock readings of Reconcile fall        *)
(* together: whatever errors, conflicts, crashes, events, edits and        *)
(* clock ticks come between, a resource with a TTL or enforcement that the *)
(* worker is done with has its next request in the queue, in time          *)
(* (budgetnamespace_controller.go:517-538).  With the readings a tick      *)
(* apart it is false.                                                      *)
(***************************************************************************)
THEOREM WakeupsAreScheduled ==
  ASSUME ReadSkew = 0
  PROVE  Spec => []WakeupScheduled
<1>1. TypeOK /\ TypeOK' /\ StatusInv /\ WakeupInv /\ [Next]_vars => WakeupInv'
  BY NextWakeupInv
<1>2. WakeupInv => WakeupScheduled
  BY DEF WakeupInv, Wakeup, WakeupScheduled
<1> QED
  BY <1>1, <1>2, InitWakeupInv, TypeCorrect, StatusInvariant, PTL DEF Spec

=============================================================================
