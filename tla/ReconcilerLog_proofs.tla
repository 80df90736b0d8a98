------------------------ MODULE ReconcilerLog_proofs ------------------------
(***************************************************************************)
(* The controller implements EnforcementLog, step by step, for every       *)
(* instance whose cooldowns and query intervals are whole seconds.  Beyond *)
(* the distances of ReconcilerRecord_proofs that takes two things: what is *)
(* recorded is never ahead of the clock, and a reconcile that can still    *)
(* record something has nothing to record that is older than what is       *)
(* there.                                                                  *)
(***************************************************************************)
EXTENDS ReconcilerCauses_proofs

\* What a status records is of the past.
Past(s, at) ==
  /\ s.lastEnforcementAt # None => s.lastEnforcementAt <= at
  /\ s.lastCostQueryAt # None => s.lastCostQueryAt <= at

StatusesPast == \A b \in BNs : bns[b].live # None => Past(bns[b].live.status, clock)

\* The enforcement that reconcile r would record at time at: the one it found,
\* or a later one.
EnforcementFollows(r, s, at) ==
  \/ Remembered(r, s)
  \/ /\ r.lastEnfOp # "" /\ r.lastEnfAt # None /\ r.lastEnfAt <= at
     /\ s.lastEnforcementAt # None => s.lastEnforcementAt <= r.lastEnfAt

QueryFollows(r, s) == s.lastCostQueryAt # None => s.lastCostQueryAt <= r.now

RunFollows ==
  run # None /\ ~run.stale =>
    LET s == bns[run.bn].live.status
    IN  EnforcementFollows(run, s, clock) /\ QueryFollows(run, s)

LogInv == StatusesPast /\ RunFollows

-----------------------------------------------------------------------------
(* Time.                                                                    *)

LEMMA TimeGoesOn ==
  ASSUME TypeOK, [Next]_vars
  PROVE  \E d \in Nat : clock' = clock + d
<1>1. clock \in Nat /\ clock = clock + 0
  BY ReconcilerAssumption DEF TypeOK, OutsideTypeOK
<1>2. CASE UNCHANGED clock
  BY <1>1, <1>2
<1>3. ASSUME NEW b \in BNs, NEW d \in 0 .. ReadSkew, ReconcileStart(b, d)
      PROVE  \E e \in Nat : clock' = clock + e
  BY <1>3, ReconcilerAssumption DEF ReconcileStart
<1>4. CASE Tick
  BY <1>4 DEF Tick
<1>5. CASE WorkerStep
  <2>1. UNCHANGED clock
    BY <1>5 DEF WorkerStep, EnsureNamespace, ApplyQuota, ApplyLimitRange, EvaluateQuota,
       EvaluateSpend, Recover, StartPass, PassPatches, PassMovesOn, PassFails, PassReturns,
       DeleteNamespace, UpdateStatus, outsideVars
  <2> QED
    BY <1>2, <2>1
<1>6. CASE CacheStep
  <2>1. UNCHANGED clock
    BY <1>6 DEF CacheStep, SyncBudgetNamespace, SyncResourceQuota, SyncNamespace,
       SyncLimitRange, SyncWorkloadCache, outsideVars
  <2> QED
    BY <1>2, <2>1
<1>7. CASE OutsideStep
  <2>1. UNCHANGED clock
    BY <1>7 DEF OutsideStep, CreateBN, EditBN, TouchBN, DeleteBN, UserWritesBN,
       UserDeletesNamespace, UserLabelsNamespace, UserWritesQuota, UserWritesLimits,
       UsageChanges, SpendChanges, UsersWriteWorkloads, outsideVars
  <2> QED
    BY <1>2, <2>1
<1>8. CASE \/ CallFails \/ Crash \/ Restart \/ Resync \/ UNCHANGED vars
           \/ \E n \in Namespaces : EmptyNamespace(n) \/ RemoveNamespace(n)
  BY <1>2, <1>8 DEF CallFails, Crash, Restart, Resync, EmptyNamespace, RemoveNamespace,
     vars, outsideVars
<1>9. CASE \E b \in BNs : Dequeue(b)
  BY <1>2, <1>3, <1>9 DEF Dequeue, ReconcileNotFound, ReconcileRejected, outsideVars
<1> QED
  BY <1>4, <1>5, <1>6, <1>7, <1>8, <1>9 DEF Next

LEMMA PastStays ==
  ASSUME NEW s \in Statuses, NEW at \in Nat, NEW d \in Nat, Past(s, at)
  PROVE  Past(s, at + d)
<1>1. s.lastEnforcementAt \in Times /\ s.lastCostQueryAt \in Times
  BY DEF Statuses
<1> QED
  BY <1>1 DEF Past, Times

\* Storing a time does not move it ahead, nor before a stored one.
LEMMA StoredIsBetween ==
  ASSUME NEW t \in Nat
  PROVE  /\ Stored(t) \in Nat /\ Stored(t) <= t
         /\ \A from \in Nat : from % Second = 0 /\ from <= t => from <= Stored(t)
<1>1. Stored(t) \in Nat
  BY StoredType
<1>2. Stored(t) <= t
  <2>1. t % Second \in Nat
    BY RulesAssumption
  <2>2. Stored(t) = t - (t % Second)
    BY RulesAssumption DEF Stored
  <2> QED
    BY <2>1, <2>2
<1>3. ASSUME NEW from \in Nat, from % Second = 0, from <= t PROVE from <= Stored(t)
  <2>1. 0 % Second = 0
    BY RulesAssumption
  <2>2. t >= from + 0
    BY <1>3
  <2>3. Stored(t) >= from + 0
    BY <1>3, <2>1, <2>2, StoredKeepsDistance
  <2> QED
    BY <1>1, <2>3
<1> QED
  BY <1>1, <1>2, <1>3

-----------------------------------------------------------------------------
(* The invariant.                                                           *)

\* The status that a reconcile is about to write is of the past.
LEMMA UpdateIsPast ==
  ASSUME TypeOK, StatusInv, RecordInv, LogInv, UpdateStatus, ~StatusUpdateRefused(run.bn)
  PROVE  Past(NewStatus(run.copy, run), clock)
<1> DEFINE s == bns[run.bn].live.status
           new == NewStatus(run.copy, run)
<1>1. run # None /\ ~run.stale /\ bns[run.bn].live # None
  BY DEF UpdateStatus, TypeOK, Reconciling, StatusUpdateRefused
<1>2. /\ run.bn \in BNs /\ run.now \in Nat /\ clock \in Nat /\ run.now <= clock
      /\ run.lastEnfAt \in Times /\ run.copy.status.lastCostQueryAt \in Times
  BY <1>1, RunTypes DEF RecordInv, RunKnowsRecords, Runs, Statuses
<1>3. /\ Past(s, clock) /\ EnforcementFollows(run, s, clock) /\ QueryKnown(run, s)
  BY <1>1, <1>2 DEF LogInv, StatusesPast, RunFollows, RecordInv, RunKnowsRecords, Known
<1>4. run.lastEnfAt # None => run.lastEnfAt <= clock
  BY <1>3 DEF Past, EnforcementFollows, Remembered
<1>5. run.copy.status.lastCostQueryAt # None => run.copy.status.lastCostQueryAt <= clock
  BY <1>2, <1>3 DEF Past, QueryKnown, QueryRemembered
<1>6. ASSUME NEW t \in Times, t # None => t <= clock
      PROVE  Stored(t) # None => Stored(t) <= clock
  <2>1. CASE t = None
    BY <2>1 DEF Stored
  <2>2. CASE t # None
    <3>1. t \in Nat
      BY <2>2 DEF Times
    <3>2. Stored(t) \in Nat /\ Stored(t) <= t
      BY <3>1, StoredIsBetween
    <3> QED
      BY <1>2, <1>6, <2>2, <3>1, <3>2
  <2> QED
    BY <2>1, <2>2
<1>7. /\ new.lastEnforcementAt = Stored(run.lastEnfAt)
      /\ new.lastCostQueryAt = Stored(run.copy.status.lastCostQueryAt)
  BY DEF NewStatus
<1> HIDE DEF new
<1> QED
  BY <1>2, <1>4, <1>5, <1>6, <1>7 DEF Past, new

LEMMA NothingPast ==
  ASSUME NEW at
  PROVE  Past(NoStatus, at)
  BY DEF Past, NoStatus

\* What users do to a resource: they write a version with the old status, a new
\* resource, or none.
LEMMA UserOfBNWrites ==
  ASSUME TypeOK, NEW b \in BNs,
         \/ \E s \in Specs : CreateBN(b, s) \/ EditBN(b, s)
         \/ TouchBN(b) \/ DeleteBN(b)
  PROVE  \E o \in BudgetNamespaces \cup {None} :
           /\ UserWritesBN(b, o)
           /\ o # None /\ bns[b].live # None => o.status = bns[b].live.status
           /\ o # None /\ bns[b].live = None => o.status = NoStatus
<1>1. ASSUME NEW s \in Specs, CreateBN(b, s)
      PROVE  \E o \in BudgetNamespaces : /\ UserWritesBN(b, o) /\ bns[b].live = None
                                         /\ o.status = NoStatus
  <2> DEFINE new == [created |-> Stored(clock), generation |-> 1, spec |-> s,
                     status |-> NoStatus]
  <2>1. Stored(clock) \in Nat
    BY StoredType, ReconcilerAssumption DEF TypeOK, OutsideTypeOK
  <2>2. new \in BudgetNamespaces
    BY <2>1, NoStatusType DEF BudgetNamespaces
  <2>3. new.status = NoStatus /\ UserWritesBN(b, new) /\ bns[b].live = None
    BY <1>1 DEF CreateBN
  <2> HIDE DEF new
  <2> QED
    BY <2>2, <2>3
<1>2. ASSUME NEW s \in Specs, EditBN(b, s)
      PROVE  \E o \in BudgetNamespaces : /\ UserWritesBN(b, o) /\ bns[b].live # None
                                         /\ o.status = bns[b].live.status
  <2> DEFINE new == [bns[b].live EXCEPT !.spec = s, !.generation = @ + 1]
  <2>1. bns[b].live \in BudgetNamespaces /\ bns[b].live # None
    BY <1>2, BnsStep DEF EditBN, TypeOK
  <2>2. new \in BudgetNamespaces /\ new.status = bns[b].live.status
    <3>1. new \in BudgetNamespaces
      BY <2>1, EditedType
    <3>2. new.status = bns[b].live.status
      BY <2>1 DEF BudgetNamespaces
    <3> QED
      BY <3>1, <3>2
  <2>3. UserWritesBN(b, new)
    BY <1>2 DEF EditBN
  <2> HIDE DEF new
  <2> QED
    BY <2>1, <2>2, <2>3
<1>3. CASE TouchBN(b)
  BY <1>3, BnsStep DEF TouchBN, TypeOK
<1>4. CASE DeleteBN(b)
  BY <1>4 DEF DeleteBN
<1> QED
  BY <1>1, <1>2, <1>3, <1>4, NoneIsNoObject

LEMMA NextStatusesPast ==
  ASSUME TypeOK, StatusInv, RecordInv, LogInv, [Next]_vars
  PROVE  StatusesPast'
<1> SUFFICES ASSUME NEW b \in BNs, bns'[b].live # None
             PROVE  Past(bns'[b].live.status, clock')
  BY DEF StatusesPast
<1>1. clock \in Nat
  BY ReconcilerAssumption DEF TypeOK, OutsideTypeOK
<1>2. ASSUME NEW d \in Nat, clock' = clock + d, bns'[b].live = bns[b].live
      PROVE  Past(bns'[b].live.status, clock')
  <2>1. bns[b].live.status \in Statuses /\ Past(bns[b].live.status, clock)
    BY <1>2, BnsStep DEF TypeOK, BudgetNamespaces, LogInv, StatusesPast
  <2> QED
    BY <1>1, <1>2, <2>1, PastStays
<1>3. CASE bns'[b].live = bns[b].live
  BY <1>2, <1>3, TimeGoesOn
<1>4. CASE UpdateStatus
  <2>1. UNCHANGED clock /\ run.bn \in BNs
    BY <1>4, RunTypes DEF UpdateStatus, outsideVars, TypeOK, Reconciling
  <2> DEFINE o == bns[run.bn].live
             new == [o EXCEPT !.status = NewStatus(run.copy, run)]
  <2>2. CASE ~UNCHANGED bns
    <3>1. /\ ~StatusUpdateRefused(run.bn)
          /\ bns' = [bns EXCEPT ![run.bn] = Written(bns[run.bn], new)]
      BY <1>4, <2>2 DEF UpdateStatus
    <3>2. o \in BudgetNamespaces
      BY <2>1, <3>1, BnsStep DEF TypeOK, StatusUpdateRefused
    <3>3. new.status = NewStatus(run.copy, run)
      BY <3>2 DEF BudgetNamespaces
    <3>4. Past(new.status, clock)
      BY <1>4, <3>1, <3>3, UpdateIsPast
    <3> HIDE DEF new
    <3>5. ApiTypeOK
      BY DEF TypeOK
    <3>6. [bns EXCEPT ![run.bn] = Written(bns[run.bn], new)][b].live =
            IF b = run.bn THEN new ELSE bns[b].live
      BY <2>1, <3>5, WrittenViews
    <3> QED
      BY <1>3, <2>1, <3>1, <3>4, <3>6
  <2> QED
    BY <1>3, <2>2
<1>5. ASSUME NEW a \in BNs,
             \/ \E s \in Specs : CreateBN(a, s) \/ EditBN(a, s)
             \/ TouchBN(a) \/ DeleteBN(a)
      PROVE  Past(bns'[b].live.status, clock')
  <2>1. PICK o \in BudgetNamespaces \cup {None} :
           /\ UserWritesBN(a, o)
           /\ o # None /\ bns[a].live # None => o.status = bns[a].live.status
           /\ o # None /\ bns[a].live = None => o.status = NoStatus
    BY <1>5, UserOfBNWrites
  <2>2. /\ bns'[b].live = IF b = a THEN o ELSE bns[b].live
        /\ UNCHANGED clock
    BY <2>1, WrittenViews DEF UserWritesBN, TypeOK
  <2> QED
    BY <1>3, <2>1, <2>2, NothingPast DEF LogInv, StatusesPast
<1> QED
  BY <1>3, <1>4, <1>5, ResourceSteps

\* A reconcile that goes on has the enforcement it had, or one of this moment.
LEMMA RecordGoesOn ==
  ASSUME TypeOK, [Next]_vars, run' # None, ~run'.stale
  PROVE  \/ \E b \in BNs : /\ run'.bn = b /\ run'.now = clock
                           /\ bns[b].live # None
                           /\ Remembered(run', bns[b].live.status)
         \/ /\ run # None /\ SameRecords(run, run')
         \/ /\ run # None /\ run'.bn = run.bn /\ ~run.stale /\ run'.now = run.now
            /\ run'.lastEnfAt = clock /\ run'.lastEnfOp # ""
<1>1. CASE UNCHANGED <<pc, run>>
  BY <1>1 DEF SameRecords
<1>2. ASSUME NEW b \in BNs, NEW d \in 0 .. ReadSkew, ReconcileStart(b, d)
      PROVE  /\ run'.bn = b /\ run'.now = clock
             /\ bns[b].live # None
             /\ Remembered(run', bns[b].live.status)
  <2> DEFINE copy == bns[b].seen
  <2>1. /\ copy # None /\ run'.bn = b /\ run'.now = clock /\ run'.stale = ~bns[b].current
        /\ run'.lastEnfAt = copy.status.lastEnforcementAt
        /\ run'.lastEnfOp = copy.status.lastEnforcementOperation
    BY <1>2 DEF ReconcileStart
  <2>2. copy = bns[b].live
    BY <2>1, CurrentCopy DEF TypeOK
  <2> QED
    BY <2>1, <2>2 DEF Remembered
<1>3. ASSUME NEW b, NEW o, UserWritesBN(b, o) PROVE run # None /\ SameRecords(run, run')
  <2>1. run # None
    BY <1>3 DEF UserWritesBN
  <2> QED
    BY <1>3, <2>1, OvertakenRun DEF SameRecords
<1>4. CASE WorkerStep
  <2>1. CASE EnsureNamespace \/ ApplyQuota \/ ApplyLimitRange \/ DeleteNamespace
    <3>1. UNCHANGED run
      BY <2>1 DEF EnsureNamespace, ApplyQuota, ApplyLimitRange, DeleteNamespace,
         ReturnsError, Returns
    <3> QED
      BY <3>1 DEF SameRecords
  <2>2. CASE EvaluateQuota \/ EvaluateSpend
    <3>1. ~ReturnsError
      BY DEF ReturnsError, Returns
    <3> QED
      BY <2>2, <3>1, QuotaRun, EvaluatedRun DEF SameRecords
  <2>3. CASE Recover
    BY <2>3, RecoveringRun
  <2>4. CASE \/ StartPass \/ PassMovesOn \/ PassFails \/ PassReturns
             \/ \E w \in Workloads : PassPatches(w)
    <3>1. op # "none" => op # ""
      BY DEF TypeOK, PassOp
    <3> QED
      BY <1>1, <2>4, <3>1, PassingRun
  <2>5. CASE UpdateStatus
    BY <2>5 DEF UpdateStatus, ReturnsError, Returns
  <2> QED
    BY <1>4, <2>1, <2>2, <2>3, <2>4, <2>5 DEF WorkerStep
<1> QED
  BY <1>1, <1>2, <1>3, <1>4, AroundTheWorker

\* The live resource of a reconcile that has not been overtaken stays as it is.
LEMMA ResourceStays ==
  ASSUME TypeOK, [Next]_vars, run' # None, ~run'.stale
  PROVE  bns'[run'.bn].live = bns[run'.bn].live
<1>1. run' # None => ~UpdateStatus
  BY DEF UpdateStatus, ReturnsError, Returns
<1>2. ASSUME NEW b \in BNs, NEW o, UserWritesBN(b, o)
      PROVE  bns'[run'.bn].live = bns[run'.bn].live
  <2>1. run # None
    BY <1>2 DEF UserWritesBN
  <2>2. run.bn # b /\ run' = run /\ run.bn \in BNs
    BY <1>2, <2>1, OvertakenRun, RunTypes
  <2>3. ApiTypeOK /\ bns' = [bns EXCEPT ![b] = Written(bns[b], o)]
    BY <1>2 DEF UserWritesBN, TypeOK
  <2> QED
    BY <2>2, <2>3
<1>3. ASSUME \A b \in BNs : bns'[b].live = bns[b].live
      PROVE  bns'[run'.bn].live = bns[run'.bn].live
  <2>1. run'.bn \in BNs
    <3>1. \/ run'.bn \in BNs
          \/ run # None /\ run'.bn = run.bn
      BY RecordGoesOn DEF SameRecords
    <3> QED
      BY <3>1, RunTypes
  <2> QED
    BY <1>3, <2>1
<1>4. ASSUME NEW b \in BNs,
             \/ \E s \in Specs : CreateBN(b, s) \/ EditBN(b, s)
             \/ TouchBN(b) \/ DeleteBN(b)
      PROVE  \E o : UserWritesBN(b, o)
  BY <1>4 DEF CreateBN, EditBN, TouchBN, DeleteBN
<1> QED
  BY <1>1, <1>2, <1>3, <1>4, ResourceSteps

LEMMA NextRunFollows ==
  ASSUME TypeOK, StatusInv, LogInv, [Next]_vars
  PROVE  RunFollows'
<1> SUFFICES ASSUME run' # None, ~run'.stale
             PROVE  LET s == bns'[run'.bn].live.status
                    IN  EnforcementFollows(run', s, clock') /\ QueryFollows(run', s)
  BY DEF RunFollows
<1> DEFINE s == bns[run'.bn].live.status
<1>1. PICK d \in Nat : clock' = clock + d
  BY TimeGoesOn
<1>2. clock \in Nat
  BY ReconcilerAssumption DEF TypeOK, OutsideTypeOK
<1>3. ASSUME NEW b \in BNs, run'.bn = b, run'.now = clock, bns[b].live # None,
             Remembered(run', bns[b].live.status)
      PROVE  EnforcementFollows(run', s, clock') /\ QueryFollows(run', s)
  BY <1>3 DEF EnforcementFollows, QueryFollows, LogInv, StatusesPast, Past
<1>4. ASSUME run # None, SameRecords(run, run')
      PROVE  EnforcementFollows(run', s, clock') /\ QueryFollows(run', s)
  <2>1. /\ run'.lastEnfAt = run.lastEnfAt /\ run'.lastEnfOp = run.lastEnfOp
        /\ run'.now = run.now /\ run'.bn = run.bn /\ ~run.stale
    BY <1>4 DEF SameRecords
  <2>2. EnforcementFollows(run, s, clock) /\ QueryFollows(run, s)
    BY <1>4, <2>1 DEF LogInv, RunFollows
  <2>3. QueryFollows(run', s)
    BY <2>1, <2>2 DEF QueryFollows
  <2>4. run.lastEnfAt \in Times
    BY <1>4, RunTypes DEF Runs
  <2>5. run.lastEnfAt # None /\ run.lastEnfAt <= clock => run.lastEnfAt <= clock'
    BY <1>1, <1>2, <2>4 DEF Times
  <2>6. EnforcementFollows(run', s, clock')
    BY <2>1, <2>2, <2>5 DEF EnforcementFollows, Remembered
  <2> QED
    BY <2>3, <2>6
<1>5. ASSUME run # None, run'.bn = run.bn, ~run.stale, run'.now = run.now,
             run'.lastEnfAt = clock, run'.lastEnfOp # ""
      PROVE  EnforcementFollows(run', s, clock') /\ QueryFollows(run', s)
  <2>1. run.bn \in BNs /\ bns[run.bn].live # None
    BY <1>5, RunTypes DEF StatusInv, CopyIsLive
  <2>2. Past(s, clock) /\ QueryFollows(run, s)
    BY <1>5, <2>1 DEF LogInv, StatusesPast, RunFollows
  <2>3. QueryFollows(run', s)
    BY <1>5, <2>2 DEF QueryFollows
  <2>4. clock # None /\ clock <= clock'
    BY <1>1, <1>2, RulesAssumption
  <2>5. EnforcementFollows(run', s, clock')
    BY <1>5, <2>2, <2>4 DEF EnforcementFollows, Past
  <2> QED
    BY <2>3, <2>5
<1>6. EnforcementFollows(run', s, clock') /\ QueryFollows(run', s)
  BY <1>3, <1>4, <1>5, RecordGoesOn
<1> QED
  BY <1>6, ResourceStays

LEMMA LogInvariant == Spec => [](CauseInv /\ LogInv)
<1>1. Init => LogInv
  <2> SUFFICES ASSUME Init PROVE LogInv
    OBVIOUS
  <2>1. ASSUME NEW b \in BNs PROVE Past(bns[b].live.status, clock)
    <3>1. PICK s \in Specs : bns[b] = InSync([created |-> 0, generation |-> 1, spec |-> s,
                                              status |-> NoStatus])
      BY DEF Init
    <3>2. bns[b].live.status = NoStatus
      BY <3>1 DEF InSync
    <3> QED
      BY <3>2, NothingPast
  <2>2. run = None
    BY DEF Init
  <2> QED
    BY <2>1, <2>2 DEF LogInv, StatusesPast, RunFollows
<1>2. CauseInv /\ LogInv /\ [Next]_vars => LogInv'
  BY NextStatusesPast, NextRunFollows DEF CauseInv, LogInv
<1> QED
  BY <1>1, <1>2, CauseInvariant, PTL DEF Spec

-----------------------------------------------------------------------------
(* The controller implements EnforcementLog.                                *)

LEMMA TermsType ==
  ASSUME NEW spec \in Specs
  PROVE  /\ Terms(spec) \in Log!Terms /\ Terms(spec) # None
         /\ spec.cooldown # Bad => /\ Terms(spec).cooldown = enforcementCooldown(spec)
                                   /\ Terms(spec).cooldown # None
         /\ costBudgetEnabled(spec) => /\ Terms(spec).interval = costBudgetQueryInterval(spec)
                                       /\ Terms(spec).interval # None
<1>1. spec \in BudgetNamespaceSpecs
  BY ReconcilerAssumption
<1>2. /\ spec.cooldown # Bad => enforcementCooldown(spec) \in Int
      /\ costBudgetEnabled(spec) => costBudgetQueryInterval(spec) \in Int
  BY <1>1, TimesAreIntegers
<1>3. None \notin Int
  BY RulesAssumption
<1>4. /\ Terms(spec) \in [cooldown : Int \cup {None}, interval : Int \cup {None}]
      /\ Terms(spec).cooldown = IF spec.cooldown = Bad THEN None ELSE enforcementCooldown(spec)
      /\ Terms(spec).interval =
           IF costBudgetEnabled(spec) THEN costBudgetQueryInterval(spec) ELSE None
  BY <1>2 DEF Terms
<1> QED
  BY <1>2, <1>3, <1>4, NoneIsNoObject DEF Log!Terms

LEMMA EntriesOf ==
  ASSUME NEW b \in BNs
  PROVE  /\ termsBN[b] = IF bns[b].live = None THEN None ELSE Terms(bns[b].live.spec)
         /\ lastBN[b] = IF bns[b].live = None THEN None
                        ELSE LastEnforcement(bns[b].live.status)
         /\ queriedBN[b] = IF bns[b].live = None THEN None
                           ELSE bns[b].live.status.lastCostQueryAt
         /\ termsBN'[b] = IF bns'[b].live = None THEN None ELSE Terms(bns'[b].live.spec)
         /\ lastBN'[b] = IF bns'[b].live = None THEN None
                         ELSE LastEnforcement(bns'[b].live.status)
         /\ queriedBN'[b] = IF bns'[b].live = None THEN None
                            ELSE bns'[b].live.status.lastCostQueryAt
  BY DEF termsBN, lastBN, queriedBN

\* A step that writes one resource changes the log of that one.
LEMMA OthersStay ==
  ASSUME NEW b \in BNs, \A a \in BNs : a # b => bns'[a].live = bns[a].live
  PROVE  /\ termsBN' = [termsBN EXCEPT ![b] = termsBN'[b]]
         /\ lastBN' = [lastBN EXCEPT ![b] = lastBN'[b]]
         /\ queriedBN' = [queriedBN EXCEPT ![b] = queriedBN'[b]]
<1>1. \A a \in BNs : a # b => /\ termsBN'[a] = termsBN[a] /\ lastBN'[a] = lastBN[a]
                              /\ queriedBN'[a] = queriedBN[a]
  BY EntriesOf
<1>2. /\ termsBN = [a \in BNs |-> termsBN[a]] /\ termsBN' = [a \in BNs |-> termsBN'[a]]
      /\ lastBN = [a \in BNs |-> lastBN[a]] /\ lastBN' = [a \in BNs |-> lastBN'[a]]
      /\ queriedBN = [a \in BNs |-> queriedBN[a]]
      /\ queriedBN' = [a \in BNs |-> queriedBN'[a]]
  BY DEF termsBN, lastBN, queriedBN
<1> QED
  BY <1>1, <1>2

\* An entry that is what it was is the log that was.
LEMMA EntryStays ==
  ASSUME NEW b \in BNs, \A a \in BNs : a # b => bns'[a].live = bns[a].live
  PROVE  /\ termsBN'[b] = termsBN[b] => UNCHANGED termsBN
         /\ lastBN'[b] = lastBN[b] => UNCHANGED lastBN
         /\ queriedBN'[b] = queriedBN[b] => UNCHANGED queriedBN
<1>1. /\ termsBN = [termsBN EXCEPT ![b] = termsBN[b]]
      /\ lastBN = [lastBN EXCEPT ![b] = lastBN[b]]
      /\ queriedBN = [queriedBN EXCEPT ![b] = queriedBN[b]]
  BY DEF termsBN, lastBN, queriedBN
<1> QED
  BY <1>1, OthersStay

LEMMA PassIsLogged ==
  ASSUME TypeOK, [Next]_vars, \A b \in BNs : bns'[b].live = bns[b].live
  PROVE  Log!Pass
<1>1. PICK d \in Nat : clock' = clock + d
  BY TimeGoesOn
<1>2. clock \in Nat
  BY ReconcilerAssumption DEF TypeOK, OutsideTypeOK
<1>3. clock' >= clock
  BY <1>1, <1>2
<1>4. UNCHANGED <<termsBN, lastBN, queriedBN>>
  BY DEF termsBN, lastBN, queriedBN
<1> QED
  BY <1>3, <1>4 DEF Log!Pass

LEMMA UserIsLogged ==
  ASSUME TypeOK, NEW b \in BNs,
         \/ \E s \in Specs : CreateBN(b, s) \/ EditBN(b, s)
         \/ TouchBN(b) \/ DeleteBN(b)
  PROVE  Log!Change(b)
<1>1. PICK o \in BudgetNamespaces \cup {None} :
         /\ UserWritesBN(b, o)
         /\ o # None /\ bns[b].live # None => o.status = bns[b].live.status
         /\ o # None /\ bns[b].live = None => o.status = NoStatus
  BY UserOfBNWrites
<1>2. \A a \in BNs : bns'[a].live = IF a = b THEN o ELSE bns[a].live
  <2>1. ApiTypeOK /\ bns' = [bns EXCEPT ![b] = Written(bns[b], o)]
    BY <1>1 DEF UserWritesBN, TypeOK
  <2> QED
    BY <2>1, WrittenViews
<1>3. UNCHANGED clock
  BY <1>1 DEF UserWritesBN
<1>4. termsBN'[b] = IF o = None THEN None ELSE Terms(o.spec)
  BY <1>2, EntriesOf
<1>5. termsBN' = [termsBN EXCEPT ![b] = termsBN'[b]] /\ termsBN'[b] \in Log!Terms
  <2>1. o # None => o.spec \in Specs
    BY <1>1 DEF BudgetNamespaces
  <2>2. termsBN'[b] \in Log!Terms
    BY <1>4, <2>1, TermsType DEF Log!Terms
  <2> QED
    BY <1>2, <2>2, OthersStay
<1>6. CASE bns[b].live # None /\ o # None
  <2>1. lastBN'[b] = lastBN[b] /\ queriedBN'[b] = queriedBN[b]
    BY <1>1, <1>2, <1>6, EntriesOf
  <2>2. UNCHANGED <<lastBN, queriedBN>>
    BY <1>2, <2>1, EntryStays
  <2> QED
    BY <1>3, <1>5, <2>2 DEF Log!Change
<1>7. CASE bns[b].live = None \/ o = None
  <2>1. o # None => LastEnforcement(o.status) = None /\ o.status.lastCostQueryAt = None
    <3>1. LastEnforcement(NoStatus) = None /\ NoStatus.lastCostQueryAt = None
      BY DEF LastEnforcement, NoStatus
    <3> QED
      BY <1>1, <1>7, <3>1
  <2>2. lastBN'[b] = None /\ queriedBN'[b] = None
    BY <1>2, <2>1, EntriesOf
  <2>3. /\ lastBN' = [lastBN EXCEPT ![b] = None]
        /\ queriedBN' = [queriedBN EXCEPT ![b] = None]
    BY <1>2, <2>2, OthersStay
  <2>4. termsBN[b] = None \/ termsBN'[b] = None
    BY <1>4, <1>7, EntriesOf
  <2> QED
    BY <1>3, <1>5, <2>3, <2>4 DEF Log!Change
<1> QED
  BY <1>6, <1>7

\* The enforcement in the status that replaces s is the one in s, or follows it.
LEMMA EnforcementIsLogged ==
  ASSUME TypeOK, StatusInv, RecordInv, LogInv, WholeSeconds,
         NEW b \in BNs, run # None, run.bn = b, ~run.stale, bns[b].live # None,
         \A a \in BNs : a # b => bns'[a].live = bns[a].live,
         bns'[b].live # None,
         bns'[b].live.status = NewStatus(run.copy, run),
         CooldownKept(bns[b].live, bns'[b].live),
         bns'[b].live.spec = bns[b].live.spec, run.copy.spec = bns[b].live.spec
  PROVE  Log!Enforces(b) \/ UNCHANGED lastBN
<1> DEFINE s == bns[b].live.status
           new == bns'[b].live.status
           at == Stored(run.lastEnfAt)
<1>1. /\ s \in Statuses /\ Dated(s) /\ OperationKnown(run, s)
      /\ EnforcementFollows(run, s, clock) /\ bns[b].live.spec \in Specs
      /\ clock \in Nat /\ run \in Runs
  <2>1. bns[b].live \in BudgetNamespaces
    BY BnsStep DEF TypeOK
  <2>2. Dated(s) /\ OperationKnown(run, s)
    BY DEF RecordInv, StatusesDated, RunKnowsRecords, Known
  <2>3. EnforcementFollows(run, s, clock)
    BY DEF LogInv, RunFollows
  <2> QED
    BY <2>1, <2>2, <2>3, RunTypes DEF BudgetNamespaces
<1>2. /\ s.lastEnforcementAt \in Times
      /\ run.lastEnfAt \in Times /\ run.lastEnfOp \in {"", "ScaleToZero", "Restore"}
  BY <1>1 DEF Statuses, Runs
<1>3. new.lastEnforcementAt = at /\ new.lastEnforcementOperation = run.lastEnfOp
  BY DEF NewStatus
<1>4. /\ lastBN[b] = LastEnforcement(s) /\ lastBN'[b] = LastEnforcement(new)
      /\ termsBN[b] = Terms(bns[b].live.spec)
  BY EntriesOf
<1> HIDE DEF s, new, at
<1>5. CASE Remembered(run, s)
  <2>1. at = s.lastEnforcementAt
    BY <1>1, <1>2, <1>5, StoredAgain DEF at, Remembered, Dated
  <2>2. lastBN'[b] = lastBN[b]
    BY <1>3, <1>4, <1>5, <2>1 DEF LastEnforcement, Remembered
  <2> QED
    BY <2>2, EntryStays
<1>6. CASE ~Remembered(run, s)
  <2>1. /\ run.lastEnfOp \in {"ScaleToZero", "Restore"} /\ run.lastEnfAt \in Nat
        /\ run.lastEnfAt <= clock
        /\ s.lastEnforcementAt # None => s.lastEnforcementAt <= run.lastEnfAt
    BY <1>1, <1>2, <1>6 DEF EnforcementFollows, Times
  <2>2. at \in Nat /\ at <= run.lastEnfAt
    BY <2>1, StoredIsBetween DEF at
  <2>3. at \in 0 .. clock
    BY <1>1, <2>1, <2>2
  <2>4. s.lastEnforcementAt # None => at >= s.lastEnforcementAt
    <3>1. SUFFICES ASSUME s.lastEnforcementAt # None PROVE s.lastEnforcementAt <= at
      BY <1>2, <2>2 DEF Times
    <3>2. s.lastEnforcementAt \in Nat /\ s.lastEnforcementAt % Second = 0
      BY <1>1, <1>2, <3>1 DEF Times, Dated, IsStored
    <3> QED
      BY <2>1, <3>1, <3>2, StoredIsBetween DEF at
  <2>5. lastBN[b] # None =>
          /\ s.lastEnforcementAt # None
          /\ lastBN[b].op = s.lastEnforcementOperation /\ lastBN[b].at = s.lastEnforcementAt
    <3>1. SUFFICES ASSUME LastEnforcement(s) # None
                   PROVE  /\ s.lastEnforcementAt # None
                          /\ LastEnforcement(s).op = s.lastEnforcementOperation
                          /\ LastEnforcement(s).at = s.lastEnforcementAt
      BY <1>4
    <3>2. s.lastEnforcementOperation # ""
      BY <3>1 DEF LastEnforcement
    <3>3. s.lastEnforcementAt # None
      BY <1>1, <3>2 DEF Dated
    <3> QED
      BY <3>2, <3>3 DEF LastEnforcement
  <2>6. ASSUME run.lastEnfOp = "Restore"
        PROVE  /\ termsBN[b].cooldown # None
               /\ lastBN[b] # None /\ lastBN[b].op = "ScaleToZero" =>
                    at >= lastBN[b].at + termsBN[b].cooldown
    <3>1. bns[b].live.spec.cooldown # Bad
      BY <1>1, <1>6, <2>6 DEF OperationKnown
    <3>2. /\ termsBN[b].cooldown = enforcementCooldown(bns[b].live.spec)
          /\ termsBN[b].cooldown # None
      BY <1>1, <1>4, <3>1, TermsType
    <3>3. s.lastEnforcementOperation = "ScaleToZero" =>
            at >= s.lastEnforcementAt + enforcementCooldown(bns[b].live.spec)
      BY <1>3, <2>6 DEF CooldownKept, s, new
    <3> QED
      BY <2>5, <3>2, <3>3
  <2>7. Log!MayFollow(b, run.lastEnfOp, at)
    <3>1. at <= clock
      BY <2>3
    <3> QED
      BY <2>4, <2>5, <2>6, <3>1 DEF Log!MayFollow
  <2>8. lastBN' = [lastBN EXCEPT ![b] = [op |-> run.lastEnfOp, at |-> at]]
    <3>1. lastBN'[b] = [op |-> run.lastEnfOp, at |-> at]
      BY <1>3, <1>4, <2>1 DEF LastEnforcement
    <3> QED
      BY <3>1, OthersStay
  <2> QED
    BY <2>1, <2>3, <2>7, <2>8 DEF Log!Enforces
<1> QED
  BY <1>5, <1>6

LEMMA QueryIsLogged ==
  ASSUME TypeOK, StatusInv, RecordInv, LogInv, WholeSeconds,
         NEW b \in BNs, run # None, run.bn = b, ~run.stale, bns[b].live # None,
         \A a \in BNs : a # b => bns'[a].live = bns[a].live,
         bns'[b].live # None,
         bns'[b].live.status = NewStatus(run.copy, run),
         IntervalKept(bns[b].live, bns'[b].live),
         bns'[b].live.spec = bns[b].live.spec, run.copy.spec = bns[b].live.spec
  PROVE  Log!Queries(b) \/ UNCHANGED queriedBN
<1> DEFINE s == bns[b].live.status
           new == bns'[b].live.status
           at == Stored(run.copy.status.lastCostQueryAt)
<1>1. /\ s \in Statuses /\ Dated(s) /\ QueryKnown(run, s) /\ QueryFollows(run, s)
      /\ bns[b].live.spec \in Specs /\ clock \in Nat /\ run.now \in Nat /\ run.now <= clock
      /\ run.copy.status \in Statuses
  <2>1. bns[b].live \in BudgetNamespaces
    BY BnsStep DEF TypeOK
  <2>2. Dated(s) /\ QueryKnown(run, s) /\ run.now <= clock
    BY DEF RecordInv, StatusesDated, RunKnowsRecords, Known
  <2>3. QueryFollows(run, s)
    BY DEF LogInv, RunFollows
  <2> QED
    BY <2>1, <2>2, <2>3, RunTypes DEF BudgetNamespaces
<1>2. s.lastCostQueryAt \in Times
  BY <1>1 DEF Statuses
<1>3. new.lastCostQueryAt = at
  BY DEF NewStatus
<1>4. /\ queriedBN[b] = s.lastCostQueryAt /\ queriedBN'[b] = at
      /\ termsBN[b] = Terms(bns[b].live.spec)
  BY <1>3, EntriesOf
<1> HIDE DEF s, new, at
<1>5. CASE at = s.lastCostQueryAt
  <2>1. queriedBN'[b] = queriedBN[b]
    BY <1>4, <1>5
  <2> QED
    BY <2>1, EntryStays
<1>6. CASE at # s.lastCostQueryAt
  <2>1. ~QueryRemembered(run, s)
    BY <1>1, <1>2, <1>6, StoredAgain DEF at, QueryRemembered, Dated
  <2>2. run.copy.status.lastCostQueryAt = run.now /\ costBudgetEnabled(bns[b].live.spec)
    BY <1>1, <2>1 DEF QueryKnown
  <2>3. at \in Nat /\ at <= run.now
    BY <1>1, <2>2, StoredIsBetween DEF at
  <2>4. at \in 0 .. clock
    BY <1>1, <2>3
  <2>5. queriedBN[b] # None => at >= queriedBN[b]
    <3>1. SUFFICES ASSUME s.lastCostQueryAt # None PROVE s.lastCostQueryAt <= at
      BY <1>2, <1>4, <2>3 DEF Times
    <3>2. s.lastCostQueryAt \in Nat /\ s.lastCostQueryAt % Second = 0
      BY <1>1, <1>2, <3>1 DEF Times, Dated, IsStored
    <3>3. s.lastCostQueryAt <= run.now
      BY <1>1, <3>1 DEF QueryFollows
    <3> QED
      BY <1>1, <2>2, <3>2, <3>3, StoredIsBetween DEF at
  <2>6. /\ termsBN[b].interval = costBudgetQueryInterval(bns[b].live.spec)
        /\ termsBN[b].interval # None
    BY <1>1, <1>4, <2>2, TermsType
  <2>7. queriedBN[b] # None => at >= queriedBN[b] + termsBN[b].interval
    BY <1>3, <1>4, <1>6, <2>6 DEF IntervalKept, s, new
  <2>8. queriedBN' = [queriedBN EXCEPT ![b] = at]
    BY <1>4, OthersStay
  <2> QED
    BY <2>4, <2>5, <2>6, <2>7, <2>8 DEF Log!Queries
<1> QED
  BY <1>5, <1>6

LEMMA UpdateIsLogged ==
  ASSUME TypeOK, StatusInv, RecordInv, LogInv, [Next]_vars, WholeSeconds, UpdateStatus
  PROVE  Log!Pass \/ Log!Record(run.bn)
<1> DEFINE b == run.bn
           o == bns[b].live
           new == [o EXCEPT !.status = NewStatus(run.copy, run)]
<1>1. run # None /\ b \in BNs /\ UNCHANGED clock
  BY RunTypes DEF UpdateStatus, TypeOK, Reconciling, outsideVars
<1>2. CASE UNCHANGED bns
  BY <1>2, PassIsLogged
<1>3. CASE ~UNCHANGED bns
  <2>1. /\ ~StatusUpdateRefused(b)
        /\ bns' = [bns EXCEPT ![b] = Written(bns[b], new)]
    BY <1>3 DEF UpdateStatus
  <2>2. /\ o \in BudgetNamespaces /\ o # None /\ ~run.stale
        /\ SameVersion(run.copy, o)
    BY <1>1, <2>1, BnsStep DEF StatusUpdateRefused, TypeOK, StatusInv, CopyIsLive
  <2>3. new \in BudgetNamespaces
    <3>1. NewStatus(run.copy, run) \in Statuses
      BY <1>1, RunTypes, NewStatusType DEF Runs
    <3> HIDE DEF o
    <3> QED
      BY <2>2, <3>1 DEF BudgetNamespaces
  <2>4. /\ new.status = NewStatus(run.copy, run) /\ new.spec = o.spec
        /\ run.copy.spec = o.spec
    BY <2>2 DEF BudgetNamespaces, SameVersion
  <2> HIDE DEF new
  <2>5. \A a \in BNs : bns'[a].live = IF a = b THEN new ELSE bns[a].live
    <3>1. ApiTypeOK
      BY DEF TypeOK
    <3> QED
      BY <1>1, <2>1, <3>1, WrittenViews
  <2>6. new # None
    BY <2>3, NoneIsNoObject
  <2>7. CooldownKept(o, new) /\ IntervalKept(o, new)
    <3>1. DistancesKept
      BY NextRecordInv
    <3> QED
      BY <1>1, <2>2, <2>5, <2>6, <3>1 DEF DistancesKept
  <2>8. Log!Enforces(b) \/ UNCHANGED lastBN
    BY <1>1, <2>2, <2>4, <2>5, <2>6, <2>7, EnforcementIsLogged
  <2>9. Log!Queries(b) \/ UNCHANGED queriedBN
    BY <1>1, <2>2, <2>4, <2>5, <2>6, <2>7, QueryIsLogged
  <2>10. UNCHANGED termsBN
    <3>1. termsBN'[b] = termsBN[b]
      BY <1>1, <2>2, <2>4, <2>5, <2>6, EntriesOf
    <3> QED
      BY <1>1, <2>5, <3>1, EntryStays
  <2>11. termsBN[b] # None
    <3>1. o.spec \in Specs
      BY <2>2 DEF BudgetNamespaces
    <3> QED
      BY <1>1, <2>2, <3>1, EntriesOf, TermsType
  <2>12. Log!Record(b)
    BY <1>1, <2>8, <2>9, <2>10, <2>11 DEF Log!Record
  <2> QED
    BY <2>12
<1> QED
  BY <1>2, <1>3

LEMMA StepIsLogged ==
  ASSUME WholeSeconds, CauseInv, LogInv, [Next]_vars
  PROVE  [Log!Next]_(Log!vars)
<1>1. TypeOK /\ StatusInv /\ RecordInv
  BY DEF CauseInv
<1>2. CASE UpdateStatus
  <2>1. run.bn \in BNs
    BY <1>1, <1>2, RunTypes DEF UpdateStatus, TypeOK, Reconciling
  <2> QED
    BY <1>1, <1>2, <2>1, UpdateIsLogged DEF Log!Next
<1>3. ASSUME NEW b \in BNs,
             \/ \E s \in Specs : CreateBN(b, s) \/ EditBN(b, s)
             \/ TouchBN(b) \/ DeleteBN(b)
      PROVE  Log!Next
  BY <1>1, <1>3, UserIsLogged DEF Log!Next
<1>4. CASE \A b \in BNs : bns'[b].live = bns[b].live
  BY <1>1, <1>4, PassIsLogged DEF Log!Next
<1> QED
  BY <1>1, <1>2, <1>3, <1>4, ResourceSteps

(***************************************************************************)
(* The controller implements EnforcementLog, whose every entry is of the   *)
(* past, in the order of time and at its distance from the one before      *)
(* (budgetnamespace_controller.go:331-375, 402-524).                       *)
(***************************************************************************)
THEOREM ControllerKeepsLog ==
  ASSUME WholeSeconds
  PROVE  Spec => LogIsKept
<1>1. Init => Log!Init
  <2> SUFFICES ASSUME Init PROVE Log!Init
    OBVIOUS
  <2>1. ASSUME NEW b \in BNs
        PROVE  termsBN[b] \in Log!Terms /\ lastBN[b] = None /\ queriedBN[b] = None
    <3>1. PICK s \in Specs : bns[b] = InSync([created |-> 0, generation |-> 1, spec |-> s,
                                              status |-> NoStatus])
      BY DEF Init
    <3>2. bns[b].live.spec = s /\ bns[b].live.status = NoStatus
      BY <3>1 DEF InSync
    <3>3. LastEnforcement(NoStatus) = None /\ NoStatus.lastCostQueryAt = None
      BY DEF LastEnforcement, NoStatus
    <3> QED
      BY <3>2, <3>3, EntriesOf, TermsType DEF Log!Terms
  <2>2. termsBN \in [BNs -> Log!Terms]
    BY <2>1 DEF termsBN
  <2>3. lastBN = [b \in BNs |-> None]
    BY <2>1 DEF lastBN
  <2>4. queriedBN = [b \in BNs |-> None]
    BY <2>1 DEF queriedBN
  <2>5. clock = 0
    BY DEF Init
  <2> QED
    BY <2>2, <2>3, <2>4, <2>5 DEF Log!Init
<1>2. CauseInv /\ LogInv /\ [Next]_vars => [Log!Next]_(Log!vars)
  BY StepIsLogged
<1> QED
  BY <1>1, <1>2, LogInvariant, PTL DEF Spec, LogIsKept, Log!Spec

=============================================================================
