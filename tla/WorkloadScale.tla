---------------------------- MODULE WorkloadScale ----------------------------
(***************************************************************************)
(* The passes the operator makes over the workloads of the namespaces it   *)
(* manages: scale-to-zero (workload_scale.go) and restore                  *)
(* (budgetnamespace_enforcement.go).                                       *)
(*                                                                         *)
(* A pass lists the Deployments of one namespace from the informer cache,  *)
(* patches the ones that need it one API call at a time, then does the     *)
(* same for its StatefulSets.  The patches are JSON merge patches          *)
(* computed from the listed copy, without an optimistic lock, so they land *)
(* on whatever the API server holds by then: the listed copy can be old,   *)
(* users can write in between, and a pass can stop after any patch.        *)
(*                                                                         *)
(* Here a pass may start at any time; BudgetReconciler decides when.       *)
(***************************************************************************)
EXTENDS Integers, ApiObjects

CONSTANTS
  Namespaces,     \* names of the namespaces
  Deployments,    \* the Deployments
  StatefulSets,   \* the StatefulSets
  NamespaceOf,    \* the namespace each of them is in
  MaxReplicas,    \* bound on the replica counts users ask for
  UserActs,       \* the writes users make: subset of UserActKinds
  Malformed       \* an annotation value that strconv.ParseInt rejects

UserActKinds == {"scale", "annotate", "label", "create", "delete"}

Workloads == Deployments \cup StatefulSets

ASSUME WSAssumption ==
  /\ Deployments \cap StatefulSets = {}
  /\ NamespaceOf \in [Workloads -> Namespaces]
  /\ None \notin Namespaces
  /\ MaxReplicas \in Nat
  /\ UserActs \subseteq UserActKinds
  /\ None \notin Int
  /\ Malformed \notin Int
  /\ None # Malformed

Kinds == {"Deployment", "StatefulSet"}

OfKind(k) == IF k = "Deployment" THEN Deployments ELSE StatefulSets

(***************************************************************************)
(* What the operator reads of a workload: spec.replicas (never nil, the    *)
(* API server defaults it to 1), the value of the pre-scale-replicas       *)
(* annotation, and whether the pod template carries the exempt label.      *)
(***************************************************************************)
Replicas == 0 .. MaxReplicas

Saved == Replicas \cup {None, Malformed}

Workload == [replicas : Replicas, saved : Saved, exempt : BOOLEAN]

Object == Workload \cup {None}

ASSUME NoneIsNoWorkload == None \notin Workload

VARIABLES
  workloads,   \* the objects in the API server
  wcache,      \* the informer caches the operator lists from
  op,          \* the pass in progress: "none", "ScaleToZero" or "Restore"
  scope,       \* the namespace it is for
  kind,        \* the kind whose list is being patched
  items,       \* listed copies that are still to be patched (None: no)
  acted,       \* n > 0: this pass has patched some workload
  base         \* history: the count to be preserved, None while unknown

wsVars == <<workloads, wcache, op, scope, kind, items, acted, base>>

Ops == {"none", "ScaleToZero", "Restore"}

NoItems == [w \in Workloads |-> None]

WSTypeOK ==
  /\ workloads \in [Workloads -> Object]
  /\ wcache \in [Workloads -> Object]
  /\ op \in Ops
  /\ scope \in Namespaces \cup {None}
  /\ kind \in Kinds
  /\ items \in [Workloads -> Object]
  /\ acted \in BOOLEAN
  /\ base \in [Workloads -> Replicas \cup {None}]

-----------------------------------------------------------------------------
(* Which listed copies a pass patches, and what each patch does.            *)

\* A copy that scaleDeploymentsToZero and scaleStatefulSetsToZero patch.
ScaleTarget(d) == d # None /\ ~d.exempt /\ d.replicas # 0

\* A copy that deploymentsPendingRestore and statefulSetsPendingRestore count.
PendingRestore(d) == d # None /\ ~d.exempt /\ d.replicas = 0 /\ d.saved # None

\* Mutant: the error of strconv.ParseInt is ignored.
RestoreTargetUnparsed(d) == PendingRestore(d) /\ d.saved # 0

\* A pending copy whose annotation parses to a positive count.
RestoreTarget(d) == PendingRestore(d) /\ d.saved # Malformed /\ d.saved > 0

Target(o, d) == IF o = "ScaleToZero" THEN ScaleTarget(d) ELSE RestoreTarget(d)

In(n) == {w \in Workloads : NamespaceOf[w] = n}

\* The copies of one kind in namespace n that the pass will patch.
List(o, k, n) ==
  [w \in Workloads |->
     IF w \in OfKind(k) \cap In(n) /\ Target(o, wcache[w]) THEN wcache[w] ELSE None]

workloadsPendingRestore(n) == \E w \in In(n) : PendingRestore(wcache[w])

\* Mutant: scale-to-zero forgets the annotation.
ScaledToZeroUnsaved(listed, live) == [live EXCEPT !.replicas = 0]

\* The merge patch of scale-to-zero: the annotation is part of the patch only
\* when the listed copy had none.
ScaledToZero(listed, live) ==
  [live EXCEPT !.replicas = 0,
               !.saved = IF listed.saved = None THEN listed.replicas ELSE @]

\* Mutant: the patch of restore leaves the count to the API server's default.
RestoredToDefault(listed, live) == [live EXCEPT !.replicas = 1, !.saved = None]

\* The merge patch of restore: the saved count, and the annotation removed.
Restored(listed, live) ==
  [live EXCEPT !.replicas = listed.saved, !.saved = None]

Patched(o, listed, live) ==
  IF o = "ScaleToZero" THEN ScaledToZero(listed, live) ELSE Restored(listed, live)

-----------------------------------------------------------------------------
(* The passes.                                                              *)

\* scaleWorkloadsToZero or restoreScaledWorkloads is called: list Deployments.
BeginPass(o, n) ==
  /\ op = "none"
  /\ op' = o
  /\ scope' = n
  /\ kind' = "Deployment"
  /\ items' = List(o, "Deployment", n)
  /\ acted' = FALSE
  /\ UNCHANGED <<workloads, wcache, base>>

\* c.Patch of one listed workload succeeds.
PatchWorkload(w) ==
  /\ op # "none"
  /\ items[w] # None
  /\ workloads[w] # None
  /\ workloads' = [workloads EXCEPT ![w] = Patched(op, items[w], workloads[w])]
  /\ items' = [items EXCEPT ![w] = None]
  /\ acted' = TRUE
  /\ UNCHANGED <<wcache, op, scope, kind, base>>

\* The Deployments are done: list the StatefulSets.
NextKind ==
  /\ op # "none"
  /\ kind = "Deployment"
  /\ items = NoItems
  /\ kind' = "StatefulSet"
  /\ items' = List(op, "StatefulSet", scope)
  /\ UNCHANGED <<workloads, wcache, op, scope, acted, base>>

\* The pass returns its count.
EndPass ==
  /\ op # "none"
  /\ kind = "StatefulSet"
  /\ items = NoItems
  /\ op' = "none"
  /\ scope' = None
  /\ kind' = "Deployment"
  /\ acted' = FALSE
  /\ UNCHANGED <<workloads, wcache, items, base>>

\* A list or a patch fails (a patch does when the workload is gone), or the
\* process dies: the rest of the pass is dropped, its patches stay.
AbortPass ==
  /\ op # "none"
  /\ op' = "none"
  /\ scope' = None
  /\ kind' = "Deployment"
  /\ items' = NoItems
  /\ acted' = FALSE
  /\ UNCHANGED <<workloads, wcache, base>>

PassStep ==
  \/ \E o \in {"ScaleToZero", "Restore"}, n \in Namespaces : BeginPass(o, n)
  \/ \E w \in Workloads : PatchWorkload(w)
  \/ NextKind
  \/ EndPass
  \/ AbortPass

-----------------------------------------------------------------------------
(* The informers and the users.                                             *)

(***************************************************************************)
(* The informer of a kind catches up with the API server.  The cache only  *)
(* moves forward, and it can lag behind by any number of writes.           *)
(*                                                                         *)
(* The history variable is armed here: a workload that carries no          *)
(* annotation and that no patch is in flight for has a count the operator  *)
(* must preserve from now on.                                              *)
(***************************************************************************)
SyncWorkloads(k) ==
  /\ wcache' = [w \in Workloads |->
                  IF w \in OfKind(k) THEN workloads[w] ELSE wcache[w]]
  /\ base' = [w \in Workloads |->
                IF /\ w \in OfKind(k) /\ base[w] = None
                   /\ workloads[w] # None /\ items[w] = None
                THEN IF workloads[w].saved = None THEN workloads[w].replicas
                                                  ELSE None
                ELSE base[w]]
  /\ UNCHANGED <<workloads, op, scope, kind, items, acted>>

\* A user's write of workload w: what the count should be is unknown until the
\* cache has seen it.
UserWrite(w, new) ==
  /\ workloads' = [workloads EXCEPT ![w] = new]
  /\ base' = [base EXCEPT ![w] = None]
  /\ UNCHANGED <<wcache, op, scope, kind, items, acted>>

UserScale(w, r) ==
  /\ "scale" \in UserActs
  /\ workloads[w] # None
  /\ r # workloads[w].replicas
  /\ UserWrite(w, [workloads[w] EXCEPT !.replicas = r])

UserAnnotate(w, s) ==
  /\ "annotate" \in UserActs
  /\ workloads[w] # None
  /\ s # workloads[w].saved
  /\ UserWrite(w, [workloads[w] EXCEPT !.saved = s])

\* Setting or removing the exempt label does not touch the count.
UserLabel(w) ==
  /\ "label" \in UserActs
  /\ workloads[w] # None
  /\ workloads' = [workloads EXCEPT ![w] =
                     [workloads[w] EXCEPT !.exempt = ~workloads[w].exempt]]
  /\ UNCHANGED <<wcache, op, scope, kind, items, acted, base>>

UserCreate(w, r) ==
  /\ "create" \in UserActs
  /\ workloads[w] = None
  /\ UserWrite(w, [replicas |-> r, saved |-> None, exempt |-> FALSE])

UserDelete(w) ==
  /\ "delete" \in UserActs
  /\ workloads[w] # None
  /\ UserWrite(w, None)

\* The namespace controller removes the contents of a terminating namespace.
PurgeWorkloads(n) ==
  /\ workloads' = [w \in Workloads |-> IF w \in In(n) THEN None ELSE workloads[w]]
  /\ base' = [w \in Workloads |-> IF w \in In(n) THEN None ELSE base[w]]
  /\ UNCHANGED <<wcache, op, scope, kind, items, acted>>

UserStep ==
  \E w \in Workloads :
    \/ \E r \in Replicas : UserScale(w, r) \/ UserCreate(w, r)
    \/ \E s \in Saved : UserAnnotate(w, s)
    \/ UserLabel(w)
    \/ UserDelete(w)

-----------------------------------------------------------------------------
\* The operator starts with synced caches and no pass in progress.
WSInit ==
  /\ workloads \in [Workloads -> {d \in Object : d = None \/ d.saved = None}]
  /\ wcache = workloads
  /\ op = "none"
  /\ scope = None
  /\ kind = "Deployment"
  /\ items = NoItems
  /\ acted = FALSE
  /\ base = [w \in Workloads |->
               IF workloads[w] = None THEN None ELSE workloads[w].replicas]

WSNext ==
  \/ PassStep
  \/ \E k \in Kinds : SyncWorkloads(k)
  \/ UserStep
  \/ \E n \in Namespaces : PurgeWorkloads(n)

WSSpec == WSInit /\ [][WSNext]_wsVars

-----------------------------------------------------------------------------
(* Properties.                                                              *)

\* Object d holds count b: it runs b replicas, or b is parked in its
\* annotation and it runs none.
Holds(d, b) ==
  \/ d # None /\ d.replicas = b /\ d.saved = None
  \/ d # None /\ d.replicas = 0 /\ d.saved = b /\ b # 0

(***************************************************************************)
(* A replica count is never lost.  Once the cache has seen the last write  *)
(* a user made, the workload always holds that user's count, either as     *)
(* spec.replicas or in the pre-scale-replicas annotation: whatever mixture *)
(* of scale and restore passes runs, from however old a list, wherever     *)
(* they are cut short and however often they are repeated                  *)
(* (workload_scale.go:36-48, budgetnamespace_enforcement.go:147-154).      *)
(***************************************************************************)
CountPreserved ==
  \A w \in Workloads : base[w] # None => Holds(workloads[w], base[w])

\* What users see of each workload: spec.replicas, or that it is absent.
Running ==
  [w \in Workloads |-> IF workloads[w] = None THEN None ELSE workloads[w].replicas]

(***************************************************************************)
(* The passes keep the ledger: whatever a user can see of spec.replicas is *)
(* what ReplicaLedger allows.  In particular no patch of either pass, from *)
(* a stale list or after an abandoned pass, ever sets a count other than   *)
(* zero and the one the workload is owed                                   *)
(* (workload_scale.go:36-48, budgetnamespace_enforcement.go:147-154).      *)
(***************************************************************************)
Ledger == INSTANCE ReplicaLedger WITH running <- Running, promised <- base

LedgerIsKept == Ledger!Spec

\* CountPreserved for the copies the operator works from as well.
CountPreservedEverywhere ==
  \A w \in Workloads :
    base[w] # None =>
      /\ Holds(workloads[w], base[w])
      /\ Holds(wcache[w], base[w])
      /\ items[w] # None => Holds(items[w], base[w])

\* The copies still to be patched are ones the pass in progress targets.
ItemsAreTargets ==
  \A w \in Workloads :
    items[w] # None => op # "none" /\ Target(op, items[w])

WSInv == WSTypeOK /\ CountPreservedEverywhere /\ ItemsAreTargets

\* This step is the scale-to-zero patch of w.
ScalesDown(w) ==
  op = "ScaleToZero" /\ op' = op /\ items[w] # None /\ items'[w] = None

(***************************************************************************)
(* docs/architecture.md:48: before scale-down, the previous replicas are   *)
(* saved in the annotation.  In its weakest reading: whatever a            *)
(* scale-to-zero patch meets, the workload it zeroes carries some          *)
(* annotation afterwards, so that restore can find it                      *)
(* (deploymentsPendingRestore counts no other).                            *)
(***************************************************************************)
ZeroedIsRestorable ==
  [][\A w \in Workloads : ScalesDown(w) => workloads'[w].saved # None]_wsVars

=============================================================================
