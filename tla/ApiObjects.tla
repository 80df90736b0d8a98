----------------------------- MODULE ApiObjects -----------------------------
(***************************************************************************)
(* An object in the API server and the copy of it in the operator's        *)
(* informer cache.  The manager's client reads from the cache and writes   *)
(* to the API server; the copy is current until the next write and becomes *)
(* so again when the watch event arrives.                                  *)
(***************************************************************************)
CONSTANT None   \* nil pointer, missing map key, empty string, absent object

Views(Objects) ==
  {view \in [live : Objects, seen : Objects, current : BOOLEAN] :
     view.current => view.seen = view.live}

\* An object that the cache has seen.
InSync(o) == [live |-> o, seen |-> o, current |-> TRUE]

\* A write gives the object a new resourceVersion, whatever it changes.
Written(view, o) == [view EXCEPT !.live = o, !.current = FALSE]

\* The watch events up to the last write have arrived.  Events that pile up are
\* delivered as one: a copy lags by any number of writes until then.
Synced(view) == InSync(view.live)

=============================================================================
