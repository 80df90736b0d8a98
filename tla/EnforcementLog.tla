---------------------------- MODULE EnforcementLog ----------------------------
(***************************************************************************)
(* What the status of a BudgetNamespace promises about the past, without   *)
(* reconciles, caches, passes or conflicts: a log with one entry each for  *)
(* the last enforcement and the last billing query.                        *)
(*                                                                         *)
(* Entries are of the past and in the order of time.  A restore that       *)
(* follows a scale-to-zero is a cooldown away from it, and of two queries  *)
(* the second is an interval away from the first, by the terms that are in *)
(* force when the entry is made.  Without terms there is no entry.         *)
(***************************************************************************)
EXTENDS Integers

CONSTANTS
  Resources,   \* the BudgetNamespaces
  None         \* no resource, no entry, or no terms

VARIABLES
  now,         \* the time
  terms,       \* per resource: None, or its cooldown and its query interval
  last,        \* its last enforcement: None, or what was done and when
  queried      \* the time of its last query, or None

vars == <<now, terms, last, queried>>

Terms == [cooldown : Int \cup {None}, interval : Int \cup {None}] \cup {None}

Init ==
  /\ now = 0
  /\ terms \in [Resources -> Terms]
  /\ last = [b \in Resources |-> None]
  /\ queried = [b \in Resources |-> None]

Pass == now' >= now /\ UNCHANGED <<terms, last, queried>>

\* An operation at this time may follow the last one of b.
MayFollow(b, op, at) ==
  /\ at <= now
  /\ last[b] # None => at >= last[b].at
  /\ op = "Restore" =>
       /\ terms[b].cooldown # None
       /\ last[b] # None /\ last[b].op = "ScaleToZero" =>
            at >= last[b].at + terms[b].cooldown

Enforces(b) ==
  \E op \in {"ScaleToZero", "Restore"}, at \in 0 .. now :
    /\ MayFollow(b, op, at)
    /\ last' = [last EXCEPT ![b] = [op |-> op, at |-> at]]

Queries(b) ==
  \E at \in 0 .. now :
    /\ terms[b].interval # None
    /\ queried[b] # None => at >= queried[b] /\ at >= queried[b] + terms[b].interval
    /\ queried' = [queried EXCEPT ![b] = at]

\* A reconcile makes one entry, or both.
Record(b) ==
  /\ terms[b] # None
  /\ Enforces(b) \/ UNCHANGED last
  /\ Queries(b) \/ UNCHANGED queried
  /\ UNCHANGED <<now, terms>>

\* A user creates or deletes the resource, which leaves no entries, or changes
\* its terms, which keeps them.
Change(b) ==
  /\ terms' = [terms EXCEPT ![b] = terms'[b]] /\ terms'[b] \in Terms
  /\ \/ UNCHANGED <<last, queried>>
     \/ /\ terms[b] = None \/ terms'[b] = None
        /\ last' = [last EXCEPT ![b] = None]
        /\ queried' = [queried EXCEPT ![b] = None]
  /\ UNCHANGED now

Next == Pass \/ \E b \in Resources : Record(b) \/ Change(b)

Spec == Init /\ [][Next]_vars

=============================================================================
