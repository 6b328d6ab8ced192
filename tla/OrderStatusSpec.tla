--------------------------- MODULE OrderStatusSpec ---------------------------
(***************************************************************************)
(* What the order path promises a strategy that only looks at the cache:   *)
(* an order's status moves along STATUS_TRANSITIONS, a closed order never  *)
(* changes again, and an order the cache has dropped can come back only    *)
(* with the status it had.                                                 *)
(***************************************************************************)
EXTENDS OrderStatus

CONSTANT Oids

VARIABLES
  shown,   \* the status get_order finds in memory
  last     \* the last status the order took, remembered after its eviction

statusVars == <<shown, last>>

Statuses == OrderStatuses \cup {NoStatus}

Init ==
  /\ shown = [o \in Oids |-> NoStatus]
  /\ last = [o \in Oids |-> NoStatus]

\* What the cache has forgotten is no longer checked against the table, but an
\* order that has closed takes no status at all.
Update(o, status) ==
  /\ last[o] \notin ClosedStatuses
  /\ status \in StatusesAfter(shown[o])
  /\ shown' = [shown EXCEPT ![o] = status]
  /\ last' = [last EXCEPT ![o] = status]

Forget(o) ==
  /\ shown' = [shown EXCEPT ![o] = NoStatus]
  /\ UNCHANGED last

Recall(o) ==
  /\ shown[o] = NoStatus
  /\ shown' = [shown EXCEPT ![o] = last[o]]
  /\ UNCHANGED last

Next ==
  \E o \in Oids :
    \/ \E status \in OrderStatuses : Update(o, status)
    \/ Forget(o)
    \/ Recall(o)

Spec == Init /\ [][Next]_statusVars
=============================================================================
