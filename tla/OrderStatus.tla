----------------------------- MODULE OrderStatus -----------------------------
(***************************************************************************)
(* The status of an order and the table of the moves a status may make.    *)
(* The table is STATUS_TRANSITIONS of constants.py; the two predicates on  *)
(* a status are the properties of schema.Order the order path branches on. *)
(***************************************************************************)

\* "NONE" stands for an order the cache holds no object for.
NoStatus == "NONE"

OrderStatuses == {"PENDING", "CANCELING", "ACCEPTED", "PARTIALLY_FILLED",
                  "CANCEL_FAILED", "FILLED", "CANCELED", "EXPIRED", "FAILED"}

\* Order.is_closed
ClosedStatuses == {"FILLED", "CANCELED", "EXPIRED", "FAILED"}

\* What _order_status_update treats as "not order.is_closed".
LiveStatuses == OrderStatuses \ ClosedStatuses

\* Mutant: an order whose cancel failed cannot be filled any more.
NoFillAfterCancelFailed ==
  [s \in OrderStatuses |->
     CASE s = "PENDING" ->
            {"PENDING", "CANCELED", "CANCELING", "ACCEPTED",
             "PARTIALLY_FILLED", "FILLED", "CANCEL_FAILED", "FAILED"}
       [] s = "CANCELING" -> {"CANCELED", "PARTIALLY_FILLED", "FILLED"}
       [] s \in {"ACCEPTED", "PARTIALLY_FILLED"} ->
            {"ACCEPTED", "PARTIALLY_FILLED", "FILLED", "CANCELING",
             "CANCELED", "EXPIRED", "CANCEL_FAILED"}
       [] s = "CANCEL_FAILED" -> {"CANCEL_FAILED", "CANCELING", "CANCELED"}
       [] OTHER -> {}]

STATUS_TRANSITIONS ==
  [s \in OrderStatuses |->
     CASE s = "PENDING" ->
            {"PENDING", "CANCELED", "CANCELING", "ACCEPTED",
             "PARTIALLY_FILLED", "FILLED", "CANCEL_FAILED", "FAILED"}
       [] s = "CANCELING" -> {"CANCELED", "PARTIALLY_FILLED", "FILLED"}
       [] s \in {"ACCEPTED", "PARTIALLY_FILLED"} ->
            {"ACCEPTED", "PARTIALLY_FILLED", "FILLED", "CANCELING",
             "CANCELED", "EXPIRED", "CANCEL_FAILED"}
       [] s = "CANCEL_FAILED" ->
            {"CANCEL_FAILED", "CANCELING", "CANCELED", "FILLED"}
       [] OTHER -> {}]

\* The statuses that can follow s; an order never seen may take any.
StatusesAfter(s) == IF s = NoStatus THEN OrderStatuses ELSE STATUS_TRANSITIONS[s]
=============================================================================
