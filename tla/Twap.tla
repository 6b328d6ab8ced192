--------------------------------- MODULE Twap ---------------------------------
(***************************************************************************)
(* One execution of the TWAP algorithm (execution/algorithms/twap.py on    *)
(* top of execution/algorithm.py): a total amount is cut into slices, one  *)
(* is placed at each interval as a market or as a limit order, and what a  *)
(* limit order has not filled by the next interval is taken to market.     *)
(*                                                                         *)
(* The algorithm decides on what the cache shows of an order; the venue    *)
(* fills and closes it on its own.  Amounts are counted in lots.  The      *)
(* filled events of the OMS do not reach the algorithm (it subscribes to   *)
(* topics, the OMS sends to endpoints), so remaining_amount, which no      *)
(* decision here depends on, is left out.  A carried amount is consumed    *)
(* by the call that sets it aside: it is no state between two events.      *)
(***************************************************************************)
EXTENDS Integers, Sequences, FiniteSets, SequencesExt

CONSTANT Commands   \* the commands that may come, with the fields of "command" below

ASSUME TwapAssumption ==
  \A c \in Commands :
    /\ {c.total, c.slices, c.minAmount} \subseteq Nat \ {0}
    /\ c.useLimit \in BOOLEAN

VARIABLES
  command,    \* total_amount, floor(horizon_secs / interval_secs),
              \* min_order_amount and use_limit of the execution
  status,     \* ExecAlgorithmOrder.status, "NONE" before the command
  schedule,   \* _scheduled_sizes
  timer,      \* TRUE: the timer is set
  due,        \* TRUE: the timer has gone off and its callback has not run
  orders,     \* spawned_oids, in order
  limitOid,   \* _current_limit_oid, 0 for none
  skipped     \* what the last timer event found too small to take

vars == <<command, status, schedule, timer, due, orders, limitOid, skipped>>

Statuses == {"NONE", "RUNNING", "CANCELED", "COMPLETED", "FAILED"}
Amounts == 0 .. command.total

\* A spawned order: how the venue has it, how the cache shows it, whether the
\* algorithm has cancelled it, whether it gave the order up because the cache did
\* not show it, and the amount the algorithm counts on from it.
Order ==
  [limit : BOOLEAN, amount : Amounts, counted : Amounts,
   place : {"sent", "live", "done"}, filled : Amounts,
   seen : {"NONE", "OPEN", "CLOSED"}, seenFilled : Amounts,
   cancel : BOOLEAN, missed : BOOLEAN]

Init ==
  /\ command \in Commands
  /\ status = "NONE" /\ schedule = <<>> /\ timer = FALSE /\ due = FALSE
  /\ orders = <<>> /\ limitOid = 0 /\ skipped = 0

-----------------------------------------------------------------------------
(* Spawning.  A plan is what one event of the algorithm does to the orders. *)

NewOrder(limit, amount) ==
  [limit |-> limit, amount |-> amount, counted |-> amount, place |-> "sent", filled |-> 0,
   seen |-> "NONE", seenFilled |-> 0, cancel |-> FALSE, missed |-> FALSE]

\* spawn_market, spawn_limit
Spawn(plan, limit, amount) ==
  [plan EXCEPT !.orders = Append(@, NewOrder(limit, amount)),
               !.limitOid = IF limit THEN Len(plan.orders) + 1 ELSE 0]

Unfilled(plan) == plan.orders[plan.limitOid].amount - plan.orders[plan.limitOid].seenFilled
Tracked(plan) == plan.limitOid # 0 /\ plan.orders[plan.limitOid].seen = "OPEN"

\* An order the cache does not show, or shows closed, is no longer followed.
Unfollow(plan) ==
  IF plan.limitOid = 0 THEN plan
  ELSE [plan EXCEPT !.limitOid = 0,
                    !.orders[plan.limitOid].missed = plan.orders[plan.limitOid].seen = "NONE"]

\* cancel_spawned_order: from here on only what the cache showed filled counts.
CancelTracked(plan) ==
  [plan EXCEPT !.orders[plan.limitOid].cancel = TRUE,
               !.orders[plan.limitOid].counted = plan.orders[plan.limitOid].seenFilled,
               !.limitOid = 0]

\* Mutant: the unfilled order is left where it is.
TakeOverWithoutCancel(plan) ==
  IF ~ Tracked(plan) THEN Unfollow(plan)
  ELSE Spawn(plan, FALSE, Unfilled(plan))

\* Mutant: what is too small for a market order is forgotten.
TakeOverNoCarry(plan) ==
  IF ~ Tracked(plan) THEN Unfollow(plan)
  ELSE LET rest == Unfilled(plan)
           canceled == CancelTracked(plan)
       IN  IF rest >= command.minAmount THEN Spawn(canceled, FALSE, rest) ELSE canceled

\* _handle_previous_limit_order
TakeOver(plan) ==
  IF ~ Tracked(plan) THEN Unfollow(plan)
  ELSE LET rest == Unfilled(plan)
           canceled == CancelTracked(plan)
       IN  IF rest >= command.minAmount THEN Spawn(canceled, FALSE, rest)
           ELSE [canceled EXCEPT !.rest = rest]

\* _execute_slice.  min_order_amount has needed a book already, so there is one.
ExecuteSlice(plan, amount) ==
  IF ~ command.useLimit THEN Spawn(plan, FALSE, amount)
  ELSE LET after == TakeOver(plan)
       IN  Spawn([after EXCEPT !.rest = 0], TRUE, amount + after.rest)

\* _handle_final_limit_order: what is too small is skipped.
TakeFinal(plan) ==
  IF ~ Tracked(plan) THEN Unfollow(plan)
  ELSE LET rest == Unfilled(plan)
           canceled == CancelTracked(plan)
       IN  IF rest >= command.minAmount THEN Spawn(canceled, FALSE, rest)
           ELSE [canceled EXCEPT !.rest = rest]

Plan == [orders |-> orders, limitOid |-> limitOid, rest |-> 0]

-----------------------------------------------------------------------------
(* The events of the algorithm.                                             *)

Slice == command.total \div command.slices
Remainder == command.total - Slice * command.slices
FullSchedule == [i \in 1 .. command.slices |-> Slice]


\* The slices of on_order: a remainder that is no larger than the smallest
\* order is dropped.
Schedule ==
  IF Remainder > command.minAmount
  THEN [FullSchedule EXCEPT ![command.slices] = @ + Remainder]
  ELSE FullSchedule
Dropped == IF Remainder > command.minAmount THEN 0 ELSE Remainder

\* Missing parameters, or a horizon shorter than the interval.
RefuseCommand ==
  /\ status = "NONE"
  /\ status' = "FAILED"
  /\ UNCHANGED <<command, schedule, timer, due, orders, limitOid, skipped>>

\* Without a book min_order_amount raises in on_order, after the execution was
\* recorded as running.
ExecuteRaises ==
  /\ status = "NONE"
  /\ status' = "RUNNING"
  /\ UNCHANGED <<command, schedule, timer, due, orders, limitOid, skipped>>

\* mark_complete ends in _cleanup_timer.
Complete(plan) ==
  /\ status' = "COMPLETED"
  /\ orders' = plan.orders
  /\ schedule' = <<>> /\ timer' = FALSE /\ limitOid' = 0

\* Mutant: the timer fires once and is not set again.
GoesOnce(plan, left) ==
  /\ status' = "RUNNING"
  /\ orders' = plan.orders /\ limitOid' = plan.limitOid
  /\ schedule' = left /\ timer' = (status = "NONE")

Goes(plan, left) ==
  /\ status' = "RUNNING"
  /\ orders' = plan.orders /\ limitOid' = plan.limitOid
  /\ schedule' = left /\ timer' = TRUE

\* on_order: everything at once if a slice is too small, else the first slice.
Execute ==
  /\ status = "NONE"
  /\ IF Slice < command.minAmount
     THEN Complete(ExecuteSlice(Plan, command.total))
     ELSE LET first == ExecuteSlice(Plan, Head(Schedule))
          IN  IF command.slices = 1 THEN Complete(first) ELSE Goes(first, Tail(Schedule))
  /\ UNCHANGED <<command, due, skipped>>

\* The clock queues the callback, whether or not the creates were answered.
IntervalPasses ==
  /\ timer /\ ~ due
  /\ due' = TRUE
  /\ UNCHANGED <<command, status, schedule, timer, orders, limitOid, skipped>>

\* _on_timer_event with slices left.
PlaceSlice ==
  /\ due /\ due' = FALSE
  /\ status = "RUNNING" /\ schedule # <<>>
  /\ Goes(ExecuteSlice(Plan, Head(schedule)), Tail(schedule))
  /\ UNCHANGED <<command, skipped>>

\* _on_timer_event with none left: the interval after the last slice.
Finish ==
  /\ due /\ due' = FALSE
  /\ status = "RUNNING" /\ schedule = <<>>
  /\ Complete(TakeFinal(Plan))
  /\ skipped' = TakeFinal(Plan).rest
  /\ UNCHANGED command

\* _on_timer_event of a callback queued before the execution was canceled.
TooLate ==
  /\ due /\ due' = FALSE
  /\ status # "RUNNING"
  /\ schedule' = <<>> /\ timer' = FALSE /\ limitOid' = 0
  /\ UNCHANGED <<command, status, orders, skipped>>

\* _handle_cancel_execution and on_cancel, in whatever status it finds the
\* execution: the orders the cache shows open are canceled.
CancelExecution ==
  /\ status # "NONE"
  /\ status' = "CANCELED"
  /\ orders' = [i \in DOMAIN orders |->
                  [orders[i] EXCEPT !.cancel = @ \/ orders[i].seen = "OPEN",
                                     !.missed = @ \/ orders[i].seen = "NONE"]]
  /\ schedule' = <<>> /\ timer' = FALSE /\ limitOid' = 0
  /\ UNCHANGED <<command, due, skipped>>

-----------------------------------------------------------------------------
(* The venue, and what the cache learns of it.                              *)

OrderStep(i, order) ==
  /\ orders' = [orders EXCEPT ![i] = order]
  /\ UNCHANGED <<command, status, schedule, timer, due, limitOid, skipped>>

VenueTakes(i) ==
  /\ orders[i].place = "sent"
  /\ \E p \in {"live", "done"} : OrderStep(i, [orders[i] EXCEPT !.place = p])

VenueFills(i) ==
  /\ orders[i].place = "live"
  /\ \E f \in orders[i].filled + 1 .. orders[i].amount :
       OrderStep(i, [orders[i] EXCEPT !.filled = f,
                                      !.place = IF f = orders[i].amount THEN "done" ELSE @])

VenueCancels(i) ==
  /\ orders[i].place = "live" /\ orders[i].cancel
  /\ OrderStep(i, [orders[i] EXCEPT !.place = "done"])

\* The answer of the create or a report reaches the cache.
CacheSees(i) ==
  /\ orders[i].place # "sent"
  /\ LET order == [orders[i] EXCEPT !.seen = IF orders[i].place = "done" THEN "CLOSED" ELSE "OPEN",
                                    !.seenFilled = orders[i].filled]
     IN  order # orders[i] /\ OrderStep(i, order)

Venue == \E i \in DOMAIN orders : VenueTakes(i) \/ VenueFills(i) \/ VenueCancels(i) \/ CacheSees(i)
Timer == PlaceSlice \/ Finish \/ TooLate

Next == RefuseCommand \/ ExecuteRaises \/ Execute \/ IntervalPasses \/ Timer \/ CancelExecution \/ Venue

Spec == Init /\ [][Next]_vars

\* The timer goes off at every interval and its callback runs.
FairSpec == Spec /\ WF_vars(IntervalPasses) /\ WF_vars(Timer)

-----------------------------------------------------------------------------
(* Properties.                                                              *)

Counted(os) == FoldLeft(LAMBDA total, order : total + order.counted, 0, os)
Total(s) == FoldLeft(LAMBDA total, amount : total + amount, 0, s)

Submitted == Counted(orders)
Scheduled == Total(schedule)

\* Every lot is scheduled, counted on from exactly one order, skipped at the
\* end or dropped at the start: limit orders taken over neither lose nor
\* double an amount in the algorithm's books.
AmountsAccounted ==
  /\ timer => Submitted + Scheduled + Dropped = command.total
  /\ status = "COMPLETED" =>
       Submitted + skipped + (IF Slice < command.minAmount THEN 0 ELSE Dropped) = command.total

AtOnce == command.slices = 1 \/ Slice < command.minAmount

\* No order is left working unattended: of the limit orders of a running or
\* completed execution, and of all orders of a canceled one, each is closed,
\* being canceled or the one the next timer event looks at, unless the cache
\* did not show it when the algorithm gave it up.  (An execution placed at once
\* completes with its order working, as the code means it to.)
NoOrderUnattended ==
  \A i \in DOMAIN orders :
    /\ status = "CANCELED" \/ (orders[i].limit /\ ~ AtOnce)
    /\ orders[i].place # "done"
    => orders[i].cancel \/ orders[i].missed \/ i = limitOid

\* Every execution that has placed an order comes to an end.
ExecutionEnds == status = "RUNNING" /\ orders # <<>> ~> status # "RUNNING"
=============================================================================
