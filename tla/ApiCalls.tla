------------------------------ MODULE ApiCalls ------------------------------
(***************************************************************************)
(* The way of a request through the client of one account: the windows of  *)
(* the rate limiter, the attempts of the RetryManager, the venue's answer, *)
(* and the cancellation of every task when the engine is disposed of.      *)
(*                                                                         *)
(* Orders are submitted by the consumer of the account's queue, which      *)
(* awaits some of them itself and starts a task for any other; a query     *)
(* holds the event loop; the listen key is kept alive by a task.           *)
(***************************************************************************)
EXTENDS ApiLimits, FiniteSets

CONSTANTS
  N,             \* requests; the orders among them are queued in their order
  UsedAccounts,  \* the accounts looked at
  UsedOps,       \* the operations looked at
  Quotas,        \* Quotas[a]: the quota of each window (scaled)
  MaxRetries     \* max_retries of the account's configuration

Calls == 1 .. N

ASSUME ApiCallsAssumption ==
  /\ N \in Nat /\ BatchSize \in Nat \ {0} /\ MaxRetries \in Nat /\ UsedAccounts \subseteq Accounts

VARIABLES
  account,    \* the account of this client
  product,    \* what the orders are of
  op,         \* the operation of each call
  at,         \* how far each call has come
  step,       \* the window of its path a call waits at
  tries,      \* how often a call was tried again
  used,       \* what was taken of each window
  done,       \* calls the venue carried out
  unsure,     \* of them, those of which an attempt ended without its answer
  verdict,    \* what became of each call, as the program has it
  consumer,   \* the consumer's task: runs or has ended
  swallowed,  \* calls whose cancellation ended in RetryManager.run
  phase,      \* of the engine: open, canceled, its wait given up, saved
  after       \* orders sent after the tasks were canceled

apiVars == <<account, product, op, at, step, tries, used, done, unsure, verdict,
             consumer, swallowed, phase, after>>

OrderOps == {"create", "create_ws", "tp_sl", "batch", "cancel", "cancel_ws", "modify", "cancel_all"}

\* The windows of every request.
Paths   == [a \in UsedAccounts |-> [p \in Products(a) |->
              [o \in UsedOps \cap Operations(a) |-> Windows(a, p, o)]]]
Path(c) == Paths[account][product][op[c]]

IsRest(c)   == op[c] \notin WsOps \cup SyncOps
Underway(c) == at[c] \notin {"idle", "over"}

\* _handle_submit_order awaits these itself.
Awaited(c) ==
  \/ op[c] \in {"batch", "tp_sl"}
  \/ account = "hyperliquid" /\ op[c] \in {"create", "create_ws"}

\* Hyperliquid's client has no RetryManager.
HasRetryManager == account # "hyperliquid"

\* retry_check knows the error.  Bitget's codes come as strings, and its table
\* holds numbers.
TriedAgain == HasRetryManager /\ account \notin BitgetAccounts

\* ThrottledSync and httpx.Client hold the event loop until they are done.
LoopFree(c) == \A d \in Calls \ {c} : ~ (op[d] \in SyncOps /\ Underway(d))

ApiInit ==
  /\ account \in UsedAccounts
  /\ product \in Products(account)
  /\ op \in [Calls -> UsedOps \cap Operations(account)]
  /\ at = [c \in Calls |-> "idle"] /\ step = [c \in Calls |-> 1] /\ tries = [c \in Calls |-> 0]
  /\ used = [w \in AllWindows(account, product) |-> 0]
  /\ done = {} /\ unsure = {} /\ verdict = [c \in Calls |-> "none"]
  /\ consumer = "runs" /\ swallowed = {} /\ phase = "open" /\ after = {}

-----------------------------------------------------------------------------
(* The windows.                                                             *)

RoomFor(w) == used[w.window] + w.cost <= Quotas[account][w.window[2]]

\* The windows of c's path that are full, from the one it is at.
Full(c) == {i \in step[c] .. Len(Path(c)) : ~ RoomFor(Path(c)[i])}

\* What is taken of the windows from the one c is at up to the one before i:
\* nothing is given back when a later one refuses.
Taken(c, i) ==
  [w \in DOMAIN used |->
    used[w] + (IF \E j \in step[c] .. i - 1 : Path(c)[j].window = w
               THEN Path(c)[CHOOSE j \in step[c] .. i - 1 : Path(c)[j].window = w].cost ELSE 0)]

\* An exception of the limiter or of the request: an order over REST is posted
\* as failed, any other call raises.
Raised(c) == IF IsRest(c) /\ op[c] \in OrderOps THEN "failed" ELSE "raised"

\* An exception out of a coroutine the consumer awaits ends the consumer.
Over(c, v) ==
  /\ at' = [at EXCEPT ![c] = "over"]
  /\ verdict' = [verdict EXCEPT ![c] = v]
  /\ consumer' = IF Awaited(c) /\ v = "raised" THEN "ended" ELSE consumer

\* The request leaves.  Over the WebSocket API nothing is awaited after that:
\* the answer comes as a message, if it comes.
Leave(c) ==
  /\ used' = Taken(c, Len(Path(c)) + 1)
  /\ after' = IF phase # "open" THEN after \cup {c} ELSE after
  /\ IF op[c] \in WsOps
     THEN Over(c, "sent")
     ELSE at' = [at EXCEPT ![c] = "sent"] /\ UNCHANGED <<verdict, consumer>>
  /\ UNCHANGED <<account, product, op, step, tries, done, unsure, swallowed, phase>>

\* A window without room refuses the request, unless the request waits there.
Stopped(c) ==
  LET i == CHOOSE j \in Full(c) : \A k \in Full(c) : j <= k IN
  /\ used' = Taken(c, i)
  /\ IF Path(c)[i].waits
     THEN /\ at' = [at EXCEPT ![c] = "waiting"] /\ step' = [step EXCEPT ![c] = i]
          /\ UNCHANGED <<verdict, consumer>>
     ELSE Over(c, Raised(c)) /\ UNCHANGED step
  /\ UNCHANGED <<account, product, op, tries, done, unsure, swallowed, phase, after>>

\* A request takes of one window after the other, in one step of the event loop
\* as far as there is room.
AskWindows(c) == IF Full(c) = {} THEN Leave(c) ELSE Stopped(c)

\* The next submission of the queue, when the consumer is not in one.
Consume(c) ==
  /\ op[c] \in OrderOps /\ at[c] = "idle" /\ LoopFree(c) /\ consumer = "runs"
  /\ \A d \in Calls : d < c /\ op[d] \in OrderOps => at[d] # "idle"
  /\ \A d \in Calls : ~ (Awaited(d) /\ Underway(d))
  /\ AskWindows(c)

\* A query of the strategy, and the task that keeps the listen key alive.
Ask(c) == op[c] \notin OrderOps /\ at[c] = "idle" /\ phase = "open" /\ LoopFree(c) /\ AskWindows(c)

\* Room at last, or the end of the patience of limit().
GoOn(c)   == at[c] = "waiting" /\ LoopFree(c) /\ step[c] \notin Full(c) /\ AskWindows(c)
GiveUp(c) ==
  /\ at[c] = "waiting" /\ LoopFree(c) /\ step[c] \in Full(c)
  /\ Over(c, Raised(c))
  /\ UNCHANGED <<account, product, op, step, tries, used, done, unsure, swallowed, phase, after>>

\* A window's time is over.  Looked at where a call lacks its room.
WindowEnds(w) ==
  /\ used[w] > 0
  /\ \E c \in Calls : at[c] \in {"idle", "waiting"} /\ \E i \in Full(c) : Path(c)[i].window = w
  /\ used' = [used EXCEPT ![w] = 0]
  /\ UNCHANGED <<account, product, op, at, step, tries, done, unsure, verdict, consumer,
                 swallowed, phase, after>>

-----------------------------------------------------------------------------
(* The attempts.                                                            *)

\* An id is placed once, and an order canceled once.
Once(c) == op[c] \in {"create", "tp_sl", "batch", "cancel"}

\* The venue takes the request or refuses it; it may also answer with an error
\* that says to try again, or the answer does not come in the client's time:
\* then the request may have been carried out all the same.
Attempt(c) ==
  /\ at[c] = "sent"
  /\ \E answer \in {"ok", "refused", "busy", "broken"}, carried \in BOOLEAN :
       /\ answer = "ok" => carried /\ ~ (Once(c) /\ c \in done)
       /\ answer = "refused" => ~ carried
       /\ at' = [at EXCEPT ![c] = answer]
       /\ done' = IF carried THEN done \cup {c} ELSE done
       /\ unsure' = IF carried /\ answer # "ok" THEN unsure \cup {c} ELSE unsure
  /\ UNCHANGED <<account, product, op, step, tries, used, verdict, consumer, swallowed, phase,
                 after>>

MayRetry(c) == at[c] = "busy" /\ IsRest(c) /\ TriedAgain /\ tries[c] < MaxRetries

\* RetryManager.run sleeps and tries again; the limiter is not asked for that.
Retry(c) ==
  /\ MayRetry(c) /\ LoopFree(c)
  /\ at' = [at EXCEPT ![c] = "sent"] /\ tries' = [tries EXCEPT ![c] = @ + 1]
  /\ UNCHANGED <<account, product, op, step, used, done, unsure, verdict, consumer, swallowed,
                 phase, after>>

\* Mutant: what could not be tried any more is taken for answered.
EndAsNone(c) ==
  /\ at[c] \in {"ok", "refused", "busy", "broken"} /\ ~ MayRetry(c) /\ LoopFree(c)
  /\ Over(c, IF at[c] \in {"ok", "busy"} THEN "ok" ELSE Raised(c))
  /\ UNCHANGED <<account, product, op, step, tries, used, done, unsure, swallowed, phase, after>>

\* The answer or the last exception goes to the caller.
End(c) ==
  /\ at[c] \in {"ok", "refused", "busy", "broken"} /\ ~ MayRetry(c) /\ LoopFree(c)
  /\ Over(c, IF at[c] = "ok" THEN "ok" ELSE Raised(c))
  /\ UNCHANGED <<account, product, op, step, tries, used, done, unsure, swallowed, phase, after>>

-----------------------------------------------------------------------------
(* The end of the engine.                                                   *)

\* RetryManager.run answers a cancellation with None, which no decoder takes:
\* the call fails and its task goes on.
Swallows(c) == Underway(c) /\ IsRest(c) /\ HasRetryManager /\ at[c] # "waiting"

\* Mutant: the consumer is not among the tasks of the manager.
ConsumerLeft(cs) ==
  LET kept == {c \in cs : Swallows(c)} IN
  /\ \A c \in Calls : op[c] \in SyncOps => ~ Underway(c)
  /\ at' = [c \in Calls |-> IF c \in cs THEN "over" ELSE at[c]]
  /\ verdict' = [c \in Calls |-> IF c \in kept THEN Raised(c)
                                 ELSE IF c \in cs THEN "gone" ELSE verdict[c]]
  /\ unsure' = unsure \cup (kept \cap done)
  /\ swallowed' = swallowed \cup kept
  /\ UNCHANGED <<account, product, op, step, tries, used, done, consumer, after>>

\* The tasks of cs are canceled, among them the consumer.
CancelTasks(cs) ==
  LET kept == {c \in cs : Swallows(c)} IN
  /\ \A c \in Calls : op[c] \in SyncOps => ~ Underway(c)
  /\ at' = [c \in Calls |-> IF c \in cs THEN "over" ELSE at[c]]
  /\ verdict' = [c \in Calls |-> IF c \in kept THEN Raised(c)
                                 ELSE IF c \in cs THEN "gone" ELSE verdict[c]]
  /\ unsure' = unsure \cup (kept \cap done)
  /\ swallowed' = swallowed \cup kept
  /\ consumer' = IF \E c \in kept : Awaited(c) THEN consumer ELSE "ended"
  /\ UNCHANGED <<account, product, op, step, tries, used, done, after>>

\* TaskManager.cancel
CancelAll ==
  /\ phase = "open" /\ phase' = "canceled"
  /\ CancelTasks({c \in Calls : Underway(c)})

\* Mutant: the tasks that are left are not canceled once more.
LeftToTheirEnd ==
  /\ phase = "canceled" /\ consumer = "runs" /\ phase' = "given_up"
  /\ UNCHANGED <<account, product, op, at, step, tries, used, done, unsure, verdict, consumer,
                 swallowed, after>>

\* Its wait for the tasks times out, which cancels those that are left once
\* more, but not the ones started since; then it waits for their end.
CancelTimesOut ==
  /\ phase = "canceled" /\ consumer = "runs" /\ phase' = "given_up"
  /\ CancelTasks({c \in Calls : Underway(c) /\ Awaited(c)})

\* The cache is closed, and the process ends.
Save ==
  /\ phase \in {"canceled", "given_up"} /\ consumer = "ended"
  /\ phase' = "saved"
  /\ UNCHANGED <<account, product, op, at, step, tries, used, done, unsure, verdict, consumer,
                 swallowed, after>>

CallStep(c) == Ask(c) \/ Consume(c) \/ GoOn(c) \/ GiveUp(c) \/ Attempt(c) \/ Retry(c)
               \/ End(c)
Dispose == CancelAll \/ CancelTimesOut \/ Save
ApiNext ==
  /\ phase # "saved"
  /\ Dispose \/ (\E c \in Calls : CallStep(c)) \/ (\E w \in DOMAIN used : WindowEnds(w))

\* Tasks run, a request ends with its timeout, the wait for the tasks with its own.
Fairness == WF_apiVars(phase # "saved" /\ \E c \in Calls : CallStep(c)) /\ WF_apiVars(CancelTimesOut \/ Save)
ApiSpec == ApiInit /\ [][ApiNext]_apiVars /\ Fairness

-----------------------------------------------------------------------------
(* Correctness.                                                             *)

\* What the program holds of a call is so on the venue: one that was answered
\* was carried out, one that failed was not, unless an attempt the venue did
\* carry out ended without its answer.
VerdictIsTrue ==
  \A c \in Calls :
    /\ verdict[c] = "ok" => c \in done
    /\ verdict[c] \in {"failed", "raised"} /\ c \in done => c \in unsure

\* No order is sent once the tasks are canceled, but by a consumer whose
\* cancellation was swallowed while it awaited an order.
NothingSentAfterCancel ==
  after # {} => \E c \in swallowed : Awaited(c)

\* The engine gets to save its state, unless the cancellation of the consumer
\* was swallowed twice: then it waits for the queue for ever.
ShutdownEnds ==
  (phase = "canceled") ~>
    (phase = "saved" \/ Cardinality({c \in swallowed : Awaited(c)}) >= 2)
=============================================================================
