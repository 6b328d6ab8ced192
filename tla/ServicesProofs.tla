---------------------------- MODULE ServicesProofs ----------------------------
(***************************************************************************)
(* The two services every connector of the process calls: the cache with   *)
(* its database, and the REST and WebSocket API clients.                   *)
(*                                                                         *)
(* What get_order answers and what an orderly stop leaves in the database, *)
(* for every set of orders and parameters and through any number of        *)
(* reports, copies, evictions, failures, crashes and restarts (CacheSync). *)
(*                                                                         *)
(* What the program holds of a request is true, and nothing is sent after  *)
(* the tasks are canceled, for any number of requests, any windows and any *)
(* number of attempts (ApiCalls).                                          *)
(***************************************************************************)
EXTENDS CacheSync, ApiCalls, TLAPS

-----------------------------------------------------------------------------
(* CacheSync: the invariant.                                                *)

Stamped == Orders \ Placed
Copying == {"orders", "between", "params"}

\* Memory or, where it holds nothing, the table shows the last status reported;
\* what was never reported nor saved is not held.
AnswersAreCurrent ==
  pc \in Running => \A o \in Stamped :
    /\ told[o] # NoStatus => GetOrder(o) = told[o]
    /\ told[o] = NoStatus /\ rows[o] = NoStatus => mem[o] = NoStatus

\* The table once the round has committed the orders.
Committed == IF pc = "orders" THEN MergeOrders(rows, snap) ELSE rows

\* During a round an order reported since its copy is held and will not be
\* evicted at its end; any other is in the table once the orders are committed.
RoundIsSafe ==
  pc \in Copying => \A o \in Stamped :
    IF o \in unsaved THEN o \notin old /\ mem[o] # NoStatus
    ELSE told[o] # NoStatus => Committed[o] = told[o]

CacheInv == AnswersAreCurrent /\ RoundIsSafe /\ StopSavesEverything

-----------------------------------------------------------------------------
(* Types.                                                                   *)

LEMMA StatusFacts ==
  /\ NoStatus \notin Reported
  /\ Reported \subseteq OrderStatuses
  /\ \A s \in Reported : s \in StatusesAfter(NoStatus)
BY DEF NoStatus, Reported, OrderStatuses, StatusesAfter

\* Where the sync task can stand.
LEMMA PcFacts ==
  /\ Copying \subseteq Running /\ Syncing \subseteq Running
  /\ "sleep" \in Running \ Copying /\ "dead" \in Running \ Copying
  /\ "stopped" \notin Running /\ "crashed" \notin Running
  /\ {"orders", "between", "params"} \subseteq Copying
BY DEF Copying, Running, Syncing

\* What a commit leaves in the table of orders.
LEMMA MergeOrdersType ==
  ASSUME NEW table \in [Orders -> Statuses], NEW held \in [Orders -> Statuses]
  PROVE  /\ MergeOrders(table, held) \in [Orders -> Statuses]
         /\ \A o \in Orders : MergeOrders(table, held)[o]
                = IF held[o] = NoStatus THEN table[o] ELSE held[o]
BY DEF MergeOrders

\* What a commit leaves in the table of parameters.
LEMMA MergeParamsType ==
  ASSUME NEW table \in [Keys -> Parameters], NEW held \in [Keys -> Parameters]
  PROVE  /\ MergeParams(table, held) \in [Keys -> Parameters]
         /\ \A k \in Keys : MergeParams(table, held)[k]
                = IF held[k] = Unset THEN table[k] ELSE held[k]
BY DEF MergeParams

\* What an eviction leaves in memory.
LEMMA EvictedType ==
  ASSUME NEW held \in [Orders -> Statuses]
  PROVE  /\ Evicted(held) \in [Orders -> Statuses]
         /\ \A o \in Orders : Evicted(held)[o] = IF o \in old THEN NoStatus ELSE held[o]
BY DEF Evicted, Statuses

\* Every variable keeps its type, for every instance: in particular the copy in
\* progress is there exactly while a call writes it.
THEOREM TypeCorrect == Spec => []TypeOK
<1>1. Init => TypeOK
  BY CacheSyncAssumption DEF Init, TypeOK, NoOrders, NoParams, Statuses, Parameters
<1>2. TypeOK /\ [Next]_vars => TypeOK'
  <2> SUFFICES ASSUME TypeOK, [Next]_vars PROVE TypeOK'
    OBVIOUS
  <2> USE CacheSyncAssumption, StatusFacts DEF TypeOK
  <2>1. CASE Start
    BY <2>1 DEF Start, diskVars, NoOrders, Statuses, Running, Syncing
  <2>2. ASSUME NEW o \in Orders, NEW s \in Reported, Report(o, s) PROVE TypeOK'
    BY <2>2 DEF Report, diskVars, Statuses
  <2>3. ASSUME NEW o \in Orders, Age(o) PROVE TypeOK'
    BY <2>3 DEF Age, diskVars
  <2>4. ASSUME NEW o \in Orders, Reload(o) PROVE TypeOK'
    BY <2>4 DEF Reload, diskVars
  <2>5. ASSUME NEW k \in Keys, NEW v \in Values, SetParam(k, v) PROVE TypeOK'
    BY <2>5 DEF SetParam, diskVars, Parameters
  <2>6. ASSUME NEW k \in Keys, ClearParam(k) PROVE TypeOK'
    BY <2>6 DEF ClearParam, diskVars, Parameters
  <2>7. CASE CopyOrders
    BY <2>7 DEF CopyOrders, diskVars, Running, Syncing
  <2>8. CASE CommitOrders
    <3>1. snap \in [Orders -> Statuses]
      BY <2>8 DEF CommitOrders
    <3>2. /\ rows' \in [Orders -> Statuses]
          /\ \A o \in Orders : rows[o] # NoStatus => rows'[o] # NoStatus
      BY <2>8, <3>1, MergeOrdersType DEF CommitOrders
    <3> QED
      BY <2>8, <3>2 DEF CommitOrders, dataVars, Running, Syncing
  <2>9. CASE CopyParams
    BY <2>9 DEF CopyParams, dataVars, diskVars, Running, Syncing
  <2>10. CASE CommitParams
    <3>1. snap \in [Keys -> Parameters]
      BY <2>10 DEF CommitParams
    <3>2. prows' \in [Keys -> Parameters] /\ mem' \in [Orders -> Statuses]
      BY <2>10, <3>1, MergeParamsType, EvictedType DEF CommitParams
    <3> QED
      BY <2>10, <3>2 DEF CommitParams, Running, Syncing
  <2>11. CASE SyncRaises \/ Crash
    BY <2>11 DEF SyncRaises, Crash, dataVars, diskVars, Running
  <2>12. CASE Stop \/ StopFails
    <3>1. /\ rows' \in [Orders -> Statuses] /\ prows' \in [Keys -> Parameters]
          /\ \A o \in Orders : rows[o] # NoStatus => rows'[o] # NoStatus
      BY <2>12, MergeOrdersType, MergeParamsType DEF Stop, StopFails
    <3> QED
      BY <2>12, <3>1 DEF Stop, StopFails, dataVars
  <2>13. CASE UNCHANGED vars
    BY <2>13 DEF vars
  <2> QED
    BY <2>1, <2>2, <2>3, <2>4, <2>5, <2>6, <2>7, <2>8, <2>9, <2>10, <2>11, <2>12, <2>13
    DEF Next, Loop, Sync
<1> QED
  BY <1>1, <1>2, PTL DEF Spec
-----------------------------------------------------------------------------
(* The invariant.                                                           *)

\* A report of an order that is reported with its own time, when memory and
\* table agree with what was told before, is taken by the cache.
LEMMA ReportIsTaken ==
  ASSUME TypeOK, AnswersAreCurrent, NEW o \in Stamped, NEW s \in Reported, Report(o, s)
  PROVE  mem' = [mem EXCEPT ![o] = s]
<1>1. o \in Orders /\ pc \in Running
  BY DEF Stamped, Report
<1>2. CASE mem[o] = NoStatus
  BY <1>1, <1>2, StatusFacts DEF Report
<1>3. CASE mem[o] # NoStatus
  <2>1. told[o] # NoStatus /\ mem[o] = told[o]
    BY <1>1, <1>3 DEF Report, AnswersAreCurrent, GetOrder
  <2> QED
    BY <1>1, <2>1 DEF Report
<1> QED
  BY <1>2, <1>3

\* A status is reported between two steps of a round.
LEMMA ReportKeeps ==
  ASSUME TypeOK, CacheInv, NEW o \in Orders, NEW s \in Reported, Report(o, s)
  PROVE  CacheInv'
<1>0. AnswersAreCurrent /\ RoundIsSafe
  BY DEF CacheInv
<1>1. pc \in Running /\ pc' = pc /\ UNCHANGED <<rows, snap>>
  BY DEF Report, diskVars
<1>2. ASSUME NEW p \in Stamped, p # o
      PROVE  /\ told'[p] = told[p] /\ mem'[p] = mem[p]
             /\ p \in old' <=> p \in old
             /\ p \in unsaved' <=> p \in unsaved
  BY <1>2 DEF Report, Stamped, TypeOK
<1>3. ASSUME o \in Stamped
      PROVE  told'[o] = s /\ mem'[o] = s /\ s # NoStatus /\ o \notin old' /\ o \in unsaved'
  <2>1. mem' = [mem EXCEPT ![o] = s]
    BY <1>0, <1>3, ReportIsTaken
  <2> QED
    BY <1>3, <2>1, StatusFacts DEF Report, Stamped, TypeOK
<1>4. AnswersAreCurrent'
  BY <1>0, <1>1, <1>2, <1>3 DEF AnswersAreCurrent, GetOrder
<1>5. RoundIsSafe'
  BY <1>0, <1>1, <1>2, <1>3 DEF RoundIsSafe, Committed
<1>6. StopSavesEverything'
  BY <1>1, PcFacts DEF StopSavesEverything
<1> QED
  BY <1>4, <1>5, <1>6 DEF CacheInv

\* Every step of a round keeps the invariant.
LEMMA SyncKeeps ==
  ASSUME TypeOK, CacheInv, Sync
  PROVE  CacheInv'
<1> USE DEF CacheInv, TypeOK, Stamped
<1>1. CASE CopyOrders
  <2>1. /\ pc = "sleep" /\ pc' = "orders" /\ snap' = mem /\ unsaved' = {}
        /\ UNCHANGED <<mem, told, old, rows>>
    BY <1>1 DEF CopyOrders, diskVars
  <2>2. AnswersAreCurrent'
    BY <2>1, PcFacts DEF AnswersAreCurrent, GetOrder
  <2>3. \A o \in Orders : Committed'[o] = GetOrder(o)
    BY <2>1, MergeOrdersType DEF Committed, GetOrder
  <2>4. RoundIsSafe'
    BY <2>1, <2>3, PcFacts DEF RoundIsSafe, AnswersAreCurrent
  <2> QED
    BY <2>1, <2>2, <2>4 DEF StopSavesEverything
<1>2. CASE CommitOrders
  <2>1. /\ pc = "orders" /\ pc' = "between" /\ rows' = MergeOrders(rows, snap)
        /\ UNCHANGED <<mem, told, old, unsaved>>
    BY <1>2 DEF CommitOrders, dataVars
  <2>2. Committed = rows' /\ Committed' = rows'
    BY <2>1 DEF Committed
  <2>3. \A o \in Orders : rows[o] # NoStatus => rows'[o] # NoStatus
    BY <2>1, MergeOrdersType
  <2>4. RoundIsSafe'
    BY <2>1, <2>2, PcFacts DEF RoundIsSafe
  <2>5. AnswersAreCurrent'
    BY <2>1, <2>2, <2>3, PcFacts DEF AnswersAreCurrent, GetOrder, RoundIsSafe
  <2> QED
    BY <2>1, <2>4, <2>5 DEF StopSavesEverything
<1>3. CASE CopyParams
  <2>1. /\ pc = "between" /\ pc' = "params"
        /\ UNCHANGED <<mem, told, old, unsaved, rows>>
    BY <1>3 DEF CopyParams, dataVars, diskVars
  <2> QED
    BY <2>1, PcFacts DEF AnswersAreCurrent, GetOrder, RoundIsSafe, Committed, StopSavesEverything
<1>4. CASE CommitParams
  <2>1. /\ pc = "params" /\ pc' = "sleep" /\ mem' = Evicted(mem)
        /\ UNCHANGED <<told, old, unsaved, rows>>
    BY <1>4 DEF CommitParams
  <2>2. ASSUME NEW o \in Stamped, o \in old, told[o] # NoStatus
        PROVE  rows[o] = told[o]
    BY <2>1, <2>2, PcFacts DEF RoundIsSafe, Committed
  <2>3. \A o \in Orders : mem'[o] = IF o \in old THEN NoStatus ELSE mem[o]
    BY <2>1, EvictedType
  <2>4. AnswersAreCurrent'
    BY <2>1, <2>2, <2>3, PcFacts DEF AnswersAreCurrent, GetOrder
  <2> QED
    BY <2>1, <2>4, PcFacts DEF RoundIsSafe, StopSavesEverything
<1> QED
  BY <1>1, <1>2, <1>3, <1>4 DEF Sync

\* Memory, the table and the copy in progress keep agreeing with what the venue
\* reported; an eviction finds every order it takes in the table.
THEOREM CacheInvariant == Spec => [](TypeOK /\ CacheInv)
<1>1. Init => CacheInv
  BY PcFacts DEF Init, CacheInv, AnswersAreCurrent, RoundIsSafe, StopSavesEverything,
     Copying, NoOrders, NoParams, Stamped
<1>2. TypeOK /\ CacheInv /\ [Next]_vars => CacheInv'
  <2> SUFFICES ASSUME TypeOK, CacheInv, [Next]_vars PROVE CacheInv'
    OBVIOUS
  <2> USE DEF CacheInv, TypeOK, Stamped
  <2>1. CASE Start
    <3>1. /\ pc' = "sleep" /\ told' = NoOrders /\ mem' = NoOrders
      BY <2>1 DEF Start
    <3> QED
      BY <3>1, PcFacts DEF AnswersAreCurrent, RoundIsSafe, StopSavesEverything, NoOrders
  <2>2. ASSUME NEW o \in Orders, NEW s \in Reported, Report(o, s) PROVE CacheInv'
    BY <2>2, ReportKeeps
  <2>3. ASSUME NEW o \in Orders, Age(o) PROVE CacheInv'
    <3>1. /\ pc \in Running /\ old' = old \cup {o} /\ (pc = "sleep" \/ o \notin unsaved)
          /\ UNCHANGED <<pc, mem, told, unsaved, rows, snap>>
      BY <2>3 DEF Age, diskVars
    <3> QED
      BY <3>1, PcFacts
      DEF AnswersAreCurrent, GetOrder, RoundIsSafe, Committed, StopSavesEverything
  <2>4. ASSUME NEW o \in Orders, Reload(o) PROVE CacheInv'
    <3>1. /\ pc \in Running /\ mem[o] = NoStatus /\ rows[o] # NoStatus
          /\ mem' = [mem EXCEPT ![o] = rows[o]]
          /\ UNCHANGED <<pc, told, old, unsaved, rows, snap>>
      BY <2>4 DEF Reload, diskVars
    <3>2. \A p \in Orders : GetOrder(p)' = GetOrder(p)
      BY <3>1 DEF GetOrder
    <3>3. AnswersAreCurrent'
      BY <3>1, <3>2 DEF AnswersAreCurrent
    <3> QED
      BY <3>1, <3>3, PcFacts DEF RoundIsSafe, Committed, StopSavesEverything
  <2>5. CASE \/ \E k \in Keys, v \in Values : SetParam(k, v)
             \/ \E k \in Keys : ClearParam(k)
    <3>1. pc \in Running /\ UNCHANGED <<pc, mem, told, old, unsaved, rows, snap>>
      BY <2>5 DEF SetParam, ClearParam, diskVars
    <3> QED
      BY <3>1, PcFacts
      DEF AnswersAreCurrent, GetOrder, RoundIsSafe, Committed, StopSavesEverything
  <2>6. CASE Sync
    BY <2>6, SyncKeeps
  <2>7. CASE SyncRaises
    <3>1. pc \in Syncing /\ pc' = "dead" /\ UNCHANGED <<mem, told, rows>>
      BY <2>7 DEF SyncRaises, dataVars, diskVars
    <3> QED
      BY <3>1, PcFacts DEF AnswersAreCurrent, GetOrder, RoundIsSafe, StopSavesEverything
  <2>8. CASE Stop
    <3>1. /\ pc \in Running /\ pc' = "stopped"
          /\ rows' = MergeOrders(rows, mem) /\ prows' = MergeParams(prows, params)
          /\ UNCHANGED <<told, params>>
      BY <2>8 DEF Stop, dataVars
    <3>2. \A o \in Stamped : told[o] # NoStatus => rows'[o] = told[o]
      BY <3>1, MergeOrdersType DEF AnswersAreCurrent, GetOrder
    <3>3. \A k \in Keys : params[k] # Unset => prows'[k] = params[k]
      BY <3>1, MergeParamsType
    <3> QED
      BY <3>1, <3>2, <3>3, PcFacts DEF AnswersAreCurrent, RoundIsSafe, StopSavesEverything
  <2>9. CASE StopFails \/ Crash
    <3>1. pc' = "crashed"
      BY <2>9 DEF StopFails, Crash
    <3> QED
      BY <3>1, PcFacts DEF AnswersAreCurrent, RoundIsSafe, StopSavesEverything, Copying
  <2>10. CASE UNCHANGED vars
    BY <2>10
    DEF vars, AnswersAreCurrent, GetOrder, RoundIsSafe, Committed, StopSavesEverything
  <2> QED
    BY <2>1, <2>2, <2>3, <2>4, <2>5, <2>6, <2>7, <2>8, <2>9, <2>10 DEF Next, Loop
<1> QED
  BY <1>1, <1>2, TypeCorrect, PTL DEF Spec

\* get_order of an order of this run answers its last status, in memory or not.
THEOREM AnswersHold == Spec => []GetOrderIsCurrent
<1>1. CacheInv => GetOrderIsCurrent
  BY DEF CacheInv, AnswersAreCurrent, GetOrderIsCurrent, Stamped
<1> QED
  BY <1>1, CacheInvariant, PTL

\* An orderly stop leaves every status and every parameter in the database.
THEOREM StopsSave == Spec => []StopSavesEverything
BY CacheInvariant, PTL DEF CacheInv

-----------------------------------------------------------------------------
(* ApiCalls: the invariants.                                                *)

Stages == {"idle", "waiting", "sent", "ok", "refused", "busy", "broken", "over"}
Verdicts == {"none", "ok", "sent", "failed", "raised", "gone"}

Types ==
  /\ at \in [Calls -> Stages]
  /\ verdict \in [Calls -> Verdicts]

\* The venue carries out what was sent, and an attempt it carried out either
\* answers or leaves the call unsure.
CarriedOut(c) ==
  /\ at[c] \in {"idle", "waiting"} => c \notin done
  /\ at[c] = "ok" => c \in done
  /\ at[c] \in {"sent", "refused", "busy", "broken"} => (c \in done => c \in unsure)
  /\ at[c] # "over" => verdict[c] = "none"

VerdictInv == Types /\ (\A c \in Calls : CarriedOut(c)) /\ VerdictIsTrue

\* Once the tasks are canceled it takes a consumer that swallowed its own
\* cancellation for anything to be under way.
ConsumerKept == \E c \in swallowed : Awaited(c)
SilenceInv ==
  /\ phase # "open" /\ consumer = "runs" => ConsumerKept
  /\ phase # "open" /\ (\E c \in Calls : Underway(c)) => ConsumerKept
  /\ NothingSentAfterCancel

-----------------------------------------------------------------------------
(* One call ends, and several are canceled.                                 *)

\* What the end of a call with a verdict leaves of the types.
LEMMA OverTypes ==
  ASSUME Types, NEW c \in Calls, NEW v \in Verdicts, Over(c, v)
  PROVE  /\ Types'
         /\ at'[c] = "over" /\ verdict'[c] = v
         /\ \A d \in Calls \ {c} : at'[d] = at[d] /\ verdict'[d] = verdict[d]
  BY DEF Types, Over, Stages

\* The verdict of an exception is one.
LEMMA RaisedIsFailure == \A c \in Calls : Raised(c) \in {"failed", "raised"} /\ Raised(c) \in Verdicts
  BY DEF Raised, Verdicts

\* A canceled call has not been answered: it is gone, or failed and unsure.
LEMMA CancelKeepsVerdicts ==
  ASSUME VerdictInv, NEW cs \in SUBSET Calls, \A c \in cs : Underway(c), CancelTasks(cs)
  PROVE  VerdictInv'
  <1> DEFINE kept == {c \in cs : Swallows(c)}
  <1>1. /\ at' = [c \in Calls |-> IF c \in cs THEN "over" ELSE at[c]]
        /\ verdict' = [c \in Calls |-> IF c \in kept THEN Raised(c)
                                       ELSE IF c \in cs THEN "gone" ELSE verdict[c]]
        /\ unsure' = unsure \cup (kept \cap done)
        /\ done' = done
    BY DEF CancelTasks
  <1>2. Types'
    BY <1>1, RaisedIsFailure DEF VerdictInv, Types, Stages, Verdicts
  <1>3. ASSUME NEW c \in Calls
        PROVE  /\ CarriedOut(c)'
               /\ verdict'[c] = "ok" => c \in done'
               /\ verdict'[c] \in {"failed", "raised"} /\ c \in done' => c \in unsure'
    <2>1. CASE c \in kept
      BY <1>1, <2>1, RaisedIsFailure DEF CarriedOut
    <2>2. CASE c \in cs \ kept
      BY <1>1, <2>2 DEF CarriedOut
    <2>3. CASE c \notin cs
      BY <1>1, <2>3 DEF VerdictInv, CarriedOut, VerdictIsTrue
    <2> QED
      BY <2>1, <2>2, <2>3
  <1> QED
    BY <1>2, <1>3 DEF VerdictInv, VerdictIsTrue

-----------------------------------------------------------------------------
(* Verdicts.                                                                *)

\* A call that ends with a verdict that fits what the venue has done keeps
\* every other call as it was.
LEMMA EndKeepsVerdicts ==
  ASSUME VerdictInv, NEW c \in Calls, NEW v \in Verdicts, Over(c, v),
         UNCHANGED <<done, unsure>>,
         v = "ok" => c \in done,
         v \in {"failed", "raised"} => (c \in done => c \in unsure)
  PROVE  VerdictInv'
  <1>1. /\ Types'
        /\ at'[c] = "over" /\ verdict'[c] = v
        /\ \A d \in Calls \ {c} : at'[d] = at[d] /\ verdict'[d] = verdict[d]
    BY OverTypes DEF VerdictInv
  <1>2. ASSUME NEW d \in Calls
        PROVE  /\ CarriedOut(d)'
               /\ verdict'[d] = "ok" => d \in done'
               /\ verdict'[d] \in {"failed", "raised"} /\ d \in done' => d \in unsure'
    <2>1. CASE d = c
      BY <1>1, <2>1 DEF CarriedOut
    <2>2. CASE d # c
      BY <1>1, <2>2 DEF VerdictInv, CarriedOut, VerdictIsTrue
    <2> QED
      BY <2>1, <2>2
  <1> QED
    BY <1>1, <1>2 DEF VerdictInv, VerdictIsTrue

\* A call moves from one stage to another and its verdict waits.
LEMMA MoveKeepsVerdicts ==
  ASSUME VerdictInv, NEW c \in Calls, NEW s \in Stages \ {"over"},
         at[c] # "over", at' = [at EXCEPT ![c] = s],
         verdict' = verdict, done' \in {done, done \cup {c}}, unsure' \in {unsure, unsure \cup {c}},
         s \in {"idle", "waiting"} => c \notin done',
         s = "ok" => c \in done',
         s \in {"sent", "refused", "busy", "broken"} => (c \in done' => c \in unsure')
  PROVE  VerdictInv'
  <1>1. Types' /\ at'[c] = s /\ (\A d \in Calls \ {c} : at'[d] = at[d])
    BY DEF VerdictInv, Types
  <1>2. ASSUME NEW d \in Calls
        PROVE  /\ CarriedOut(d)'
               /\ verdict'[d] = "ok" => d \in done'
               /\ verdict'[d] \in {"failed", "raised"} /\ d \in done' => d \in unsure'
    <2>1. CASE d = c
      <3>1. verdict'[d] = "none"
        BY <2>1 DEF VerdictInv, CarriedOut
      <3> QED
        BY <1>1, <2>1, <3>1 DEF CarriedOut
    <2>2. CASE d # c
      BY <1>1, <2>2 DEF VerdictInv, CarriedOut, VerdictIsTrue
    <2> QED
      BY <2>1, <2>2
  <1> QED
    BY <1>1, <1>2 DEF VerdictInv, VerdictIsTrue

\* A request that leaves, waits or is refused was not carried out before.
LEMMA AskKeepsVerdicts ==
  ASSUME VerdictInv, NEW c \in Calls, at[c] \in {"idle", "waiting"}, AskWindows(c)
  PROVE  VerdictInv'
  <1>1. c \notin done /\ at[c] # "over"
    BY DEF VerdictInv, CarriedOut
  <1>2. CASE Leave(c)
    <2>1. UNCHANGED <<done, unsure>>
      BY <1>2 DEF Leave
    <2>2. CASE op[c] \in WsOps
      <3>1. Over(c, "sent")
        BY <1>2, <2>2 DEF Leave
      <3> QED
        BY <1>1, <2>1, <3>1, EndKeepsVerdicts DEF Verdicts
    <2>3. CASE op[c] \notin WsOps
      <3>1. at' = [at EXCEPT ![c] = "sent"] /\ verdict' = verdict
        BY <1>2, <2>3 DEF Leave
      <3> QED
        BY <1>1, <2>1, <3>1, MoveKeepsVerdicts DEF Stages
    <2> QED
      BY <2>2, <2>3
  <1>3. CASE Stopped(c)
    <2>1. UNCHANGED <<done, unsure>>
      BY <1>3 DEF Stopped
    <2>2. (at' = [at EXCEPT ![c] = "waiting"] /\ verdict' = verdict) \/ Over(c, Raised(c))
      BY <1>3 DEF Stopped
    <2>3. CASE at' = [at EXCEPT ![c] = "waiting"] /\ verdict' = verdict
      BY <1>1, <2>1, <2>3, MoveKeepsVerdicts DEF Stages
    <2>4. CASE Over(c, Raised(c))
      BY <1>1, <2>1, <2>4, EndKeepsVerdicts, RaisedIsFailure
    <2> QED
      BY <2>2, <2>3, <2>4
  <1> QED
    BY <1>2, <1>3 DEF AskWindows

\* The first state.
LEMMA VerdictInit == ApiInit => VerdictInv
  BY DEF ApiInit, VerdictInv, Types, CarriedOut, VerdictIsTrue, Stages, Verdicts

\* Every step.
LEMMA VerdictStep == VerdictInv /\ [ApiNext]_apiVars => VerdictInv'
  <1> SUFFICES ASSUME VerdictInv, [ApiNext]_apiVars
               PROVE  VerdictInv'
    OBVIOUS
  <1>1. ASSUME NEW c \in Calls, CallStep(c)
        PROVE  VerdictInv'
    <2>1. CASE Ask(c)
      BY <2>1, AskKeepsVerdicts DEF Ask
    <2>2. CASE Consume(c)
      BY <2>2, AskKeepsVerdicts DEF Consume
    <2>3. CASE GoOn(c)
      BY <2>3, AskKeepsVerdicts DEF GoOn
    <2>4. CASE GiveUp(c)
      <3>1. c \notin done
        BY <2>4 DEF GiveUp, VerdictInv, CarriedOut
      <3>2. Over(c, Raised(c)) /\ UNCHANGED <<done, unsure>>
        BY <2>4 DEF GiveUp
      <3> QED
        BY <3>1, <3>2, RaisedIsFailure, EndKeepsVerdicts
    <2>5. CASE Attempt(c)
      <3>1. PICK answer \in {"ok", "refused", "busy", "broken"}, carried \in BOOLEAN :
              /\ answer = "ok" => carried
              /\ answer = "refused" => ~ carried
              /\ at' = [at EXCEPT ![c] = answer]
              /\ done' = IF carried THEN done \cup {c} ELSE done
              /\ unsure' = IF carried /\ answer # "ok" THEN unsure \cup {c} ELSE unsure
        BY <2>5 DEF Attempt
      <3>2. at[c] = "sent" /\ verdict' = verdict
        BY <2>5 DEF Attempt
      <3>3. c \in done => c \in unsure
        BY <3>2 DEF VerdictInv, CarriedOut
      <3> QED
        BY <3>1, <3>2, <3>3, MoveKeepsVerdicts DEF Stages
    <2>6. CASE Retry(c)
      <3>1. /\ at[c] = "busy" /\ at' = [at EXCEPT ![c] = "sent"]
            /\ UNCHANGED <<verdict, done, unsure>>
        BY <2>6 DEF Retry, MayRetry
      <3>2. c \in done => c \in unsure
        BY <3>1 DEF VerdictInv, CarriedOut
      <3> QED
        BY <3>1, <3>2, MoveKeepsVerdicts DEF Stages
    <2>7. CASE End(c)
      <3>1. /\ at[c] \in {"ok", "refused", "busy", "broken"}
            /\ Over(c, IF at[c] = "ok" THEN "ok" ELSE Raised(c))
            /\ UNCHANGED <<done, unsure>>
        BY <2>7 DEF End
      <3>2. CASE at[c] = "ok"
        <4>1. c \in done /\ Over(c, "ok")
          BY <3>1, <3>2 DEF VerdictInv, CarriedOut
        <4> QED
          BY <3>1, <4>1, EndKeepsVerdicts DEF Verdicts
      <3>3. CASE at[c] # "ok"
        <4>1. (c \in done => c \in unsure) /\ Over(c, Raised(c))
          BY <3>1, <3>3 DEF VerdictInv, CarriedOut
        <4> QED
          BY <3>1, <4>1, RaisedIsFailure, EndKeepsVerdicts
      <3> QED
        BY <3>2, <3>3
    <2> QED
      BY <1>1, <2>1, <2>2, <2>3, <2>4, <2>5, <2>6, <2>7 DEF CallStep
  <1>2. ASSUME NEW w \in DOMAIN used, WindowEnds(w)
        PROVE  VerdictInv'
    BY <1>2 DEF WindowEnds, VerdictInv, Types, CarriedOut, VerdictIsTrue
  <1>3. CASE CancelAll
    <2>1. CancelTasks({c \in Calls : Underway(c)})
      BY <1>3 DEF CancelAll
    <2> QED
      BY <2>1, CancelKeepsVerdicts
  <1>4. CASE CancelTimesOut
    <2>1. CancelTasks({c \in Calls : Underway(c) /\ Awaited(c)})
      BY <1>4 DEF CancelTimesOut
    <2> QED
      BY <2>1, CancelKeepsVerdicts
  <1>5. CASE Save
    BY <1>5 DEF Save, VerdictInv, Types, CarriedOut, VerdictIsTrue
  <1>6. CASE UNCHANGED apiVars
    BY <1>6 DEF apiVars, VerdictInv, Types, CarriedOut, VerdictIsTrue
  <1> QED
    BY <1>1, <1>2, <1>3, <1>4, <1>5, <1>6 DEF ApiNext, Dispose

\* What the program holds of a request is so on the venue: a request that was
\* answered was carried out, one that failed was not or is one of the unsure.
THEOREM VerdictsAreTrue == ApiSpec => []VerdictIsTrue
  <1>1. VerdictInv => VerdictIsTrue
    BY DEF VerdictInv
  <1> QED
    BY VerdictInit, VerdictStep, <1>1, PTL DEF ApiSpec

-----------------------------------------------------------------------------
(* Silence after the end.                                                   *)

\* Who awaits its request does not change.
LEMMA AwaitedStays ==
  ASSUME UNCHANGED <<account, op>>
  PROVE  /\ \A c \in Calls : Awaited(c)' <=> Awaited(c)
         /\ swallowed \subseteq swallowed' /\ ConsumerKept => ConsumerKept'
  BY DEF Awaited, ConsumerKept

\* A step of a call neither wakes an ended consumer nor touches the phase, and
\* only an open engine or a consumer that runs has a call to make it.
LEMMA CallKeepsSilence ==
  ASSUME SilenceInv, UNCHANGED <<account, op, swallowed, phase>>,
         phase # "open" => ConsumerKept,
         phase = "open" => after' = after
  PROVE  SilenceInv'
  <1>1. ConsumerKept => ConsumerKept'
    BY AwaitedStays
  <1>2. CASE phase = "open"
    <2>1. phase' = "open" /\ after' = after
      BY <1>2
    <2>2. NothingSentAfterCancel => NothingSentAfterCancel'
      BY <2>1, <1>1 DEF NothingSentAfterCancel, ConsumerKept
    <2> QED
      BY <2>1, <2>2 DEF SilenceInv
  <1>3. CASE phase # "open"
    BY <1>1, <1>3 DEF SilenceInv, NothingSentAfterCancel, ConsumerKept
  <1> QED
    BY <1>2, <1>3

\* A request that leaves an open engine is not one sent after its end.
LEMMA AskIsInTime ==
  ASSUME NEW c \in Calls, AskWindows(c)
  PROVE  /\ UNCHANGED <<account, op, swallowed, phase>>
         /\ phase = "open" => after' = after
  BY DEF AskWindows, Leave, Stopped

\* The first state.
LEMMA SilenceInit == ApiInit => SilenceInv
  BY DEF ApiInit, SilenceInv, NothingSentAfterCancel

\* Every step.
LEMMA SilenceStep == Types /\ SilenceInv /\ [ApiNext]_apiVars => SilenceInv'
  <1> SUFFICES ASSUME Types, SilenceInv, [ApiNext]_apiVars
               PROVE  SilenceInv'
    OBVIOUS
  <1>1. ASSUME NEW c \in Calls, CallStep(c)
        PROVE  SilenceInv'
    <2>1. CASE Ask(c)
      BY <2>1, AskIsInTime, CallKeepsSilence DEF Ask
    <2>2. CASE Consume(c)
      <3>1. phase # "open" => ConsumerKept
        BY <2>2 DEF Consume, SilenceInv
      <3> QED
        BY <2>2, <3>1, AskIsInTime, CallKeepsSilence DEF Consume
    <2>3. CASE ~ Ask(c) /\ ~ Consume(c)
      <3>1. Underway(c)
        BY <1>1, <2>3 DEF CallStep, GoOn, GiveUp, Attempt, Retry, MayRetry, End, Underway
      <3>2. phase # "open" => ConsumerKept
        BY <3>1 DEF SilenceInv
      <3>3. UNCHANGED <<account, op, swallowed, phase>> /\ (phase = "open" => after' = after)
        <4>1. CASE GoOn(c)
          BY <4>1, AskIsInTime DEF GoOn
        <4>2. CASE ~ GoOn(c)
          BY <1>1, <2>3, <4>2 DEF CallStep, GiveUp, Attempt, Retry, End
        <4> QED
          BY <4>1, <4>2
      <3> QED
        BY <3>2, <3>3, CallKeepsSilence
    <2> QED
      BY <2>1, <2>2, <2>3
  <1>2. ASSUME NEW w \in DOMAIN used, WindowEnds(w)
        PROVE  SilenceInv'
    BY <1>2 DEF WindowEnds, SilenceInv, NothingSentAfterCancel, ConsumerKept, Awaited, Underway
  <1>3. CASE CancelAll
    <2> DEFINE cs == {c \in Calls : Underway(c)}
    <2>1. CancelTasks(cs) /\ phase = "open"
      BY <1>3 DEF CancelAll
    <2>2. \A c \in Calls : ~ Underway(c)'
      BY <2>1 DEF CancelTasks, Underway
    <2>3. consumer' = "runs" => ConsumerKept'
      BY <2>1, Zenon DEF CancelTasks, ConsumerKept, Awaited, Underway
    <2>4. NothingSentAfterCancel'
      BY <2>1 DEF CancelTasks, SilenceInv, NothingSentAfterCancel, Awaited
    <2> QED
      BY <2>2, <2>3, <2>4 DEF SilenceInv
  <1>4. CASE CancelTimesOut
    <2> DEFINE cs == {c \in Calls : Underway(c) /\ Awaited(c)}
    <2>1. CancelTasks(cs) /\ phase = "canceled" /\ consumer = "runs"
      BY <1>4 DEF CancelTimesOut
    <2>2. ConsumerKept
      BY <2>1 DEF SilenceInv
    <2>3. ConsumerKept'
      BY <2>1, <2>2 DEF CancelTasks, ConsumerKept, Awaited
    <2> QED
      BY <2>3 DEF SilenceInv, NothingSentAfterCancel, ConsumerKept
  <1>5. CASE Save
    BY <1>5 DEF Save, SilenceInv, NothingSentAfterCancel, ConsumerKept, Awaited, Underway
  <1>6. CASE UNCHANGED apiVars
    BY <1>6 DEF apiVars, SilenceInv, NothingSentAfterCancel, ConsumerKept, Awaited, Underway
  <1> QED
    BY <1>1, <1>2, <1>3, <1>4, <1>5, <1>6 DEF ApiNext, Dispose

\* Once the tasks are canceled no request leaves, unless the consumer awaited
\* one of its requests then, whose RetryManager swallowed the cancellation.
THEOREM SilenceAfterCancel == ApiSpec => []NothingSentAfterCancel
  <1>1. VerdictInv => Types
    BY DEF VerdictInv
  <1>2. SilenceInv => NothingSentAfterCancel
    BY DEF SilenceInv
  <1> QED
    BY VerdictInit, VerdictStep, SilenceInit, SilenceStep, <1>1, <1>2, PTL DEF ApiSpec
===============================================================================
