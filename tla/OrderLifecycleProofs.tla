------------------------ MODULE OrderLifecycleProofs ------------------------
(***************************************************************************)
(* For every set of orders and symbols, every venue variant and every      *)
(* bound: the registry, the cache's sets and the order objects agree, a    *)
(* closed order is final, the strategy's last event of it is the close,    *)
(* and the cache's view implements OrderStatusSpec.                        *)
(*                                                                         *)
(* Then the order against the venue's own: a close the cache shows         *)
(* happened there, and a close the stream reports is taken.                *)
(*                                                                         *)
(* Then the cancellations: an open order the strategy does not see is      *)
(* being cancelled, and a cancel-all reaches every order submitted before  *)
(* it.  Both depend on how the venue's connector cancels; their theorems   *)
(* name the variants they hold for.                                        *)
(***************************************************************************)
EXTENDS OrderLifecycle, TLAPS

IsCreate(sub) == sub.op \in {"create", "create_ws"}

CreateQueued(o) == \E i \in DOMAIN queue : IsCreate(queue[i]) /\ queue[i].oid = o

\* A create is queued once, for an order the strategy has submitted.
CreatesAreOnce ==
  /\ \A o \in Oids : CreateQueued(o) => o \in created
  /\ \A i, j \in DOMAIN queue :
       IsCreate(queue[i]) /\ IsCreate(queue[j]) /\ queue[i].oid = queue[j].oid => i = j

\* Until its create is handled nothing in the process knows the order.
FreshIsUnknown ==
  \A o \in Oids :
    o \notin created \/ CreateQueued(o)
    => /\ o \notin registered /\ o \notin symbolOrders
       /\ memOrders[o] = NoStatus /\ stored[o] = NoStatus

\* The last status decides whether the order is open, evicted or not.
OpenIsLast ==
  \A o \in Oids :
    /\ LastStatus[o] \in LiveStatuses <=> o \in openOrders
    /\ o \in inflight => LastStatus[o] = NoStatus

\* CloseIsLastEvent carried through an eviction by the database row.
CloseIsRemembered ==
  \A o \in Oids :
    LastStatus[o] \in ClosedStatuses \ {"EXPIRED"} => notified[o] = LastStatus[o]

CoreInv ==
  /\ CreatesAreOnce
  /\ FreshIsUnknown
  /\ RegistryMatchesCache
  /\ OpenSetsMatchOrders
  /\ OpenIsLast
  /\ CloseIsRemembered

LifecycleInv == TypeOK /\ CoreInv

coreVars == <<created, queue, registryVars, memOrders, openOrders, symbolOpenOrders,
              symbolOrders, inflight, stored, notified>>

-----------------------------------------------------------------------------
(* Lemmas.                                                                  *)

\* The table only leads to statuses, and every status is live or closed.
LEMMA StatusFacts ==
  /\ NoStatus \notin OrderStatuses
  /\ OrderStatuses = LiveStatuses \cup ClosedStatuses
  /\ LiveStatuses \cap ClosedStatuses = {}
  /\ \A s \in ClosedStatuses : StatusesAfter(s) = {}
BY DEF NoStatus, OrderStatuses, LiveStatuses, ClosedStatuses, StatusesAfter, STATUS_TRANSITIONS

\* Steps that touch nothing the invariant reads preserve it.
LEMMA CoreStutter == CoreInv /\ UNCHANGED coreVars => CoreInv'
BY DEF CoreInv, coreVars, registryVars, CreatesAreOnce, FreshIsUnknown, CreateQueued, IsCreate,
       RegistryMatchesCache, OpenSetsMatchOrders, OpenIsLast, CloseIsRemembered, LastStatus

\* A registered order has not closed.
LEMMA RegisteredIsOpen ==
  ASSUME CoreInv, NEW o \in Oids, o \in registered
  PROVE  LastStatus[o] \notin ClosedStatuses
BY StatusFacts DEF CoreInv, RegistryMatchesCache, OpenIsLast, LiveStatuses, ClosedStatuses,
                   NoStatus, OrderStatuses

\* An update the registry or the table turns away: at most an event is sent.
LEMMA RefusedKeepsCore ==
  ASSUME TypeOK, CoreInv, NEW o \in Oids, NEW status \in OrderStatuses,
         UNCHANGED <<registryVars, memOrders, cacheSets, created, queue, stored>>,
         \/ notified' = notified
         \/ o \in registered /\ Notify(o, status)
  PROVE  CoreInv'
<1>1. CreatesAreOnce' /\ FreshIsUnknown' /\ RegistryMatchesCache' /\ OpenSetsMatchOrders' /\ OpenIsLast'
  BY DEF CoreInv, registryVars, cacheSets, CreatesAreOnce, FreshIsUnknown, CreateQueued,
         IsCreate, RegistryMatchesCache, OpenSetsMatchOrders, OpenIsLast, LastStatus
<1>2. ASSUME NEW p \in Oids, LastStatus'[p] \in ClosedStatuses \ {"EXPIRED"}
      PROVE  notified'[p] = LastStatus'[p]
  <2>1. LastStatus'[p] = LastStatus[p]
    BY DEF LastStatus
  <2>2. notified'[p] = notified[p]
    BY <1>2, <2>1, RegisteredIsOpen DEF Notify, TypeOK
  <2>. QED BY <1>2, <2>1, <2>2 DEF CoreInv, CloseIsRemembered
<1>. QED BY <1>1, <1>2 DEF CoreInv, CloseIsRemembered

\* An update the cache takes, live or closing.
LEMMA TakenKeepsCore ==
  ASSUME TypeOK, CoreInv, NEW o \in Oids, NEW status \in OrderStatuses,
         o \in registered, Notify(o, status), UNCHANGED <<created, queue, stored>>,
         \/ /\ status \in LiveStatuses
            /\ CacheOpen(o, status)
            /\ UNCHANGED registryVars
         \/ /\ status \in ClosedStatuses
            /\ CacheClose(o, status)
            /\ registered' = registered \ {o}
            /\ tmpOrders' = tmpOrders \ {o}
  PROVE  CoreInv'
<1>1. /\ memOrders'[o] = status
      /\ LastStatus'[o] = status
      /\ \A p \in Oids \ {o} : memOrders'[p] = memOrders[p] /\ LastStatus'[p] = LastStatus[p]
  BY StatusFacts DEF TypeOK, CacheOpen, CacheClose, LastStatus
<1>2. /\ registered' = IF status \in LiveStatuses THEN registered ELSE registered \ {o}
      /\ openOrders' = IF status \in LiveStatuses THEN openOrders \cup {o} ELSE openOrders \ {o}
      /\ symbolOpenOrders' = IF status \in LiveStatuses THEN symbolOpenOrders \cup {o}
                                                        ELSE symbolOpenOrders \ {o}
      /\ symbolOrders' = IF status \in LiveStatuses THEN symbolOrders \cup {o} ELSE symbolOrders
      /\ inflight' = inflight \ {o}
  BY StatusFacts DEF CacheOpen, CacheClose, registryVars
<1>3. CreatesAreOnce'
  BY DEF CoreInv, CreatesAreOnce, CreateQueued, IsCreate
<1>4. FreshIsUnknown'
  <2>. SUFFICES ASSUME NEW p \in Oids, (p \notin created \/ CreateQueued(p))'
                PROVE  /\ p \notin registered' /\ p \notin symbolOrders'
                       /\ memOrders'[p] = NoStatus /\ stored'[p] = NoStatus
    BY DEF FreshIsUnknown
  <2>1. p \notin created \/ CreateQueued(p)
    BY DEF CreateQueued, IsCreate
  <2>2. p # o
    BY <2>1 DEF CoreInv, FreshIsUnknown
  <2>. QED BY <1>1, <1>2, <2>1, <2>2 DEF CoreInv, FreshIsUnknown
<1>5. RegistryMatchesCache'
  BY <1>2 DEF CoreInv, RegistryMatchesCache, registryVars
<1>6. OpenSetsMatchOrders'
  BY <1>1, <1>2, StatusFacts DEF CoreInv, OpenSetsMatchOrders, TypeOK
<1>7. OpenIsLast'
  BY <1>1, <1>2, StatusFacts DEF CoreInv, OpenIsLast, TypeOK
<1>8. CloseIsRemembered'
  BY <1>1 DEF CoreInv, CloseIsRemembered, Notify, TypeOK
<1>. QED BY <1>3, <1>4, <1>5, <1>6, <1>7, <1>8 DEF CoreInv

\* order_status_update, whatever the status and whenever it comes.
LEMMA UpdateKeepsCore ==
  ASSUME TypeOK, CoreInv, NEW o \in Oids, NEW status \in OrderStatuses,
         OrderStatusUpdate(o, status) \/ IgnoreUpdate, UNCHANGED <<created, queue, stored>>
  PROVE  CoreInv'
BY RefusedKeepsCore, TakenKeepsCore DEF OrderStatusUpdate, IgnoreUpdate

-----------------------------------------------------------------------------
(* Type correctness.                                                        *)

TypeOfUpdate ==
  /\ registered \subseteq Oids /\ tmpOrders \subseteq Oids
  /\ memOrders \in [Oids -> OrderStatuses \cup {NoStatus}]
  /\ openOrders \subseteq Oids /\ symbolOpenOrders \subseteq Oids
  /\ symbolOrders \subseteq Oids
  /\ cancelIntent \subseteq Oids /\ inflight \subseteq Oids
  /\ notified \in [Oids -> OrderStatuses \cup {NoStatus}]

\* An update leaves the registry, the cache and the events well typed.
LEMMA UpdateType ==
  ASSUME TypeOfUpdate, NEW o \in Oids, NEW status \in OrderStatuses,
         OrderStatusUpdate(o, status) \/ IgnoreUpdate
  PROVE  TypeOfUpdate'
<1>1. CASE \/ IgnoreUpdate
           \/ /\ Notify(o, status)
              /\ UNCHANGED <<registryVars, memOrders, cacheSets>>
           \/ /\ o \notin registered
              /\ UNCHANGED <<registryVars, memOrders, cacheSets, notified>>
  BY <1>1 DEF TypeOfUpdate, IgnoreUpdate, Notify, registryVars, cacheSets
<1>2. CASE CacheOpen(o, status) /\ Notify(o, status) /\ UNCHANGED registryVars
  BY <1>2 DEF TypeOfUpdate, CacheOpen, Notify, registryVars
<1>3. CASE /\ CacheClose(o, status) /\ Notify(o, status)
           /\ registered' = registered \ {o}
           /\ tmpOrders' = tmpOrders \ {o}
  BY <1>3 DEF TypeOfUpdate, CacheClose, Notify
<1>. QED BY <1>1, <1>2, <1>3 DEF OrderStatusUpdate

\* Answering or failing a call yields a call.
LEMMA CallFacts ==
  ASSUME TypeOK, NEW c \in calls
  PROVE  /\ c.oid \in Oids
         /\ calls \ {c} \subseteq Calls
         /\ \A st \in {"ok", "fail"} : Answered(c, st) \subseteq Calls
BY DEF TypeOK, Calls, Answered

\* Everything a status is set to is a status.
LEMMA PostedStatuses ==
  /\ {"PENDING", "FAILED", "CANCELING", "CANCEL_FAILED"} \subseteq OrderStatuses
  /\ ReportStatuses \subseteq OrderStatuses
BY DEF OrderStatuses, ReportStatuses

\* What each group of actions does to the variables of one part.
LEMMA TypeStrategy == TypeOK /\ Strategy => TypeOK'
<1>. SUFFICES ASSUME TypeOK, Strategy PROVE TypeOK'
  OBVIOUS
<1>1. ASSUME NEW o \in Oids, SubmitCreate(o) PROVE TypeOK'
  <2>1. \A op \in CreateOps : [op |-> op, oid |-> o] \in Submissions
    BY LifecycleAssumption DEF LifecycleAssumption, Submissions, CallOps
  <2>2. queue' \in Seq(Submissions)
    BY <1>1, <2>1 DEF SubmitCreate, TypeOK
  <2>. QED BY <1>1, <2>2 DEF SubmitCreate, TypeOK, registryVars, cacheSets, storeVars, netVars, exchVars
<1>2. ASSUME NEW o \in Oids, SubmitCancel(o) PROVE TypeOK'
  <2>1. \A op \in CancelOps : [op |-> op, oid |-> o] \in Submissions
    BY LifecycleAssumption DEF LifecycleAssumption, Submissions, CallOps
  <2>2. queue' \in Seq(Submissions)
    BY <1>2, <2>1 DEF SubmitCancel, TypeOK
  <2>. QED BY <1>2, <2>2 DEF SubmitCancel, TypeOK, registryVars, cacheSets, storeVars, netVars, exchVars
<1>3. ASSUME NEW o \in Oids, SubmitModify(o) PROVE TypeOK'
  <2>1. [op |-> "modify", oid |-> o] \in Submissions
    BY DEF Submissions, CallOps
  <2>2. queue' \in Seq(Submissions)
    BY <1>3, <2>1 DEF SubmitModify, TypeOK
  <2>. QED BY <1>3, <2>2 DEF SubmitModify, TypeOK, registryVars, cacheSets, storeVars, netVars, exchVars
<1>4. ASSUME NEW s \in Symbols, SubmitCancelAll(s) PROVE TypeOK'
  <2>1. [op |-> "cancel_all", sym |-> s] \in Submissions
    BY DEF Submissions
  <2>2. queue' \in Seq(Submissions)
    BY <1>4, <2>1 DEF SubmitCancelAll, TypeOK
  <2>. QED BY <1>4, <2>2 DEF SubmitCancelAll, TypeOK, OfSymbol, registryVars, cacheSets, storeVars, netVars, exchVars
<1>. QED BY <1>1, <1>2, <1>3, <1>4 DEF Strategy

\* The EMS keeps the types.
LEMMA TypeEms == TypeOK /\ Ems => TypeOK'
<1>. SUFFICES ASSUME TypeOK, Ems PROVE TypeOK'
  OBVIOUS
<1>1. queue # <<>> => Head(queue) \in Submissions /\ Tail(queue) \in Seq(Submissions)
  BY DEF TypeOK
<1>2. \A sub \in Submissions : sub.op \in CallOps => sub.oid \in Oids
  BY DEF Submissions, CallOps
<1>3. \A sub \in Submissions : sub.op = "cancel_all" => sub.sym \in Symbols
  BY DEF Submissions, CallOps
<1>4. \A op \in CallOps, o \in Oids : NewCall(op, o) \in Calls
  BY DEF NewCall, Calls, TypeOK
<1>5. CASE HandleCreate
  <2>. DEFINE sub == Head(queue)
  <2>1. sub.op \in CallOps /\ sub.oid \in Oids
    BY <1>1, <1>2, <1>5 DEF HandleCreate, CallOps
  <2>2. NewCall(sub.op, sub.oid) \in Calls
    BY <2>1, <1>4
  <2>3. calls' \subseteq Calls /\ callCount' \in [Oids -> Nat]
    <3>1. CASE UNCHANGED <<calls, callCount>>
      BY <3>1 DEF TypeOK
    <3>2. CASE /\ calls' = calls \cup {NewCall(sub.op, sub.oid)}
               /\ callCount' = [callCount EXCEPT ![sub.oid] = @ + 1]
      BY <3>2, <2>1, <2>2 DEF TypeOK
    <3>. QED BY <1>5, <3>1, <3>2 DEF HandleCreate
  <2>4. registered' \subseteq Oids /\ inflight' \subseteq Oids /\ tmpOrders' \subseteq Oids
    BY <1>5, <2>1 DEF HandleCreate, TypeOK
  <2>5. queue' \in Seq(Submissions)
    BY <1>1, <1>5 DEF HandleCreate
  <2>. QED BY <1>5, <2>3, <2>4, <2>5 DEF HandleCreate, TypeOK, storeVars, exchVars
<1>6. CASE HandleRequest
  <2>. DEFINE sub == Head(queue)
  <2>1. sub.op \in CallOps /\ sub.oid \in Oids
    BY <1>1, <1>2, <1>6 DEF HandleRequest, CallOps
  <2>2. NewCall(sub.op, sub.oid) \in Calls
    BY <2>1, <1>4
  <2>3. calls' \subseteq Calls /\ callCount' \in [Oids -> Nat]
    BY <1>6, <2>1, <2>2 DEF HandleRequest, TypeOK
  <2>. QED BY <1>1, <1>6, <2>3 DEF HandleRequest, TypeOK, registryVars, cacheSets, storeVars, exchVars
<1>7. CASE HandleCancelAll
  <2>. DEFINE s == Head(queue).sym
  <2>1. s \in Symbols
    BY <1>1, <1>3, <1>7 DEF HandleCancelAll
  <2>2. CancelAllTargets(s) \subseteq Oids
    BY LifecycleAssumption DEF CancelAllTargets, OfSymbol, LifecycleAssumption, CancelAllKinds
  <2>3. calls' \subseteq Calls
    BY <1>4, <1>7, <2>2 DEF HandleCancelAll, TypeOK, CallOps
  <2>4. callCount' \in [Oids -> Nat] /\ sweeps' \in [Symbols -> Nat]
    BY <1>7, <2>1 DEF HandleCancelAll, TypeOK
  <2>. QED BY <1>1, <1>7, <2>3, <2>4 DEF HandleCancelAll, TypeOK, registryVars, cacheSets, storeVars, exchVars
<1>. QED BY <1>5, <1>6, <1>7 DEF Ems

\* The OMS keeps the types.
LEMMA TypeClient == TypeOK /\ Client => TypeOK'
<1>. SUFFICES ASSUME TypeOK, Client PROVE TypeOK'
  OBVIOUS
<1>0. TypeOfUpdate
  BY DEF TypeOK, TypeOfUpdate
<1>1. ASSUME NEW c \in calls, HandleAnswer(c) PROVE TypeOK'
  <2>1. Take(c)
    BY <1>1 DEF HandleAnswer, HandleCreateAnswer, HandleCancelAnswer, HandleModifyAnswer,
                HandleCreateWsAnswer, HandleCancelWsAnswer
  <2>2. \/ \E status \in {"PENDING", "FAILED", "CANCELING", "CANCEL_FAILED"} :
             OrderStatusUpdate(c.oid, status)
        \/ IgnoreUpdate
    BY <1>1 DEF HandleAnswer, HandleCreateAnswer, HandleCancelAnswer, HandleModifyAnswer,
                HandleCreateWsAnswer, HandleCancelWsAnswer
  <2>3. TypeOfUpdate'
    BY <1>0, <2>2, CallFacts, PostedStatuses, UpdateType DEF OrderStatuses
  <2>. QED BY <2>1, <2>3, CallFacts DEF Take, TypeOK, TypeOfUpdate, strategyVars, storeVars, exchVars
<1>2. ASSUME NEW o \in Oids, DeliverReport(o) PROVE TypeOK'
  <2>1. Head(feed[o]) \in OrderStatuses /\ Tail(feed[o]) \in Seq(ReportStatuses)
    BY <1>2, PostedStatuses DEF DeliverReport, TypeOK
  <2>2. TypeOfUpdate'
    BY <1>0, <1>2, <2>1, UpdateType DEF DeliverReport
  <2>3. feed' \in [Oids -> Seq(ReportStatuses)]
    BY <1>2, <2>1 DEF DeliverReport, TypeOK
  <2>. QED BY <1>2, <2>2, <2>3 DEF DeliverReport, TypeOK, TypeOfUpdate, strategyVars, storeVars, exchVars
<1>. QED BY <1>1, <1>2 DEF Client

\* The cache keeps the types.
LEMMA TypeCache == TypeOK /\ Cache => TypeOK'
<1>. SUFFICES ASSUME TypeOK, NEW o \in Oids, EvictOrder(o) \/ ReloadOrder(o) PROVE TypeOK'
  BY DEF Cache
<1>1. CASE EvictOrder(o)
  BY <1>1 DEF EvictOrder, TypeOK, strategyVars, registryVars, netVars, exchVars
<1>2. CASE ReloadOrder(o)
  BY <1>2 DEF ReloadOrder, TypeOK, strategyVars, registryVars, cacheSets, storeVars, netVars, exchVars
<1>. QED BY <1>1, <1>2

\* The network keeps the types.
LEMMA TypeNetwork == TypeOK /\ Network => TypeOK'
<1>. SUFFICES ASSUME TypeOK, Network PROVE TypeOK'
  OBVIOUS
<1>1. ASSUME NEW c \in calls, LoseAnswer(c) PROVE TypeOK'
  <2>1. calls' \subseteq Calls
    BY <1>1, CallFacts DEF LoseAnswer, Answered
  <2>. QED BY <1>1, <2>1 DEF LoseAnswer, TypeOK, strategyVars, registryVars, cacheSets, storeVars, exchVars
<1>2. ASSUME NEW o \in Oids, LoseReport(o) PROVE TypeOK'
  <2>1. feed' \in [Oids -> Seq(ReportStatuses)]
    BY <1>2 DEF LoseReport, TypeOK
  <2>. QED BY <1>2, <2>1 DEF LoseReport, TypeOK, strategyVars, registryVars, cacheSets, storeVars, exchVars
<1>. QED BY <1>1, <1>2 DEF Network

\* The venue keeps the types.
LEMMA TypeExchange == TypeOK /\ Exchange => TypeOK'
<1>. SUFFICES ASSUME TypeOK, Exchange PROVE TypeOK'
  OBVIOUS
<1>1. ASSUME NEW o \in Oids, NEW status \in ReportStatuses
      PROVE  Report(o, status) \in [Oids -> Seq(ReportStatuses)]
  BY DEF Report, TypeOK
<1>2. ASSUME NEW c \in calls,
             ExchangeAcceptsCreate(c) \/ ExchangeRejectsLater(c)
      PROVE  TypeOK'
  <2>1. c.oid \in Oids /\ calls' \subseteq Calls
    BY <1>2, CallFacts DEF ExchangeAcceptsCreate, ExchangeRejectsLater
  <2>2. feed' \in [Oids -> Seq(ReportStatuses)]
    BY <1>1, <1>2, <2>1 DEF ExchangeAcceptsCreate, ExchangeRejectsLater, ReportStatuses
  <2>3. exch' \in [Oids -> ExchStates]
    BY <1>2, <2>1 DEF ExchangeAcceptsCreate, ExchangeRejectsLater, ExchStates, TypeOK
  <2>. QED BY <1>2, <2>1, <2>2, <2>3 DEF ExchangeAcceptsCreate, ExchangeRejectsLater, TypeOK,
                 strategyVars, registryVars, cacheSets, storeVars
<1>3. ASSUME NEW c \in calls, ExchangeRefuses(c) PROVE TypeOK'
  BY <1>3, CallFacts DEF ExchangeRefuses, TypeOK, strategyVars, registryVars, cacheSets,
                         storeVars, exchVars
<1>4. ASSUME NEW c \in calls, ExchangeAcceptsCancel(c) PROVE TypeOK'
  <2>1. c.oid \in Oids /\ calls' \subseteq Calls
    BY <1>4, CallFacts DEF ExchangeAcceptsCancel
  <2>. QED BY <1>4, <2>1 DEF ExchangeAcceptsCancel, TypeOK, strategyVars, registryVars, cacheSets,
                 storeVars
<1>5. ASSUME NEW c \in calls, ExchangeAcceptsModify(c) PROVE TypeOK'
  <2>1. c.oid \in Oids /\ calls' \subseteq Calls
    BY <1>5, CallFacts DEF ExchangeAcceptsModify
  <2>2. feed' \in [Oids -> Seq(ReportStatuses)]
    BY <1>1, <1>5, <2>1 DEF ExchangeAcceptsModify, ReportStatuses, OrderReport
  <2>. QED BY <1>5, <2>1, <2>2 DEF ExchangeAcceptsModify, TypeOK, strategyVars, registryVars,
                 cacheSets, storeVars, exchVars
<1>6. ASSUME NEW s \in Symbols, ExchangeSweeps(s) PROVE TypeOK'
  <2>1. sweeps' \in [Symbols -> Nat]
    BY <1>6 DEF ExchangeSweeps, TypeOK
  <2>. QED BY <1>6, <2>1 DEF ExchangeSweeps, TypeOK, OfSymbol, strategyVars, registryVars,
                 cacheSets, storeVars
<1>7. ASSUME NEW o \in Oids, NEW state \in ExchStates, NEW status \in ReportStatuses,
             Becomes(o, state, status)
      PROVE  TypeOK'
  <2>1. feed' \in [Oids -> Seq(ReportStatuses)]
    BY <1>1, <1>7 DEF Becomes
  <2>. QED BY <1>7, <2>1 DEF Becomes, TypeOK, strategyVars, registryVars, cacheSets, storeVars
<1>8. ASSUME NEW o \in Oids,
             \/ ExchangePartialFill(o) \/ ExchangeFill(o)
             \/ ExchangeExpire(o) \/ ExchangeCancel(o)
      PROVE  TypeOK'
  BY <1>7, <1>8 DEF ExchangePartialFill, ExchangeFill, ExchangeExpire, ExchangeCancel,
                    ExchStates, ReportStatuses
<1>. QED BY <1>2, <1>3, <1>4, <1>5, <1>6, <1>8 DEF Exchange

\* Every step keeps the types.
LEMMA TypeStep == TypeOK /\ [Next]_vars => TypeOK'
<1>1. TypeOK /\ UNCHANGED vars => TypeOK'
  BY DEF TypeOK, vars, strategyVars, registryVars, cacheSets, storeVars, netVars, exchVars
<1>. QED BY <1>1, TypeStrategy, TypeEms, TypeClient, TypeCache, TypeNetwork, TypeExchange DEF Next

\* Every variable keeps its type: no step takes a status out of the table's
\* domain, an id out of Oids or a malformed submission onto the EMS queue.
THEOREM TypeCorrect == Spec => []TypeOK
<1>1. Init => TypeOK
  BY DEF Init, TypeOK, ExchStates
<1>. QED BY <1>1, TypeStep, PTL DEF Spec

-----------------------------------------------------------------------------
(* The agreement of registry, cache and events.                             *)

\* Putting a submission last on the queue.
LEMMA QueuePut ==
  ASSUME TypeOK, NEW sub, queue' = Append(queue, sub)
  PROVE  /\ DOMAIN queue' = DOMAIN queue \cup {Len(queue) + 1}
         /\ \A i \in DOMAIN queue : queue'[i] = queue[i]
         /\ queue'[Len(queue) + 1] = sub
         /\ Len(queue) + 1 \notin DOMAIN queue
BY DEF TypeOK

\* Taking the first one.
LEMMA QueueGet ==
  ASSUME TypeOK, queue # <<>>, queue' = Tail(queue)
  PROVE  /\ \A i \in DOMAIN queue' : i + 1 \in DOMAIN queue /\ queue'[i] = queue[i + 1] /\ i + 1 # 1
         /\ 1 \in DOMAIN queue /\ Head(queue) = queue[1]
         /\ DOMAIN queue' \subseteq Nat
BY DEF TypeOK

\* Neither a cancel, a modify nor a cancel-all adds a create.
LEMMA OtherPutKeepsCore ==
  ASSUME TypeOK, CoreInv, NEW sub, ~ IsCreate(sub), queue' = Append(queue, sub),
         UNCHANGED <<created, registryVars, memOrders, openOrders, symbolOpenOrders,
                     symbolOrders, inflight, stored, notified>>
  PROVE  CoreInv'
<1>1. \A o \in Oids : CreateQueued(o)' => CreateQueued(o)
  BY QueuePut DEF CreateQueued, IsCreate
<1>2. CreatesAreOnce'
  BY <1>1, QueuePut DEF CoreInv, CreatesAreOnce, IsCreate
<1>. QED BY <1>1, <1>2 DEF CoreInv, registryVars, FreshIsUnknown, RegistryMatchesCache,
              OpenSetsMatchOrders, OpenIsLast, CloseIsRemembered, LastStatus

\* The strategy keeps the registry, the open sets and the statuses in agreement.
LEMMA CoreStrategy == TypeOK /\ CoreInv /\ Strategy => CoreInv'
<1>. SUFFICES ASSUME TypeOK, CoreInv, Strategy PROVE CoreInv'
  OBVIOUS
<1>1. ASSUME NEW o \in Oids, SubmitCreate(o) PROVE CoreInv'
  <2>1. PICK op \in CreateOps : queue' = Append(queue, [op |-> op, oid |-> o])
    BY <1>1 DEF SubmitCreate
  <2>2. UNCHANGED <<registryVars, memOrders, openOrders, symbolOpenOrders, symbolOrders,
                    inflight, stored, notified>>
    BY <1>1 DEF SubmitCreate, cacheSets, storeVars
  <2>3. ~ CreateQueued(o) /\ o \notin created /\ created' = created \cup {o}
    BY <1>1 DEF SubmitCreate, CoreInv, CreatesAreOnce
  <2>4. \A p \in Oids \ {o} : CreateQueued(p)' => CreateQueued(p)
    BY <2>1, QueuePut DEF CreateQueued, IsCreate
  <2>5. CreatesAreOnce'
    <3>1. \A p \in Oids : CreateQueued(p)' => p \in created'
      BY <2>3, <2>4 DEF CoreInv, CreatesAreOnce
    <3>2. ASSUME NEW i \in DOMAIN queue', NEW j \in DOMAIN queue',
                 IsCreate(queue'[i]), IsCreate(queue'[j]), queue'[i].oid = queue'[j].oid
          PROVE  i = j
      BY <2>1, <2>3, <3>2, QueuePut DEF CoreInv, CreatesAreOnce, CreateQueued, IsCreate
    <3>. QED BY <3>1, <3>2 DEF CreatesAreOnce, IsCreate
  <2>6. FreshIsUnknown'
    BY <2>2, <2>3, <2>4 DEF CoreInv, FreshIsUnknown, registryVars
  <2>. QED BY <2>2, <2>5, <2>6 DEF CoreInv, registryVars, RegistryMatchesCache,
                OpenSetsMatchOrders, OpenIsLast, CloseIsRemembered, LastStatus
<1>2. ASSUME NEW o \in Oids, SubmitCancel(o) PROVE CoreInv'
  <2>1. PICK op \in CancelOps : queue' = Append(queue, [op |-> op, oid |-> o])
    BY <1>2 DEF SubmitCancel
  <2>2. ~ IsCreate([op |-> op, oid |-> o])
    BY LifecycleAssumption DEF IsCreate, LifecycleAssumption
  <2>. QED BY <1>2, <2>1, <2>2, OtherPutKeepsCore DEF SubmitCancel, storeVars
<1>3. ASSUME NEW o \in Oids, SubmitModify(o) PROVE CoreInv'
  <2>1. ~ IsCreate([op |-> "modify", oid |-> o])
    BY DEF IsCreate
  <2>. QED BY <1>3, <2>1, OtherPutKeepsCore DEF SubmitModify, cacheSets, storeVars
<1>4. ASSUME NEW s \in Symbols, SubmitCancelAll(s) PROVE CoreInv'
  <2>1. ~ IsCreate([op |-> "cancel_all", sym |-> s])
    BY DEF IsCreate
  <2>. QED BY <1>4, <2>1, OtherPutKeepsCore DEF SubmitCancelAll, storeVars
<1>. QED BY <1>1, <1>2, <1>3, <1>4 DEF Strategy

\* The EMS keeps it.
LEMMA CoreEms == TypeOK /\ CoreInv /\ Ems => CoreInv'
<1>. SUFFICES ASSUME TypeOK, CoreInv, Ems PROVE CoreInv'
  OBVIOUS
<1>1. queue # <<>> /\ queue' = Tail(queue)
  BY DEF Ems, HandleCreate, HandleRequest, HandleCancelAll
<1>2. \A o \in Oids : CreateQueued(o)' => CreateQueued(o)
  BY <1>1, QueueGet DEF CreateQueued, IsCreate
<1>3. \A i, j \in DOMAIN queue' :
        IsCreate(queue'[i]) /\ IsCreate(queue'[j]) /\ queue'[i].oid = queue'[j].oid => i = j
  BY <1>1, QueueGet DEF CoreInv, CreatesAreOnce, IsCreate
<1>4. UNCHANGED <<created, memOrders, openOrders, symbolOpenOrders, symbolOrders, stored, notified>>
  BY DEF Ems, HandleCreate, HandleRequest, HandleCancelAll, cacheSets, storeVars
<1>5. CreatesAreOnce'
  BY <1>2, <1>3, <1>4 DEF CoreInv, CreatesAreOnce, IsCreate
<1>6. CASE HandleRequest \/ HandleCancelAll
  BY <1>2, <1>4, <1>5, <1>6 DEF HandleRequest, HandleCancelAll, CoreInv, registryVars, cacheSets,
       FreshIsUnknown, RegistryMatchesCache, OpenSetsMatchOrders, OpenIsLast, CloseIsRemembered,
       LastStatus
<1>7. CASE HandleCreate
  <2>. DEFINE o == Head(queue).oid
  <2>1. o \in Oids /\ IsCreate(Head(queue))
    BY <1>1, <1>7 DEF HandleCreate, IsCreate, TypeOK, Submissions, CallOps
  <2>2. CreateQueued(o) /\ \A p \in Oids : CreateQueued(p)' => p # o
    <3>1. CreateQueued(o)
      BY <1>1, <2>1, QueueGet DEF CreateQueued
    <3>2. ASSUME NEW i \in DOMAIN queue', IsCreate(queue'[i]), queue'[i].oid = o PROVE FALSE
      BY <1>1, <2>1, <3>2, QueueGet DEF CoreInv, CreatesAreOnce, IsCreate
    <3>. QED BY <3>1, <3>2 DEF CreateQueued, IsCreate
  <2>3. /\ o \in created /\ o \notin registered /\ o \notin symbolOrders
        /\ memOrders[o] = NoStatus /\ stored[o] = NoStatus
    BY <2>1, <2>2 DEF CoreInv, CreatesAreOnce, FreshIsUnknown
  <2>4. /\ registered' = registered \cup {o} /\ inflight' = inflight \cup {o}
        /\ tmpOrders' \subseteq tmpOrders \cup {o}
    BY <1>7 DEF HandleCreate
  <2>5. FreshIsUnknown'
    <3>. SUFFICES ASSUME NEW p \in Oids, p \notin created' \/ CreateQueued(p)'
                  PROVE  /\ p \notin registered' /\ p \notin symbolOrders'
                         /\ memOrders'[p] = NoStatus /\ stored'[p] = NoStatus
      BY DEF FreshIsUnknown
    <3>1. p # o
      BY <1>4, <2>2, <2>3
    <3>2. p \notin created \/ CreateQueued(p)
      BY <1>2, <1>4
    <3>. QED BY <1>4, <2>4, <3>1, <3>2 DEF CoreInv, FreshIsUnknown
  <2>6. RegistryMatchesCache' /\ OpenSetsMatchOrders'
    BY <1>4, <2>3, <2>4 DEF CoreInv, RegistryMatchesCache, OpenSetsMatchOrders
  <2>7. OpenIsLast' /\ CloseIsRemembered'
    BY <1>4, <2>1, <2>3, <2>4 DEF CoreInv, OpenIsLast, CloseIsRemembered, LastStatus
  <2>. QED BY <1>5, <2>5, <2>6, <2>7 DEF CoreInv
<1>. QED BY <1>6, <1>7 DEF Ems

\* The OMS keeps it.
LEMMA CoreClient == TypeOK /\ CoreInv /\ Client => CoreInv'
<1>. SUFFICES ASSUME TypeOK, CoreInv, Client PROVE CoreInv'
  OBVIOUS
<1>1. ASSUME NEW c \in calls, HandleAnswer(c) PROVE CoreInv'
  <2>1. UNCHANGED <<created, queue, stored>>
    BY <1>1 DEF HandleAnswer, HandleCreateAnswer, HandleCancelAnswer, HandleModifyAnswer,
                HandleCreateWsAnswer, HandleCancelWsAnswer, Take, strategyVars, storeVars
  <2>2. \/ \E status \in {"PENDING", "FAILED", "CANCELING", "CANCEL_FAILED"} :
             OrderStatusUpdate(c.oid, status)
        \/ IgnoreUpdate
    BY <1>1 DEF HandleAnswer, HandleCreateAnswer, HandleCancelAnswer, HandleModifyAnswer,
                HandleCreateWsAnswer, HandleCancelWsAnswer
  <2>. QED BY <2>1, <2>2, CallFacts, PostedStatuses, UpdateKeepsCore DEF OrderStatuses
<1>2. ASSUME NEW o \in Oids, DeliverReport(o) PROVE CoreInv'
  <2>1. Head(feed[o]) \in OrderStatuses
    BY <1>2, PostedStatuses DEF DeliverReport, TypeOK
  <2>. QED BY <1>2, <2>1, UpdateKeepsCore DEF DeliverReport, strategyVars, storeVars
<1>. QED BY <1>1, <1>2 DEF Client

\* The cache keeps it.
LEMMA CoreCache == TypeOK /\ CoreInv /\ Cache => CoreInv'
<1>. SUFFICES ASSUME TypeOK, CoreInv, NEW o \in Oids, EvictOrder(o) \/ ReloadOrder(o)
              PROVE  CoreInv'
  BY DEF Cache
<1>1. UNCHANGED <<created, queue, registryVars, openOrders, symbolOpenOrders, inflight, notified>>
  BY DEF EvictOrder, ReloadOrder, strategyVars, cacheSets
<1>2. \A p \in Oids : LastStatus'[p] = LastStatus[p]
  BY DEF EvictOrder, ReloadOrder, LastStatus, TypeOK, storeVars
<1>3. /\ \A p \in Oids \ {o} : memOrders'[p] = memOrders[p] /\ stored'[p] = stored[p]
      /\ memOrders'[o] \in {NoStatus, LastStatus[o]}
      /\ symbolOrders' \subseteq symbolOrders
      /\ memOrders'[o] = NoStatus => o \notin symbolOrders'
      /\ LastStatus[o] # NoStatus
      /\ memOrders'[o] # NoStatus => memOrders[o] = NoStatus
  BY DEF EvictOrder, ReloadOrder, LastStatus, TypeOK, storeVars, cacheSets
<1>4. CreatesAreOnce' /\ RegistryMatchesCache'
  BY <1>1 DEF CoreInv, CreatesAreOnce, CreateQueued, IsCreate, RegistryMatchesCache, registryVars
<1>5. FreshIsUnknown'
  BY <1>1, <1>3 DEF CoreInv, FreshIsUnknown, CreateQueued, IsCreate, LastStatus, registryVars
<1>6. OpenIsLast' /\ CloseIsRemembered'
  BY <1>1, <1>2 DEF CoreInv, OpenIsLast, CloseIsRemembered
<1>7. OpenSetsMatchOrders'
  BY <1>1, <1>3, StatusFacts DEF CoreInv, OpenSetsMatchOrders, OpenIsLast, registryVars
<1>. QED BY <1>4, <1>5, <1>6, <1>7 DEF CoreInv

\* Every step keeps the types, and registry, open sets and statuses in agreement.
LEMMA CoreStep == LifecycleInv /\ [Next]_vars => LifecycleInv'
<1>. SUFFICES ASSUME TypeOK, CoreInv, [Next]_vars PROVE CoreInv'
  BY TypeStep DEF LifecycleInv
<1>1. CASE UNCHANGED vars
  BY <1>1, CoreStutter DEF vars, coreVars, strategyVars, cacheSets, storeVars
<1>2. CASE Network
  <2>1. UNCHANGED coreVars
    BY <1>2 DEF Network, LoseAnswer, LoseReport, coreVars, strategyVars, cacheSets, storeVars
  <2>. QED BY <2>1, CoreStutter
<1>3. CASE Exchange
  <2>1. UNCHANGED coreVars
    BY <1>3 DEF Exchange, ExchangeAcceptsCreate, ExchangeRejectsLater, ExchangeRefuses,
         ExchangeAcceptsCancel, ExchangeAcceptsModify, ExchangeSweeps, ExchangePartialFill,
         ExchangeFill, ExchangeExpire, ExchangeCancel, Becomes,
         coreVars, strategyVars, cacheSets, storeVars
  <2>. QED BY <2>1, CoreStutter
<1>. QED BY <1>1, <1>2, <1>3, CoreStrategy, CoreEms, CoreClient, CoreCache DEF Next

\* The inductive invariant.
THEOREM LifecycleInvariant == Spec => []LifecycleInv
<1>1. Init => LifecycleInv
  <2>1. Init => TypeOK
    BY DEF Init, TypeOK, ExchStates
  <2>2. Init => CoreInv
    <3>. SUFFICES ASSUME Init PROVE CoreInv
      OBVIOUS
    <3>1. DOMAIN queue = {} /\ \A o \in Oids : LastStatus[o] = NoStatus
      BY DEF Init, LastStatus
    <3>2. CreatesAreOnce /\ FreshIsUnknown /\ RegistryMatchesCache /\ OpenSetsMatchOrders
      BY <3>1, StatusFacts DEF Init, CreatesAreOnce, CreateQueued, FreshIsUnknown,
         RegistryMatchesCache, OpenSetsMatchOrders, LiveStatuses, ClosedStatuses, NoStatus,
         OrderStatuses
    <3>3. OpenIsLast /\ CloseIsRemembered
      BY <3>1, StatusFacts DEF Init, OpenIsLast, CloseIsRemembered, LiveStatuses,
         ClosedStatuses, NoStatus, OrderStatuses
    <3>. QED BY <3>2, <3>3 DEF CoreInv
  <2>. QED BY <2>1, <2>2 DEF LifecycleInv
<1>. QED BY <1>1, CoreStep, PTL DEF Spec

\* The registry follows exactly the orders in flight or open, so no update of
\* an open order is dropped and no late answer opens a closed order again.
THEOREM RegistryIsExact == Spec => []RegistryMatchesCache
<1>1. LifecycleInv => RegistryMatchesCache
  BY DEF LifecycleInv, CoreInv
<1>. QED BY <1>1, LifecycleInvariant, PTL

\* The open sets and the order objects never disagree, through evictions and
\* reloads from the database.
THEOREM OpenSetsAreExact == Spec => []OpenSetsMatchOrders
<1>1. LifecycleInv => OpenSetsMatchOrders
  BY DEF LifecycleInv, CoreInv
<1>. QED BY <1>1, LifecycleInvariant, PTL

\* No answer handled late makes the strategy hear of a closed order anything
\* after its close.
THEOREM CloseIsHeardLast == Spec => []CloseIsLastEvent
<1>1. LifecycleInv => CloseIsLastEvent
  BY StatusFacts DEF LifecycleInv, CoreInv, CloseIsRemembered, CloseIsLastEvent, LastStatus,
                     ClosedStatuses, NoStatus
<1>. QED BY <1>1, LifecycleInvariant, PTL

-----------------------------------------------------------------------------
(* Refinement of OrderStatusSpec.                                           *)

\* Both modules read the same table.
LEMMA PromiseTable ==
  /\ Promise!NoStatus = NoStatus
  /\ Promise!OrderStatuses = OrderStatuses
  /\ Promise!ClosedStatuses = ClosedStatuses
  /\ \A s : Promise!StatusesAfter(s) = StatusesAfter(s)
BY DEF Promise!NoStatus, NoStatus, Promise!OrderStatuses, OrderStatuses, Promise!ClosedStatuses,
       ClosedStatuses, Promise!StatusesAfter, StatusesAfter, Promise!STATUS_TRANSITIONS,
       STATUS_TRANSITIONS

\* An update, refused or taken, is a step or a stutter of the abstract order.
LEMMA UpdateRefines ==
  ASSUME TypeOK, CoreInv, NEW o \in Oids, NEW status \in OrderStatuses,
         OrderStatusUpdate(o, status) \/ IgnoreUpdate, stored' = stored
  PROVE  [Promise!Next]_<<memOrders, LastStatus>>
<1>1. CASE memOrders' = memOrders
  BY <1>1 DEF LastStatus
<1>2. CASE /\ o \in registered /\ ValidTransition(o, status)
           /\ memOrders' = [memOrders EXCEPT ![o] = status]
  <2>1. LastStatus' = [LastStatus EXCEPT ![o] = status]
    BY <1>2, StatusFacts DEF LastStatus, TypeOK
  <2>2. Promise!Update(o, status)
    BY <1>2, <2>1, RegisteredIsOpen, PromiseTable DEF Promise!Update, ValidTransition
  <2>. QED BY <2>2, PromiseTable DEF Promise!Next
<1>. QED BY <1>1, <1>2 DEF OrderStatusUpdate, IgnoreUpdate, CacheOpen, CacheClose

\* An eviction forgets, a reload recalls.
LEMMA CacheRefines ==
  ASSUME TypeOK, NEW o \in Oids, EvictOrder(o) \/ ReloadOrder(o)
  PROVE  [Promise!Next]_<<memOrders, LastStatus>>
<1>1. LastStatus' = LastStatus
  BY DEF EvictOrder, ReloadOrder, LastStatus, TypeOK, storeVars
<1>2. CASE EvictOrder(o)
  BY <1>1, <1>2, PromiseTable DEF EvictOrder, Promise!Next, Promise!Forget
<1>3. CASE ReloadOrder(o)
  <2>1. LastStatus[o] = stored[o]
    BY <1>3 DEF ReloadOrder, LastStatus
  <2>. QED BY <1>1, <1>3, <2>1, PromiseTable DEF ReloadOrder, Promise!Next, Promise!Recall
<1>. QED BY <1>2, <1>3

\* Every step is a step of the status table's promise, or leaves the statuses alone.
LEMMA StepRefines == LifecycleInv /\ [Next]_vars => [Promise!Next]_<<memOrders, LastStatus>>
<1>. SUFFICES ASSUME TypeOK, CoreInv, [Next]_vars PROVE [Promise!Next]_<<memOrders, LastStatus>>
  BY DEF LifecycleInv
<1>1. CASE Strategy \/ Ems \/ Network \/ Exchange \/ UNCHANGED vars
  <2>1. UNCHANGED <<memOrders, stored>>
    BY <1>1 DEF vars, storeVars, Strategy, SubmitCreate, SubmitCancel, SubmitModify,
         SubmitCancelAll, Ems, HandleCreate, HandleRequest, HandleCancelAll, Network,
         LoseAnswer, LoseReport, Exchange, ExchangeAcceptsCreate, ExchangeRejectsLater,
         ExchangeRefuses, ExchangeAcceptsCancel, ExchangeAcceptsModify, ExchangeSweeps,
         ExchangePartialFill, ExchangeFill, ExchangeExpire, ExchangeCancel, Becomes
  <2>. QED BY <2>1 DEF LastStatus
<1>2. ASSUME NEW c \in calls, HandleAnswer(c)
      PROVE  [Promise!Next]_<<memOrders, LastStatus>>
  <2>1. stored' = stored
    BY <1>2 DEF HandleAnswer, HandleCreateAnswer, HandleCancelAnswer, HandleModifyAnswer,
                HandleCreateWsAnswer, HandleCancelWsAnswer, Take, storeVars
  <2>2. \/ \E status \in {"PENDING", "FAILED", "CANCELING", "CANCEL_FAILED"} :
             OrderStatusUpdate(c.oid, status)
        \/ IgnoreUpdate
    BY <1>2 DEF HandleAnswer, HandleCreateAnswer, HandleCancelAnswer, HandleModifyAnswer,
                HandleCreateWsAnswer, HandleCancelWsAnswer
  <2>. QED BY <2>1, <2>2, CallFacts, PostedStatuses, UpdateRefines DEF OrderStatuses
<1>3. ASSUME NEW o \in Oids, DeliverReport(o)
      PROVE  [Promise!Next]_<<memOrders, LastStatus>>
  <2>1. Head(feed[o]) \in OrderStatuses
    BY <1>3, PostedStatuses DEF DeliverReport, TypeOK
  <2>. QED BY <1>3, <2>1, UpdateRefines DEF DeliverReport, storeVars
<1>. QED BY <1>1, <1>2, <1>3, CacheRefines DEF Next, Client, Cache

\* What the cache shows of every order obeys the transition table, and once an
\* order has closed no eviction, reload or late answer changes what it was.
THEOREM CacheKeepsPromise == Spec => StatusPromise
<1>1. Init => Promise!Init
  BY PromiseTable DEF Init, Promise!Init, LastStatus
<1>2. LifecycleInv /\ [Next]_vars => [Promise!Next]_<<memOrders, LastStatus>>
  BY StepRefines
<1>. QED BY <1>1, <1>2, LifecycleInvariant, PTL DEF Spec, StatusPromise, Promise!Spec, Promise!statusVars

-----------------------------------------------------------------------------
(* The order and the venue.                                                 *)

Outcomes == {"FILLED", "CANCELED", "EXPIRED"}

VenueStateOf(status) ==
  CASE status = "FILLED"   -> "filled"
    [] status = "CANCELED" -> "canceled"
    [] status = "EXPIRED"  -> "expired"

\* The venue is asked at most once to create an order, and only then has it.
CreateIsAskedOnce ==
  /\ \A o \in Oids : o \notin created \/ CreateQueued(o) => exch[o] = "none"
  /\ \A c \in calls : IsCreate(c) =>
       /\ c.oid \in created /\ ~ CreateQueued(c.oid)
       /\ c.st = "sent" => exch[c.oid] = "none"
       /\ \A d \in calls : IsCreate(d) /\ d.oid = c.oid => d = c

\* A closing report on its way is true.
ReportsAreTrue ==
  \A o \in Oids : \A i \in DOMAIN feed[o] :
    feed[o][i] \in Outcomes => exch[o] = VenueStateOf(feed[o][i])

\* So is a closing status, evicted or not.
LastIsTrue ==
  \A o \in Oids : LastStatus[o] \in Outcomes => exch[o] = VenueStateOf(LastStatus[o])

\* While a closed order is followed, the report that closes it is on its way.
CloseIsComing ==
  \A o \in Oids : \A status \in {"FILLED", "CANCELED"} :
    exch[o] = VenueStateOf(status) /\ o \notin lost /\ o \in registered
    => \E i \in DOMAIN feed[o] : feed[o][i] = status

VenueInv ==
  /\ CreateIsAskedOnce
  /\ ReportsAreTrue
  /\ LastIsTrue
  /\ CloseIsComing

-----------------------------------------------------------------------------
(* Lemmas.                                                                  *)

LEMMA OutcomeFacts ==
  /\ Outcomes \subseteq ClosedStatuses
  /\ {"FILLED", "CANCELED"} \subseteq Outcomes
  /\ \A a, b \in Outcomes : VenueStateOf(a) = VenueStateOf(b) => a = b
  /\ \A a \in Outcomes : VenueStateOf(a) \in {"filled", "canceled", "expired"}
  /\ NoStatus \notin Outcomes
  /\ {"PENDING", "FAILED", "CANCELING", "CANCEL_FAILED"} \cap Outcomes = {}
BY DEF Outcomes, ClosedStatuses, VenueStateOf, NoStatus

\* Every status but the closed ones may be followed by a fill or a cancel.
LEMMA OutcomeIsAllowed ==
  \A s \in LiveStatuses \cup {NoStatus} : {"FILLED", "CANCELED"} \subseteq StatusesAfter(s)
BY DEF LiveStatuses, OrderStatuses, ClosedStatuses, NoStatus, StatusesAfter, STATUS_TRANSITIONS

\* What an update can do to the registry and to the last statuses.
LEMMA UpdateEffect ==
  ASSUME TypeOK, CoreInv, NEW o \in Oids, NEW status \in OrderStatuses,
         OrderStatusUpdate(o, status) \/ IgnoreUpdate, stored' = stored
  PROVE  /\ registered' \subseteq registered
         /\ \A p \in Oids \ {o} : LastStatus'[p] = LastStatus[p]
         /\ LastStatus'[o] \in {LastStatus[o], status}
<1>1. \/ memOrders' = memOrders
      \/ memOrders' = [memOrders EXCEPT ![o] = status]
  BY DEF OrderStatusUpdate, IgnoreUpdate, CacheOpen, CacheClose
<1>2. registered' \subseteq registered
  BY DEF OrderStatusUpdate, IgnoreUpdate, registryVars
<1>. QED BY <1>1, <1>2, StatusFacts DEF LastStatus, TypeOK

\* A fill or a cancel that is delivered ends the following of the order.
LEMMA OutcomeCloses ==
  ASSUME TypeOK, CoreInv, NEW o \in Oids, NEW status \in {"FILLED", "CANCELED"},
         OrderStatusUpdate(o, status)
  PROVE  o \notin registered'
<1>1. CASE o \notin registered
  BY <1>1 DEF OrderStatusUpdate, registryVars
<1>2. CASE o \in registered
  <2>1. memOrders[o] \in LiveStatuses \cup {NoStatus}
    BY <1>2, RegisteredIsOpen, StatusFacts DEF LastStatus, TypeOK
  <2>2. ValidTransition(o, status) /\ status \notin LiveStatuses
    BY <2>1, OutcomeIsAllowed DEF ValidTransition, LiveStatuses, ClosedStatuses
  <2>. QED BY <1>2, <2>2 DEF OrderStatusUpdate
<1>. QED BY <1>1, <1>2

\* The creates of a step that only answers, fails or drops calls, or lets the
\* venue act on an order it has.
LEMMA AskedOnceStep ==
  ASSUME TypeOK, CreateIsAskedOnce, UNCHANGED <<created, queue>>,
         \/ calls' = calls
         \/ \E c \in calls : calls' = calls \ {c} \/ calls' = Answered(c, "ok")
                                                  \/ calls' = Answered(c, "fail"),
         \A o \in Oids :
           \/ exch'[o] = exch[o]
           \/ exch[o] # "none"
           \/ \E c \in calls : IsCreate(c) /\ c.oid = o /\ calls' = Answered(c, "ok")
  PROVE  CreateIsAskedOnce'
<1>1. \A o \in Oids : CreateQueued(o)' <=> CreateQueued(o)
  BY DEF CreateQueued, IsCreate
<1>2. ASSUME NEW o \in Oids, o \notin created' \/ CreateQueued(o)'
      PROVE  exch'[o] = "none"
  BY <1>1, <1>2 DEF CreateIsAskedOnce
<1>3. ASSUME NEW d \in calls', IsCreate(d)
      PROVE  \E c \in calls : /\ IsCreate(c) /\ c.oid = d.oid
                              /\ d = c \/ (d = [c EXCEPT !.st = d.st] /\ d.st # "sent" /\ c \notin calls')
  <2>1. CASE d \in calls
    BY <1>3, <2>1
  <2>2. CASE d \notin calls
    <3>1. PICK c \in calls, st \in {"ok", "fail"} : d = [c EXCEPT !.st = st] /\ calls' = (calls \ {c}) \cup {d}
      BY <2>2 DEF Answered
    <3>2. c \in Calls
      BY DEF TypeOK
    <3>3. d.st = st /\ d.op = c.op /\ d.oid = c.oid
      BY <3>1, <3>2 DEF Calls
    <3>4. c # d
      BY <2>2
    <3>. QED BY <1>3, <3>1, <3>3, <3>4 DEF IsCreate
  <2>. QED BY <2>1, <2>2
<1>4. ASSUME NEW d \in calls', IsCreate(d)
      PROVE  d.oid \in created' /\ ~ CreateQueued(d.oid)'
  BY <1>3, <1>4, CallFacts, <1>1 DEF CreateIsAskedOnce
<1>5. ASSUME NEW d \in calls', IsCreate(d), d.st = "sent"
      PROVE  exch'[d.oid] = "none"
  <2>1. d \in calls
    BY <1>3, <1>5
  <2>2. d.oid \in Oids /\ exch[d.oid] = "none"
    BY <1>5, <2>1, CallFacts DEF CreateIsAskedOnce
  <2>3. ASSUME NEW c \in calls, IsCreate(c), c.oid = d.oid, calls' = Answered(c, "ok")
        PROVE  FALSE
    <3>1. c = d
      BY <1>5, <2>1, <2>3 DEF CreateIsAskedOnce
    <3>2. d = [c EXCEPT !.st = "ok"]
      BY <2>3, <3>1 DEF Answered
    <3>3. c \in Calls
      BY DEF TypeOK
    <3>. QED BY <1>5, <3>1, <3>2, <3>3 DEF Calls
  <2>. QED BY <2>2, <2>3
<1>6. ASSUME NEW d \in calls', IsCreate(d), NEW e \in calls', IsCreate(e), e.oid = d.oid
      PROVE  e = d
  <2>1. PICK c \in calls : /\ IsCreate(c) /\ c.oid = d.oid
                           /\ d = c \/ (d = [c EXCEPT !.st = d.st] /\ d.st # "sent" /\ c \notin calls')
    BY <1>3, <1>6
  <2>2. PICK b \in calls : /\ IsCreate(b) /\ b.oid = e.oid
                           /\ e = b \/ (e = [b EXCEPT !.st = e.st] /\ e.st # "sent" /\ b \notin calls')
    BY <1>3, <1>6
  <2>3. b = c
    BY <1>6, <2>1, <2>2 DEF CreateIsAskedOnce
  <2>4. CASE d \in calls /\ e \in calls
    BY <1>6, <2>4 DEF CreateIsAskedOnce
  <2>5. CASE d \notin calls \/ e \notin calls
    <3>1. c \notin calls'
      BY <2>1, <2>2, <2>3, <2>5
    <3>2. d \notin calls /\ e \notin calls
      BY <1>6, <2>1, <2>2, <2>3, <3>1 DEF CreateIsAskedOnce
    <3>. QED BY <3>2 DEF Answered
  <2>. QED BY <2>4, <2>5
<1>. QED BY <1>2, <1>4, <1>5, <1>6 DEF CreateIsAskedOnce, IsCreate

\* The venue's own steps: an order it has not closed may close, and says so; a
\* report that does not say so changes no outcome.
LEMMA ReportsGrow ==
  ASSUME TypeOK, ReportsAreTrue, LastIsTrue, CloseIsComing,
         UNCHANGED <<memOrders, stored, registered, lost>>,
         \A o \in Oids :
           \/ feed'[o] = feed[o] /\ exch'[o] = exch[o]
           \/ \E s \in ReportStatuses :
                /\ feed'[o] = Append(feed[o], s)
                /\ \/ s \notin Outcomes /\ exch'[o] = exch[o]
                   \/ /\ exch[o] \notin {"filled", "canceled", "expired"}
                      /\ s \in Outcomes => exch'[o] = VenueStateOf(s)
                      /\ s \notin Outcomes => exch'[o] \notin {"filled", "canceled", "expired"}
  PROVE  ReportsAreTrue' /\ LastIsTrue' /\ CloseIsComing'
<1>. SUFFICES ASSUME NEW o \in Oids
              PROVE  /\ \A i \in DOMAIN feed'[o] :
                          feed'[o][i] \in Outcomes => exch'[o] = VenueStateOf(feed'[o][i])
                     /\ LastStatus'[o] \in Outcomes => exch'[o] = VenueStateOf(LastStatus'[o])
                     /\ \A status \in {"FILLED", "CANCELED"} :
                          exch'[o] = VenueStateOf(status) /\ o \notin lost' /\ o \in registered'
                          => \E i \in DOMAIN feed'[o] : feed'[o][i] = status
  BY DEF ReportsAreTrue, LastIsTrue, CloseIsComing
<1>1. LastStatus'[o] = LastStatus[o] /\ feed[o] \in Seq(ReportStatuses)
  BY DEF LastStatus, TypeOK
<1>2. CASE feed'[o] = feed[o] /\ exch'[o] = exch[o]
  BY <1>1, <1>2 DEF ReportsAreTrue, LastIsTrue, CloseIsComing
<1>3. ASSUME NEW s \in ReportStatuses, feed'[o] = Append(feed[o], s),
             \/ s \notin Outcomes /\ exch'[o] = exch[o]
             \/ /\ exch[o] \notin {"filled", "canceled", "expired"}
                /\ s \in Outcomes => exch'[o] = VenueStateOf(s)
                /\ s \notin Outcomes => exch'[o] \notin {"filled", "canceled", "expired"}
      PROVE  /\ \A i \in DOMAIN feed'[o] :
                  feed'[o][i] \in Outcomes => exch'[o] = VenueStateOf(feed'[o][i])
             /\ LastStatus'[o] \in Outcomes => exch'[o] = VenueStateOf(LastStatus'[o])
             /\ \A status \in {"FILLED", "CANCELED"} :
                  exch'[o] = VenueStateOf(status) /\ o \notin lost' /\ o \in registered'
                  => \E i \in DOMAIN feed'[o] : feed'[o][i] = status
  <2>1. /\ \A i \in DOMAIN feed[o] : i \in DOMAIN feed'[o] /\ feed'[o][i] = feed[o][i]
        /\ \A i \in DOMAIN feed'[o] : i \in DOMAIN feed[o] \/ feed'[o][i] = s
        /\ \E i \in DOMAIN feed'[o] : feed'[o][i] = s
    <3>1. DOMAIN feed'[o] = DOMAIN feed[o] \cup {Len(feed[o]) + 1}
      BY <1>1, <1>3
    <3>. QED BY <1>1, <1>3, <3>1
  <2>2. \A i \in DOMAIN feed[o] : feed[o][i] \in Outcomes => exch[o] = VenueStateOf(feed[o][i])
    BY DEF ReportsAreTrue
  <2>3. CASE s \notin Outcomes /\ exch'[o] = exch[o]
    BY <1>1, <2>1, <2>2, <2>3, OutcomeFacts DEF LastIsTrue, CloseIsComing
  <2>4. CASE /\ exch[o] \notin {"filled", "canceled", "expired"}
             /\ s \in Outcomes => exch'[o] = VenueStateOf(s)
             /\ s \notin Outcomes => exch'[o] \notin {"filled", "canceled", "expired"}
    <3>1. \A i \in DOMAIN feed[o] : feed[o][i] \notin Outcomes
      BY <2>2, <2>4, OutcomeFacts
    <3>2. LastStatus[o] \notin Outcomes
      BY <2>4, OutcomeFacts DEF LastIsTrue
    <3>3. \A status \in {"FILLED", "CANCELED"} : exch'[o] = VenueStateOf(status) => s = status
      BY <2>4, OutcomeFacts
    <3>. QED BY <1>1, <2>1, <2>4, <3>1, <3>2, <3>3
  <2>. QED BY <1>3, <2>3, <2>4
<1>. QED BY <1>2, <1>3

\* Where the elements of a tail are found.
LEMMA TailFacts ==
  ASSUME NEW S, NEW q \in Seq(S), q # <<>>
  PROVE  /\ Tail(q) \in Seq(S) /\ Head(q) \in S
         /\ 1 \in DOMAIN q /\ Head(q) = q[1]
         /\ \A i \in DOMAIN Tail(q) : i + 1 \in DOMAIN q /\ Tail(q)[i] = q[i + 1]
         /\ \A j \in DOMAIN q \ {1} : j - 1 \in DOMAIN Tail(q) /\ Tail(q)[j - 1] = q[j]
<1>1. DOMAIN q = 1..Len(q) /\ Len(q) \in Nat \ {0}
  OBVIOUS
<1>2. Tail(q) \in Seq(S) /\ Len(Tail(q)) = Len(q) - 1
  OBVIOUS
<1>3. DOMAIN Tail(q) = 1..(Len(q) - 1)
  BY <1>2
<1>4. \A i \in 1..(Len(q) - 1) : Tail(q)[i] = q[i + 1]
  OBVIOUS
<1>5. ASSUME NEW j \in DOMAIN q \ {1} PROVE j - 1 \in DOMAIN Tail(q) /\ Tail(q)[j - 1] = q[j]
  BY <1>1, <1>3, <1>4
<1>. QED BY <1>1, <1>2, <1>3, <1>4, <1>5

\* The first report of an order leaves the stream, delivered or lost.
LEMMA ReportGone ==
  ASSUME TypeOK, NEW o \in Oids, feed[o] # <<>>, feed' = [feed EXCEPT ![o] = Tail(@)]
  PROVE  /\ \A p \in Oids \ {o} : feed'[p] = feed[p]
         /\ \A i \in DOMAIN feed'[o] : \E j \in DOMAIN feed[o] : feed'[o][i] = feed[o][j]
         /\ \A j \in DOMAIN feed[o] :
              feed[o][j] = Head(feed[o]) \/ \E i \in DOMAIN feed'[o] : feed'[o][i] = feed[o][j]
         /\ Head(feed[o]) \in ReportStatuses /\ \E j \in DOMAIN feed[o] : feed[o][j] = Head(feed[o])
<1>1. feed[o] \in Seq(ReportStatuses) /\ feed'[o] = Tail(feed[o])
  BY DEF TypeOK
<1>2. \A p \in Oids \ {o} : feed'[p] = feed[p]
  BY DEF TypeOK
<1>3. /\ \A i \in DOMAIN feed'[o] : i + 1 \in DOMAIN feed[o] /\ feed'[o][i] = feed[o][i + 1]
      /\ \A j \in DOMAIN feed[o] \ {1} : j - 1 \in DOMAIN feed'[o] /\ feed'[o][j - 1] = feed[o][j]
      /\ 1 \in DOMAIN feed[o] /\ feed[o][1] = Head(feed[o])
  <2>1. /\ \A i \in DOMAIN Tail(feed[o]) : i + 1 \in DOMAIN feed[o] /\ Tail(feed[o])[i] = feed[o][i + 1]
        /\ \A j \in DOMAIN feed[o] \ {1} :
             j - 1 \in DOMAIN Tail(feed[o]) /\ Tail(feed[o])[j - 1] = feed[o][j]
        /\ 1 \in DOMAIN feed[o] /\ Head(feed[o]) = feed[o][1]
    BY <1>1, TailFacts, Zenon
  <2>. QED BY <1>1, <2>1, Zenon
<1>4. ASSUME NEW j \in DOMAIN feed[o]
      PROVE  feed[o][j] = Head(feed[o]) \/ \E i \in DOMAIN feed'[o] : feed'[o][i] = feed[o][j]
  <2>1. CASE j = 1
    BY <1>3, <2>1
  <2>2. CASE j # 1
    BY <1>3, <2>2
  <2>. QED BY <2>1, <2>2
<1>5. \A i \in DOMAIN feed'[o] : \E j \in DOMAIN feed[o] : feed'[o][i] = feed[o][j]
  BY <1>3
<1>6. Head(feed[o]) \in ReportStatuses /\ \E j \in DOMAIN feed[o] : feed[o][j] = Head(feed[o])
  BY <1>1, <1>3, TailFacts, Zenon
<1>. QED BY <1>2, <1>4, <1>5, <1>6

-----------------------------------------------------------------------------
(* The steps.                                                               *)

OtherVenueVars == <<memOrders, stored, registered, lost, feed, exch>>

\* Steps that leave the orders, the registry, the stream and the venue alone.
LEMMA VenueStutter ==
  ReportsAreTrue /\ LastIsTrue /\ CloseIsComing /\ UNCHANGED OtherVenueVars
  => ReportsAreTrue' /\ LastIsTrue' /\ CloseIsComing'
BY DEF ReportsAreTrue, LastIsTrue, CloseIsComing, OtherVenueVars, LastStatus

\* The strategy keeps what ties the venue's book to the reports.
LEMMA VenueStrategy == TypeOK /\ CoreInv /\ VenueInv /\ Strategy => VenueInv'
<1>. SUFFICES ASSUME TypeOK, CoreInv, VenueInv, Strategy PROVE VenueInv'
  OBVIOUS
<1>1. UNCHANGED OtherVenueVars /\ calls' = calls
  BY DEF Strategy, SubmitCreate, SubmitCancel, SubmitModify, SubmitCancelAll, OtherVenueVars,
         registryVars, storeVars, netVars, exchVars
<1>2. ReportsAreTrue' /\ LastIsTrue' /\ CloseIsComing'
  BY <1>1, VenueStutter DEF VenueInv
<1>3. ASSUME NEW o \in Oids, SubmitCreate(o) PROVE CreateIsAskedOnce'
  <2>1. PICK op \in CreateOps : queue' = Append(queue, [op |-> op, oid |-> o])
    BY <1>3 DEF SubmitCreate
  <2>2. \A p \in Oids \ {o} : CreateQueued(p)' => CreateQueued(p)
    BY <2>1, QueuePut DEF CreateQueued, IsCreate
  <2>3. o \notin created /\ created' = created \cup {o} /\ exch[o] = "none"
    BY <1>3 DEF SubmitCreate, VenueInv, CreateIsAskedOnce
  <2>4. \A c \in calls : c.oid \in Oids
    BY CallFacts
  <2>5. \A c \in calls : IsCreate(c) => c.oid # o /\ ~ CreateQueued(c.oid)'
    BY <2>2, <2>3, <2>4 DEF VenueInv, CreateIsAskedOnce
  <2>6. exch' = exch
    BY <1>1 DEF OtherVenueVars
  <2>7. \A p \in Oids : p \notin created' \/ CreateQueued(p)' => exch'[p] = "none"
    BY <2>2, <2>3, <2>6 DEF VenueInv, CreateIsAskedOnce
  <2>. QED BY <1>1, <2>3, <2>5, <2>6, <2>7 DEF VenueInv, CreateIsAskedOnce, IsCreate
<1>4. CASE \/ \E o \in Oids : SubmitCancel(o) \/ SubmitModify(o)
           \/ \E s \in Symbols : SubmitCancelAll(s)
  <2>1. PICK sub : ~ IsCreate(sub) /\ queue' = Append(queue, sub)
    BY <1>4, LifecycleAssumption
       DEF LifecycleAssumption, SubmitCancel, SubmitModify, SubmitCancelAll, IsCreate
  <2>2. \A p \in Oids : CreateQueued(p)' => CreateQueued(p)
    BY <2>1, QueuePut DEF CreateQueued, IsCreate
  <2>3. created' = created /\ exch' = exch
    BY <1>1, <1>4 DEF SubmitCancel, SubmitModify, SubmitCancelAll, OtherVenueVars
  <2>4. \A p \in Oids : p \notin created' \/ CreateQueued(p)' => exch'[p] = "none"
    BY <2>2, <2>3 DEF VenueInv, CreateIsAskedOnce
  <2>5. \A c \in calls : IsCreate(c) => c.oid \in created' /\ ~ CreateQueued(c.oid)'
    BY <2>2, <2>3, CallFacts DEF VenueInv, CreateIsAskedOnce
  <2>6. \A c \in calls' : IsCreate(c) =>
          /\ c.st = "sent" => exch'[c.oid] = "none"
          /\ \A d \in calls' : IsCreate(d) /\ d.oid = c.oid => d = c
    BY <1>1, <2>3 DEF VenueInv, CreateIsAskedOnce
  <2>7. CreateIsAskedOnce'
    BY <1>1, <2>4, <2>5, <2>6 DEF CreateIsAskedOnce, IsCreate
  <2>. QED BY <1>2, <2>7 DEF VenueInv
<1>. QED BY <1>2, <1>3, <1>4 DEF Strategy, VenueInv

\* The EMS keeps it.
LEMMA VenueEms == TypeOK /\ CoreInv /\ VenueInv /\ Ems => VenueInv'
<1>. SUFFICES ASSUME TypeOK, CoreInv, VenueInv, Ems PROVE VenueInv'
  OBVIOUS
<1>1. queue # <<>> /\ queue' = Tail(queue)
  BY DEF Ems, HandleCreate, HandleRequest, HandleCancelAll
<1>2. \A o \in Oids : CreateQueued(o)' => CreateQueued(o)
  BY <1>1, QueueGet DEF CreateQueued, IsCreate
<1>3. UNCHANGED <<memOrders, stored, lost, feed, exch, created>>
  BY DEF Ems, HandleCreate, HandleRequest, HandleCancelAll, storeVars, exchVars
<1>4. \A c \in calls : c.oid \in Oids
  BY CallFacts
<1>5. CASE HandleRequest \/ HandleCancelAll
  <2>1. \A c \in calls' : IsCreate(c) => c \in calls
    BY <1>5 DEF HandleRequest, HandleCancelAll, NewCall, IsCreate
  <2>2. registered' = registered
    BY <1>5 DEF HandleRequest, HandleCancelAll, registryVars
  <2>3. ReportsAreTrue' /\ LastIsTrue' /\ CloseIsComing'
    BY <1>3, <2>2, VenueStutter DEF OtherVenueVars, VenueInv
  <2>4. CreateIsAskedOnce'
    BY <1>2, <1>3, <1>4, <2>1 DEF VenueInv, CreateIsAskedOnce, IsCreate
  <2>. QED BY <2>3, <2>4 DEF VenueInv
<1>6. CASE HandleCreate
  <2>. DEFINE o == Head(queue).oid
  <2>1. o \in Oids /\ IsCreate(Head(queue))
    BY <1>1, <1>6 DEF HandleCreate, IsCreate, TypeOK, Submissions, CallOps
  <2>2. CreateQueued(o) /\ \A p \in Oids : CreateQueued(p)' => p # o
    <3>1. CreateQueued(o)
      BY <1>1, <2>1, QueueGet DEF CreateQueued
    <3>2. ASSUME NEW i \in DOMAIN queue', IsCreate(queue'[i]), queue'[i].oid = o PROVE FALSE
      BY <1>1, <2>1, <3>2, QueueGet DEF CoreInv, CreatesAreOnce, IsCreate
    <3>. QED BY <3>1, <3>2 DEF CreateQueued, IsCreate
  <2>3. o \in created /\ exch[o] = "none"
    BY <2>1, <2>2 DEF CoreInv, CreatesAreOnce, VenueInv, CreateIsAskedOnce
  <2>4. \A c \in calls' : c \in calls \/ c.oid = o
    BY <1>6 DEF HandleCreate, NewCall
  <2>5. \A c \in calls : IsCreate(c) => c.oid # o
    BY <2>2 DEF VenueInv, CreateIsAskedOnce
  <2>6. \A c, d \in calls' : c.oid = o /\ d.oid = o /\ IsCreate(c) /\ IsCreate(d) => c = d
    BY <1>6, <2>5 DEF HandleCreate
  <2>7. ASSUME NEW c \in calls', IsCreate(c)
        PROVE  /\ c.oid \in created' /\ ~ CreateQueued(c.oid)'
               /\ c.st = "sent" => exch'[c.oid] = "none"
               /\ \A d \in calls' : IsCreate(d) /\ d.oid = c.oid => d = c
    <3>1. CASE c.oid = o
      BY <1>3, <2>1, <2>2, <2>3, <2>6, <2>7, <3>1
    <3>2. CASE c.oid # o
      BY <1>2, <1>3, <1>4, <2>4, <2>7, <3>2 DEF VenueInv, CreateIsAskedOnce
    <3>. QED BY <3>1, <3>2
  <2>8. CreateIsAskedOnce'
    BY <1>2, <1>3, <2>7 DEF VenueInv, CreateIsAskedOnce, IsCreate
  <2>9. registered' = registered \cup {o}
    BY <1>6 DEF HandleCreate
  <2>10. ReportsAreTrue' /\ LastIsTrue'
    BY <1>3 DEF VenueInv, ReportsAreTrue, LastIsTrue, LastStatus
  <2>11. CloseIsComing'
    BY <1>3, <2>3, <2>9, OutcomeFacts DEF VenueInv, CloseIsComing
  <2>. QED BY <2>8, <2>10, <2>11 DEF VenueInv
<1>. QED BY <1>5, <1>6 DEF Ems

\* The OMS keeps it.
LEMMA VenueClient == TypeOK /\ CoreInv /\ VenueInv /\ Client => VenueInv'
<1>. SUFFICES ASSUME TypeOK, CoreInv, VenueInv, Client PROVE VenueInv'
  OBVIOUS
<1>1. ASSUME NEW c \in calls, HandleAnswer(c) PROVE VenueInv'
  <2>1. UNCHANGED <<created, queue, stored, feed, lost, exch>> /\ calls' = calls \ {c}
    BY <1>1 DEF HandleAnswer, HandleCreateAnswer, HandleCancelAnswer, HandleModifyAnswer,
                HandleCreateWsAnswer, HandleCancelWsAnswer, Take, strategyVars, storeVars, exchVars
  <2>2. PICK status \in {"PENDING", "FAILED", "CANCELING", "CANCEL_FAILED"} :
          OrderStatusUpdate(c.oid, status) \/ IgnoreUpdate
    BY <1>1 DEF HandleAnswer, HandleCreateAnswer, HandleCancelAnswer, HandleModifyAnswer,
                HandleCreateWsAnswer, HandleCancelWsAnswer
  <2>3. /\ registered' \subseteq registered
        /\ \A p \in Oids : LastStatus'[p] \in {LastStatus[p], status}
    BY <2>1, <2>2, CallFacts, PostedStatuses, UpdateEffect
  <2>4. CreateIsAskedOnce'
    BY <2>1, AskedOnceStep DEF VenueInv
  <2>5. ReportsAreTrue' /\ LastIsTrue' /\ CloseIsComing'
    BY <2>1, <2>3, OutcomeFacts DEF VenueInv, ReportsAreTrue, LastIsTrue, CloseIsComing
  <2>. QED BY <2>4, <2>5 DEF VenueInv
<1>2. ASSUME NEW o \in Oids, DeliverReport(o) PROVE VenueInv'
  <2>. DEFINE status == Head(feed[o])
  <2>1. /\ UNCHANGED <<created, queue, stored, lost, exch, calls>>
        /\ feed[o] # <<>> /\ feed' = [feed EXCEPT ![o] = Tail(@)]
        /\ OrderStatusUpdate(o, status)
    BY <1>2 DEF DeliverReport, strategyVars, storeVars, exchVars
  <2>2. status \in ReportStatuses /\ \E j \in DOMAIN feed[o] : feed[o][j] = status
    BY <2>1, ReportGone
  <2>3. /\ registered' \subseteq registered
        /\ \A p \in Oids \ {o} : LastStatus'[p] = LastStatus[p]
        /\ LastStatus'[o] \in {LastStatus[o], status}
    BY <2>1, <2>2, PostedStatuses, UpdateEffect
  <2>4. CreateIsAskedOnce'
    BY <2>1, AskedOnceStep DEF VenueInv
  <2>5. ReportsAreTrue'
    BY <2>1, ReportGone DEF VenueInv, ReportsAreTrue
  <2>6. LastIsTrue'
    BY <2>1, <2>2, <2>3 DEF VenueInv, ReportsAreTrue, LastIsTrue
  <2>7. /\ \A p \in Oids \ {o} : feed'[p] = feed[p]
        /\ \A i \in DOMAIN feed'[o] : \E j \in DOMAIN feed[o] : feed'[o][i] = feed[o][j]
        /\ \A j \in DOMAIN feed[o] :
             feed[o][j] = Head(feed[o]) \/ \E i \in DOMAIN feed'[o] : feed'[o][i] = feed[o][j]
    BY <2>1, ReportGone
  <2>8. ASSUME NEW p \in Oids, NEW s \in {"FILLED", "CANCELED"},
               exch'[p] = VenueStateOf(s), p \notin lost', p \in registered'
        PROVE  \E i \in DOMAIN feed'[p] : feed'[p][i] = s
    <3>1. PICK j \in DOMAIN feed[p] : feed[p][j] = s
      BY <2>1, <2>3, <2>8 DEF VenueInv, CloseIsComing
    <3>2. p = o => status # s
      BY <2>1, <2>8, OutcomeCloses
    <3>3. CASE p = o
      BY <2>7, <3>1, <3>2, <3>3
    <3>4. CASE p # o
      BY <2>7, <3>1, <3>4
    <3>. QED BY <3>3, <3>4
  <2>9. CloseIsComing'
    BY <2>8 DEF CloseIsComing
  <2>. QED BY <2>4, <2>5, <2>6, <2>9 DEF VenueInv
<1>. QED BY <1>1, <1>2 DEF Client

\* The cache keeps it.
LEMMA VenueCache == TypeOK /\ CoreInv /\ VenueInv /\ Cache => VenueInv'
<1>. SUFFICES ASSUME TypeOK, VenueInv, NEW o \in Oids, EvictOrder(o) \/ ReloadOrder(o)
              PROVE  VenueInv'
  BY DEF Cache
<1>1. UNCHANGED <<created, queue, calls, registered, lost, feed, exch>>
  BY DEF EvictOrder, ReloadOrder, strategyVars, registryVars, netVars, exchVars
<1>2. \A p \in Oids : LastStatus'[p] = LastStatus[p]
  BY DEF EvictOrder, ReloadOrder, LastStatus, TypeOK, storeVars
<1>3. CreateIsAskedOnce'
  BY <1>1, AskedOnceStep DEF VenueInv
<1>. QED BY <1>1, <1>2, <1>3 DEF VenueInv, ReportsAreTrue, LastIsTrue, CloseIsComing

\* The network keeps it.
LEMMA VenueNetwork == TypeOK /\ CoreInv /\ VenueInv /\ Network => VenueInv'
<1>. SUFFICES ASSUME TypeOK, VenueInv, Network PROVE VenueInv'
  OBVIOUS
<1>1. ASSUME NEW c \in calls, LoseAnswer(c) PROVE VenueInv'
  <2>1. UNCHANGED OtherVenueVars /\ UNCHANGED <<created, queue>>
    BY <1>1 DEF LoseAnswer, OtherVenueVars, strategyVars, registryVars, storeVars, exchVars
  <2>2. calls' = calls \ {c} \/ calls' = Answered(c, "fail")
    BY <1>1 DEF LoseAnswer, Answered
  <2>3. CreateIsAskedOnce'
    BY <2>1, <2>2, AskedOnceStep DEF VenueInv, OtherVenueVars
  <2>. QED BY <2>1, <2>3, VenueStutter DEF VenueInv
<1>2. ASSUME NEW o \in Oids, LoseReport(o) PROVE VenueInv'
  <2>1. /\ UNCHANGED <<created, queue, stored, memOrders, registered, exch, calls>>
        /\ lost' = lost \cup {o}
        /\ feed[o] # <<>> /\ feed' = [feed EXCEPT ![o] = Tail(@)]
    BY <1>2 DEF LoseReport, strategyVars, registryVars, storeVars, exchVars
  <2>2. CreateIsAskedOnce'
    BY <2>1, AskedOnceStep DEF VenueInv
  <2>3. /\ \A p \in Oids \ {o} : feed'[p] = feed[p]
        /\ \A i \in DOMAIN feed'[o] : \E j \in DOMAIN feed[o] : feed'[o][i] = feed[o][j]
        /\ \A j \in DOMAIN feed[o] :
             feed[o][j] = Head(feed[o]) \/ \E i \in DOMAIN feed'[o] : feed'[o][i] = feed[o][j]
    BY <2>1, ReportGone
  <2>4. ReportsAreTrue'
    <3>. SUFFICES ASSUME NEW p \in Oids, NEW i \in DOMAIN feed'[p], feed'[p][i] \in Outcomes
                  PROVE  exch'[p] = VenueStateOf(feed'[p][i])
      BY DEF ReportsAreTrue
    <3>1. PICK j \in DOMAIN feed[p] : feed'[p][i] = feed[p][j]
      BY <2>3
    <3>. QED BY <2>1, <3>1 DEF VenueInv, ReportsAreTrue
  <2>5. LastIsTrue'
    BY <2>1 DEF VenueInv, LastIsTrue, LastStatus
  <2>6. CloseIsComing'
    BY <2>1, <2>3 DEF VenueInv, CloseIsComing
  <2>. QED BY <2>2, <2>4, <2>5, <2>6 DEF VenueInv
<1>. QED BY <1>1, <1>2 DEF Network

\* The venue keeps it.
LEMMA VenueExchange == TypeOK /\ CoreInv /\ VenueInv /\ Exchange => VenueInv'
<1>. SUFFICES ASSUME TypeOK, VenueInv, Exchange PROVE VenueInv'
  OBVIOUS
<1>1. UNCHANGED <<created, queue, memOrders, stored, registered, lost>>
  BY DEF Exchange, ExchangeAcceptsCreate, ExchangeRejectsLater, ExchangeRefuses,
         ExchangeAcceptsCancel, ExchangeAcceptsModify, ExchangeSweeps, ExchangePartialFill,
         ExchangeFill, ExchangeExpire, ExchangeCancel, Becomes, strategyVars, registryVars, storeVars
<1>2. ASSUME NEW c \in calls, ExchangeAcceptsCreate(c) \/ ExchangeRejectsLater(c)
      PROVE  VenueInv'
  <2>. DEFINE o == c.oid
  <2>1. PICK status \in {"ACCEPTED", "FAILED"}, state \in {"new", "rejected"} :
          /\ calls' = Answered(c, "ok")
          /\ exch' = [exch EXCEPT ![o] = state]
          /\ feed' = [feed EXCEPT ![o] = Append(@, status)]
    BY <1>2 DEF ExchangeAcceptsCreate, ExchangeRejectsLater, Report
  <2>2. o \in Oids /\ IsCreate(c) /\ exch[o] = "none"
    BY <1>2, CallFacts DEF ExchangeAcceptsCreate, ExchangeRejectsLater, IsCreate, VenueInv,
       CreateIsAskedOnce
  <2>3. CreateIsAskedOnce'
    <3>1. \A p \in Oids : p # o => exch'[p] = exch[p]
      BY <2>1 DEF TypeOK
    <3>. QED BY <1>1, <2>1, <2>2, <3>1, AskedOnceStep DEF VenueInv
  <2>4. status \in ReportStatuses /\ status \notin Outcomes
    BY DEF ReportStatuses, Outcomes
  <2>5. \A p \in Oids \ {o} : feed'[p] = feed[p] /\ exch'[p] = exch[p]
    BY <2>1 DEF TypeOK
  <2>6. feed'[o] = Append(feed[o], status) /\ exch'[o] = state
    BY <2>1, <2>2 DEF TypeOK
  <2>7. ReportsAreTrue' /\ LastIsTrue' /\ CloseIsComing'
    BY <1>1, <2>2, <2>4, <2>5, <2>6, ReportsGrow DEF VenueInv
  <2>. QED BY <2>3, <2>7 DEF VenueInv
<1>3. ASSUME NEW c \in calls, ExchangeRefuses(c) \/ ExchangeAcceptsCancel(c) PROVE VenueInv'
  <2>1. UNCHANGED <<feed, exch>> /\ (calls' = Answered(c, "ok") \/ calls' = Answered(c, "fail"))
    BY <1>3 DEF ExchangeRefuses, ExchangeAcceptsCancel, exchVars
  <2>2. CreateIsAskedOnce'
    BY <1>1, <2>1, AskedOnceStep DEF VenueInv
  <2>. QED BY <1>1, <2>1, <2>2, VenueStutter DEF VenueInv, OtherVenueVars
<1>4. ASSUME NEW c \in calls, ExchangeAcceptsModify(c) PROVE VenueInv'
  <2>. DEFINE o == c.oid
  <2>1. PICK status \in {"ACCEPTED", "PARTIALLY_FILLED"} :
          /\ calls' = Answered(c, "ok")
          /\ exch' = exch
          /\ feed' = [feed EXCEPT ![o] = Append(@, status)]
    BY <1>4 DEF ExchangeAcceptsModify, Report, OrderReport, exchVars
  <2>2. CreateIsAskedOnce'
    BY <1>1, <2>1, AskedOnceStep DEF VenueInv
  <2>3. status \in ReportStatuses /\ status \notin Outcomes /\ o \in Oids
    BY CallFacts DEF ReportStatuses, Outcomes
  <2>4. /\ \A p \in Oids \ {o} : feed'[p] = feed[p]
        /\ feed'[o] = Append(feed[o], status)
    BY <2>1, <2>3 DEF TypeOK
  <2>5. ReportsAreTrue' /\ LastIsTrue' /\ CloseIsComing'
    BY <1>1, <2>1, <2>3, <2>4, ReportsGrow DEF VenueInv
  <2>. QED BY <2>2, <2>5 DEF VenueInv
<1>5. ASSUME NEW s \in Symbols, ExchangeSweeps(s) PROVE VenueInv'
  <2>1. UNCHANGED <<feed, exch, calls>>
    BY <1>5 DEF ExchangeSweeps
  <2>2. CreateIsAskedOnce'
    BY <1>1, <2>1, AskedOnceStep DEF VenueInv
  <2>. QED BY <1>1, <2>1, <2>2, VenueStutter DEF VenueInv, OtherVenueVars
<1>6. ASSUME NEW o \in Oids,
             \/ ExchangePartialFill(o) \/ ExchangeFill(o)
             \/ ExchangeExpire(o) \/ ExchangeCancel(o)
      PROVE  VenueInv'
  <2>1. PICK state \in {"partial", "filled", "expired", "canceled"},
             status \in {"PARTIALLY_FILLED", "FILLED", "EXPIRED", "CANCELED"} :
          /\ Live(o) /\ Becomes(o, state, status)
          /\ status \in Outcomes => state = VenueStateOf(status)
          /\ status \notin Outcomes => state = "partial"
    BY <1>6 DEF ExchangePartialFill, ExchangeFill, ExchangeExpire, ExchangeCancel, Live,
       Outcomes, VenueStateOf
  <2>2. calls' = calls /\ exch[o] \in {"new", "partial"}
    BY <2>1 DEF Becomes, Live
  <2>3. /\ \A p \in Oids \ {o} : feed'[p] = feed[p] /\ exch'[p] = exch[p]
        /\ feed'[o] = Append(feed[o], status) /\ exch'[o] = state
    BY <2>1 DEF Becomes, Report, TypeOK
  <2>4. CreateIsAskedOnce'
    BY <1>1, <2>2, <2>3, AskedOnceStep DEF VenueInv
  <2>5. status \in ReportStatuses
    BY DEF ReportStatuses
  <2>6. ReportsAreTrue' /\ LastIsTrue' /\ CloseIsComing'
    BY <1>1, <2>1, <2>2, <2>3, <2>5, ReportsGrow DEF VenueInv
  <2>. QED BY <2>4, <2>6 DEF VenueInv
<1>. QED BY <1>2, <1>3, <1>4, <1>5, <1>6 DEF Exchange

\* Every step keeps what ties the venue's book to the reports.
LEMMA VenueStep == LifecycleInv /\ VenueInv /\ [Next]_vars => VenueInv'
<1>. SUFFICES ASSUME TypeOK, CoreInv, VenueInv, [Next]_vars PROVE VenueInv'
  BY DEF LifecycleInv
<1>1. CASE UNCHANGED vars
  <2>1. UNCHANGED OtherVenueVars /\ UNCHANGED <<created, queue, calls>>
    BY <1>1 DEF vars, OtherVenueVars, strategyVars, registryVars, storeVars, netVars, exchVars
  <2>2. CreateIsAskedOnce'
    BY <2>1, AskedOnceStep DEF VenueInv, OtherVenueVars
  <2>. QED BY <2>1, <2>2, VenueStutter DEF VenueInv
<1>. QED BY <1>1, VenueStrategy, VenueEms, VenueClient, VenueCache, VenueNetwork, VenueExchange
         DEF Next

\* The second inductive invariant, on top of LifecycleInv.
THEOREM VenueInvariant == Spec => []VenueInv
<1>1. Init => VenueInv
  <2>. SUFFICES ASSUME Init PROVE VenueInv
    OBVIOUS
  <2>1. /\ calls = {} /\ registered = {}
        /\ \A o \in Oids : /\ DOMAIN feed[o] = {} /\ LastStatus[o] = NoStatus
                           /\ exch[o] = "none"
    BY DEF Init, LastStatus
  <2>. QED BY <2>1, OutcomeFacts DEF VenueInv, CreateIsAskedOnce, ReportsAreTrue, LastIsTrue,
              CloseIsComing
<1>. QED BY <1>1, VenueStep, LifecycleInvariant, PTL DEF Spec

\* FILLED, CANCELED and EXPIRED in the cache are what happened on the venue,
\* whatever answer of a cancel, a modify or a create raced with the report.
THEOREM ClosesAreTrue == Spec => []ClosedIsTrue
<1>1. VenueInv => ClosedIsTrue
  BY DEF VenueInv, LastIsTrue, ClosedIsTrue, LastStatus, Outcomes, VenueStateOf, NoStatus
<1>. QED BY <1>1, VenueInvariant, PTL

\* When the reports of a filled or cancelled order have all been delivered the
\* order is closed locally.
THEOREM ClosesAreSeen == Spec => []CloseReachesCache
<1>1. LifecycleInv /\ VenueInv => CloseReachesCache
  <2>. SUFFICES ASSUME LifecycleInv, VenueInv, NEW o \in Oids,
                       exch[o] \in {"filled", "canceled"}, feed[o] = <<>>, o \notin lost
                PROVE  o \notin registered /\ o \notin openOrders
    BY DEF CloseReachesCache
  <2>1. PICK status \in {"FILLED", "CANCELED"} : exch[o] = VenueStateOf(status)
    BY DEF VenueStateOf
  <2>2. DOMAIN feed[o] = {}
    OBVIOUS
  <2>3. o \notin registered
    BY <2>1, <2>2 DEF VenueInv, CloseIsComing
  <2>. QED BY <2>3 DEF LifecycleInv, CoreInv, RegistryMatchesCache
<1>. QED BY <1>1, LifecycleInvariant, VenueInvariant, PTL

-----------------------------------------------------------------------------
(* Orders the process no longer follows.                                    *)

\* Once its create is handled an order is followed until it closes.
FollowedUntilClosed ==
  \A o \in Oids :
    o \in created /\ ~ CreateQueued(o) => o \in registered \/ LastStatus[o] \in ClosedStatuses

\* An update stops the following of an order only by closing it.
LEMMA UnregisteredIsClosed ==
  ASSUME TypeOK, CoreInv, NEW o \in Oids, NEW status \in OrderStatuses,
         OrderStatusUpdate(o, status) \/ IgnoreUpdate, stored' = stored,
         NEW p \in Oids, p \in registered
  PROVE  p \in registered' \/ LastStatus'[p] \in ClosedStatuses
<1>1. CASE registered' = registered
  BY <1>1
<1>2. CASE /\ status \in ClosedStatuses /\ registered' = registered \ {o}
           /\ memOrders' = [memOrders EXCEPT ![o] = status]
  <2>1. p = o => LastStatus'[p] = status
    BY <1>2, StatusFacts DEF LastStatus, TypeOK
  <2>. QED BY <1>2, <2>1
<1>. QED BY <1>1, <1>2 DEF OrderStatusUpdate, IgnoreUpdate, CacheClose, registryVars

\* Steps that neither submit nor handle a create.
LEMMA FollowedStep ==
  ASSUME FollowedUntilClosed, created' = created,
         \A o \in Oids : CreateQueued(o) => CreateQueued(o)',
         \A o \in Oids : o \in registered => o \in registered' \/ LastStatus'[o] \in ClosedStatuses,
         \A o \in Oids : LastStatus[o] \in ClosedStatuses /\ o \notin registered
                         => LastStatus'[o] = LastStatus[o]
  PROVE  FollowedUntilClosed'
<1>. SUFFICES ASSUME NEW o \in Oids, o \in created', ~ CreateQueued(o)'
              PROVE  o \in registered' \/ LastStatus'[o] \in ClosedStatuses
  BY DEF FollowedUntilClosed
<1>. QED BY DEF FollowedUntilClosed

\* Every step keeps an order followed until it is closed.
LEMMA FollowedNext == LifecycleInv /\ FollowedUntilClosed /\ [Next]_vars => FollowedUntilClosed'
<1>. SUFFICES ASSUME TypeOK, CoreInv, FollowedUntilClosed, [Next]_vars PROVE FollowedUntilClosed'
  BY DEF LifecycleInv
<1>1. ASSUME NEW sub, queue' = Append(queue, sub),
             UNCHANGED <<registered, memOrders, stored>>,
             \/ created' = created
             \/ created' = created \cup {sub.oid} /\ IsCreate(sub)
      PROVE  FollowedUntilClosed'
  <2>. SUFFICES ASSUME NEW o \in Oids, o \in created', ~ CreateQueued(o)'
                PROVE  o \in registered' \/ LastStatus'[o] \in ClosedStatuses
    BY DEF FollowedUntilClosed
  <2>1. o \in created /\ ~ CreateQueued(o)
    BY <1>1, QueuePut DEF CreateQueued, IsCreate
  <2>. QED BY <1>1, <2>1 DEF FollowedUntilClosed, LastStatus
<1>2. CASE Strategy
  <2>1. ASSUME NEW o \in Oids, SubmitCreate(o) PROVE FollowedUntilClosed'
    <3>1. PICK op \in CreateOps : queue' = Append(queue, [op |-> op, oid |-> o])
      BY <2>1 DEF SubmitCreate
    <3>2. IsCreate([op |-> op, oid |-> o])
      BY LifecycleAssumption DEF LifecycleAssumption, IsCreate
    <3>. QED BY <1>1, <2>1, <3>1, <3>2 DEF SubmitCreate, registryVars, storeVars
  <2>2. CASE \/ \E o \in Oids : SubmitCancel(o) \/ SubmitModify(o)
             \/ \E s \in Symbols : SubmitCancelAll(s)
    <3>1. PICK sub : queue' = Append(queue, sub)
      BY <2>2 DEF SubmitCancel, SubmitModify, SubmitCancelAll
    <3>. QED BY <1>1, <2>2, <3>1
             DEF SubmitCancel, SubmitModify, SubmitCancelAll, registryVars, storeVars
  <2>. QED BY <1>2, <2>1, <2>2 DEF Strategy
<1>3. CASE Ems
  <2>1. queue # <<>> /\ queue' = Tail(queue) /\ UNCHANGED <<created, memOrders, stored>>
    BY <1>3 DEF Ems, HandleCreate, HandleRequest, HandleCancelAll, storeVars
  <2>2. registered' = registered \/ (IsCreate(Head(queue)) /\ registered' = registered \cup {Head(queue).oid})
    BY <1>3 DEF Ems, HandleCreate, HandleRequest, HandleCancelAll, registryVars, IsCreate
  <2>3. ~ IsCreate(Head(queue)) \/ registered' = registered \cup {Head(queue).oid}
    BY <1>3 DEF Ems, HandleCreate, HandleRequest, HandleCancelAll, IsCreate
  <2>. SUFFICES ASSUME NEW o \in Oids, o \in created', ~ CreateQueued(o)'
                PROVE  o \in registered' \/ LastStatus'[o] \in ClosedStatuses
    BY DEF FollowedUntilClosed
  <2>4. \A i \in DOMAIN queue : i = 1 \/ (i - 1 \in DOMAIN queue' /\ queue'[i - 1] = queue[i])
    BY <2>1, TailFacts DEF TypeOK
  <2>5. CreateQueued(o) => IsCreate(Head(queue)) /\ Head(queue).oid = o
    BY <2>1, <2>4, QueueGet DEF CreateQueued, IsCreate
  <2>6. CASE CreateQueued(o)
    BY <2>3, <2>5, <2>6
  <2>7. CASE ~ CreateQueued(o)
    BY <2>1, <2>2, <2>7 DEF FollowedUntilClosed, LastStatus
  <2>. QED BY <2>6, <2>7
<1>4. ASSUME NEW o \in Oids, NEW status \in OrderStatuses,
             OrderStatusUpdate(o, status) \/ IgnoreUpdate, UNCHANGED <<created, queue, stored>>
      PROVE  FollowedUntilClosed'
  <2>1. \A p \in Oids : p \in registered => p \in registered' \/ LastStatus'[p] \in ClosedStatuses
    BY <1>4, UnregisteredIsClosed
  <2>2. \A p \in Oids : p \notin registered => memOrders'[p] = memOrders[p]
    BY <1>4 DEF OrderStatusUpdate, IgnoreUpdate, CacheOpen, CacheClose, TypeOK
  <2>3. \A p \in Oids : p \notin registered => LastStatus'[p] = LastStatus[p]
    BY <1>4, <2>2 DEF LastStatus
  <2>4. \A p \in Oids : CreateQueued(p) => CreateQueued(p)'
    BY <1>4 DEF CreateQueued, IsCreate
  <2>. QED BY <1>4, <2>1, <2>3, <2>4, FollowedStep
<1>5. CASE Client
  <2>1. ASSUME NEW c \in calls, HandleAnswer(c) PROVE FollowedUntilClosed'
    <3>1. UNCHANGED <<created, queue, stored>>
      BY <2>1 DEF HandleAnswer, HandleCreateAnswer, HandleCancelAnswer, HandleModifyAnswer,
                  HandleCreateWsAnswer, HandleCancelWsAnswer, Take, strategyVars, storeVars
    <3>2. PICK status \in {"PENDING", "FAILED", "CANCELING", "CANCEL_FAILED"} :
            OrderStatusUpdate(c.oid, status) \/ IgnoreUpdate
      BY <2>1 DEF HandleAnswer, HandleCreateAnswer, HandleCancelAnswer, HandleModifyAnswer,
                  HandleCreateWsAnswer, HandleCancelWsAnswer
    <3>. QED BY <1>4, <3>1, <3>2, CallFacts, PostedStatuses
  <2>2. ASSUME NEW o \in Oids, DeliverReport(o) PROVE FollowedUntilClosed'
    <3>1. Head(feed[o]) \in OrderStatuses
      BY <2>2, PostedStatuses DEF DeliverReport, TypeOK
    <3>. QED BY <1>4, <2>2, <3>1 DEF DeliverReport, strategyVars, storeVars
  <2>. QED BY <1>5, <2>1, <2>2 DEF Client
<1>6. CASE Cache \/ Network \/ Exchange \/ UNCHANGED vars
  <2>1. UNCHANGED <<created, queue, registered>>
    BY <1>6 DEF Cache, EvictOrder, ReloadOrder, Network, LoseAnswer, LoseReport, Exchange,
         ExchangeAcceptsCreate, ExchangeRejectsLater, ExchangeRefuses, ExchangeAcceptsCancel,
         ExchangeAcceptsModify, ExchangeSweeps, ExchangePartialFill, ExchangeFill,
         ExchangeExpire, ExchangeCancel, Becomes, vars, strategyVars, registryVars
  <2>2. \A p \in Oids : LastStatus'[p] = LastStatus[p]
    <3>1. CASE Cache
      BY <3>1 DEF Cache, EvictOrder, ReloadOrder, LastStatus, TypeOK, storeVars
    <3>2. CASE Network \/ Exchange \/ UNCHANGED vars
      <4>1. UNCHANGED <<memOrders, stored>>
        BY <3>2 DEF Network, LoseAnswer, LoseReport, Exchange, ExchangeAcceptsCreate,
             ExchangeRejectsLater, ExchangeRefuses, ExchangeAcceptsCancel,
             ExchangeAcceptsModify, ExchangeSweeps, ExchangePartialFill, ExchangeFill,
             ExchangeExpire, ExchangeCancel, Becomes, vars, storeVars
      <4>. QED BY <4>1 DEF LastStatus
    <3>. QED BY <1>6, <3>1, <3>2
  <2>3. \A p \in Oids : CreateQueued(p) => CreateQueued(p)'
    BY <2>1 DEF CreateQueued, IsCreate
  <2>. QED BY <2>1, <2>2, <2>3, FollowedStep
<1>. QED BY <1>2, <1>3, <1>5, <1>6 DEF Next

\* A live order the process does not follow any more is one the strategy was
\* told had failed: nothing else makes the process forget a live order.
THEOREM OrphansAreAnnounced == Spec => []OrphanWasAnnounced
<1>1. Init => FollowedUntilClosed
  BY DEF Init, FollowedUntilClosed
<1>2. LifecycleInv /\ VenueInv /\ FollowedUntilClosed => OrphanWasAnnounced
  <2>. SUFFICES ASSUME LifecycleInv, VenueInv, FollowedUntilClosed,
                       NEW o \in Oids, Live(o), o \notin registered
                PROVE  notified[o] = "FAILED"
    BY DEF OrphanWasAnnounced
  <2>1. o \in created /\ ~ CreateQueued(o)
    BY DEF Live, VenueInv, CreateIsAskedOnce
  <2>2. LastStatus[o] \in ClosedStatuses
    BY <2>1 DEF FollowedUntilClosed
  <2>3. LastStatus[o] \notin Outcomes
    BY OutcomeFacts DEF Live, VenueInv, LastIsTrue
  <2>4. LastStatus[o] = "FAILED"
    BY <2>2, <2>3 DEF ClosedStatuses, Outcomes
  <2>. QED BY <2>2, <2>4 DEF LifecycleInv, CoreInv, CloseIsRemembered
<1>. QED BY <1>1, <1>2, FollowedNext, LifecycleInvariant, VenueInvariant, PTL DEF Spec

-----------------------------------------------------------------------------
(* Cancellations.                                                           *)

IsCancel(sub) == sub.op \in {"cancel", "cancel_ws"}
IsRequest(sub) == sub.op \in {"cancel", "cancel_ws", "modify"}

RequestQueued(o) == \E i \in DOMAIN queue : IsCancel(queue[i]) /\ queue[i].oid = o
CancelAllQueued(s) == \E i \in DOMAIN queue : queue[i].op = "cancel_all" /\ queue[i].sym = s
CancelSent(o) == \E c \in calls : c.op = "cancel" /\ c.oid = o

\* The queue keeps the order of the strategy's calls: whatever is asked of an
\* order, by name or by a cancel-all, is handled after its create.
RequestsFollowCreates ==
  /\ swept \subseteq created /\ cancelIntent \subseteq created
  /\ \A i \in DOMAIN queue : IsRequest(queue[i]) =>
       /\ queue[i].oid \in created
       /\ \A j \in DOMAIN queue :
            IsCreate(queue[j]) /\ queue[j].oid = queue[i].oid => j < i
  /\ \A i \in DOMAIN queue : IsCreate(queue[i]) /\ queue[i].oid \in swept =>
       \E j \in DOMAIN queue :
         i < j /\ queue[j].op = "cancel_all" /\ queue[j].sym = SymbolOf[queue[i].oid]
  /\ \A c \in calls : c.oid \in created /\ ~ CreateQueued(c.oid)

\* What the answers to a cancel say of the venue is true.
CancelAnswersAreTrue ==
  /\ \A c \in calls : IsCancel(c) /\ c.st = "ok" => c.oid \in exchCanceling
  /\ \A o \in Oids : LastStatus[o] = "CANCELING" => o \in exchCanceling

CancelInv == RequestsFollowCreates /\ CancelAnswersAreTrue

\* With REST cancels and a cancel-all that cancels the open orders one by one:
\* the intent of an order that may still be open stands for a cancellation.
IntentIsPursued ==
  /\ \A i \in DOMAIN queue : queue[i].op # "cancel_ws"
  /\ \A o \in cancelIntent :
       \/ o \notin registered /\ ~ CreateQueued(o)
       \/ RequestQueued(o) \/ CancelSent(o) \/ o \in exchCanceling
       \/ o \in openOrders /\ CancelAllQueued(SymbolOf[o])

\* The acknowledgement of an order the venue has and the cache does not know is
\* still in the stream.
AckIsComing ==
  \A o \in inflight : exch[o] # "none" /\ o \notin lost => feed[o] # <<>>

SweepIsPursued ==
  \A o \in swept \ lost :
    /\ o \in registered
    /\ exch[o] # "none" \/ \E c \in calls : IsCreate(c) /\ c.oid = o
    => \/ CancelAllQueued(SymbolOf[o]) \/ CancelSent(o) \/ o \in exchCanceling
       \/ memOrders[o] = "CANCEL_FAILED"

-----------------------------------------------------------------------------
(* Lemmas.                                                                  *)

\* Every submission but the first survives the consumer's step.
LEMMA QueueShift ==
  ASSUME TypeOK, queue # <<>>, queue' = Tail(queue)
  PROVE  /\ \A i \in DOMAIN queue : i = 1 \/ (i - 1 \in DOMAIN queue' /\ queue'[i - 1] = queue[i])
         /\ Head(queue) \in Submissions /\ Head(queue) = queue[1] /\ 1 \in DOMAIN queue
BY TailFacts DEF TypeOK

\* A venue's answer, its loss and its handling leave no call that was not there.
LEMMA CallsOnly ==
  ASSUME TypeOK,
         \/ calls' = calls
         \/ \E c \in calls : \/ calls' = calls \ {c}
                            \/ \E st \in {"ok", "fail"} : calls' = Answered(c, st)
  PROVE  \A d \in calls' : d \in calls \/ \E c \in calls :
           /\ c.oid = d.oid /\ c.op = d.op /\ d.st \in {"ok", "fail"}
           /\ calls' = Answered(c, d.st)
<1>. SUFFICES ASSUME NEW d \in calls', d \notin calls
              PROVE  \E c \in calls : /\ c.oid = d.oid /\ c.op = d.op /\ d.st \in {"ok", "fail"}
                                     /\ calls' = Answered(c, d.st)
  OBVIOUS
<1>1. PICK c \in calls, st \in {"ok", "fail"} : calls' = Answered(c, st)
  OBVIOUS
<1>2. d = [c EXCEPT !.st = st] /\ c \in Calls
  BY <1>1 DEF Answered, TypeOK
<1>. QED BY <1>1, <1>2 DEF Calls

\* And a call that is answered is still there.
LEMMA AnsweredStays ==
  ASSUME TypeOK, NEW c \in calls, NEW st \in {"ok", "fail"}, calls' = Answered(c, st)
  PROVE  \A d \in calls : \E e \in calls' : e.op = d.op /\ e.oid = d.oid
<1>. SUFFICES ASSUME NEW d \in calls PROVE \E e \in calls' : e.op = d.op /\ e.oid = d.oid
  OBVIOUS
<1>1. CASE d # c
  BY <1>1 DEF Answered
<1>2. CASE d = c
  <2>1. [c EXCEPT !.st = st] \in calls' /\ c \in Calls
    BY DEF Answered, TypeOK
  <2>. QED BY <1>2, <2>1 DEF Calls
<1>. QED BY <1>1, <1>2

\* What the handling of an answer changes.
LEMMA AnswerEffect ==
  ASSUME TypeOK, NEW c \in calls, HandleAnswer(c)
  PROVE  /\ calls' = calls \ {c}
         /\ UNCHANGED <<created, swept, queue, stored, evictions, feed, lost, exch, exchCanceling>>
         /\ \E status \in {"PENDING", "FAILED", "CANCELING", "CANCEL_FAILED"} :
              /\ OrderStatusUpdate(c.oid, status) \/ IgnoreUpdate
              /\ status = "CANCELING" => IsCancel(c) /\ c.st = "ok"
              /\ c.op = "cancel" /\ c.st # "ok"
                 => status = "CANCEL_FAILED" /\ OrderStatusUpdate(c.oid, status)
<1>1. Take(c)
  BY DEF HandleAnswer, HandleCreateAnswer, HandleCancelAnswer, HandleModifyAnswer,
         HandleCreateWsAnswer, HandleCancelWsAnswer
<1>2. \E status \in {"PENDING", "FAILED", "CANCELING", "CANCEL_FAILED"} :
        /\ OrderStatusUpdate(c.oid, status) \/ IgnoreUpdate
        /\ status = "CANCELING" => IsCancel(c) /\ c.st = "ok"
        /\ c.op = "cancel" /\ c.st # "ok"
           => status = "CANCEL_FAILED" /\ OrderStatusUpdate(c.oid, status)
  <2>1. CASE HandleCreateAnswer(c)
    BY <2>1 DEF HandleCreateAnswer
  <2>2. CASE HandleCancelAnswer(c)
    BY <2>2 DEF HandleCancelAnswer, IsCancel
  <2>3. CASE HandleModifyAnswer(c)
    BY <2>3 DEF HandleModifyAnswer
  <2>4. CASE HandleCreateWsAnswer(c)
    BY <2>4 DEF HandleCreateWsAnswer
  <2>5. CASE HandleCancelWsAnswer(c)
    BY <2>5 DEF HandleCancelWsAnswer, IsCancel
  <2>. QED BY <2>1, <2>2, <2>3, <2>4, <2>5 DEF HandleAnswer
<1>. QED BY <1>1, <1>2 DEF Take, strategyVars, storeVars, exchVars

\* What an update does to the sets of orders.
LEMMA UpdateSets ==
  ASSUME TypeOK, NEW o \in Oids, NEW status \in OrderStatuses,
         OrderStatusUpdate(o, status) \/ IgnoreUpdate
  PROVE  /\ cancelIntent' \subseteq cancelIntent /\ inflight' \subseteq inflight
         /\ registered' \subseteq registered
         /\ \A p \in Oids \ {o} : memOrders'[p] = memOrders[p]
         /\ openOrders \subseteq openOrders' \/ (o \notin registered' /\ openOrders' = openOrders \ {o})
BY DEF OrderStatusUpdate, IgnoreUpdate, CacheOpen, CacheClose, registryVars, cacheSets, TypeOK

\* The report of a failed cancel is taken unless the order has closed or its
\* cancellation was accepted.
LEMMA CancelFailedIsTaken ==
  ASSUME TypeOK, CoreInv, CancelAnswersAreTrue, NEW o \in Oids, o \in registered,
         OrderStatusUpdate(o, "CANCEL_FAILED")
  PROVE  \/ o \in exchCanceling
         \/ o \notin cancelIntent' /\ memOrders'[o] = "CANCEL_FAILED"
<1>1. memOrders[o] \in {NoStatus, "CANCELING"} \cup (LiveStatuses \ {"CANCELING"})
  BY RegisteredIsOpen, StatusFacts DEF LastStatus, TypeOK
<1>2. CASE memOrders[o] = "CANCELING"
  BY <1>2 DEF CancelAnswersAreTrue, LastStatus, NoStatus
<1>3. CASE memOrders[o] # "CANCELING"
  <2>1. "CANCEL_FAILED" \in StatusesAfter(memOrders[o])
    BY <1>1, <1>3 DEF LiveStatuses, ClosedStatuses, OrderStatuses, NoStatus, StatusesAfter,
       STATUS_TRANSITIONS
  <2>2. "CANCEL_FAILED" \in LiveStatuses
    BY DEF LiveStatuses, ClosedStatuses, OrderStatuses
  <2>3. CacheOpen(o, "CANCEL_FAILED")
    BY <2>1, <2>2, StatusFacts DEF OrderStatusUpdate, ValidTransition
  <2>. QED BY <2>3 DEF CacheOpen, TypeOK
<1>. QED BY <1>2, <1>3

-----------------------------------------------------------------------------
(* The order of the queue.                                                  *)

LEMMA FollowStrategy == TypeOK /\ CoreInv /\ VenueInv /\ RequestsFollowCreates /\ Strategy => RequestsFollowCreates'
<1>. SUFFICES ASSUME TypeOK, CoreInv, VenueInv, RequestsFollowCreates, Strategy
              PROVE  RequestsFollowCreates'
  OBVIOUS
<1>1. \A c \in calls : c.oid \in Oids
  BY CallFacts
<1>2. ASSUME NEW o \in Oids, SubmitCreate(o) PROVE RequestsFollowCreates'
  <2>1. PICK op \in CreateOps : queue' = Append(queue, [op |-> op, oid |-> o])
    BY <1>2 DEF SubmitCreate
  <2>2. op \in {"create", "create_ws"}
    BY LifecycleAssumption DEF LifecycleAssumption
  <2>3. UNCHANGED <<swept, cancelIntent, calls>> /\ created' = created \cup {o} /\ o \notin created
    BY <1>2 DEF SubmitCreate, cacheSets, netVars
  <2>. DEFINE last == Len(queue) + 1
  <2>4. /\ DOMAIN queue' = DOMAIN queue \cup {last} /\ last \notin DOMAIN queue
        /\ \A i \in DOMAIN queue : queue'[i] = queue[i]
        /\ queue'[last].op = op /\ queue'[last].oid = o
    BY <2>1, QueuePut
  <2>5. ASSUME NEW i \in DOMAIN queue', IsRequest(queue'[i])
        PROVE  /\ queue'[i].oid \in created'
               /\ \A j \in DOMAIN queue' : IsCreate(queue'[j]) /\ queue'[j].oid = queue'[i].oid => j < i
    BY <2>2, <2>3, <2>4, <2>5 DEF RequestsFollowCreates, IsRequest
  <2>6. ASSUME NEW i \in DOMAIN queue', IsCreate(queue'[i]), queue'[i].oid \in swept'
        PROVE  \E j \in DOMAIN queue' :
                 i < j /\ queue'[j].op = "cancel_all" /\ queue'[j].sym = SymbolOf[queue'[i].oid]
    <3>1. i # last
      BY <2>3, <2>4, <2>6 DEF RequestsFollowCreates
    <3>2. i \in DOMAIN queue /\ queue'[i] = queue[i]
      BY <2>4, <3>1
    <3>3. PICK j \in DOMAIN queue :
            i < j /\ queue[j].op = "cancel_all" /\ queue[j].sym = SymbolOf[queue[i].oid]
      BY <2>3, <2>6, <3>2 DEF RequestsFollowCreates
    <3>. QED BY <2>4, <3>2, <3>3
  <2>7. \A c \in calls' : c.oid \in created' /\ ~ CreateQueued(c.oid)'
    <3>1. \A p \in Oids \ {o} : CreateQueued(p)' => CreateQueued(p)
      BY <2>4 DEF CreateQueued, IsCreate
    <3>. QED BY <1>1, <2>3, <3>1 DEF RequestsFollowCreates
  <2>. QED BY <2>3, <2>5, <2>6, <2>7 DEF RequestsFollowCreates, IsRequest, IsCreate
<1>3. ASSUME NEW sub, ~ IsCreate(sub), queue' = Append(queue, sub),
             IsRequest(sub) => sub.oid \in created,
             UNCHANGED <<created, calls>>, cancelIntent' \subseteq created, swept' \subseteq created,
             \A o \in swept' \ swept : sub.op = "cancel_all" /\ sub.sym = SymbolOf[o]
      PROVE  RequestsFollowCreates'
  <2>. DEFINE last == Len(queue) + 1
  <2>1. /\ DOMAIN queue' = DOMAIN queue \cup {last} /\ last \notin DOMAIN queue
        /\ \A i \in DOMAIN queue : queue'[i] = queue[i]
        /\ queue'[last] = sub
        /\ \A i \in DOMAIN queue : i < last
    BY <1>3, QueuePut DEF TypeOK
  <2>2. ASSUME NEW i \in DOMAIN queue', IsRequest(queue'[i])
        PROVE  /\ queue'[i].oid \in created'
               /\ \A j \in DOMAIN queue' : IsCreate(queue'[j]) /\ queue'[j].oid = queue'[i].oid => j < i
    BY <1>3, <2>1, <2>2 DEF RequestsFollowCreates
  <2>3. ASSUME NEW i \in DOMAIN queue', IsCreate(queue'[i]), queue'[i].oid \in swept'
        PROVE  \E j \in DOMAIN queue' :
                 i < j /\ queue'[j].op = "cancel_all" /\ queue'[j].sym = SymbolOf[queue'[i].oid]
    <3>1. i \in DOMAIN queue /\ queue'[i] = queue[i]
      BY <1>3, <2>1, <2>3
    <3>2. CASE queue[i].oid \in swept
      <4>1. PICK j \in DOMAIN queue :
              i < j /\ queue[j].op = "cancel_all" /\ queue[j].sym = SymbolOf[queue[i].oid]
        BY <2>3, <3>1, <3>2 DEF RequestsFollowCreates
      <4>. QED BY <2>1, <3>1, <4>1
    <3>3. CASE queue[i].oid \notin swept
      BY <1>3, <2>1, <2>3, <3>1, <3>3
    <3>. QED BY <3>2, <3>3
  <2>4. \A c \in calls' : c.oid \in created' /\ ~ CreateQueued(c.oid)'
    <3>1. \A p \in Oids : CreateQueued(p)' => CreateQueued(p)
      BY <1>3, <2>1 DEF CreateQueued, IsCreate
    <3>. QED BY <1>1, <1>3, <3>1 DEF RequestsFollowCreates
  <2>. QED BY <1>3, <2>2, <2>3, <2>4 DEF RequestsFollowCreates, IsRequest, IsCreate
<1>4. ASSUME NEW o \in Oids, SubmitCancel(o) PROVE RequestsFollowCreates'
  <2>1. PICK op \in {"cancel", "cancel_ws"} : queue' = Append(queue, [op |-> op, oid |-> o])
    BY <1>4, LifecycleAssumption DEF SubmitCancel, LifecycleAssumption
  <2>2. UNCHANGED <<created, swept, calls>> /\ cancelIntent' = cancelIntent \cup {o} /\ o \in created
    BY <1>4 DEF SubmitCancel, netVars
  <2>3. ~ IsCreate([op |-> op, oid |-> o])
    BY DEF IsCreate
  <2>. QED BY <1>3, <2>1, <2>2, <2>3 DEF RequestsFollowCreates
<1>5. ASSUME NEW o \in Oids, SubmitModify(o) PROVE RequestsFollowCreates'
  <2>1. ~ IsCreate([op |-> "modify", oid |-> o])
    BY DEF IsCreate
  <2>. QED BY <1>3, <1>5, <2>1 DEF SubmitModify, RequestsFollowCreates, cacheSets, netVars
<1>6. ASSUME NEW s \in Symbols, SubmitCancelAll(s) PROVE RequestsFollowCreates'
  <2>1. ~ IsCreate([op |-> "cancel_all", sym |-> s]) /\ ~ IsRequest([op |-> "cancel_all", sym |-> s])
    BY DEF IsCreate, IsRequest
  <2>2. symbolOpenOrders \subseteq created
    BY DEF CoreInv, OpenSetsMatchOrders, RegistryMatchesCache, FreshIsUnknown, TypeOK
  <2>3. UNCHANGED <<created, calls>>
    BY <1>6 DEF SubmitCancelAll, netVars
  <2>. QED BY <1>3, <1>6, <2>1, <2>2, <2>3 DEF SubmitCancelAll, RequestsFollowCreates, OfSymbol
<1>. QED BY <1>2, <1>4, <1>5, <1>6 DEF Strategy

\* The EMS sends a cancel or a modify only after the create.
LEMMA FollowEms == TypeOK /\ CoreInv /\ VenueInv /\ RequestsFollowCreates /\ Ems => RequestsFollowCreates'
<1>. SUFFICES ASSUME TypeOK, CoreInv, VenueInv, RequestsFollowCreates, Ems
              PROVE  RequestsFollowCreates'
  OBVIOUS
<1>1. queue # <<>> /\ queue' = Tail(queue)
  BY DEF Ems, HandleCreate, HandleRequest, HandleCancelAll
<1>2. UNCHANGED <<created, swept, cancelIntent>>
  BY DEF Ems, HandleCreate, HandleRequest, HandleCancelAll, cacheSets
<1>3. \A i \in DOMAIN queue' : i + 1 \in DOMAIN queue /\ queue'[i] = queue[i + 1] /\ i \in Nat
  BY <1>1, QueueGet
<1>4. \A i \in DOMAIN queue : i = 1 \/ (i - 1 \in DOMAIN queue' /\ queue'[i - 1] = queue[i])
  BY <1>1, QueueShift
<1>5. 1 \in DOMAIN queue /\ Head(queue) = queue[1] /\ Head(queue) \in Submissions
  BY <1>1, QueueShift
<1>6. ASSUME NEW i \in DOMAIN queue', IsRequest(queue'[i])
      PROVE  /\ queue'[i].oid \in created'
             /\ \A j \in DOMAIN queue' : IsCreate(queue'[j]) /\ queue'[j].oid = queue'[i].oid => j < i
  <2>1. queue'[i].oid \in created'
    BY <1>2, <1>3, <1>6 DEF RequestsFollowCreates
  <2>2. ASSUME NEW j \in DOMAIN queue', IsCreate(queue'[j]), queue'[j].oid = queue'[i].oid
        PROVE  j < i
    <3>1. j + 1 < i + 1
      BY <1>3, <1>6, <2>2 DEF RequestsFollowCreates
    <3>. QED BY <1>3, <3>1
  <2>. QED BY <2>1, <2>2
<1>7. ASSUME NEW i \in DOMAIN queue', IsCreate(queue'[i]), queue'[i].oid \in swept'
      PROVE  \E j \in DOMAIN queue' :
               i < j /\ queue'[j].op = "cancel_all" /\ queue'[j].sym = SymbolOf[queue'[i].oid]
  <2>1. PICK j \in DOMAIN queue :
          i + 1 < j /\ queue[j].op = "cancel_all" /\ queue[j].sym = SymbolOf[queue[i + 1].oid]
    BY <1>2, <1>3, <1>7 DEF RequestsFollowCreates
  <2>2. j # 1 /\ i < j - 1
    BY <1>3, <2>1 DEF TypeOK
  <2>. QED BY <1>3, <1>4, <2>1, <2>2
<1>8. \A o \in Oids : CreateQueued(o)' => CreateQueued(o)
  BY <1>3 DEF CreateQueued, IsCreate
<1>9. \A c \in calls : c.oid \in Oids
  BY CallFacts
<1>10. ASSUME NEW c \in calls' PROVE c.oid \in created' /\ ~ CreateQueued(c.oid)'
  <2>1. CASE c \in calls
    BY <1>2, <1>8, <1>9, <2>1 DEF RequestsFollowCreates
  <2>2. CASE HandleCreate /\ c \notin calls
    <3>1. c.oid = queue[1].oid
      BY <1>5, <2>2 DEF HandleCreate, NewCall
    <3>2. IsCreate(queue[1]) /\ queue[1].oid \in Oids
      BY <1>5, <2>2 DEF HandleCreate, IsCreate, Submissions
    <3>3. CreateQueued(c.oid)
      BY <1>5, <3>1, <3>2 DEF CreateQueued
    <3>4. \A i \in DOMAIN queue' : IsCreate(queue'[i]) => queue'[i].oid # c.oid
      BY <1>1, <1>5, <3>1, <3>2, QueueGet DEF CoreInv, CreatesAreOnce
    <3>. QED BY <1>2, <3>1, <3>2, <3>3, <3>4 DEF CoreInv, CreatesAreOnce, CreateQueued, IsCreate
  <2>3. CASE HandleRequest /\ c \notin calls
    <3>1. c.oid = queue[1].oid
      BY <1>5, <2>3 DEF HandleRequest, NewCall
    <3>2. IsRequest(queue[1]) /\ queue[1].oid \in Oids
      BY <1>5, <2>3 DEF HandleRequest, IsRequest, Submissions
    <3>3. c.oid \in created
      BY <1>5, <3>1, <3>2 DEF RequestsFollowCreates
    <3>4. ASSUME NEW i \in DOMAIN queue', IsCreate(queue'[i]), queue'[i].oid = c.oid PROVE FALSE
      <4>1. i + 1 < 1
        BY <1>3, <1>5, <3>1, <3>2, <3>4 DEF RequestsFollowCreates
      <4>. QED BY <1>3, <4>1
    <3>. QED BY <1>2, <3>3, <3>4 DEF CreateQueued, IsCreate
  <2>4. CASE HandleCancelAll /\ c \notin calls
    <3>1. PICK o \in CancelAllTargets(Head(queue).sym) : c = NewCall("cancel", o)
      BY <2>4 DEF HandleCancelAll
    <3>2. o \in symbolOpenOrders
      BY LifecycleAssumption DEF CancelAllTargets, LifecycleAssumption, CancelAllKinds
    <3>3. c.oid = o /\ o \in Oids /\ o \in registered
      BY <3>1, <3>2 DEF NewCall, CoreInv, OpenSetsMatchOrders, RegistryMatchesCache, TypeOK
    <3>. QED BY <1>2, <1>8, <3>3 DEF CoreInv, FreshIsUnknown
  <2>. QED BY <2>1, <2>2, <2>3, <2>4 DEF Ems
<1>. QED BY <1>2, <1>6, <1>7, <1>10 DEF RequestsFollowCreates, IsRequest, IsCreate

\* Answers, losses and the venue's steps ask for nothing.
LEMMA FollowOther ==
  ASSUME TypeOK, RequestsFollowCreates, UNCHANGED <<created, swept, queue>>,
         cancelIntent' \subseteq cancelIntent,
         \/ calls' = calls
         \/ \E c \in calls : \/ calls' = calls \ {c}
                            \/ \E st \in {"ok", "fail"} : calls' = Answered(c, st)
  PROVE  RequestsFollowCreates'
<1>1. \A d \in calls' : \E c \in calls : c.oid = d.oid
  BY CallsOnly
<1>2. \A o : CreateQueued(o)' <=> CreateQueued(o)
  BY DEF CreateQueued, IsCreate
<1>3. \A c \in calls' : c.oid \in created' /\ ~ CreateQueued(c.oid)'
  BY <1>1, <1>2 DEF RequestsFollowCreates
<1>. QED BY <1>3 DEF RequestsFollowCreates, IsRequest, IsCreate

-----------------------------------------------------------------------------
(* The other steps of the common part.                                      *)

\* What the steps of the network and of the venue change.
LEMMA OutsideEffect ==
  ASSUME TypeOK, Network \/ Exchange
  PROVE  /\ UNCHANGED <<strategyVars, registryVars, memOrders, cacheSets, storeVars>>
         /\ exchCanceling \subseteq exchCanceling' /\ lost \subseteq lost'
         /\ \/ calls' = calls
            \/ \E c \in calls : \/ calls' = calls \ {c} /\ c.op \in {"create_ws", "cancel_ws"}
                               \/ \E st \in {"ok", "fail"} : calls' = Answered(c, st)
<1>1. CASE Network
  <2>1. ASSUME NEW c \in calls, LoseAnswer(c)
        PROVE  \/ calls' = calls \ {c} /\ c.op \in {"create_ws", "cancel_ws"}
               \/ calls' = Answered(c, "fail")
    BY <2>1 DEF LoseAnswer, Answered
  <2>2. ASSUME NEW o \in Oids, LoseReport(o) PROVE calls' = calls
    BY <2>2 DEF LoseReport
  <2>3. /\ UNCHANGED <<strategyVars, registryVars, memOrders, cacheSets, storeVars, exchCanceling>>
        /\ lost \subseteq lost'
    BY <1>1 DEF Network, LoseAnswer, LoseReport, exchVars
  <2>. QED BY <1>1, <2>1, <2>2, <2>3 DEF Network
<1>2. CASE Exchange
  <2>1. UNCHANGED <<strategyVars, registryVars, memOrders, cacheSets, storeVars, lost>>
    BY <1>2 DEF Exchange, ExchangeAcceptsCreate, ExchangeRejectsLater, ExchangeRefuses,
       ExchangeAcceptsCancel, ExchangeAcceptsModify, ExchangeSweeps, ExchangePartialFill,
       ExchangeFill, ExchangeExpire, ExchangeCancel, Becomes
  <2>2. exchCanceling \subseteq exchCanceling'
    BY <1>2 DEF Exchange, ExchangeAcceptsCreate, ExchangeRejectsLater, ExchangeRefuses,
       ExchangeAcceptsCancel, ExchangeAcceptsModify, ExchangeSweeps, ExchangePartialFill,
       ExchangeFill, ExchangeExpire, ExchangeCancel, Becomes, exchVars
  <2>3. calls' = calls \/ \E c \in calls : \E st \in {"ok", "fail"} : calls' = Answered(c, st)
    BY <1>2 DEF Exchange, ExchangeAcceptsCreate, ExchangeRejectsLater, ExchangeRefuses,
       ExchangeAcceptsCancel, ExchangeAcceptsModify, ExchangeSweeps, ExchangePartialFill,
       ExchangeFill, ExchangeExpire, ExchangeCancel, Becomes
  <2>. QED BY <2>1, <2>2, <2>3
<1>. QED BY <1>1, <1>2

\* A cancel is answered with "ok" only when the venue accepts it.
LEMMA OkIsAccepted ==
  ASSUME TypeOK, Network \/ Exchange, NEW d \in calls', d \notin calls, IsCancel(d), d.st = "ok"
  PROVE  d.oid \in exchCanceling'
<1>1. ASSUME NEW c \in calls, NEW st \in {"ok", "fail"}, calls' = Answered(c, st)
      PROVE  d.op = c.op /\ d.oid = c.oid /\ d.st = st
  <2>1. d = [c EXCEPT !.st = st] /\ c \in Calls
    BY <1>1 DEF Answered, TypeOK
  <2>. QED BY <2>1 DEF Calls
<1>2. ASSUME NEW c \in calls, LoseAnswer(c) PROVE FALSE
  <2>1. calls' = Answered(c, "fail") \/ calls' \subseteq calls
    BY <1>2 DEF LoseAnswer, Answered
  <2>. QED BY <1>1, <2>1
<1>3. ASSUME NEW c \in calls,
             \/ ExchangeAcceptsCreate(c) \/ ExchangeRejectsLater(c)
             \/ ExchangeRefuses(c) \/ ExchangeAcceptsModify(c)
      PROVE  FALSE
  <2>1. \/ calls' = Answered(c, "ok") /\ c.op \in {"create", "create_ws", "modify"}
        \/ calls' = Answered(c, "fail")
    BY <1>3 DEF ExchangeAcceptsCreate, ExchangeRejectsLater, ExchangeRefuses, ExchangeAcceptsModify
  <2>. QED BY <1>1, <2>1 DEF IsCancel
<1>4. ASSUME NEW c \in calls, ExchangeAcceptsCancel(c) PROVE d.oid \in exchCanceling'
  <2>1. calls' = Answered(c, "ok") /\ c.oid \in exchCanceling'
    BY <1>4 DEF ExchangeAcceptsCancel
  <2>. QED BY <1>1, <2>1
<1>. QED BY <1>2, <1>3, <1>4 DEF Network, Exchange, LoseReport, ExchangeSweeps, ExchangePartialFill,
              ExchangeFill, ExchangeExpire, ExchangeCancel, Becomes

\* Every step keeps what is known of cancels.
LEMMA CancelStep == LifecycleInv /\ VenueInv /\ CancelInv /\ [Next]_vars => CancelInv'
<1>. SUFFICES ASSUME TypeOK, CoreInv, VenueInv, RequestsFollowCreates, CancelAnswersAreTrue, [Next]_vars
              PROVE  RequestsFollowCreates' /\ CancelAnswersAreTrue'
  BY DEF LifecycleInv, CancelInv
<1>1. CASE Strategy
  <2>1. UNCHANGED <<calls, exchCanceling, memOrders, stored>>
    BY <1>1 DEF Strategy, SubmitCreate, SubmitCancel, SubmitModify, SubmitCancelAll, netVars,
       exchVars, storeVars
  <2>. QED BY <1>1, <2>1, FollowStrategy DEF CancelAnswersAreTrue, LastStatus
<1>2. CASE Ems
  <2>1. UNCHANGED <<exchCanceling, memOrders, stored>>
    BY <1>2 DEF Ems, HandleCreate, HandleRequest, HandleCancelAll, exchVars, storeVars
  <2>2. \A c \in calls' : c \in calls \/ c.st = "sent"
    BY <1>2 DEF Ems, HandleCreate, HandleRequest, HandleCancelAll, NewCall
  <2>. QED BY <1>2, <2>1, <2>2, FollowEms DEF CancelAnswersAreTrue, LastStatus
<1>3. ASSUME NEW c \in calls, HandleAnswer(c)
      PROVE  RequestsFollowCreates' /\ CancelAnswersAreTrue'
  <2>1. PICK status \in {"PENDING", "FAILED", "CANCELING", "CANCEL_FAILED"} :
          /\ OrderStatusUpdate(c.oid, status) \/ IgnoreUpdate
          /\ status = "CANCELING" => IsCancel(c) /\ c.st = "ok"
    BY <1>3, AnswerEffect
  <2>2. calls' = calls \ {c} /\ UNCHANGED <<created, swept, queue, stored, exchCanceling>>
    BY <1>3, AnswerEffect
  <2>3. /\ cancelIntent' \subseteq cancelIntent
        /\ \A p \in Oids \ {c.oid} : LastStatus'[p] = LastStatus[p]
        /\ LastStatus'[c.oid] \in {LastStatus[c.oid], status}
    BY <2>1, <2>2, CallFacts, PostedStatuses, UpdateSets, UpdateEffect
  <2>4. RequestsFollowCreates'
    BY <2>2, <2>3, FollowOther
  <2>5. CancelAnswersAreTrue'
    BY <2>1, <2>2, <2>3 DEF CancelAnswersAreTrue
  <2>. QED BY <2>4, <2>5
<1>4. ASSUME NEW o \in Oids, DeliverReport(o)
      PROVE  RequestsFollowCreates' /\ CancelAnswersAreTrue'
  <2>. DEFINE status == Head(feed[o])
  <2>1. /\ status \in OrderStatuses /\ status # "CANCELING"
    <3>1. status \in ReportStatuses
      BY <1>4 DEF DeliverReport, TypeOK
    <3>. QED BY <3>1, PostedStatuses DEF ReportStatuses
  <2>2. /\ OrderStatusUpdate(o, status)
        /\ UNCHANGED <<created, swept, queue, stored, calls, exchCanceling>>
    BY <1>4 DEF DeliverReport, strategyVars, storeVars, exchVars
  <2>3. /\ cancelIntent' \subseteq cancelIntent
        /\ \A p \in Oids \ {o} : LastStatus'[p] = LastStatus[p]
        /\ LastStatus'[o] \in {LastStatus[o], status}
    BY <2>1, <2>2, UpdateSets, UpdateEffect
  <2>4. RequestsFollowCreates'
    BY <2>2, <2>3, FollowOther
  <2>. QED BY <2>1, <2>2, <2>3, <2>4 DEF CancelAnswersAreTrue
<1>5. CASE Cache
  <2>1. UNCHANGED <<created, swept, queue, cancelIntent, calls, exchCanceling>>
    BY <1>5 DEF Cache, EvictOrder, ReloadOrder, strategyVars, cacheSets, netVars, exchVars
  <2>2. \A p \in Oids : LastStatus'[p] = LastStatus[p]
    BY <1>5 DEF Cache, EvictOrder, ReloadOrder, LastStatus, TypeOK, storeVars
  <2>. QED BY <2>1, <2>2, FollowOther DEF CancelAnswersAreTrue
<1>6. CASE Network \/ Exchange
  <2>1. RequestsFollowCreates'
    BY <1>6, OutsideEffect, FollowOther DEF strategyVars, cacheSets
  <2>2. \A p \in Oids : LastStatus'[p] = LastStatus[p]
    BY <1>6, OutsideEffect DEF LastStatus, storeVars
  <2>3. ASSUME NEW d \in calls', IsCancel(d), d.st = "ok" PROVE d.oid \in exchCanceling'
    BY <1>6, <2>3, OkIsAccepted, OutsideEffect DEF CancelAnswersAreTrue
  <2>4. \A p \in Oids : LastStatus'[p] = "CANCELING" => p \in exchCanceling'
    BY <1>6, <2>2, OutsideEffect DEF CancelAnswersAreTrue
  <2>. QED BY <2>1, <2>3, <2>4 DEF CancelAnswersAreTrue, IsCancel
<1>7. CASE UNCHANGED vars
  <2>1. UNCHANGED <<created, swept, queue, cancelIntent, calls, exchCanceling, memOrders, stored>>
    BY <1>7 DEF vars, strategyVars, cacheSets, netVars, exchVars, storeVars
  <2>. QED BY <2>1, FollowOther DEF CancelAnswersAreTrue, LastStatus
<1>. QED BY <1>1, <1>2, <1>3, <1>4, <1>5, <1>6, <1>7 DEF Next, Client

\* What is asked of an order follows its create, and a cancel the connector
\* believes accepted is one the venue has accepted.
THEOREM CancelInvariant == Spec => []CancelInv
<1>1. Init => CancelInv
  <2>. SUFFICES ASSUME Init PROVE CancelInv
    OBVIOUS
  <2>1. DOMAIN queue = {} /\ calls = {} /\ created = {} /\ swept = {} /\ cancelIntent = {}
        /\ \A o \in Oids : LastStatus[o] = NoStatus
    BY DEF Init, LastStatus
  <2>. QED BY <2>1 DEF CancelInv, RequestsFollowCreates, CancelAnswersAreTrue, NoStatus
<1>. QED BY <1>1, CancelStep, LifecycleInvariant, VenueInvariant, PTL DEF Spec

-----------------------------------------------------------------------------
(* The intent to cancel.                                                    *)

\* A step that keeps the requests and the open orders keeps the pursuit.
LEMMA PursuitKept ==
  ASSUME CoreInv, TypeOK, IntentIsPursued, queue' = queue,
         cancelIntent' \subseteq cancelIntent, registered' \subseteq registered,
         exchCanceling \subseteq exchCanceling',
         \A o \in cancelIntent' : o \in openOrders => o \in openOrders' \/ o \notin registered',
         \A o \in cancelIntent' : CancelSent(o) =>
            CancelSent(o)' \/ o \in exchCanceling' \/ (o \notin registered /\ ~ CreateQueued(o))
  PROVE  IntentIsPursued'
<1>1. /\ \A o : CreateQueued(o)' <=> CreateQueued(o)
      /\ \A o : RequestQueued(o)' <=> RequestQueued(o)
      /\ \A s : CancelAllQueued(s)' <=> CancelAllQueued(s)
  BY DEF CreateQueued, RequestQueued, CancelAllQueued, IsCreate, IsCancel
<1>2. ASSUME NEW o \in cancelIntent'
      PROVE  \/ o \notin registered' /\ ~ CreateQueued(o)'
             \/ RequestQueued(o)' \/ CancelSent(o)' \/ o \in exchCanceling'
             \/ o \in openOrders' /\ CancelAllQueued(SymbolOf[o])'
  <2>1. o \in Oids
    BY DEF TypeOK
  <2>2. o \in openOrders => ~ CreateQueued(o)
    BY <2>1 DEF CoreInv, FreshIsUnknown, RegistryMatchesCache
  <2>3. CASE o \notin registered /\ ~ CreateQueued(o)
    BY <1>1, <2>3
  <2>4. CASE RequestQueued(o) \/ o \in exchCanceling
    BY <1>1, <2>4
  <2>5. CASE CancelSent(o)
    BY <1>1, <2>5
  <2>6. CASE o \in openOrders /\ CancelAllQueued(SymbolOf[o])
    BY <1>1, <2>2, <2>6
  <2>. QED BY <2>3, <2>4, <2>5, <2>6 DEF IntentIsPursued
<1>. QED BY <1>2 DEF IntentIsPursued

\* A cancel intent of the strategy is pursued.
LEMMA PursuitStrategy ==
  ASSUME CancelOps \subseteq {"cancel"},
         TypeOK, CoreInv, CancelInv, IntentIsPursued, Strategy
  PROVE  IntentIsPursued'
<1>1. UNCHANGED <<registered, openOrders, symbolOpenOrders, calls, exchCanceling>>
  BY DEF Strategy, SubmitCreate, SubmitCancel, SubmitModify, SubmitCancelAll, registryVars,
         cacheSets, netVars, exchVars
<1>2. \A o : CancelSent(o)' <=> CancelSent(o)
  BY <1>1 DEF CancelSent
<1>3. ASSUME NEW sub, sub.op # "cancel_ws", queue' = Append(queue, sub),
             \A o \in cancelIntent' \cap cancelIntent : ~ (IsCreate(sub) /\ sub.oid = o),
             \A o \in cancelIntent' \ cancelIntent :
               \/ sub.op = "cancel" /\ sub.oid = o
               \/ o \in openOrders /\ sub.op = "cancel_all" /\ sub.sym = SymbolOf[o]
      PROVE  IntentIsPursued'
  <2>. DEFINE last == Len(queue) + 1
  <2>1. /\ DOMAIN queue' = DOMAIN queue \cup {last}
        /\ \A i \in DOMAIN queue : queue'[i] = queue[i]
        /\ queue'[last] = sub
    BY <1>3, QueuePut
  <2>2. \A i \in DOMAIN queue' : queue'[i].op # "cancel_ws"
    BY <1>3, <2>1 DEF IntentIsPursued
  <2>3. /\ \A o : RequestQueued(o) => RequestQueued(o)'
        /\ \A s : CancelAllQueued(s) => CancelAllQueued(s)'
    BY <2>1 DEF RequestQueued, CancelAllQueued, IsCancel
  <2>4. ASSUME NEW o \in cancelIntent'
        PROVE  \/ o \notin registered' /\ ~ CreateQueued(o)'
               \/ RequestQueued(o)' \/ CancelSent(o)' \/ o \in exchCanceling'
               \/ o \in openOrders' /\ CancelAllQueued(SymbolOf[o])'
    <3>1. CASE o \in cancelIntent
      <4>1. CreateQueued(o)' => CreateQueued(o)
        BY <1>3, <2>1, <3>1 DEF CreateQueued, IsCreate
      <4>. QED BY <1>1, <1>2, <2>3, <3>1, <4>1 DEF IntentIsPursued
    <3>2. CASE o \notin cancelIntent
      <4>1. CASE sub.op = "cancel" /\ sub.oid = o
        BY <2>1, <4>1 DEF RequestQueued, IsCancel
      <4>2. CASE o \in openOrders /\ sub.op = "cancel_all" /\ sub.sym = SymbolOf[o]
        BY <1>1, <2>1, <4>2 DEF CancelAllQueued
      <4>. QED BY <1>3, <3>2, <4>1, <4>2
    <3>. QED BY <3>1, <3>2
  <2>. QED BY <2>2, <2>4 DEF IntentIsPursued
<1>4. ASSUME NEW o \in Oids, SubmitCreate(o) PROVE IntentIsPursued'
  <2>1. PICK op \in {"create", "create_ws"} : queue' = Append(queue, [op |-> op, oid |-> o])
    BY <1>4, LifecycleAssumption DEF SubmitCreate, LifecycleAssumption
  <2>2. o \notin cancelIntent /\ cancelIntent' = cancelIntent
    BY <1>4 DEF SubmitCreate, cacheSets, CancelInv, RequestsFollowCreates
  <2>. QED BY <1>3, <2>1, <2>2
<1>5. ASSUME NEW o \in Oids, SubmitCancel(o) PROVE IntentIsPursued'
  <2>1. queue' = Append(queue, [op |-> "cancel", oid |-> o]) /\ cancelIntent' = cancelIntent \cup {o}
    BY <1>5 DEF SubmitCancel
  <2>2. ~ IsCreate([op |-> "cancel", oid |-> o])
    BY DEF IsCreate
  <2>. QED BY <1>3, <2>1, <2>2
<1>6. ASSUME NEW o \in Oids, SubmitModify(o) PROVE IntentIsPursued'
  <2>1. queue' = Append(queue, [op |-> "modify", oid |-> o]) /\ cancelIntent' = cancelIntent
    BY <1>6 DEF SubmitModify, cacheSets
  <2>2. ~ IsCreate([op |-> "modify", oid |-> o])
    BY DEF IsCreate
  <2>. QED BY <1>3, <2>1, <2>2
<1>7. ASSUME NEW s \in Symbols, SubmitCancelAll(s) PROVE IntentIsPursued'
  <2>1. /\ queue' = Append(queue, [op |-> "cancel_all", sym |-> s])
        /\ cancelIntent' = cancelIntent \cup (symbolOpenOrders \cap OfSymbol(s))
    BY <1>7 DEF SubmitCancelAll
  <2>2. ~ IsCreate([op |-> "cancel_all", sym |-> s])
    BY DEF IsCreate
  <2>3. \A o \in cancelIntent' \ cancelIntent : o \in openOrders /\ SymbolOf[o] = s
    BY <2>1 DEF OfSymbol, CoreInv, OpenSetsMatchOrders
  <2>. QED BY <1>3, <2>1, <2>2, <2>3
<1>. QED BY <1>4, <1>5, <1>6, <1>7 DEF Strategy

\* The EMS pursues it.
LEMMA PursuitEms ==
  ASSUME CancelAllKind = "each_open",
         TypeOK, CoreInv, CancelInv, IntentIsPursued, Ems
  PROVE  IntentIsPursued'
<1>1. queue # <<>> /\ queue' = Tail(queue)
  BY DEF Ems, HandleCreate, HandleRequest, HandleCancelAll
<1>2. UNCHANGED <<openOrders, symbolOpenOrders, cancelIntent, exchCanceling>> /\ calls \subseteq calls'
  BY DEF Ems, HandleCreate, HandleRequest, HandleCancelAll, cacheSets, exchVars
<1>3. /\ \A i \in DOMAIN queue' : i + 1 \in DOMAIN queue /\ queue'[i] = queue[i + 1]
      /\ \A i \in DOMAIN queue : i = 1 \/ (i - 1 \in DOMAIN queue' /\ queue'[i - 1] = queue[i])
      /\ 1 \in DOMAIN queue /\ Head(queue) = queue[1] /\ Head(queue) \in Submissions
  BY <1>1, QueueGet, QueueShift
<1>4. \A i \in DOMAIN queue' : queue'[i].op # "cancel_ws"
  BY <1>3 DEF IntentIsPursued
<1>5. \A o : CreateQueued(o)' => CreateQueued(o)
  BY <1>3 DEF CreateQueued, IsCreate
<1>6. \A o : CancelSent(o) => CancelSent(o)'
  BY <1>2 DEF CancelSent
<1>7. \A o : RequestQueued(o) => RequestQueued(o)' \/ (IsCancel(queue[1]) /\ queue[1].oid = o)
  BY <1>3 DEF RequestQueued, IsCancel
<1>8. \A s : CancelAllQueued(s) => CancelAllQueued(s)' \/ (queue[1].op = "cancel_all" /\ queue[1].sym = s)
  BY <1>3 DEF CancelAllQueued
<1>9. registered' = registered \/ (IsCreate(queue[1]) /\ registered' = registered \cup {queue[1].oid})
  BY <1>3 DEF Ems, HandleCreate, HandleRequest, HandleCancelAll, IsCreate, registryVars
<1>10. ASSUME NEW o \in cancelIntent'
       PROVE  \/ o \notin registered' /\ ~ CreateQueued(o)'
              \/ RequestQueued(o)' \/ CancelSent(o)' \/ o \in exchCanceling'
              \/ o \in openOrders' /\ CancelAllQueued(SymbolOf[o])'
  <2>1. o \in Oids /\ o \in cancelIntent
    BY <1>2 DEF TypeOK
  <2>2. CASE o \notin registered /\ ~ CreateQueued(o)
    <3>1. IsCreate(queue[1]) => queue[1].oid # o
      BY <1>3, <2>2 DEF CreateQueued
    <3>. QED BY <1>5, <1>9, <2>1, <2>2, <3>1
  <2>3. CASE CancelSent(o) \/ o \in exchCanceling
    BY <1>2, <1>6, <2>3
  <2>4. CASE RequestQueued(o)
    <3>1. CASE IsCancel(queue[1]) /\ queue[1].oid = o
      <4>1. queue[1].op = "cancel"
        BY <1>3, <3>1 DEF IntentIsPursued, IsCancel
      <4>2. calls' = calls \cup {NewCall("cancel", o)}
        BY <1>3, <3>1, <4>1 DEF Ems, HandleCreate, HandleRequest, HandleCancelAll
      <4>3. NewCall("cancel", o).op = "cancel" /\ NewCall("cancel", o).oid = o
        BY DEF NewCall
      <4>. QED BY <4>2, <4>3 DEF CancelSent
    <3>. QED BY <1>7, <2>4, <3>1
  <2>5. CASE o \in openOrders /\ CancelAllQueued(SymbolOf[o])
    <3>1. CASE queue[1].op = "cancel_all" /\ queue[1].sym = SymbolOf[o]
      <4>1. o \in CancelAllTargets(SymbolOf[o])
        BY <2>1, <2>5 DEF CancelAllTargets, CoreInv, OpenSetsMatchOrders, OfSymbol
      <4>2. NewCall("cancel", o) \in calls'
        BY <1>3, <3>1, <4>1 DEF Ems, HandleCreate, HandleRequest, HandleCancelAll
      <4>3. NewCall("cancel", o).op = "cancel" /\ NewCall("cancel", o).oid = o
        BY DEF NewCall
      <4>. QED BY <4>2, <4>3 DEF CancelSent
    <3>. QED BY <1>2, <1>8, <2>5, <3>1
  <2>. QED BY <2>1, <2>2, <2>3, <2>4, <2>5 DEF IntentIsPursued
<1>. QED BY <1>4, <1>10 DEF IntentIsPursued

\* The OMS pursues it.
LEMMA PursuitClient ==
  ASSUME TypeOK, CoreInv, CancelInv, IntentIsPursued, Client
  PROVE  IntentIsPursued'
<1>1. ASSUME NEW c \in calls, HandleAnswer(c) PROVE IntentIsPursued'
  <2>1. PICK status \in {"PENDING", "FAILED", "CANCELING", "CANCEL_FAILED"} :
          /\ OrderStatusUpdate(c.oid, status) \/ IgnoreUpdate
          /\ c.op = "cancel" /\ c.st # "ok"
             => status = "CANCEL_FAILED" /\ OrderStatusUpdate(c.oid, status)
    BY <1>1, AnswerEffect
  <2>2. calls' = calls \ {c} /\ UNCHANGED <<queue, exchCanceling>>
    BY <1>1, AnswerEffect
  <2>3. c.oid \in Oids
    BY CallFacts
  <2>4. /\ cancelIntent' \subseteq cancelIntent /\ registered' \subseteq registered
        /\ openOrders \subseteq openOrders' \/ (c.oid \notin registered' /\ openOrders' = openOrders \ {c.oid})
    BY <2>1, <2>3, PostedStatuses, UpdateSets
  <2>5. ASSUME NEW o \in cancelIntent', CancelSent(o)
        PROVE  CancelSent(o)' \/ o \in exchCanceling' \/ (o \notin registered /\ ~ CreateQueued(o))
    <3>1. CASE c.op = "cancel" /\ c.oid = o
      <4>1. CASE c.st = "ok"
        BY <2>2, <3>1, <4>1 DEF CancelInv, CancelAnswersAreTrue, IsCancel
      <4>2. CASE c.st # "ok"
        <5>1. CASE o \in registered
          BY <2>1, <2>2, <2>3, <2>5, <3>1, <4>2, <5>1, CancelFailedIsTaken DEF CancelInv
        <5>2. CASE o \notin registered
          BY <3>1, <5>2 DEF CancelInv, RequestsFollowCreates
        <5>. QED BY <5>1, <5>2
      <4>. QED BY <4>1, <4>2
    <3>2. CASE ~ (c.op = "cancel" /\ c.oid = o)
      BY <2>2, <2>5, <3>2 DEF CancelSent
    <3>. QED BY <3>1, <3>2
  <2>. QED BY <2>2, <2>4, <2>5, PursuitKept
<1>2. ASSUME NEW o \in Oids, DeliverReport(o) PROVE IntentIsPursued'
  <2>1. Head(feed[o]) \in OrderStatuses /\ OrderStatusUpdate(o, Head(feed[o]))
    BY <1>2, PostedStatuses DEF DeliverReport, TypeOK
  <2>2. UNCHANGED <<queue, calls, exchCanceling>>
    BY <1>2 DEF DeliverReport, strategyVars, exchVars
  <2>3. /\ cancelIntent' \subseteq cancelIntent /\ registered' \subseteq registered
        /\ openOrders \subseteq openOrders' \/ (o \notin registered' /\ openOrders' = openOrders \ {o})
    BY <2>1, UpdateSets
  <2>. QED BY <2>2, <2>3, PursuitKept DEF CancelSent
<1>. QED BY <1>1, <1>2 DEF Client

\* Every step keeps cancel intents pursued.
LEMMA PursuitStep ==
  ASSUME CancelOps \subseteq {"cancel"}, CancelAllKind = "each_open",
         LifecycleInv, CancelInv, IntentIsPursued, [Next]_vars
  PROVE  IntentIsPursued'
<1>. USE DEF LifecycleInv
<1>1. CASE Network \/ Exchange
  <2>1. ASSUME NEW o, CancelSent(o) PROVE CancelSent(o)'
    BY <1>1, <2>1, OutsideEffect, AnsweredStays DEF CancelSent
  <2>. QED BY <1>1, <2>1, OutsideEffect, PursuitKept DEF strategyVars, registryVars, cacheSets
<1>2. CASE Cache \/ UNCHANGED vars
  <2>1. UNCHANGED <<queue, registered, cancelIntent, openOrders, calls, exchCanceling>>
    BY <1>2 DEF Cache, EvictOrder, ReloadOrder, vars, strategyVars, registryVars, cacheSets,
       netVars, exchVars
  <2>. QED BY <2>1, PursuitKept DEF CancelSent
<1>. QED BY <1>1, <1>2, PursuitStrategy, PursuitEms, PursuitClient DEF Next

\* An open order hidden from the strategy is one whose cancellation is queued,
\* on its way or accepted, when orders are cancelled over REST and the
\* cancel-all cancels the open orders one by one: whatever the bounds, with
\* slow venues, evictions, lost answers and lost reports.
THEOREM HiddenOrdersAreCanceled ==
  ASSUME CancelOps \subseteq {"cancel"}, CancelAllKind = "each_open"
  PROVE  Spec => []HiddenIsBeingCanceled
<1>1. Init => IntentIsPursued
  BY DEF Init, IntentIsPursued
<1>2. LifecycleInv /\ IntentIsPursued => HiddenIsBeingCanceled
  <2>. SUFFICES ASSUME LifecycleInv, IntentIsPursued, NEW o \in openOrders \cap cancelIntent
                PROVE  CancelQueued(o) \/ CancelUnderway(o)
    BY DEF HiddenIsBeingCanceled
  <2>1. o \in registered
    BY DEF LifecycleInv, CoreInv, RegistryMatchesCache
  <2>2. \/ RequestQueued(o) \/ CancelSent(o) \/ o \in exchCanceling
        \/ CancelAllQueued(SymbolOf[o])
    BY <2>1 DEF IntentIsPursued
  <2>. QED BY <2>2 DEF RequestQueued, CancelSent, CancelAllQueued, IsCancel, CancelQueued, CancelUnderway
<1>3. LifecycleInv /\ CancelInv /\ IntentIsPursued /\ [Next]_vars => IntentIsPursued'
  BY PursuitStep
<1>. QED BY <1>1, <1>2, <1>3, LifecycleInvariant, CancelInvariant, PTL DEF Spec

-----------------------------------------------------------------------------
(* The cancel-all.                                                          *)

\* Without evictions the cache's own status is the last one.
NothingEvicted == \A o \in Oids : stored[o] = NoStatus

SweepInv == NothingEvicted /\ AckIsComing /\ SweepIsPursued

\* An order the cancel-all has to reach: followed, and asked of the venue.
Reachable(o) ==
  o \in registered /\ (exch[o] # "none" \/ \E c \in calls : IsCreate(c) /\ c.oid = o)

\* The strategy asks for a cancel-all.
LEMMA SweepStrategy ==
  ASSUME TypeOK, CoreInv, CancelInv, SweepInv, Strategy
  PROVE  SweepInv'
<1>1. UNCHANGED <<registered, memOrders, inflight, stored, feed, lost, exch, calls, exchCanceling>>
  BY DEF Strategy, SubmitCreate, SubmitCancel, SubmitModify, SubmitCancelAll, registryVars,
         cacheSets, storeVars, netVars, exchVars
<1>2. NothingEvicted' /\ AckIsComing'
  BY <1>1 DEF SweepInv, NothingEvicted, AckIsComing
<1>3. PICK sub : queue' = Append(queue, sub)
  BY DEF Strategy, SubmitCreate, SubmitCancel, SubmitModify, SubmitCancelAll
<1>4. \A s : CancelAllQueued(s) => CancelAllQueued(s)'
  BY <1>3, QueuePut DEF CancelAllQueued
<1>5. \A o \in Oids : o \in swept' => o \in swept \/ CancelAllQueued(SymbolOf[o])'
  <2>1. CASE swept' = swept
    BY <2>1
  <2>2. ASSUME NEW s \in Symbols, SubmitCancelAll(s)
        PROVE  \A o \in Oids : o \in swept' => o \in swept \/ CancelAllQueued(SymbolOf[o])'
    <3>1. /\ queue' = Append(queue, [op |-> "cancel_all", sym |-> s])
          /\ swept' \subseteq swept \cup OfSymbol(s)
      BY <2>2 DEF SubmitCancelAll
    <3>2. CancelAllQueued(s)'
      BY <3>1, QueuePut DEF CancelAllQueued
    <3>. QED BY <3>1, <3>2 DEF OfSymbol
  <2>. QED BY <2>1, <2>2 DEF Strategy, SubmitCreate, SubmitCancel, SubmitModify
<1>6. SweepIsPursued'
  <2>. SUFFICES ASSUME NEW o \in Oids, o \in swept', o \notin lost', Reachable(o)'
                PROVE  \/ CancelAllQueued(SymbolOf[o])' \/ CancelSent(o)' \/ o \in exchCanceling'
                       \/ memOrders'[o] = "CANCEL_FAILED"
    <3>1. swept' \subseteq Oids
      BY DEF Strategy, SubmitCreate, SubmitCancel, SubmitModify, SubmitCancelAll, TypeOK
    <3>. QED BY <3>1 DEF SweepIsPursued, Reachable
  <2>1. Reachable(o) /\ (CancelSent(o) => CancelSent(o)')
    BY <1>1 DEF Reachable, CancelSent, IsCreate
  <2>. QED BY <1>1, <1>4, <1>5, <2>1 DEF SweepInv, SweepIsPursued, Reachable
<1>. QED BY <1>2, <1>6 DEF SweepInv

\* The EMS cancels each open order.
LEMMA SweepEms ==
  ASSUME CancelAllKind = "each_open", SlowVenue = FALSE,
         TypeOK, CoreInv, VenueInv, CancelInv, SweepInv, Ems
  PROVE  SweepInv'
<1>1. queue # <<>> /\ queue' = Tail(queue)
  BY DEF Ems, HandleCreate, HandleRequest, HandleCancelAll
<1>2. /\ UNCHANGED <<swept, memOrders, symbolOpenOrders, stored, feed, lost, exch, exchCanceling>>
      /\ calls \subseteq calls'
  BY DEF Ems, HandleCreate, HandleRequest, HandleCancelAll, cacheSets, storeVars, exchVars
<1>3. /\ \A i \in DOMAIN queue : i = 1 \/ (i - 1 \in DOMAIN queue' /\ queue'[i - 1] = queue[i])
      /\ 1 \in DOMAIN queue /\ Head(queue) = queue[1] /\ Head(queue) \in Submissions
  BY <1>1, QueueShift
<1>4. \A s : CancelAllQueued(s) => CancelAllQueued(s)' \/ (queue[1].op = "cancel_all" /\ queue[1].sym = s)
  BY <1>3 DEF CancelAllQueued
<1>5. \A o : CancelSent(o) => CancelSent(o)'
  BY <1>2 DEF CancelSent
<1>6. \/ /\ IsCreate(queue[1]) /\ queue[1].oid \in Oids
         /\ registered' = registered \cup {queue[1].oid} /\ inflight' = inflight \cup {queue[1].oid}
         /\ \A c \in calls' : c \in calls \/ c.oid = queue[1].oid
      \/ /\ UNCHANGED <<registered, inflight>>
         /\ \A c \in calls' : c \in calls \/ ~ IsCreate(c)
  <2>1. CASE HandleCreate
    BY <1>3, <2>1 DEF HandleCreate, IsCreate, NewCall, Submissions
  <2>2. CASE HandleRequest
    BY <1>3, <2>2 DEF HandleRequest, IsCreate, NewCall, registryVars, cacheSets
  <2>3. CASE HandleCancelAll
    BY <1>3, <2>3 DEF HandleCancelAll, IsCreate, NewCall, registryVars, cacheSets
  <2>. QED BY <2>1, <2>2, <2>3 DEF Ems
<1>7. IsCreate(queue[1]) => exch[queue[1].oid] = "none"
  BY <1>3, <1>6 DEF VenueInv, CreateIsAskedOnce, CreateQueued, Submissions, IsCreate
<1>8. AckIsComing'
  BY <1>2, <1>6, <1>7 DEF SweepInv, AckIsComing
<1>9. ASSUME NEW o \in swept' \ lost', Reachable(o)'
      PROVE  \/ CancelAllQueued(SymbolOf[o])' \/ CancelSent(o)' \/ o \in exchCanceling'
             \/ memOrders'[o] = "CANCEL_FAILED"
  <2>1. o \in Oids /\ o \in swept \ lost
    BY <1>2 DEF TypeOK
  <2>2. CASE IsCreate(queue[1]) /\ queue[1].oid = o
    <3>1. CancelAllQueued(SymbolOf[o])
      BY <1>3, <2>1, <2>2 DEF CancelInv, RequestsFollowCreates, CancelAllQueued
    <3>. QED BY <1>4, <2>2, <3>1 DEF IsCreate
  <2>3. CASE ~ (IsCreate(queue[1]) /\ queue[1].oid = o)
    <3>1. Reachable(o)
      BY <1>2, <1>6, <1>9, <2>3 DEF Reachable, IsCreate
    <3>2. CASE ~ (queue[1].op = "cancel_all" /\ queue[1].sym = SymbolOf[o])
      BY <1>2, <1>4, <1>5, <2>1, <3>1, <3>2 DEF SweepInv, SweepIsPursued, Reachable
    <3>3. CASE queue[1].op = "cancel_all" /\ queue[1].sym = SymbolOf[o]
      <4>. DEFINE s == SymbolOf[o]
      <4>1. HandleCancelAll
        BY <1>3, <3>3 DEF Ems, HandleCreate, HandleRequest
      <4>2. CASE o \in openOrders
        <5>1. o \in CancelAllTargets(s)
          BY <2>1, <4>2 DEF CancelAllTargets, CoreInv, OpenSetsMatchOrders, OfSymbol
        <5>2. NewCall("cancel", o) \in calls'
          BY <1>3, <3>3, <4>1, <5>1 DEF HandleCancelAll
        <5>3. NewCall("cancel", o).op = "cancel" /\ NewCall("cancel", o).oid = o
          BY DEF NewCall
        <5>. QED BY <5>2, <5>3 DEF CancelSent
      <4>3. CASE o \notin openOrders
        <5>1. o \in inflight /\ o \in OfSymbol(s)
          BY <2>1, <3>1, <4>3 DEF Reachable, CoreInv, RegistryMatchesCache, OfSymbol
        <5>2. /\ ~ \E c \in calls : c.oid = o /\ c.op \in {"create", "create_ws"}
              /\ feed[o] = <<>>
          BY <1>3, <3>3, <4>1, <5>1 DEF HandleCancelAll, WaitIsOver
        <5>3. exch[o] # "none"
          BY <3>1, <5>2 DEF Reachable, IsCreate
        <5>. QED BY <2>1, <5>1, <5>2, <5>3 DEF SweepInv, AckIsComing
      <4>. QED BY <4>2, <4>3
    <3>. QED BY <3>2, <3>3
  <2>. QED BY <2>2, <2>3
<1>. QED BY <1>2, <1>8, <1>9 DEF SweepInv, NothingEvicted, SweepIsPursued, Reachable, IsCreate

\* An update that the registry or the table turns away, or the cache takes,
\* leaves a reached order reached.
LEMMA SweepUpdate ==
  ASSUME TypeOK, CoreInv, NothingEvicted, SweepIsPursued, CancelAnswersAreTrue',
         NEW o \in Oids, NEW status \in OrderStatuses,
         OrderStatusUpdate(o, status) \/ IgnoreUpdate,
         UNCHANGED <<swept, queue, stored, lost, exch, exchCanceling>>, calls' \subseteq calls,
         \A p \in Oids : p \in registered' /\ CancelSent(p) =>
            CancelSent(p)' \/ p \in exchCanceling' \/ memOrders'[p] = "CANCEL_FAILED"
  PROVE  SweepIsPursued'
<1>. SUFFICES ASSUME NEW p \in swept' \ lost', Reachable(p)'
              PROVE  \/ CancelAllQueued(SymbolOf[p])' \/ CancelSent(p)' \/ p \in exchCanceling'
                     \/ memOrders'[p] = "CANCEL_FAILED"
  BY DEF SweepIsPursued, Reachable, IsCreate
<1>1. registered' \subseteq registered /\ \A q \in Oids \ {o} : memOrders'[q] = memOrders[q]
  BY UpdateSets
<1>2. p \in swept \ lost /\ p \in Oids /\ p \in registered' /\ Reachable(p)
  BY <1>1 DEF Reachable, TypeOK, IsCreate
<1>3. \A s : CancelAllQueued(s)' <=> CancelAllQueued(s)
  BY DEF CancelAllQueued
<1>4. CASE memOrders[p] = "CANCEL_FAILED"
  <2>1. memOrders'[p] \in {"CANCEL_FAILED", "CANCELING"} \/ p \notin registered'
    <3>1. CASE memOrders' = memOrders
      BY <1>4, <3>1
    <3>2. CASE p = o /\ o \in registered /\ ValidTransition(o, status) /\ OrderStatusUpdate(o, status)
      <4>1. status \in {"CANCEL_FAILED", "CANCELING", "CANCELED", "FILLED"}
        BY <1>4, <3>2 DEF ValidTransition, StatusesAfter, NoStatus, STATUS_TRANSITIONS, OrderStatuses
      <4>2. CASE status \in LiveStatuses
        <5>1. status \in {"CANCEL_FAILED", "CANCELING"}
          BY <4>1, <4>2 DEF LiveStatuses, ClosedStatuses
        <5>2. CacheOpen(o, status)
          BY <3>2, <4>2, StatusFacts DEF OrderStatusUpdate
        <5>. QED BY <1>2, <3>2, <5>1, <5>2 DEF CacheOpen, TypeOK
      <4>3. CASE status \notin LiveStatuses
        BY <3>2, <4>3 DEF OrderStatusUpdate
      <4>. QED BY <4>2, <4>3
    <3>3. CASE p # o
      BY <1>1, <1>2, <1>4, <3>3
    <3>4. \/ memOrders' = memOrders
          \/ o \in registered /\ ValidTransition(o, status) /\ OrderStatusUpdate(o, status)
      BY DEF OrderStatusUpdate, IgnoreUpdate
    <3>. QED BY <3>1, <3>2, <3>3, <3>4
  <2>2. memOrders'[p] = "CANCELING" => p \in exchCanceling'
    BY <1>2 DEF CancelAnswersAreTrue, LastStatus, NoStatus
  <2>. QED BY <1>2, <2>1, <2>2
<1>. QED BY <1>2, <1>3, <1>4 DEF SweepIsPursued, Reachable

\* The OMS follows its calls.
LEMMA SweepClient ==
  ASSUME TypeOK, CoreInv, CancelInv, CancelInv', SweepInv, Client
  PROVE  SweepInv'
<1>1. ASSUME NEW c \in calls, HandleAnswer(c) PROVE SweepInv'
  <2>1. PICK status \in {"PENDING", "FAILED", "CANCELING", "CANCEL_FAILED"} :
          /\ OrderStatusUpdate(c.oid, status) \/ IgnoreUpdate
          /\ c.op = "cancel" /\ c.st # "ok"
             => status = "CANCEL_FAILED" /\ OrderStatusUpdate(c.oid, status)
    BY <1>1, AnswerEffect
  <2>2. /\ calls' = calls \ {c}
        /\ UNCHANGED <<swept, queue, stored, feed, lost, exch, exchCanceling>>
    BY <1>1, AnswerEffect
  <2>3. c.oid \in Oids /\ status \in OrderStatuses
    BY CallFacts, PostedStatuses
  <2>4. inflight' \subseteq inflight /\ registered' \subseteq registered
    BY <2>1, <2>3, UpdateSets
  <2>5. ASSUME NEW p \in Oids, p \in registered', CancelSent(p)
        PROVE  CancelSent(p)' \/ p \in exchCanceling' \/ memOrders'[p] = "CANCEL_FAILED"
    <3>1. CASE c.op = "cancel" /\ c.oid = p
      <4>1. CASE c.st = "ok"
        BY <2>2, <3>1, <4>1 DEF CancelInv, CancelAnswersAreTrue, IsCancel
      <4>2. CASE c.st # "ok"
        BY <2>1, <2>2, <2>3, <2>4, <2>5, <3>1, <4>2, CancelFailedIsTaken DEF CancelInv
      <4>. QED BY <4>1, <4>2
    <3>2. CASE ~ (c.op = "cancel" /\ c.oid = p)
      BY <2>2, <2>5, <3>2 DEF CancelSent
    <3>. QED BY <3>1, <3>2
  <2>6. SweepIsPursued'
    BY <2>1, <2>2, <2>3, <2>5, SweepUpdate DEF CancelInv, SweepInv
  <2>. QED BY <2>2, <2>4, <2>6 DEF SweepInv, NothingEvicted, AckIsComing
<1>2. ASSUME NEW o \in Oids, DeliverReport(o) PROVE SweepInv'
  <2>. DEFINE status == Head(feed[o])
  <2>1. status \in OrderStatuses /\ OrderStatusUpdate(o, status)
    BY <1>2, PostedStatuses DEF DeliverReport, TypeOK
  <2>2. /\ UNCHANGED <<swept, queue, stored, lost, exch, calls, exchCanceling>>
        /\ \A p \in Oids \ {o} : feed'[p] = feed[p]
    BY <1>2 DEF DeliverReport, strategyVars, storeVars, exchVars, TypeOK
  <2>3. inflight' \subseteq inflight
    BY <2>1, UpdateSets
  <2>4. o \notin inflight'
    <3>1. CASE o \notin inflight
      BY <2>3, <3>1
    <3>2. CASE o \in inflight
      <4>1. o \in registered /\ memOrders[o] = NoStatus
        BY <3>2 DEF CoreInv, RegistryMatchesCache, OpenIsLast, LastStatus
      <4>2. ValidTransition(o, status)
        BY <2>1, <4>1 DEF ValidTransition, StatusesAfter
      <4>. QED BY <2>1, <4>1, <4>2 DEF OrderStatusUpdate, CacheOpen, CacheClose
    <3>. QED BY <3>1, <3>2
  <2>5. AckIsComing'
    BY <2>2, <2>3, <2>4 DEF SweepInv, AckIsComing, TypeOK
  <2>6. \A p \in Oids : CancelSent(p) => CancelSent(p)'
    BY <2>2 DEF CancelSent
  <2>7. SweepIsPursued'
    BY <2>1, <2>2, <2>6, SweepUpdate DEF CancelInv, SweepInv
  <2>. QED BY <2>2, <2>5, <2>7 DEF SweepInv, NothingEvicted
<1>. QED BY <1>1, <1>2 DEF Client

\* The network and the venue keep a cancel-all pursued.
LEMMA SweepOutside ==
  ASSUME TypeOK, CoreInv, SweepInv, Network \/ Exchange
  PROVE  SweepInv'
<1>1. /\ UNCHANGED <<swept, queue, registered, memOrders, inflight, stored>>
      /\ exchCanceling \subseteq exchCanceling' /\ lost \subseteq lost'
      /\ \/ calls' = calls
         \/ \E c \in calls : \/ calls' = calls \ {c} /\ c.op \in {"create_ws", "cancel_ws"}
                            \/ \E st \in {"ok", "fail"} : calls' = Answered(c, st)
  BY OutsideEffect DEF strategyVars, registryVars, cacheSets, storeVars
<1>2. \A o : CancelSent(o) => CancelSent(o)'
  BY <1>1, AnsweredStays DEF CancelSent
<1>3. \A d \in calls' : \E c \in calls : c.oid = d.oid /\ c.op = d.op
  BY <1>1, CallsOnly
<1>4. ASSUME NEW o \in Oids
      PROVE  /\ exch'[o] # "none" => exch[o] # "none" \/ \E c \in calls : IsCreate(c) /\ c.oid = o
             /\ \/ feed'[o] = feed[o] /\ exch'[o] = exch[o]
                \/ o \in lost'
                \/ \E s \in ReportStatuses : feed'[o] = Append(feed[o], s)
  <2>1. CASE Network
    BY <2>1 DEF Network, LoseAnswer, LoseReport, exchVars, TypeOK
  <2>2. ASSUME NEW c \in calls, ExchangeAcceptsCreate(c) \/ ExchangeRejectsLater(c)
        PROVE  /\ exch'[o] # "none" => exch[o] # "none" \/ \E b \in calls : IsCreate(b) /\ b.oid = o
               /\ \/ feed'[o] = feed[o] /\ exch'[o] = exch[o]
                  \/ \E s \in ReportStatuses : feed'[o] = Append(feed[o], s)
    BY <2>2 DEF ExchangeAcceptsCreate, ExchangeRejectsLater, Report, ReportStatuses, IsCreate, TypeOK
  <2>3. ASSUME NEW c \in calls, ExchangeAcceptsModify(c)
        PROVE  /\ exch'[o] = exch[o]
               /\ feed'[o] = feed[o] \/ \E s \in ReportStatuses : feed'[o] = Append(feed[o], s)
    BY <2>3 DEF ExchangeAcceptsModify, Report, OrderReport, ReportStatuses, exchVars, TypeOK
  <2>4. ASSUME NEW p \in Oids, NEW state, NEW s \in ReportStatuses, Live(p), Becomes(p, state, s)
        PROVE  /\ exch'[o] # "none" => exch[o] # "none"
               /\ \/ feed'[o] = feed[o] /\ exch'[o] = exch[o]
                  \/ \E r \in ReportStatuses : feed'[o] = Append(feed[o], r)
    BY <2>4 DEF Live, Becomes, Report, TypeOK
  <2>5. ASSUME NEW p \in Oids,
               \/ ExchangePartialFill(p) \/ ExchangeFill(p)
               \/ ExchangeExpire(p) \/ ExchangeCancel(p)
        PROVE  \E state \in ExchStates, s \in ReportStatuses : Live(p) /\ Becomes(p, state, s)
    BY <2>5 DEF ExchangePartialFill, ExchangeFill, ExchangeExpire, ExchangeCancel, Live,
       ExchStates, ReportStatuses
  <2>6. CASE \/ \E c \in calls : ExchangeRefuses(c) \/ ExchangeAcceptsCancel(c)
             \/ \E s \in Symbols : ExchangeSweeps(s)
    BY <2>6 DEF ExchangeRefuses, ExchangeAcceptsCancel, ExchangeSweeps, exchVars
  <2>. QED BY <2>1, <2>2, <2>3, <2>4, <2>5, <2>6 DEF Exchange
<1>5. AckIsComing'
  <2>. SUFFICES ASSUME NEW o \in inflight, exch'[o] # "none", o \notin lost'
                PROVE  feed'[o] # <<>>
    BY <1>1 DEF AckIsComing
  <2>1. o \in Oids /\ o \notin lost /\ feed[o] \in Seq(ReportStatuses)
    BY <1>1 DEF TypeOK
  <2>2. ASSUME NEW s \in ReportStatuses, feed'[o] = Append(feed[o], s) PROVE feed'[o] # <<>>
    BY <2>1, <2>2
  <2>. QED BY <1>4, <2>1, <2>2 DEF SweepInv, AckIsComing
<1>6. SweepIsPursued'
  <2>. SUFFICES ASSUME NEW o \in swept' \ lost', Reachable(o)'
                PROVE  \/ CancelAllQueued(SymbolOf[o])' \/ CancelSent(o)' \/ o \in exchCanceling'
                       \/ memOrders'[o] = "CANCEL_FAILED"
    BY DEF SweepIsPursued, Reachable, IsCreate
  <2>1. o \in swept \ lost /\ o \in Oids
    BY <1>1 DEF TypeOK
  <2>2. Reachable(o)
    BY <1>1, <1>3, <1>4, <2>1 DEF Reachable, IsCreate
  <2>3. CancelAllQueued(SymbolOf[o]) => CancelAllQueued(SymbolOf[o])'
    BY <1>1 DEF CancelAllQueued
  <2>. QED BY <1>1, <1>2, <2>1, <2>2, <2>3 DEF SweepInv, SweepIsPursued, Reachable
<1>. QED BY <1>1, <1>5, <1>6 DEF SweepInv, NothingEvicted

\* Every step keeps a cancel-all pursued.
LEMMA SweepStep ==
  ASSUME CancelAllKind = "each_open", SlowVenue = FALSE, MaxEvictions = 0,
         LifecycleInv, VenueInv, CancelInv, CancelInv', SweepInv, [Next]_vars
  PROVE  SweepInv'
<1>. USE DEF LifecycleInv
<1>1. CASE UNCHANGED vars
  BY <1>1 DEF vars, strategyVars, registryVars, cacheSets, storeVars, netVars, exchVars, SweepInv,
     NothingEvicted, AckIsComing, SweepIsPursued, CancelAllQueued, CancelSent, IsCreate
<1>2. CASE Cache
  <2>1. ASSUME NEW o \in Oids, EvictOrder(o) PROVE FALSE
    BY <2>1 DEF EvictOrder, TypeOK
  <2>2. ASSUME NEW o \in Oids, ReloadOrder(o) PROVE FALSE
    BY <2>2 DEF ReloadOrder, SweepInv, NothingEvicted
  <2>. QED BY <1>2, <2>1, <2>2 DEF Cache
<1>. QED BY <1>1, <1>2, SweepStrategy, SweepEms, SweepClient, SweepOutside DEF Next

\* Where the cancel-all cancels the open orders one by one, it reaches every
\* order of its symbol submitted before it, acknowledged or not, or the
\* strategy sees that cancel fail: as long as the venue acknowledges an order
\* within the wait and the cache is not evicted in the meantime.
THEOREM CancelAllReachesAll ==
  ASSUME CancelAllKind = "each_open", SlowVenue = FALSE, MaxEvictions = 0
  PROVE  Spec => []CancelAllReaches
<1>1. Init => SweepInv
  BY DEF Init, SweepInv, NothingEvicted, AckIsComing, SweepIsPursued
<1>2. SweepInv => CancelAllReaches
  <2>. SUFFICES ASSUME SweepInv, NEW o \in swept \ lost, Live(o), o \in registered
                PROVE  CancelQueued(o) \/ CancelUnderway(o) \/ memOrders[o] = "CANCEL_FAILED"
    BY DEF CancelAllReaches
  <2>1. \/ CancelAllQueued(SymbolOf[o]) \/ CancelSent(o) \/ o \in exchCanceling
        \/ memOrders[o] = "CANCEL_FAILED"
    BY DEF SweepInv, SweepIsPursued, Live
  <2>. QED BY <2>1 DEF CancelSent, CancelAllQueued, CancelQueued, CancelUnderway
<1>3. LifecycleInv /\ VenueInv /\ CancelInv /\ CancelInv' /\ SweepInv /\ [Next]_vars => SweepInv'
  BY SweepStep
<1>. QED BY <1>1, <1>2, <1>3, LifecycleInvariant, VenueInvariant, CancelInvariant, PTL DEF Spec
=============================================================================
