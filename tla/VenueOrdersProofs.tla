-------------------------- MODULE VenueOrdersProofs --------------------------
(***************************************************************************)
(* Proofs about the orders of every venue, from the strategy's submission  *)
(* to the answers and reports of the venue, for every set of orders, every *)
(* batch of distinct orders, every ticket, every limit of the queue and    *)
(* every contract size.                                                    *)
(*                                                                         *)
(* The first part is about the venues' words: what each OMS makes of a     *)
(* ticket, and what it reads of a report of it.  The second is about the   *)
(* steps: what is known of an order between its submission, its call, the  *)
(* venue's book and the reports on their way.                              *)
(***************************************************************************)
EXTENDS VenueOrders, TLAPS

-----------------------------------------------------------------------------
(* The inductive invariant.                                                 *)

Directions  == {"given", "heard"}
Submissions == [op : Creates \cup Requests, legs : Seq(Oids), by : Directions]
Routes      == {NoRoute} \cup (AllAccounts \X Products)
WireTypes   == {"LIMIT_MAKER", "LIMIT", "MARKET", "market", "limit", "post_only", "fok", "ioc",
                "Market", "Limit", "STOP_LOSS_LIMIT", "STOP_LOSS", "STOP", "STOP_MARKET",
                "TAKE_PROFIT_LIMIT", "TAKE_PROFIT", "TAKE_PROFIT_MARKET"}
WireTifs    == TimesInForce \cup {"none", "GTX", "PostOnly", "post_only", "Alo"}
Wires       == [route : Routes]
               \cup [route : Routes, type : WireTypes, tif : WireTifs, size : Nat]
Calls       == [op : Creating \cup Requests, legs : Seq(Oids), wires : Seq(Wires), by : Directions,
                n : Nat, inline : BOOLEAN, st : {"sent", "answered", "broken"},
                taken : Seq(BOOLEAN)]
ShownOrders == [status : OrderStatuses \cup {NoStatus}, type : OrderTypes \cup {"none"},
                tif : TimesInForce \cup {"none"}, amount : Nat,
                product : Products \cup {"none"}]
States      == {"none", "taken", "refused", "new", "partial", "rejected", "filled", "expired",
                "canceled"}
Names       == {"NEW", "PARTIALLY_FILLED", "FILLED", "CANCELED", "EXPIRED", "EXPIRED_IN_MATCH",
                "live", "partially_filled", "filled", "canceled", "mmp_canceled", "New",
                "PartiallyFilled", "Filled", "Cancelled", "PartiallyFilledCanceled", "Deactivated",
                "Rejected", "new", "cancelled", "open", "marginCanceled", "badAloPxRejected"}
Events      == {"new", "partial", "filled", "canceled", "expired", "rejected"}
AllTickets  == {t \in Tickets(Nat) : t.amount % ContractSize = 0}

TypeOK ==
  /\ account \in UsedAccounts
  /\ ticket \in [Oids -> AllTickets] /\ \A o \in Oids : ticket[o].product \in Sells(account)
  /\ as \in [Oids -> Creates \cup {"none"}] /\ requests \in Nat
  /\ queue \in Seq(Submissions) /\ late \in Seq(Submissions) /\ dead \in BOOLEAN
  /\ calls \subseteq Calls
  /\ registered \subseteq Oids /\ tmpOrders \subseteq Oids
  /\ shown \in [Oids -> ShownOrders]
  /\ told \in [Oids -> OrderStatuses \cup {NoStatus}]
  /\ exch \in [Oids -> [state : States, wire : Wires]]
  /\ canceling \subseteq Oids /\ feed \in Seq([oid : Oids, state : Names])
  /\ unclear \subseteq Oids /\ strayed \subseteq Oids \X Directions

Creator(s, o) == s.op \in Creates /\ o \in Range(s.legs)
Queued(o)     == \E s \in Range(queue) \cup Range(late) : Creator(s, o)
Making(c, o)  == c.op \in Creates /\ o \in Range(c.legs)

\* A submission as the strategy makes it.
WellFormed(s) ==
  /\ s.op \in Creates => s.by = "given" /\ \A o \in Range(s.legs) : as[o] = s.op
  /\ s.op = "batch" => s.legs = BatchOf
  /\ s.op # "batch" => \E o \in Oids : s.legs = <<o>> /\ as[o] # "none"
  /\ s.op = "cancel_all" => SweepsNatively
  /\ s.by = "heard" => OnHyperliquid
WellSubmitted == \A s \in Range(queue) \cup Range(late) : WellFormed(s)

\* One submission creates an order, and it is in one place.
QueuedOnce ==
  \A o \in Oids :
    /\ \A i, j \in DOMAIN queue : Creator(queue[i], o) /\ Creator(queue[j], o) => i = j
    /\ \A i, j \in DOMAIN late : Creator(late[i], o) /\ Creator(late[j], o) => i = j
    /\ \A i \in DOMAIN queue, j \in DOMAIN late : ~ (Creator(queue[i], o) /\ Creator(late[j], o))
MadeOnce ==
  \A o \in Oids :
    /\ as[o] = "none" => ~ Queued(o) /\ exch[o].state = "none"
    /\ Queued(o) => exch[o].state = "none" /\ ~ CreateUnderway(o)
    /\ \A c, d \in calls : Making(c, o) /\ Making(d, o) => c = d

\* Of an order not submitted nothing is known.
Unheard == \A o \in Oids : as[o] = "none" => o \notin registered /\ told[o] = NoStatus

\* The wire of an order.
OrderWire(t, p) ==
  CASE OnBinance         -> Binance!Params(<<account, p>>, t)
    [] account = "okx"   -> Okx!Params(t)
    [] account = "bybit" -> Bybit!Params(<<account, p>>, t)
    [] OnBitget          -> Bitget!Params(account, t)
    [] OnHyperliquid     -> Hyperliquid!Params(t)

AskedFor(o, w) ==
  \E p \in Products :
    /\ p = ticket[o].product \/ MixedBatch(o)
    /\ w = OrderWire(ticket[o], p) /\ w.route = <<account, p>>

\* A call that makes orders.
CreateCall(c) ==
  /\ DOMAIN c.taken = DOMAIN c.legs /\ DOMAIN c.wires = DOMAIN c.legs
  /\ c.op = "batch" => c.legs = BatchOf /\ (Legs(c) # {} => ~ OnBitget)
  /\ c.op # "batch" => \E o \in Oids : c.legs = <<o>>
  /\ c.op = "tp_sl" => account \in {"okx", "bybit"}
  /\ \A i \in DOMAIN c.legs :
       /\ as[c.legs[i]] = c.op \/ (c.op = "create" /\ OnBinance /\ as[c.legs[i]] # "none")
       /\ AskedFor(c.legs[i], c.wires[i])
       /\ c.st = "sent" <=> exch[c.legs[i]].state = "none"
       /\ c.st = "answered" => (c.taken[i] <=> exch[c.legs[i]].state # "refused")
       /\ c.st = "broken" => c.legs[i] \in unclear

RequestCall(c) ==
  /\ \E o \in Oids : c.legs = <<o>> /\ as[o] # "none"
  /\ DOMAIN c.taken = {1}
  /\ c.wires[1].route = <<account, ticket[Head(c.legs)].product>>
  /\ c.by = "heard" => OnHyperliquid
  /\ c.op = "modify" /\ c.st # "sent" =>
       IF c.st = "answered" /\ c.taken[1] THEN exch[Head(c.legs)].state \notin {"none", "refused"}
       ELSE Head(c.legs) \in unclear

WellCalled == \A c \in calls : (c.op \in Creates => CreateCall(c)) /\ (c.op \in Requests => RequestCall(c))

\* The reports on their way.
FirstNames   == {"NEW", "live", "New", "Rejected"}
ExpiredNames == {"EXPIRED", "EXPIRED_IN_MATCH", "Deactivated"}
FailedNames  == {"Rejected", "badAloPxRejected"}
WorkedOn(o) == exch[o].state \notin {"none", "refused", "taken"}
WellReported ==
  \A i \in DOMAIN feed :
    /\ WorkedOn(feed[i].oid) /\ \E e \in Events : feed[i].state \in NativeStates[e]
    /\ feed[i].state \in FailedNames => exch[feed[i].oid].state = "rejected"
    /\ feed[i].state \in ExpiredNames =>
         \/ told[feed[i].oid] # NoStatus
         \/ \E j \in 1 .. i - 1 : feed[j].oid = feed[i].oid /\ feed[j].state \in FirstNames

FirstReported ==
  \A o \in Oids : WorkedOn(o) /\ (OnBinance \/ account \in {"okx", "bybit"}) =>
    told[o] # NoStatus \/ \E j \in DOMAIN feed : feed[j].oid = o /\ feed[j].state \in FirstNames

RightWires ==
  \A o \in Oids : exch[o].state # "none" =>
    AskedFor(o, exch[o].wire) /\ (exch[o].state # "refused" => Takeable(o))

PendingIsThere ==
  \A o \in Oids : "PENDING" \in {told[o], shown[o].status} => exch[o].state \notin {"none", "refused"}

FailedIsNot ==
  \A o \in Oids : told[o] = "FAILED" =>
    \/ o \in unclear
    \/ ~ IsLive(o) /\ ~ Queued(o) /\ (exch[o].state = "none" => ~ CreateUnderway(o))
    \/ FailsAsOne(o)

Registered ==
  \A o \in Oids : as[o] # "none" /\ ~ Queued(o) =>
    told[o] # NoStatus \/ (o \in registered /\ (RegistersTmp(as[o]) => o \in tmpOrders))

Settled ==
  \A o \in Oids :
    \/ as[o] = "none" \/ Queued(o) \/ CreateUnderway(o) \/ o \in unclear \/ told[o] # NoStatus
    \/ Unspoken(o)
    \/ as[o] = "tp_sl" /\ account \in {"okx", "bybit"} /\ exch[o].state \notin {"none", "refused"}

Inv == /\ TypeOK /\ WellSubmitted /\ QueuedOnce /\ MadeOnce /\ Unheard /\ WellCalled /\ WellReported
       /\ FirstReported /\ RightWires /\ PendingIsThere /\ FailedIsNot /\ Registered /\ Settled
       /\ ReportedAsAsked /\ EveryRequestReachesItsOrder

-----------------------------------------------------------------------------
(* What the venues make of a ticket.                                        *)

\* An account is of one venue.
LEMMA Venues ==
  ASSUME account \in AllAccounts
  PROVE  /\ \/ OnBinance \/ account = "okx" \/ account = "bybit" \/ OnBitget \/ OnHyperliquid
         /\ OnBinance => account \notin {"okx", "bybit"} /\ ~ OnBitget /\ ~ OnHyperliquid
         /\ OnBitget => account \notin {"okx", "bybit"} /\ ~ OnHyperliquid
         /\ OnHyperliquid => account \notin {"okx", "bybit"}
BY DEF AllAccounts, OnBinance, OnBitget, OnHyperliquid, Binance!Accounts, Okx!Accounts,
       Bybit!Accounts, Bitget!Accounts, Hyperliquid!Accounts

\* The wire of an order is one the model knows, and goes to the account and
\* the book it is asked for on.
LEMMA WireRoute ==
  ASSUME account \in AllAccounts, NEW t \in AllTickets, NEW p \in Products,
         p = t.product \/ OnBinance \/ account = "bybit"
  PROVE  OrderWire(t, p) \in Wires /\ OrderWire(t, p).route = <<account, p>>
<1>0. ContractSize \in Nat \ {0} BY VenueOrdersAssumption
<1>1. t.amount \in Nat /\ t.type \in OrderTypes /\ t.tif \in TimesInForce /\ t.product \in Products
  BY <1>0 DEF AllTickets, Tickets
<1>a. <<account, p>> \in Routes
  BY DEF Routes
<1>2. CASE OnBinance
  <2>1. OrderWire(t, p) = Binance!Params(<<account, p>>, t)
    BY <1>2, Venues DEF OrderWire
  <2>3. Binance!TypeParams(t).type \in WireTypes /\ Binance!TypeParams(t).tif \in WireTifs
    BY <1>1 DEF Binance!TypeParams, OrderTypes, TimesInForce, WireTypes, WireTifs
  <2>2. Binance!Params(<<account, p>>, t) \in Wires
    BY <1>1, <1>a, <2>3 DEF Binance!Params, Wires, WireTypes
  <2> QED BY <2>1, <2>2 DEF Binance!Params
<1>3. CASE account = "okx"
  <2>1. OrderWire(t, p) = Okx!Params(t) /\ p = t.product
    BY <1>3, Venues DEF OrderWire
  <2>3. Okx!Contracts(t) \in Nat
    BY <1>0, <1>1 DEF Okx!Contracts
  <2>4. Okx!OrderTypeWord(t) \in WireTypes
    BY <1>1 DEF Okx!OrderTypeWord, OrderTypes, TimesInForce, WireTypes, WireTifs
  <2>5. Okx!Route(t.product) = <<account, p>>
    BY <1>3, <2>1 DEF Okx!Route
  <2>2. Okx!Params(t) \in Wires
    BY <1>a, <2>3, <2>4, <2>5 DEF Okx!Params, Wires, WireTypes, WireTifs
  <2> QED BY <1>3, <2>1, <2>2 DEF Okx!Params, Okx!Route
<1>4. CASE account = "bybit"
  <2>1. OrderWire(t, p) = Bybit!Params(<<account, p>>, t)
    BY <1>4, Venues DEF OrderWire
  <2>3. Bybit!Params(<<account, p>>, t).type \in WireTypes /\
          Bybit!Params(<<account, p>>, t).tif \in WireTifs
    BY <1>1 DEF Bybit!Params, OrderTypes, TimesInForce, WireTypes, WireTifs
  <2>2. Bybit!Params(<<account, p>>, t) \in Wires
    BY <1>1, <1>a, <2>3 DEF Bybit!Params, Wires, WireTypes
  <2>4. Bybit!Params(<<account, p>>, t).route = <<account, p>>
    BY DEF Bybit!Params
  <2> QED BY <2>1, <2>2, <2>4
<1>5. CASE OnBitget
  <2>1. OrderWire(t, p) = Bitget!Params(account, t) /\ p = t.product
    BY <1>5, Venues DEF OrderWire
  <2>3. Bitget!Params(account, t).tif \in WireTifs
    BY <1>1 DEF Bitget!Params, OrderTypes, TimesInForce, WireTypes, WireTifs
  <2>2. Bitget!Params(account, t) \in Wires
    BY <1>1, <1>a, <2>1, <2>3 DEF Bitget!Params, Bitget!InstType, Wires, WireTypes
  <2>4. Bitget!Params(account, t).route = <<account, t.product>>
    BY DEF Bitget!Params, Bitget!InstType
  <2> QED BY <2>1, <2>2, <2>4
<1>6. CASE OnHyperliquid
  <2>1. OrderWire(t, p) = Hyperliquid!Params(t) /\ p = t.product
    BY <1>6, Venues DEF OrderWire
  <2>3. account = "hyperliquid" BY <1>6 DEF OnHyperliquid, Hyperliquid!Accounts
  <2>4. Hyperliquid!Params(t).tif \in WireTifs
    BY <1>1 DEF Hyperliquid!Params, OrderTypes, TimesInForce, WireTypes, WireTifs
  <2>2. Hyperliquid!Params(t) \in Wires
    BY <1>1, <1>a, <2>1, <2>3, <2>4 DEF Hyperliquid!Params, Hyperliquid!Route, Wires, WireTypes
  <2>5. Hyperliquid!Params(t).route = <<account, t.product>>
    BY <2>3 DEF Hyperliquid!Params, Hyperliquid!Route
  <2> QED BY <2>1, <2>2, <2>5
<1> QED BY <1>2, <1>3, <1>4, <1>5, <1>6, Venues

\* What a create does up to its first await.
LEMMA CreateOutcome ==
  ASSUME account \in AllAccounts, NEW t \in AllTickets, t.product \in Sells(account)
  PROVE  /\ CreateOrder(t) \in {Raises, Fails, Sends(OrderWire(t, t.product))}
         /\ CreateOrderWs(t) \in {Raises, Fails, Sends(OrderWire(t, t.product))}
         /\ ~ OnBinance => CreateTpSlOrder(t) \in {Raises, Fails, Sends(OrderWire(t, t.product))}
<1>1. t.product \in Products BY DEF AllTickets, Tickets
<1>2. CASE OnBinance
  BY <1>1, <1>2, Venues, SMTT(30)
     DEF CreateOrder, CreateOrderWs, OrderWire, Sells, OnBinance, Binance!Accounts,
     Binance!CreateOrder, Binance!CreateOrderWs, Raises, Fails, Sends, Binance!Raises, Binance!Sends,
     Binance!SendsOrFails, Binance!SendsOrRaises, Binance!Fails, Binance!NoRoute,
     Binance!CreateRoute, Binance!CreateWsRoute, Binance!HasWsApi, Binance!MarketType, Products
<1>3. CASE account = "okx"
  BY <1>1, <1>3, Venues, SMTT(30) DEF CreateOrder, CreateOrderWs, CreateTpSlOrder, OrderWire,
     Okx!CreateOrder, Okx!CreateOrderWs, Okx!CreateTpSlOrder, Raises, Fails, Sends, Okx!Raises, Okx!Sends
<1>4. CASE account = "bybit"
  BY <1>1, <1>4, Venues, SMTT(30)
     DEF CreateOrder, CreateOrderWs, CreateTpSlOrder, OrderWire, Bybit!Category,
     Bybit!CreateOrder, Bybit!CreateOrderWs, Bybit!CreateTpSlOrder, Raises, Fails, Sends, Bybit!Raises,
     Bybit!Sends
<1>5. CASE OnBitget
  BY <1>1, <1>5, Venues, SMTT(30) DEF CreateOrder, CreateOrderWs, CreateTpSlOrder, OrderWire,
     Bitget!CreateOrder, Bitget!CreateOrderWs, Bitget!CreateTpSlOrder, Raises, Fails, Sends,
     Bitget!Raises, Bitget!Sends
<1>6. CASE OnHyperliquid
  BY <1>1, <1>6, Venues, SMTT(30) DEF CreateOrder, CreateOrderWs, CreateTpSlOrder, OrderWire,
     Hyperliquid!CreateOrder, Hyperliquid!CreateOrderWs, Hyperliquid!CreateTpSlOrder, Raises, Fails,
     Sends, Hyperliquid!Raises, Hyperliquid!Sends
<1> QED BY <1>2, <1>3, <1>4, <1>5, <1>6, Venues

\* Only Bybit sends a leg to the book of another order.
LEMMA LegOutcome ==
  ASSUME account \in AllAccounts, NEW t \in AllTickets, t.product \in Sells(account), NEW first
  PROVE  /\ \/ BatchLeg(first, t) \in {Raises, Fails, Sends(OrderWire(t, t.product))}
            \/ account = "bybit" /\ BatchLeg(first, t) = Sends(OrderWire(t, first.product))
         /\ OnBitget => BatchLeg(first, t) = Raises
<1>1. t.product \in Products BY DEF AllTickets, Tickets
<1>2. CASE OnBinance
  BY <1>1, <1>2, Venues, SMTT(30) DEF BatchLeg, OrderWire, Sells, OnBinance, Binance!Accounts,
     Binance!CreateOrder, Binance!BatchLeg, Binance!BatchRoute, Raises, Fails, Sends, Binance!Raises,
     Binance!Sends,
     Binance!SendsOrFails, Binance!Fails, Binance!NoRoute,
     Binance!CreateRoute, Binance!MarketType, Products
<1>3. CASE account = "okx"
  BY <1>1, <1>3, Venues, SMTT(30) DEF BatchLeg, OrderWire,
     Okx!BatchLeg, Raises, Fails, Sends, Okx!Raises, Okx!Sends
<1>4. CASE account = "bybit"
  BY <1>1, <1>4, Venues, SMTT(30) DEF BatchLeg, OrderWire, Bybit!Category,
     Bybit!BatchLeg, Raises, Fails, Sends, Bybit!Raises, Bybit!Sends
<1>5. CASE OnBitget
  BY <1>1, <1>5, Venues, SMTT(30) DEF BatchLeg, Bitget!BatchLeg, Raises, Bitget!Raises
<1>6. CASE OnHyperliquid
  BY <1>1, <1>6, Venues, SMTT(30) DEF BatchLeg, OrderWire,
     Hyperliquid!BatchLeg, Raises, Fails, Sends, Hyperliquid!Raises, Hyperliquid!Sends
<1> QED BY <1>2, <1>3, <1>4, <1>5, <1>6, Venues

\* A request goes to the book of its symbol, on the account the create used.
LEMMA RequestOutcome ==
  ASSUME account \in AllAccounts, NEW t \in AllTickets, t.product \in Sells(account)
  PROVE  /\ CancelOrder(t) \in {Raises, Fails, Sends([route |-> <<account, t.product>>])}
         /\ CancelOrderWs(t) \in {Raises, Fails, Sends([route |-> <<account, t.product>>])}
         /\ ModifyOrder(t) \in {Raises, Sends([route |-> <<account, t.product>>])}
         /\ SweepsNatively =>
              CancelAllOrders(t) \in {Raises, Fails, Sends([route |-> <<account, t.product>>])}
<1>1. t.product \in Products BY DEF AllTickets, Tickets
<1>2. CASE OnBinance
  <2> DEFINE r == <<account, t.product>>
  <2>1. /\ Binance!CancelRoute(account, t.product) \in {r, Binance!NoRoute}
        /\ Binance!CancelWsRoute(account, t.product) \in {r, Binance!NoRoute}
        /\ Binance!SweepRoute(account, t.product) = r
        /\ t.product # "spot" => Binance!ModifyRoute(account, t.product) = r
        /\ r # Binance!NoRoute
    BY <1>1, <1>2, SMTT(30) DEF Sells, OnBinance, Binance!Accounts, Binance!NoRoute,
       Binance!CancelRoute, Binance!CancelWsRoute, Binance!SweepRoute, Binance!ModifyRoute,
       Binance!HasWsApi, Binance!MarketType, Products
  <2> HIDE DEF r
  <2>2. CancelOrder(t) \in {Raises, Fails, Sends([route |-> r])}
    BY <1>2, <2>1, Venues DEF CancelOrder, Binance!CancelOrder, Binance!SendsOrFails, Fails, Sends,
       Binance!Fails, Binance!Sends
  <2>3. CancelOrderWs(t) \in {Raises, Fails, Sends([route |-> r])}
    BY <1>2, <2>1, Venues DEF CancelOrderWs, Binance!CancelOrderWs, Binance!SendsOrRaises, Raises, Sends,
       Binance!Raises, Binance!Sends
  <2>4. ModifyOrder(t) \in {Raises, Sends([route |-> r])}
    BY <1>2, <2>1, Venues DEF ModifyOrder, Binance!ModifyOrder, Binance!SendsOrFails, Raises, Sends,
       Binance!Raises, Binance!Sends
  <2>5. CancelAllOrders(t) \in {Raises, Fails, Sends([route |-> r])}
    BY <1>2, <2>1, Venues DEF CancelAllOrders, Binance!CancelAllOrders, Binance!SendsOrFails, Fails,
       Sends, Binance!Fails, Binance!Sends
  <2> QED BY <2>2, <2>3, <2>4, <2>5 DEF r
<1>3. CASE account = "okx"
  BY <1>1, <1>3, Venues, SMTT(30) DEF CancelOrder, CancelOrderWs, ModifyOrder, SweepsNatively,
     Okx!CancelOrder, Okx!CancelOrderWs, Okx!ModifyOrder, Okx!Route, Raises, Fails, Sends, Okx!Raises,
     Okx!Sends, OnBinance, Binance!Accounts
<1>4. CASE account = "bybit"
  BY <1>1, <1>4, Venues, SMTT(30)
     DEF CancelOrder, CancelOrderWs, ModifyOrder, CancelAllOrders, Bybit!Category,
     Bybit!CancelOrder, Bybit!CancelOrderWs, Bybit!ModifyOrder, Bybit!CancelAllOrders, Raises, Fails,
     Sends, Bybit!Raises, Bybit!Sends
<1>5. CASE OnBitget
  BY <1>1, <1>5, Venues, SMTT(30)
     DEF CancelOrder, CancelOrderWs, ModifyOrder, CancelAllOrders, Bitget!InstType, 
     Bitget!CancelOrder, Bitget!CancelOrderWs, Bitget!ModifyOrder, Bitget!CancelAllOrders, Raises, Fails,
     Sends, Bitget!Raises, Bitget!Sends
<1>6. CASE OnHyperliquid
  BY <1>1, <1>6, Venues, SMTT(30) DEF CancelOrder, CancelOrderWs, ModifyOrder, SweepsNatively,
     OnHyperliquid, Hyperliquid!Accounts, Hyperliquid!Route, OnBinance, Binance!Accounts,
     Hyperliquid!CancelOrder, Hyperliquid!CancelOrderWs, Hyperliquid!ModifyOrder, Raises, Fails, Sends,
     Hyperliquid!Raises, Hyperliquid!Sends
<1> QED BY <1>2, <1>3, <1>4, <1>5, <1>6, Venues

-----------------------------------------------------------------------------
(* What the venues read of a report.                                        *)

\* The names of a venue and what each event may be called.
LEMMA NamesOfEvents ==
  ASSUME account \in AllAccounts, NEW e \in Events, NEW name \in NativeStates[e]
  PROVE  /\ name \in Names
         /\ name \in FailedNames => e = "rejected"
         /\ name \in ExpiredNames => e = "expired" /\ (OnBinance \/ account \in {"okx", "bybit"})
         /\ e \in {"new", "rejected"} /\ (OnBinance \/ account \in {"okx", "bybit"}) => name \in FirstNames
<1>2. CASE OnBinance
  <2>1. NativeStates = Binance!NativeStates BY <1>2, Venues DEF NativeStates
  <2> QED BY <1>2, <2>1 DEF Binance!NativeStates, Events, Names, FailedNames, ExpiredNames, FirstNames
<1>3. CASE account = "okx"
  <2>1. NativeStates = Okx!NativeStates BY <1>3, Venues DEF NativeStates
  <2> QED BY <1>3, <2>1 DEF Okx!NativeStates, Events, Names, FailedNames, ExpiredNames, FirstNames
<1>4. CASE account = "bybit"
  <2>1. NativeStates = Bybit!NativeStates BY <1>4, Venues DEF NativeStates
  <2> QED BY <1>4, <2>1 DEF Bybit!NativeStates, Events, Names, FailedNames, ExpiredNames, FirstNames
<1>5. CASE OnBitget
  <2>1. NativeStates = Bitget!NativeStates(account) BY <1>5, Venues DEF NativeStates
  <2> QED
    BY <1>5, <2>1, Venues DEF Bitget!NativeStates, Events, Names, FailedNames, ExpiredNames, FirstNames
<1>6. CASE OnHyperliquid
  <2>1. NativeStates = Hyperliquid!NativeStates BY <1>6, Venues DEF NativeStates
  <2> QED
    BY <1>6, <2>1, Venues DEF Hyperliquid!NativeStates, Events, Names, FailedNames, ExpiredNames, FirstNames
<1> QED BY <1>2, <1>3, <1>4, <1>5, <1>6, Venues

\* A reading of a report of the order that was asked for with ticket t in the
\* book of product p.
ReadsAs(r, t, p, name) ==
  /\ r.status \in {"ACCEPTED", "PARTIALLY_FILLED", "FILLED", "CANCELED", "EXPIRED", "FAILED"}
  /\ r.status = "FAILED" => name \in FailedNames
  /\ r.status = "EXPIRED" => name \in ExpiredNames
  /\ r.type = t.type /\ r.amount = t.amount /\ r.product = p
  /\ r.tif \in TimesInForce \cup {"none"}
  /\ t.type = "LIMIT" => r.tif \in {t.tif, "none"}

\* Each venue reads back, of a report of an order it was asked for, the order
\* that was asked for: Binance, on the spot and the futures channels.
LEMMA BinanceReads ==
  ASSUME NEW a \in Binance!Accounts, NEW t \in AllTickets, t.product \in Sells(a),
         NEW name \in {"NEW", "PARTIALLY_FILLED", "FILLED", "CANCELED", "EXPIRED", "EXPIRED_IN_MATCH"}
  PROVE  ReadsAs(Binance!ReadReport(a, Binance!Params(<<a, t.product>>, t), name), t, t.product, name)
<1> DEFINE w == Binance!Params(<<a, t.product>>, t)
<1>0. t.product \in Products /\ t.type \in OrderTypes /\ t.tif \in TimesInForce BY DEF AllTickets, Tickets
<1>1. w.route[2] = t.product /\ w.size = t.amount BY DEF Binance!Params
<1>2. w.type = Binance!TypeParams(t).type /\ w.tif = Binance!TypeParams(t).tif BY DEF Binance!Params
<1>3. Binance!OrderStatusMap[name] \in {"ACCEPTED", "PARTIALLY_FILLED", "FILLED", "CANCELED", "EXPIRED"}
      /\ (Binance!OrderStatusMap[name] = "EXPIRED" => name \in ExpiredNames)
  BY DEF Binance!OrderStatusMap, ExpiredNames
<1>4. CASE t.product = "spot"
  <2>1. Binance!SpotOrderType(w.type) = t.type
        /\ Binance!TimeInForceMap[Binance!WorkingTif(w)] \in TimesInForce
        /\ (t.type = "LIMIT" => Binance!TimeInForceMap[Binance!WorkingTif(w)] = t.tif)
    BY <1>0, <1>2, <1>4
       DEF Binance!SpotOrderType, Binance!WorkingTif, Binance!TimeInForceMap, Binance!TypeParams,
       OrderTypes, TimesInForce
  <2>2. Binance!ReadReport(a, w, name) = Binance!ExecutionReport(w, name)
        \/ Binance!ReadReport(a, w, name) = Binance!PmExecutionReport(w, name)
    BY <1>1, <1>4 DEF Binance!ReadReport
  <2> HIDE DEF w
  <2>3. ReadsAs(Binance!ReadReport(a, w, name), t, t.product, name)
    BY <1>1, <1>3, <1>4, <2>1, <2>2 DEF ReadsAs, Binance!ExecutionReport, Binance!PmExecutionReport
  <2> QED BY <2>3 DEF w
<1>5. CASE t.product # "spot"
  <2>1. Binance!FuturesOrderType(w.type, w.tif) = t.type
        /\ Binance!TimeInForceMap[Binance!WorkingTif(w)] \in TimesInForce
        /\ (t.type = "LIMIT" => Binance!TimeInForceMap[Binance!WorkingTif(w)] = t.tif)
    BY <1>0, <1>2, <1>5
       DEF Binance!FuturesOrderType, Binance!WorkingTif, Binance!TimeInForceMap, Binance!TypeParams,
       OrderTypes, TimesInForce
  <2>2. Binance!ReadReport(a, w, name) = Binance!OrderTradeUpdate(w, name)
    BY <1>1, <1>5 DEF Binance!ReadReport, Sells
  <2> HIDE DEF w
  <2>3. ReadsAs(Binance!ReadReport(a, w, name), t, t.product, name)
    BY <1>1, <1>3, <1>5, <2>1, <2>2 DEF ReadsAs, Binance!OrderTradeUpdate
  <2> QED BY <2>3 DEF w
<1> QED BY <1>4, <1>5

\* An amount that is a number of whole contracts is that number times one.
LEMMA WholeContracts ==
  ASSUME NEW amount \in Nat, NEW size \in Nat \ {0}, amount % size = 0
  PROVE  (amount \div size) * size = amount
OBVIOUS

\* OKX, whose sizes are contracts: the amount read is the amount asked for. A
\* report it has no status for is dropped.
LEMMA OkxReads ==
  ASSUME NEW t \in AllTickets,
         NEW name \in {"live", "partially_filled", "filled", "canceled", "mmp_canceled"}
  PROVE  LET r == Okx!ReadReport("okx", Okx!Params(t), name) IN
         IF name = "mmp_canceled" THEN r = Dropped ELSE ReadsAs(r, t, t.product, name)
<1> DEFINE w == Okx!Params(t)
           r == Okx!ReadReport("okx", Okx!Params(t), name)
<1>0. t.product \in Products /\ t.type \in OrderTypes /\ t.tif \in TimesInForce
      /\ t.amount \in Nat /\ t.amount % ContractSize = 0
  BY DEF AllTickets, Tickets
<1>1. w.route[2] = t.product /\ w.size = Okx!Contracts(t) /\ w.type = Okx!OrderTypeWord(t)
  BY DEF Okx!Params, Okx!Route
<1>2. (IF t.product = "spot" THEN w.size ELSE w.size * ContractSize) = t.amount
  <2>0. ContractSize \in Nat \ {0} BY VenueOrdersAssumption
  <2>1. (t.amount \div ContractSize) * ContractSize = t.amount BY <1>0, <2>0, WholeContracts
  <2> QED BY <1>1, <2>1 DEF Okx!Contracts
<1>3. Okx!OrderTypeMap[w.type] = t.type /\ Okx!TimeInForceMap[w.type] \in TimesInForce
      /\ (t.type = "LIMIT" => Okx!TimeInForceMap[w.type] = t.tif)
  BY <1>0, <1>1 DEF Okx!OrderTypeWord, Okx!OrderTypeMap, Okx!TimeInForceMap, OrderTypes, TimesInForce
<1>4. CASE name = "mmp_canceled"
  BY <1>4 DEF Okx!ReadReport, Okx!OrderStatusMap, Okx!Dropped, Dropped
<1>5. CASE name # "mmp_canceled"
  <2>1. Okx!OrderStatusMap[name] \in {"ACCEPTED", "PARTIALLY_FILLED", "FILLED", "CANCELED"}
        /\ name \in DOMAIN Okx!OrderStatusMap
    BY <1>5 DEF Okx!OrderStatusMap
  <2>2. r = [status |-> Okx!OrderStatusMap[name], type |-> t.type, tif |-> Okx!TimeInForceMap[w.type],
             amount |-> t.amount, product |-> t.product]
    BY <1>1, <1>2, <1>3, <2>1 DEF Okx!ReadReport
  <2> HIDE DEF w, r
  <2>3. ReadsAs(r, t, t.product, name) BY <1>3, <2>1, <2>2 DEF ReadsAs
  <2> QED BY <1>5, <2>3 DEF r
<1> QED BY <1>4, <1>5

\* Bybit, in the book of the product the order was sent to.
LEMMA BybitReads ==
  ASSUME NEW t \in AllTickets, NEW p \in Products,
         NEW name \in {"New", "PartiallyFilled", "Filled", "Cancelled", "PartiallyFilledCanceled",
                       "Deactivated", "Rejected"}
  PROVE  ReadsAs(Bybit!ReadReport("bybit", Bybit!Params(<<"bybit", p>>, t), name), t, p, name)
<1> DEFINE w == Bybit!Params(<<"bybit", p>>, t)
<1>0. t.product \in Products /\ t.type \in OrderTypes /\ t.tif \in TimesInForce BY DEF AllTickets, Tickets
<1>1. w.route[2] = p /\ w.size = t.amount BY DEF Bybit!Params
<1>2. w.type = (IF t.type = "MARKET" THEN "Market" ELSE "Limit")
      /\ w.tif = (CASE t.type = "POST_ONLY" -> "PostOnly"
                    [] t.type = "LIMIT"     -> t.tif
                    [] t.type = "MARKET"    -> "none")
  BY DEF Bybit!Params
<1>3. Bybit!OrderStatusMap[name] \in {"ACCEPTED", "PARTIALLY_FILLED", "FILLED", "CANCELED", "EXPIRED",
        "FAILED"}
      /\ (Bybit!OrderStatusMap[name] = "EXPIRED" => name \in ExpiredNames)
      /\ (Bybit!OrderStatusMap[name] = "FAILED" => name \in FailedNames)
  BY DEF Bybit!OrderStatusMap, ExpiredNames, FailedNames
<1> HIDE DEF w
<1>4. Bybit!OrderTypeRead(w.type, w.tif) = t.type
      /\ Bybit!TimeInForceMap[Bybit!WorkingTif(w)] \in TimesInForce
      /\ (t.type = "LIMIT" => Bybit!TimeInForceMap[Bybit!WorkingTif(w)] = t.tif)
  BY <1>0, <1>2 DEF Bybit!OrderTypeRead, Bybit!WorkingTif, Bybit!TimeInForceMap, OrderTypes, TimesInForce
<1>5. ReadsAs(Bybit!ReadReport("bybit", w, name), t, p, name)
  BY <1>1, <1>3, <1>4 DEF ReadsAs, Bybit!ReadReport
<1> QED BY <1>5 DEF w

\* Bitget, on both kinds of account; a report it has no status for is dropped.
LEMMA BitgetReads ==
  ASSUME NEW a \in Bitget!Accounts, NEW t \in AllTickets,
         NEW name \in {"new", "live", "partially_filled", "filled", "canceled", "cancelled"},
         name = "new" => a = "bitget_uta"
  PROVE  LET r == Bitget!ReadReport(a, t, Bitget!Params(a, t), name) IN
         r = Dropped \/ ReadsAs(r, t, t.product, name)
<1> DEFINE w == Bitget!Params(a, t)
           r == Bitget!ReadReport(a, t, w, name)
<1>1. w.route[2] = t.product /\ w.size = t.amount BY DEF Bitget!Params, Bitget!InstType
<1> HIDE DEF w
<1>2. CASE name = "new"
  <2>1. r = Dropped
    BY <1>2 DEF Bitget!ReadReport, Bitget!UtaOrderEvent, Bitget!OrderStatusMap, Bitget!Dropped, Dropped
  <2> QED BY <2>1 DEF w
<1>3. CASE name # "new"
  <2>1. Bitget!OrderStatusMap[name] \in {"ACCEPTED", "PARTIALLY_FILLED", "FILLED", "CANCELED"}
        /\ name \in DOMAIN Bitget!OrderStatusMap
    BY <1>3 DEF Bitget!OrderStatusMap
  <2>2. r = [status |-> Bitget!OrderStatusMap[name], type |-> t.type, tif |-> "none",
             amount |-> t.amount, product |-> t.product]
    BY <1>1, <2>1 DEF Bitget!ReadReport, Bitget!UtaOrderEvent, Bitget!OrdersEvent
  <2> HIDE DEF r
  <2>3. ReadsAs(r, t, t.product, name) BY <2>1, <2>2 DEF ReadsAs
  <2> QED BY <2>3 DEF r, w
<1> QED BY <1>2, <1>3

\* Hyperliquid, which reads the type and amount of the temporary order.
LEMMA HyperliquidReads ==
  ASSUME NEW t \in AllTickets,
         NEW name \in {"open", "filled", "canceled", "marginCanceled", "badAloPxRejected"}
  PROVE  ReadsAs(Hyperliquid!ReadReport("hyperliquid", t, Hyperliquid!Params(t), name), t, t.product, name)
<1> DEFINE w == Hyperliquid!Params(t)
<1>1. w.route[2] = t.product /\ w.size = t.amount BY DEF Hyperliquid!Params, Hyperliquid!Route
<1>2. Hyperliquid!OrderStatusMap[name] \in {"ACCEPTED", "FILLED", "CANCELED", "FAILED"}
      /\ (Hyperliquid!OrderStatusMap[name] = "FAILED" => name \in FailedNames)
  BY DEF Hyperliquid!OrderStatusMap, FailedNames
<1> HIDE DEF w
<1>3. ReadsAs(Hyperliquid!ReadReport("hyperliquid", t, w, name), t, t.product, name)
  BY <1>1, <1>2 DEF ReadsAs, Hyperliquid!ReadReport
<1> QED BY <1>3 DEF w

\* A report of an order is dropped or read as what was asked for, and the first
\* report of the venues that send one is read.
LEMMA Reading ==
  ASSUME account \in AllAccounts, NEW o \in Oids, ticket[o] \in AllTickets,
         ticket[o].product \in Sells(account), NEW p \in Products,
         p = ticket[o].product \/ account = "bybit", exch[o].wire = OrderWire(ticket[o], p),
         NEW e \in Events, NEW name \in NativeStates[e]
  PROVE  LET r == ReadReport(o, name) IN
         /\ r = Dropped \/ ReadsAs(r, ticket[o], p, name)
         /\ name \in FirstNames /\ (OnBinance \/ account \in {"okx", "bybit"}) =>
              r # Dropped /\ r.status # "EXPIRED"
<1> DEFINE r == ReadReport(o, name)
<1>1. ReadsAs(r, ticket[o], p, name) => r # Dropped BY DEF ReadsAs, Dropped
<1>2. CASE OnBinance
  <2>1. name \in {"NEW", "PARTIALLY_FILLED", "FILLED", "CANCELED", "EXPIRED", "EXPIRED_IN_MATCH"}
    BY <1>2, Venues DEF NativeStates, Binance!NativeStates, Events
  <2>2. p = ticket[o].product /\ account \in Binance!Accounts BY <1>2, Venues DEF OnBinance
  <2>3. r = Binance!ReadReport(account, Binance!Params(<<account, p>>, ticket[o]), name)
    BY <1>2, Venues DEF ReadReport, OrderWire, NeedsTmp
  <2>4. ReadsAs(r, ticket[o], p, name) BY <2>1, <2>2, <2>3, BinanceReads
  <2>5. name \in FirstNames => name \notin ExpiredNames BY DEF FirstNames, ExpiredNames
  <2> QED BY <1>1, <2>4, <2>5 DEF ReadsAs
<1>3. CASE account = "okx"
  <2>1. name \in {"live", "partially_filled", "filled", "canceled", "mmp_canceled"}
    BY <1>3, Venues DEF NativeStates, Okx!NativeStates, Events
  <2>2. p = ticket[o].product BY <1>3
  <2>3. r = Okx!ReadReport("okx", Okx!Params(ticket[o]), name)
    BY <1>3, Venues DEF ReadReport, OrderWire, NeedsTmp
  <2>4. IF name = "mmp_canceled" THEN r = Dropped ELSE ReadsAs(r, ticket[o], p, name)
    BY <2>1, <2>2, <2>3, OkxReads
  <2>5. name \in FirstNames => name \notin ExpiredNames /\ name # "mmp_canceled"
    BY DEF FirstNames, ExpiredNames
  <2> QED BY <1>1, <2>4, <2>5 DEF ReadsAs
<1>4. CASE account = "bybit"
  <2>1. name \in {"New", "PartiallyFilled", "Filled", "Cancelled", "PartiallyFilledCanceled",
                  "Deactivated", "Rejected"}
    BY <1>4, Venues DEF NativeStates, Bybit!NativeStates, Events
  <2>3. r = Bybit!ReadReport("bybit", Bybit!Params(<<"bybit", p>>, ticket[o]), name)
    BY <1>4, Venues DEF ReadReport, OrderWire, NeedsTmp
  <2>4. ReadsAs(r, ticket[o], p, name) BY <2>1, <2>3, BybitReads
  <2>5. name \in FirstNames => name \notin ExpiredNames BY DEF FirstNames, ExpiredNames
  <2> QED BY <1>1, <2>4, <2>5 DEF ReadsAs
<1>5. CASE OnBitget
  <2>1. name \in {"new", "live", "partially_filled", "filled", "canceled", "cancelled"}
        /\ (name = "new" => account = "bitget_uta")
    BY <1>5, Venues DEF NativeStates, Bitget!NativeStates, Events
  <2>2. p = ticket[o].product /\ account \in Bitget!Accounts BY <1>5, Venues DEF OnBitget
  <2>3. r = Dropped \/ r = Bitget!ReadReport(account, ticket[o], Bitget!Params(account, ticket[o]), name)
    BY <1>5, Venues DEF ReadReport, OrderWire, NeedsTmp
  <2>4. r = Dropped \/ ReadsAs(r, ticket[o], p, name) BY <2>1, <2>2, <2>3, BitgetReads
  <2> QED BY <1>5, <2>4, Venues
<1>6. CASE OnHyperliquid
  <2>1. name \in {"open", "filled", "canceled", "marginCanceled", "badAloPxRejected"}
    BY <1>6, Venues DEF NativeStates, Hyperliquid!NativeStates, Events
  <2>2. p = ticket[o].product /\ account = "hyperliquid"
    BY <1>6, Venues DEF OnHyperliquid, Hyperliquid!Accounts
  <2>3. r = Dropped \/ r = Hyperliquid!ReadReport("hyperliquid", ticket[o], Hyperliquid!Params(ticket[o]),
          name)
    BY <1>6, <2>2, Venues DEF ReadReport, OrderWire, NeedsTmp
  <2>4. r = Dropped \/ ReadsAs(r, ticket[o], p, name) BY <2>1, <2>2, <2>3, HyperliquidReads
  <2> QED BY <1>6, <2>4, Venues
<1> QED BY <1>2, <1>3, <1>4, <1>5, <1>6, Venues

-----------------------------------------------------------------------------
(* What a submission starts.                                                *)

\* A sequence of one element.
LEMMA OneFacts ==
  ASSUME NEW o, NEW S, o \in S
  PROVE  /\ <<o>> \in Seq(S) /\ Head(<<o>>) = o /\ DOMAIN <<o>> = {1} /\ DOMAIN <<o>> = 1 .. 1 /\
              <<o>>[1] = o
         /\ Range(<<o>>) = {o}
<1>1. <<o>> \in Seq(S) /\ Head(<<o>>) = o /\ DOMAIN <<o>> = {1} /\ DOMAIN <<o>> = 1 .. 1 /\ <<o>>[1] = o
  OBVIOUS
<1>2. Range(<<o>>) = {o} BY <1>1 DEF Range
<1> QED BY <1>1, <1>2

\* What an append leaves and adds.
LEMMA AppendFacts ==
  ASSUME NEW S, NEW s \in Seq(S), NEW e \in S
  PROVE  /\ Append(s, e) \in Seq(S) /\ DOMAIN Append(s, e) = DOMAIN s \cup {Len(s) + 1}
         /\ Len(s) + 1 \notin DOMAIN s
         /\ \A i \in DOMAIN s : Append(s, e)[i] = s[i]
         /\ Append(s, e)[Len(s) + 1] = e
         /\ Range(Append(s, e)) = Range(s) \cup {e}
<1>1. /\ Append(s, e) \in Seq(S) /\ DOMAIN Append(s, e) = 1 .. Len(s) + 1
      /\ DOMAIN s = 1 .. Len(s) /\ Len(s) \in Nat
      /\ \A i \in DOMAIN s : Append(s, e)[i] = s[i]
      /\ Append(s, e)[Len(s) + 1] = e
  OBVIOUS
<1>2. DOMAIN Append(s, e) = DOMAIN s \cup {Len(s) + 1} /\ Len(s) + 1 \notin DOMAIN s
  BY <1>1
<1>3. Range(Append(s, e)) = Range(s) \cup {e}
  BY <1>1, <1>2 DEF Range
<1> QED BY <1>1, <1>2, <1>3

\* What a tail leaves.
LEMMA TailFacts ==
  ASSUME NEW S, NEW s \in Seq(S), s # <<>>
  PROVE  /\ Head(s) \in S /\ Head(s) = s[1] /\ 1 \in DOMAIN s
         /\ Tail(s) \in Seq(S)
         /\ \A i \in DOMAIN Tail(s) : i \in Nat \ {0} /\ i + 1 \in DOMAIN s /\ Tail(s)[i] = s[i + 1]
         /\ \A i \in DOMAIN s : i # 1 => i - 1 \in DOMAIN Tail(s) /\ s[i] = Tail(s)[i - 1]
         /\ Range(s) = {Head(s)} \cup Range(Tail(s))
<1>1. /\ Head(s) \in S /\ Head(s) = s[1] /\ 1 \in DOMAIN s
      /\ Tail(s) \in Seq(S) /\ DOMAIN s = 1 .. Len(s) /\ DOMAIN Tail(s) = 1 .. Len(s) - 1
      /\ Len(s) \in Nat \ {0}
  OBVIOUS
<1>2. \A i \in DOMAIN Tail(s) : i \in Nat \ {0} /\ i + 1 \in DOMAIN s /\ Tail(s)[i] = s[i + 1]
  BY <1>1
<1>3. \A i \in DOMAIN s : i # 1 => i - 1 \in DOMAIN Tail(s) /\ s[i] = Tail(s)[i - 1]
  BY <1>1
<1>4. Range(s) = {Head(s)} \cup Range(Tail(s))
  <2>1. ASSUME NEW x \in Range(s) PROVE x \in {Head(s)} \cup Range(Tail(s))
    <3>1. PICK i \in DOMAIN s : x = s[i] BY <2>1 DEF Range
    <3> QED BY <1>1, <1>3, <3>1 DEF Range
  <2>2. Range(Tail(s)) \subseteq Range(s) BY <1>2 DEF Range
  <2>3. Head(s) \in Range(s) BY <1>1 DEF Range
  <2> QED BY <2>1, <2>2, <2>3
<1> QED BY <1>1, <1>2, <1>3, <1>4

\* What is known of the account and the tickets.
Placed == /\ account \in AllAccounts
          /\ ticket \in [Oids -> AllTickets]
          /\ \A o \in Oids : ticket[o].product \in Sells(account)

\* The type invariant says that much.
LEMMA TypePlaced == TypeOK => Placed
BY VenueOrdersAssumption DEF TypeOK, Placed

Outcome(out, o) == out \in {Raises, Fails} \/ \E w \in Wires : out = Sends(w) /\ AskedFor(o, w)

\* The wire of an order for its own product, or for that of a leg of a mixed
\* batch, is one it may have asked for.
LEMMA Asking ==
  ASSUME Placed, NEW o \in Oids, NEW p \in Products,
         p = ticket[o].product \/ MixedBatch(o)
  PROVE  AskedFor(o, OrderWire(ticket[o], p)) /\ OrderWire(ticket[o], p) \in Wires
<1>1. account = "bybit" \/ p = ticket[o].product BY DEF MixedBatch
<1>2. OrderWire(ticket[o], p) \in Wires /\ OrderWire(ticket[o], p).route = <<account, p>>
  BY <1>1, WireRoute DEF Placed
<1> QED BY <1>2 DEF AskedFor

\* A ticket names a product.
LEMMA ProductOf == ASSUME Placed, NEW o \in Oids PROVE ticket[o].product \in Products
BY DEF Placed, AllTickets, Tickets

\* A coroutine of a submission that creates orders.
CreateCoroutine(s, k) ==
  /\ k.op \in Creates \cup Stopping
  /\ k.op \in Creates =>
       /\ k.op = s.op \/ (k.op = "create" /\ OnBinance)
       /\ k.op = "batch" => k.legs = s.legs /\ (Legs(k) # {} /\ OnBitget => Raising(k))
       /\ k.op # "batch" => \E o \in Oids : k.legs = <<o>>
       /\ k.op = "tp_sl" => account \in {"okx", "bybit"} \/ Raising(k)
       /\ \A i \in DOMAIN k.legs : Outcome(k.outs[i], k.legs[i])
  /\ k.op \in Stopping => \A i \in DOMAIN k.legs : k.outs[i] \in {Raises, Fails} \/ \E w \in Wires :
       k.outs[i] = Sends(w)
  /\ k.legs \in Seq(Oids) /\ Legs(k) \subseteq Range(s.legs)
  /\ DOMAIN k.outs = DOMAIN k.legs

\* The stops of Binance go out on a wire or not at all.
LEMMA StopWires ==
  ASSUME Placed, OnBinance, NEW t \in AllTickets, t.product \in Sells(account)
  PROVE  /\ Binance!StopLossOrder(account, t) \in {Raises, Fails} \/ \E w \in Wires :
              Binance!StopLossOrder(account, t) = Sends(w)
         /\ Binance!TakeProfitOrder(account, t) \in {Raises, Fails} \/ \E w \in Wires :
              Binance!TakeProfitOrder(account, t) = Sends(w)
<1>1. t.amount \in Nat /\ t.product \in Products /\ t.stop \in Stops
  BY VenueOrdersAssumption DEF AllTickets, Tickets
<1>2. Binance!CreateRoute(account, t.product) \in Routes
  BY <1>1 DEF Binance!CreateRoute, Binance!NoRoute, NoRoute, Routes, Placed
<1>3. ASSUME NEW r \in Routes, NEW ty \in WireTypes, NEW tif \in WireTifs
      PROVE  [route |-> r, type |-> ty, tif |-> tif, size |-> t.amount] \in Wires
  BY <1>1 DEF Wires
<1>4. Binance!StopLossOrder(account, t) \in {Raises, Fails} \/ \E w \in Wires :
        Binance!StopLossOrder(account, t) = Sends(w)
  <2> DEFINE ty == IF t.product = "spot"
                   THEN IF t.stop = "limit" THEN "STOP_LOSS_LIMIT" ELSE "STOP_LOSS"
                   ELSE IF t.stop = "limit" THEN "STOP" ELSE "STOP_MARKET"
             tif == IF t.stop = "limit" THEN "GTC" ELSE "none"
             w == [route |-> Binance!CreateRoute(account, t.product), type |-> ty, tif |-> tif,
               size |-> t.amount]
  <2>1. ty \in WireTypes /\ tif \in WireTifs BY DEF WireTypes, WireTifs, TimesInForce
  <2>2. w \in Wires BY <1>2, <1>3, <2>1
  <2>3. Binance!StopLossOrder(account, t) \in {Binance!Raises, Binance!Fails, Binance!Sends(w)}
    BY <1>1 DEF Binance!StopLossOrder, Binance!SendsOrFails, Stops
  <2>4. Binance!Sends(w) = Sends(w) BY DEF Binance!Sends, Sends
  <2> HIDE DEF w
  <2> QED BY <2>2, <2>3, <2>4 DEF Raises, Fails, Binance!Raises, Binance!Fails
<1>5. Binance!TakeProfitOrder(account, t) \in {Raises, Fails} \/ \E w \in Wires :
        Binance!TakeProfitOrder(account, t) = Sends(w)
  <2> DEFINE ty == IF t.product = "spot"
                   THEN IF t.stop = "limit" THEN "TAKE_PROFIT_LIMIT" ELSE "TAKE_PROFIT"
                   ELSE IF t.stop = "limit" THEN "TAKE_PROFIT" ELSE "TAKE_PROFIT_MARKET"
             tif == IF t.stop = "limit" THEN "GTC" ELSE "none"
             w == [route |-> Binance!CreateRoute(account, t.product), type |-> ty, tif |-> tif,
               size |-> t.amount]
  <2>1. ty \in WireTypes /\ tif \in WireTifs BY DEF WireTypes, WireTifs, TimesInForce
  <2>2. w \in Wires BY <1>2, <1>3, <2>1
  <2>3. Binance!TakeProfitOrder(account, t) \in {Binance!Raises, Binance!Fails, Binance!Sends(w)}
    BY <1>1 DEF Binance!TakeProfitOrder, Binance!SendsOrFails, Stops
  <2>4. Binance!Sends(w) = Sends(w) BY DEF Binance!Sends, Sends
  <2> HIDE DEF w
  <2> QED BY <2>2, <2>3, <2>4 DEF Raises, Fails, Binance!Raises, Binance!Fails
<1> QED BY <1>4, <1>5

\* An order a create submission names, and a coroutine of one leg.
LEMMA OneLeg ==
  ASSUME NEW s \in Submissions, NEW k, NEW o \in Oids, NEW op \in Creates, NEW out,
         k = [op |-> op, legs |-> <<o>>, outs |-> <<out>>],
         op # "batch", op = s.op \/ (op = "create" /\ OnBinance), o \in Range(s.legs), Outcome(out, o),
         op = "tp_sl" => account \in {"okx", "bybit"} \/ out = Raises
  PROVE  CreateCoroutine(s, k) /\ Making(k, o) /\ \A q : Making(k, q) => q = o
<1>1. k.op = op /\ k.legs = <<o>> /\ DOMAIN k.outs = {1} /\ k.outs[1] = out OBVIOUS
<1>2. k.legs \in Seq(Oids) /\ DOMAIN k.legs = {1} /\ Range(k.legs) = {o} /\ k.legs[1] = o BY <1>1, OneFacts
<1>3. out = Raises => Raising(k) BY <1>1 DEF Raising
<1>4. Creates \cap Stopping = {} BY DEF Creates, Stopping
<1> QED BY <1>1, <1>2, <1>3, <1>4 DEF CreateCoroutine, Legs, Making

\* What a submission that creates orders starts.
LEMMA CreateCoroutines ==
  ASSUME TypeOK, NEW s \in Submissions, WellFormed(s), s.op \in Creates
  PROVE  /\ \A k \in Coroutines(s) : CreateCoroutine(s, k)
         /\ \A o \in Range(s.legs) : \E k \in Coroutines(s) : Making(k, o)
         /\ \A o \in Range(s.legs) : \A k, j \in Coroutines(s) : Making(k, o) /\ Making(j, o) => k = j
<1> DEFINE h == Head(s.legs)
           t == ticket[h]
<1>0. Placed BY TypePlaced
<1>1. s.legs \in Seq(Oids) /\ s.op \in {"create", "create_ws", "tp_sl", "batch"} BY DEF Submissions, Creates
<1>2. ASSUME NEW o \in Oids
      PROVE  /\ ticket[o] \in AllTickets /\ ticket[o].product \in Sells(account)
             /\ \A p : p = ticket[o].product =>
                  Sends(OrderWire(ticket[o], p)) = Sends(OrderWire(ticket[o], p))
             /\ Outcome(Sends(OrderWire(ticket[o], ticket[o].product)), o)
             /\ Outcome(Raises, o) /\ Outcome(Fails, o)
  <2>1. ticket[o] \in AllTickets /\ ticket[o].product \in Sells(account) BY <1>0 DEF Placed
  <2>2. ticket[o].product \in Products BY <1>0, ProductOf
  <2>3. AskedFor(o, OrderWire(ticket[o], ticket[o].product)) /\
          OrderWire(ticket[o], ticket[o].product) \in Wires
    BY <1>0, <2>2, Asking
  <2> QED BY <2>1, <2>3 DEF Outcome
<1>3. ASSUME NEW o \in Oids
      PROVE  /\ Outcome(CreateOrder(ticket[o]), o) /\ Outcome(CreateOrderWs(ticket[o]), o)
             /\ ~ OnBinance => Outcome(CreateTpSlOrder(ticket[o]), o)
             /\ OnBitget \/ OnHyperliquid => CreateTpSlOrder(ticket[o]) = Raises
  <2>1. /\ CreateOrder(ticket[o]) \in {Raises, Fails, Sends(OrderWire(ticket[o], ticket[o].product))}
        /\ CreateOrderWs(ticket[o]) \in {Raises, Fails, Sends(OrderWire(ticket[o], ticket[o].product))}
        /\ ~ OnBinance => CreateTpSlOrder(ticket[o]) \in {Raises, Fails,
             Sends(OrderWire(ticket[o], ticket[o].product))}
    BY <1>0, <1>2, CreateOutcome DEF Placed
  <2>2. OnBitget \/ OnHyperliquid => CreateTpSlOrder(ticket[o]) = Raises
    BY <1>0, Venues DEF Placed, CreateTpSlOrder, Bitget!CreateTpSlOrder, Bitget!Raises, Raises,
       Hyperliquid!CreateTpSlOrder, Hyperliquid!Raises
  <2> QED BY <1>2, <2>1, <2>2
<1>4. ASSUME s.op # "batch"
      PROVE  \E o \in Oids : s.legs = <<o>> /\ h = o /\ Range(s.legs) = {o}
  BY <1>4, OneFacts DEF WellFormed
<1>a. Creates \cap Stopping = {} BY DEF Creates, Stopping
<1>5. CASE s.op = "create"
  <2>1. PICK o \in Oids : s.legs = <<o>> /\ h = o /\ Range(s.legs) = {o} BY <1>4, <1>5
  <2> DEFINE k == [op |-> "create", legs |-> <<o>>, outs |-> <<CreateOrder(ticket[o])>>]
  <2>2. Coroutines(s) = {k} BY <1>5, <2>1 DEF Coroutines
  <2>3. CreateCoroutine(s, k) /\ Making(k, o) /\ \A q : Making(k, q) => q = o
    BY <1>3, <1>5, <2>1, OneLeg DEF Creates
  <2> HIDE DEF k
  <2> QED BY <2>1, <2>2, <2>3
<1>6. CASE s.op = "create_ws"
  <2>1. PICK o \in Oids : s.legs = <<o>> /\ h = o /\ Range(s.legs) = {o} BY <1>4, <1>6
  <2> DEFINE k == [op |-> "create_ws", legs |-> <<o>>, outs |-> <<CreateOrderWs(ticket[o])>>]
  <2>2. Coroutines(s) = {k} BY <1>6, <2>1 DEF Coroutines
  <2>3. CreateCoroutine(s, k) /\ Making(k, o) /\ \A q : Making(k, q) => q = o
    BY <1>3, <1>6, <2>1, OneLeg DEF Creates
  <2> HIDE DEF k
  <2> QED BY <2>1, <2>2, <2>3
<1>7. CASE s.op = "tp_sl" /\ ~ OnBinance
  <2>1. PICK o \in Oids : s.legs = <<o>> /\ h = o /\ Range(s.legs) = {o} BY <1>4, <1>7
  <2> DEFINE k == [op |-> "tp_sl", legs |-> <<o>>, outs |-> <<CreateTpSlOrder(ticket[o])>>]
  <2>2. Coroutines(s) = {k} BY <1>7, <2>1 DEF Coroutines
  <2>4. account \in {"okx", "bybit"} \/ CreateTpSlOrder(ticket[o]) = Raises
    BY <1>0, <1>3, <1>7, Venues DEF Placed
  <2>3. CreateCoroutine(s, k) /\ Making(k, o) /\ \A q : Making(k, q) => q = o
    BY <1>3, <1>7, <2>1, <2>4, OneLeg DEF Creates
  <2> HIDE DEF k
  <2> QED BY <2>1, <2>2, <2>3
<1>8. CASE s.op = "tp_sl" /\ OnBinance
  <2>1. PICK o \in Oids : s.legs = <<o>> /\ h = o /\ Range(s.legs) = {o} BY <1>4, <1>8
  <2> DEFINE k == [op |-> "create", legs |-> <<o>>, outs |-> <<CreateOrder(ticket[o])>>]
             j == [op |-> "stop_loss", legs |-> <<o>>,
               outs |-> <<Binance!StopLossOrder(account, ticket[o])>>]
             l == [op |-> "take_profit", legs |-> <<o>>,
               outs |-> <<Binance!TakeProfitOrder(account, ticket[o])>>]
  <2>2. Coroutines(s) = {k, j, l}
    <3>1. Coroutines(s) = {[op |-> p.op, legs |-> <<o>>, outs |-> <<p.out>>] :
            p \in Binance!TpSlParts(account, ticket[o])}
      BY <1>8, <2>1 DEF Coroutines
    <3>2. CreateOrder(ticket[o]) = Binance!CreateOrder(account, ticket[o])
      BY <1>0, <1>8, Venues DEF CreateOrder, Placed
    <3> QED BY <3>1, <3>2 DEF Binance!TpSlParts
  <2>3. CreateCoroutine(s, k) /\ Making(k, o) /\ \A q : Making(k, q) => q = o
    BY <1>3, <1>8, <2>1, OneLeg DEF Creates
  <2>4. ASSUME NEW x, x \in {j, l}
        PROVE  CreateCoroutine(s, x) /\ \A q : ~ Making(x, q)
    <3>1. /\ x.op \in Stopping /\ x.legs = <<o>> /\ DOMAIN x.outs = {1}
          /\ x.outs[1] \in {Binance!StopLossOrder(account, ticket[o]),
               Binance!TakeProfitOrder(account, ticket[o])}
      BY <2>4 DEF Stopping
    <3>2. x.outs[1] \in {Raises, Fails} \/ \E w \in Wires : x.outs[1] = Sends(w)
      BY <1>0, <1>2, <1>8, <3>1, StopWires
    <3>3. x.legs \in Seq(Oids) /\ DOMAIN x.legs = {1} /\ Range(x.legs) = {o} BY <3>1, OneFacts
    <3> QED BY <1>a, <2>1, <3>1, <3>2, <3>3 DEF CreateCoroutine, Legs, Making
  <2> HIDE DEF k, j, l
  <2> QED BY <2>1, <2>2, <2>3, <2>4
<1>9. CASE s.op = "batch" /\ Gathers("batch")
  <2> DEFINE k(o) == [op |-> "create", legs |-> One(o), outs |-> <<CreateOrder(ticket[o])>>]
  <2>1. Coroutines(s) = {k(o) : o \in Range(s.legs)} BY <1>9 DEF Coroutines
  <2>2. Range(s.legs) \subseteq Oids BY <1>1 DEF Range
  <2>3. ASSUME NEW o \in Range(s.legs)
        PROVE  CreateCoroutine(s, k(o)) /\ Making(k(o), o) /\ \A q : Making(k(o), q) => q = o
    BY <1>3, <1>9, <2>2, OneLeg DEF Creates, One, Gathers, OnBinance, Binance!Accounts
  <2> HIDE DEF k
  <2> QED BY <2>1, <2>3
<1>10. CASE s.op = "batch" /\ ~ Gathers("batch")
  <2> DEFINE k == [op |-> "batch", legs |-> s.legs,
    outs |-> [i \in DOMAIN s.legs |-> BatchLeg(t, ticket[s.legs[i]])]]
  <2>1. Coroutines(s) = {k} BY <1>10 DEF Coroutines
  <2>2. k.op = "batch" /\ k.legs = s.legs /\ DOMAIN k.outs = DOMAIN s.legs
        /\ \A i \in DOMAIN s.legs : k.outs[i] = BatchLeg(t, ticket[s.legs[i]])
    OBVIOUS
  <2> HIDE DEF k
  <2>3. ASSUME NEW i \in DOMAIN s.legs
        PROVE  Outcome(k.outs[i], s.legs[i]) /\ (OnBitget => k.outs[i] = Raises)
    <3> DEFINE o == s.legs[i]
    <3>1. o \in Oids /\ o \in Range(s.legs) /\ h \in Oids /\ h \in Range(s.legs)
      <4>1. o \in Oids /\ o \in Range(s.legs) BY <1>1 DEF Range
      <4>2. s.legs # <<>> BY <1>1
      <4>3. Head(s.legs) \in Oids /\ Head(s.legs) = s.legs[1] /\ 1 \in DOMAIN s.legs
        BY <1>1, <4>2, TailFacts
      <4> QED BY <4>1, <4>3 DEF Range
    <3>2. ticket[h].product \in Products BY <1>0, <3>1, ProductOf
    <3>3. /\ \/ BatchLeg(t, ticket[o]) \in {Raises, Fails, Sends(OrderWire(ticket[o], ticket[o].product))}
             \/ account = "bybit" /\ BatchLeg(t, ticket[o]) = Sends(OrderWire(ticket[o], t.product))
          /\ OnBitget => BatchLeg(t, ticket[o]) = Raises
      BY <1>0, <1>2, <3>1, LegOutcome DEF Placed
    <3>4. account = "bybit" => t.product = ticket[o].product \/ MixedBatch(o)
      BY <1>10, <3>1 DEF MixedBatch, BatchMates, WellFormed
    <3>5. account = "bybit" => Outcome(Sends(OrderWire(ticket[o], t.product)), o)
      BY <1>0, <3>1, <3>2, <3>4, Asking DEF Outcome
    <3> QED BY <1>2, <2>2, <3>1, <3>3, <3>5
  <2>4. Legs(k) # {} /\ OnBitget => Raising(k)
    BY <2>2, <2>3 DEF Raising, Legs, Range
  <2>5. CreateCoroutine(s, k)
    BY <1>1, <1>10, <1>a, <2>2, <2>3, <2>4 DEF CreateCoroutine, Legs, Creates
  <2>6. \A o \in Range(s.legs) : Making(k, o) BY <2>2 DEF Making, Creates
  <2> QED BY <2>1, <2>5, <2>6
<1> QED BY <1>1, <1>5, <1>6, <1>7, <1>8, <1>9, <1>10

\* What a request starts.
RequestCoroutine(s, k) ==
  /\ k.op = s.op /\ k.legs = s.legs /\ DOMAIN k.outs = {1}
  /\ k.outs[1] \in {Raises, Fails, Sends([route |-> <<account, ticket[Head(s.legs)].product>>])}
  /\ k.op = "modify" => k.outs[1] # Fails

\* A request starts coroutines of its own kind, on the account and book of the
\* order it names.
LEMMA RequestCoroutines ==
  ASSUME TypeOK, NEW s \in Submissions, WellFormed(s), s.op \in Requests
  PROVE  \A k \in Coroutines(s) : RequestCoroutine(s, k)
<1>0. Placed BY TypePlaced
<1>1. PICK o \in Oids : s.legs = <<o>> BY DEF WellFormed, Requests
<1>2. Head(s.legs) = o BY <1>1
<1>3. ticket[o] \in AllTickets /\ ticket[o].product \in Sells(account) BY <1>0 DEF Placed
<1> DEFINE t == ticket[o]
           r == Sends([route |-> <<account, t.product>>])
           k(out) == [op |-> s.op, legs |-> s.legs, outs |-> <<out>>]
<1>4. /\ CancelOrder(t) \in {Raises, Fails, r} /\ CancelOrderWs(t) \in {Raises, Fails, r}
      /\ ModifyOrder(t) \in {Raises, r}
      /\ SweepsNatively => CancelAllOrders(t) \in {Raises, Fails, r}
  BY <1>0, <1>3, RequestOutcome DEF Placed
<1>5. s.op \in {"cancel", "cancel_ws", "modify", "cancel_all"} /\ (s.op = "cancel_all" => SweepsNatively)
  BY DEF Requests, WellFormed
<1>6. /\ s.op = "cancel" => Coroutines(s) = {k(CancelOrder(t))}
      /\ s.op = "cancel_ws" => Coroutines(s) = {k(CancelOrderWs(t))}
      /\ s.op = "modify" => Coroutines(s) = {k(ModifyOrder(t))}
      /\ s.op = "cancel_all" => Coroutines(s) = {k(CancelAllOrders(t))}
  BY <1>2 DEF Coroutines
<1>7. Raises # Fails /\ r # Fails BY DEF Raises, Fails, Sends
<1>8. ASSUME NEW out, out \in {Raises, Fails, r}, s.op = "modify" => out # Fails
      PROVE  RequestCoroutine(s, k(out))
  <2>1. k(out).op = s.op /\ k(out).legs = s.legs /\ DOMAIN k(out).outs = {1} /\ k(out).outs[1] = out OBVIOUS
  <2> HIDE DEF k
  <2> QED BY <1>2, <1>8, <2>1 DEF RequestCoroutine
<1> HIDE DEF k, r
<1> QED BY <1>4, <1>5, <1>6, <1>7, <1>8

-----------------------------------------------------------------------------
(* What stays as the account does.                                          *)

\* The venue is that of the account, which no step changes.
LEMMA AccountKept ==
  ASSUME account' = account
  PROVE  /\ OnBinance' <=> OnBinance
         /\ OnBitget' <=> OnBitget
         /\ OnHyperliquid' <=> OnHyperliquid
         /\ NeedsTmp' <=> NeedsTmp
         /\ SweepsNatively' <=> SweepsNatively
         /\ \A op : (RegistersTmp(op)' <=> RegistersTmp(op))
         /\ \A op : (Gathers(op)' <=> Gathers(op))
         /\ NativeStates' = NativeStates
         /\ \A by : KnowsId(by)' <=> KnowsId(by)
         /\ \A t, p : OrderWire(t, p)' = OrderWire(t, p)
BY DEF OnBinance, OnBitget, OnHyperliquid, NeedsTmp, SweepsNatively, RegistersTmp, Gathers, NativeStates,
   KnowsId, OrderWire

\* So what a call does is settled by its ticket.
LEMMA OutcomesKept ==
  ASSUME account' = account
  PROVE  \A t, f : /\ CreateOrder(t)' = CreateOrder(t)
               /\ CreateOrderWs(t)' = CreateOrderWs(t)
               /\ CreateTpSlOrder(t)' = CreateTpSlOrder(t)
               /\ BatchLeg(f, t)' = BatchLeg(f, t)
               /\ CancelOrder(t)' = CancelOrder(t)
               /\ CancelOrderWs(t)' = CancelOrderWs(t)
               /\ ModifyOrder(t)' = ModifyOrder(t)
               /\ CancelAllOrders(t)' = CancelAllOrders(t)
BY DEF OnBinance, OnBitget, OnHyperliquid, CreateOrder, CreateOrderWs, CreateTpSlOrder, BatchLeg,
   CancelOrder,
  CancelOrderWs, ModifyOrder, CancelAllOrders

\* So is what a submission that creates orders starts.
LEMMA CoroutinesKept ==
  ASSUME account' = account, ticket' = ticket, NEW s, s.op \in Creates
  PROVE  Coroutines(s)' = Coroutines(s)
<1> DEFINE o == Head(s.legs)
<1>1. CASE s.op = "create"
  BY <1>1, OutcomesKept DEF Coroutines
<1>2. CASE s.op = "create_ws"
  BY <1>2, OutcomesKept DEF Coroutines
<1>3. CASE s.op = "tp_sl" /\ OnBinance
  BY <1>3, AccountKept DEF Coroutines
<1>4. CASE s.op = "tp_sl" /\ ~ OnBinance
  BY <1>4, AccountKept, OutcomesKept DEF Coroutines
<1>5. CASE s.op = "batch" /\ Gathers("batch")
  <2>1. Coroutines(s) = {[op |-> "create", legs |-> One(p), outs |-> <<CreateOrder(ticket[p])>>] :
          p \in Range(s.legs)}
    BY <1>5 DEF Coroutines
  <2>2. Coroutines(s)' = {[op |-> "create", legs |-> One(p), outs |-> <<CreateOrder(ticket[p])'>>] :
          p \in Range(s.legs)}
    BY <1>5, AccountKept DEF Coroutines
  <2> QED BY <2>1, <2>2, OutcomesKept
<1>6. CASE s.op = "batch" /\ ~ Gathers("batch")
  <2>1. Coroutines(s) = {[op |-> "batch", legs |-> s.legs,
                          outs |-> [i \in DOMAIN s.legs |-> BatchLeg(ticket[o], ticket[s.legs[i]])]]}
    BY <1>6 DEF Coroutines
  <2>2. Coroutines(s)' = {[op |-> "batch", legs |-> s.legs,
                          outs |-> [i \in DOMAIN s.legs |-> BatchLeg(ticket[o], ticket[s.legs[i]])']]}
    BY <1>6, AccountKept DEF Coroutines
  <2> QED BY <2>1, <2>2, OutcomesKept
<1> QED BY <1>1, <1>2, <1>3, <1>4, <1>5, <1>6 DEF Creates

\* What is said of an order stays true while its submission does not change.
LEMMA OrderKept ==
  ASSUME account' = account, ticket' = ticket, NEW o \in Oids, as[o] # "none" => as'[o] = as[o]
  PROVE  /\ (as[o] = "batch" => (as'[o] = "batch" /\ BatchMates(o)' = BatchMates(o)))
         /\ MixedBatch(o) => MixedBatch(o)'
         /\ \A w : AskedFor(o, w) => AskedFor(o, w)'
         /\ as[o] \in Creates =>
              as'[o] = as[o] /\ (exch[o].state' = exch[o].state => (Unspoken(o) => Unspoken(o)'))
<1>0. \A x \in Creates : x # "none" BY DEF Creates
<1>1. as[o] = "batch" => (as'[o] = "batch" /\ BatchMates(o)' = BatchMates(o))
  BY DEF BatchMates
<1>2. MixedBatch(o) => MixedBatch(o)'
  BY DEF MixedBatch, BatchMates
<1>3. \A w : AskedFor(o, w) => AskedFor(o, w)'
  BY <1>2, AccountKept DEF AskedFor
<1>4. ASSUME as[o] \in Creates, exch[o].state' = exch[o].state, Unspoken(o)
      PROVE  Unspoken(o)'
  <2>1. as'[o] = as[o] BY <1>0, <1>4
  <2> DEFINE s == [op |-> as[o], legs |-> IF as[o] = "batch" THEN BatchOf ELSE One(o), by |-> "given"]
  <2>2. PICK x : x = s OBVIOUS
  <2>3. s' = x BY <2>1, <2>2 DEF One
  <2>4. x.op \in Creates BY <1>4, <2>2
  <2>5. Coroutines(x)' = Coroutines(x) BY <2>4, CoroutinesKept
  <2>6. Coroutines(s) = Coroutines(x) BY <2>2
  <2>7. Coroutines(s)' = Coroutines(x)' BY <2>3
  <2> QED BY <1>4, <2>1, <2>5, <2>6, <2>7, AccountKept DEF Unspoken, Legs, Raising
<1> QED BY <1>0, <1>1, <1>2, <1>3, <1>4

-----------------------------------------------------------------------------
(* What the client hears.                                                   *)

\* What an update does to what the client knows.
Hears(known, tmp, os, status) ==
  /\ told' \in [Oids -> OrderStatuses \cup {NoStatus}] /\ shown' \in [Oids -> ShownOrders]
  /\ registered' \subseteq Oids /\ registered' \subseteq known /\ tmpOrders' \subseteq Oids
  /\ \A o \in Oids : told'[o] = IF o \in os \cap known /\ status[o] # "EXPIRED" THEN status[o] ELSE told[o]
  /\ \A o \in Oids : shown'[o] = shown[o] \/ (o \in os /\ shown'[o].status = status[o])
  /\ \A o \in known : o \in registered' \/ (o \in os /\ status[o] \in ClosedStatuses)
  /\ \A o \in tmp : o \in tmpOrders' \/ (o \in os \cap known /\ status[o] \in ClosedStatuses)

\* An update writes the last status and content of the orders it names, and
\* closes the registry to those it closes.
LEMMA UpdateHears ==
  ASSUME TypeOK, NEW known \in SUBSET Oids, NEW tmp \in SUBSET Oids, NEW os \in SUBSET Oids,
         NEW status, NEW content, Update(known, tmp, os, status, content),
         \A o \in os : /\ status[o] \in OrderStatuses /\ content[o].type \in OrderTypes \cup {"none"}
                       /\ content[o].tif \in TimesInForce \cup {"none"} /\ content[o].amount \in Nat
                       /\ content[o].product \in Products \cup {"none"}
  PROVE  /\ Hears(known, tmp, os, status)
         /\ \A o \in Oids : shown'[o] = shown[o]
              \/ (o \in os /\ shown'[o] = InStatus(status[o], content[o]))
<1> DEFINE heard  == os \cap known
           taken  == {o \in heard : status[o] \in StatusesAfter(shown[o].status)}
           closed == {o \in taken : status[o] \in ClosedStatuses}
<1>1. /\ shown' = [o \in Oids |-> IF o \in taken THEN InStatus(status[o], content[o]) ELSE shown[o]]
      /\ told' = [o \in Oids |-> IF o \in heard /\ status[o] # "EXPIRED" THEN status[o] ELSE told[o]]
      /\ registered' = known \ closed
      /\ tmpOrders' = tmp \ closed
  BY Zenon DEF Update
<1>2. /\ shown \in [Oids -> ShownOrders] /\ told \in [Oids -> OrderStatuses \cup {NoStatus}]
      /\ heard \subseteq os /\ heard \subseteq Oids /\ taken \subseteq heard /\ closed \subseteq taken
      /\ \A o \in closed : status[o] \in ClosedStatuses
      /\ \A o \in heard : o \in os \cap known
  BY DEF TypeOK
<1>3. \A o \in Oids : told'[o] = IF o \in os \cap known /\ status[o] # "EXPIRED" THEN status[o] ELSE told[o]
  BY <1>1
<1> HIDE DEF heard, taken, closed
<1>4. told' \in [Oids -> OrderStatuses \cup {NoStatus}] BY <1>1, <1>2
<1>5. ASSUME NEW o \in os PROVE InStatus(status[o], content[o]) \in ShownOrders
  BY DEF InStatus, ShownOrders
<1>6. shown' \in [Oids -> ShownOrders] BY <1>1, <1>2, <1>5
<1>7. \A o \in Oids : shown'[o] = shown[o] \/ (o \in os /\ shown'[o] = InStatus(status[o], content[o]))
  BY <1>1, <1>2
<1>8. \A o \in Oids : shown'[o] = shown[o] \/ (o \in os /\ shown'[o].status = status[o])
  <2>1. \A o \in Oids : InStatus(status[o], content[o]).status = status[o] BY DEF InStatus
  <2> QED BY <1>7, <2>1
<1>9. /\ registered' \subseteq Oids /\ registered' \subseteq known /\ tmpOrders' \subseteq Oids
      /\ \A o \in known : o \in registered' \/ (o \in os /\ status[o] \in ClosedStatuses)
      /\ \A o \in tmp : o \in tmpOrders' \/ (o \in os \cap known /\ status[o] \in ClosedStatuses)
  BY <1>1, <1>2
<1> QED BY <1>3, <1>4, <1>6, <1>7, <1>8, <1>9 DEF Hears

\* A handler that reports nothing is an update of no order.
LEMMA SilenceHears ==
  ASSUME TypeOK, Silence, NEW status
  PROVE  Hears(registered, tmpOrders, {}, status)
BY DEF TypeOK, Silence, localVars, Hears

\* The content of an answer's update is of the ticket or blank.
LEMMA PostHears ==
  ASSUME TypeOK, NEW os \in SUBSET Oids, NEW status, \A o \in os : status[o] \in OrderStatuses,
         PostTickets(os, status) \/ PostBlanks(os, status)
  PROVE  Hears(registered, tmpOrders, os, status)
<1>0. Placed /\ registered \in SUBSET Oids /\ tmpOrders \in SUBSET Oids BY TypePlaced DEF TypeOK
<1>1. ASSUME NEW o \in Oids
      PROVE  /\ AsTicket(o).type \in OrderTypes /\ AsTicket(o).tif \in TimesInForce
             /\ AsTicket(o).amount \in Nat /\ AsTicket(o).product \in Products
             /\ Blank(o).type = "none" /\ Blank(o).tif = "none" /\ Blank(o).amount = 0 /\
                  Blank(o).product \in Products
  <2>1. ticket[o] \in AllTickets BY <1>0 DEF Placed
  <2>2. ticket[o].type \in OrderTypes /\ ticket[o].tif \in TimesInForce /\ ticket[o].amount \in Nat
        /\ ticket[o].product \in Products
    BY <2>1, VenueOrdersAssumption DEF AllTickets, Tickets
  <2> QED BY <2>2 DEF AsTicket, Blank
<1>2. CASE PostTickets(os, status)
  <2> DEFINE content == [o \in Oids |-> AsTicket(o)]
  <2>1. Update(registered, tmpOrders, os, status, content) BY <1>2 DEF PostTickets, Post
  <2>2. \A o \in os : content[o] = AsTicket(o) OBVIOUS
  <2> HIDE DEF content
  <2> QED BY <1>0, <1>1, <2>1, <2>2, UpdateHears
<1>3. CASE PostBlanks(os, status)
  <2> DEFINE content == [o \in Oids |-> Blank(o)]
  <2>1. Update(registered, tmpOrders, os, status, content) BY <1>3 DEF PostBlanks, Post
  <2>2. \A o \in os : content[o] = Blank(o) OBVIOUS
  <2> HIDE DEF content
  <2> QED BY <1>0, <1>1, <2>1, <2>2, UpdateHears
<1> QED BY <1>2, <1>3

\* Nothing the venue has is touched.
LEMMA HearingKeeps ==
  ASSUME Inv, NEW known \in SUBSET Oids, NEW tmp, NEW os, NEW status, Hears(known, tmp, os, status),
         \A o \in os : status[o] \in OrderStatuses
  PROVE  /\ \A o \in Oids : told[o] # NoStatus => told'[o] # NoStatus
         /\ \A o \in os \cap known : status[o] # "EXPIRED" => told'[o] # NoStatus
<1>1. NoStatus \notin OrderStatuses BY DEF NoStatus, OrderStatuses
<1> QED BY <1>1 DEF Hears

\* What an answer may tell: no status of a report, pending only of an order
\* the venue took, a failure only of one it did not or whose call broke.
Tells(os, status) ==
  \A o \in os :
    /\ status[o] \in OrderStatuses \ Reported
    /\ status[o] = "PENDING" => exch[o].state \notin {"none", "refused"}
    /\ status[o] = "FAILED" => o \in unclear \/ exch[o].state = "refused" \/ FailsAsOne(o)

\* The orders of the batch are orders.
LEMMA BatchIds == Range(BatchOf) \subseteq Oids
<1>1. BatchOf \in Seq(Oids) BY VenueOrdersAssumption
<1>2. \A i \in DOMAIN BatchOf : BatchOf[i] \in Oids BY <1>1
<1> QED BY <1>2 DEF Range

\* The elements of a sequence are of its set.
LEMMA ElementType ==
  ASSUME NEW S, NEW s \in Seq(S)
  PROVE  \A i \in DOMAIN s : s[i] \in S
OBVIOUS

\* The reports on their way name orders and statuses of the venue.
LEMMA FeedTypes ==
  ASSUME TypeOK
  PROVE  \A i \in DOMAIN feed : feed[i].oid \in Oids /\ feed[i].state \in Names
<1>1. feed \in Seq([oid : Oids, state : Names]) BY DEF TypeOK
<1>2. \A i \in DOMAIN feed : feed[i] \in [oid : Oids, state : Names] BY <1>1, ElementType, Zenon
<1> QED BY <1>2

\* A batch that fails as one keeps doing so: a refused leg stays refused.
LEMMA FailsAsOneKept ==
  ASSUME account' = account, ticket' = ticket, NEW o \in Oids, as[o] # "none" => as'[o] = as[o],
         \A p \in Oids : exch[p].state = "refused" => exch'[p].state = "refused", FailsAsOne(o)
  PROVE  FailsAsOne(o)'
<1>1. as'[o] = "batch" /\ BatchMates(o)' = BatchMates(o) BY OrderKept DEF FailsAsOne
<1>2. BatchMates(o) \subseteq Oids
  BY BatchIds DEF BatchMates
<1> QED BY <1>1, <1>2, AccountKept DEF FailsAsOne

\* Nothing of the strategy's or of the venue's is touched.
LEMMA AnswerStep ==
  ASSUME Inv, NEW c \in calls, Take(c), NEW os \in SUBSET Oids, NEW status,
         Hears(registered, tmpOrders, os, status), Tells(os, status),
         \A o \in Oids : Making(c, o) /\ o \notin unclear =>
           told'[o] # NoStatus \/ Unspoken(o)
           \/ (as[o] = "tp_sl" /\ account \in {"okx", "bybit"} /\ exch[o].state \notin {"none", "refused"})
  PROVE  Inv'
<1> USE DEF Inv
<1>0. /\ calls' = calls \ {c} /\ account' = account /\ ticket' = ticket /\ as' = as
      /\ requests' = requests /\ queue' = queue /\ late' = late /\ dead' \in BOOLEAN
      /\ exch' = exch /\ canceling' = canceling /\ feed' = feed /\ unclear' = unclear
      /\ strayed' = strayed
  BY DEF Take, venueVars
<1>a. calls' \subseteq calls BY <1>0
<1>b. registered \in SUBSET Oids BY DEF TypeOK
<1>c. \A o \in os : status[o] \in OrderStatuses /\ status[o] # "EXPIRED" BY DEF Tells, Reported
<1>d. \A o \in Oids : told[o] # NoStatus \/ o \in os \cap registered => told'[o] # NoStatus
  BY <1>b, <1>c, HearingKeeps
<1>e. \A o \in Oids : Queued(o)' <=> Queued(o) BY <1>0 DEF Queued, Creator
<1>f. \A o \in Oids : CreateUnderway(o)' => CreateUnderway(o) BY <1>a DEF CreateUnderway
<1>g. \A o \in Oids : \A w : AskedFor(o, w) => AskedFor(o, w)' BY <1>0, OrderKept
<1>1. TypeOK' BY <1>0, <1>a DEF TypeOK, Hears
<1>2. WellSubmitted' BY <1>0, AccountKept DEF WellSubmitted, WellFormed
<1>3. QueuedOnce' BY <1>0 DEF QueuedOnce
<1>4. MadeOnce' BY <1>0, <1>a, <1>e, <1>f DEF MadeOnce
<1>5. WellCalled'
  <2>1. ASSUME NEW d \in calls, d.op \in Creates PROVE CreateCall(d)'
    <3>1. CreateCall(d) BY <2>1 DEF WellCalled
    <3>2. \A i \in DOMAIN d.legs : d.legs[i] \in Oids BY <2>1 DEF TypeOK, Calls
    <3> QED BY <1>0, <1>g, <3>1, <3>2, AccountKept DEF CreateCall, Legs
  <2>2. ASSUME NEW d \in calls, d.op \in Requests PROVE RequestCall(d)'
    BY <1>0, <2>2, AccountKept DEF WellCalled, RequestCall
  <2> QED BY <1>a, <2>1, <2>2 DEF WellCalled
<1>6. WellReported'
  <2>1. \A i \in DOMAIN feed : feed[i].oid \in Oids BY FeedTypes
  <2> QED BY <1>0, <1>d, <2>1, AccountKept DEF WellReported, WorkedOn
<1>7. FirstReported' BY <1>0, <1>d, AccountKept DEF FirstReported, WorkedOn
<1>8. RightWires' BY <1>0, <1>g DEF RightWires, Takeable
<1>9. PendingIsThere' BY <1>0 DEF PendingIsThere, Hears, Tells
<1>10. FailedIsNot'
  <2>1. ASSUME NEW o \in Oids, told'[o] = "FAILED"
        PROVE  \/ o \in unclear
               \/ ~ IsLive(o) /\ ~ Queued(o) /\ (exch[o].state = "none" => ~ CreateUnderway(o))
               \/ FailsAsOne(o)
    <3>1. CASE told[o] = "FAILED" BY <3>1 DEF FailedIsNot
    <3>2. CASE o \in os /\ status[o] = "FAILED"
      BY <3>2 DEF Tells, IsLive, MadeOnce
    <3> QED BY <2>1, <3>1, <3>2 DEF Hears
  <2>2. \A o \in Oids : FailsAsOne(o) => FailsAsOne(o)' BY <1>0, FailsAsOneKept
  <2> QED BY <1>0, <1>e, <1>f, <2>1, <2>2 DEF FailedIsNot, IsLive
<1>11. Registered'
  <2>1. ASSUME NEW o \in Oids, as[o] # "none", ~ Queued(o)
        PROVE  told'[o] # NoStatus \/ (o \in registered' /\ (RegistersTmp(as[o]) => o \in tmpOrders'))
    <3>1. CASE told[o] # NoStatus BY <1>d, <3>1
    <3>2. CASE o \in os \cap registered BY <1>d, <3>2
    <3>3. CASE told[o] = NoStatus /\ o \notin os \cap registered
      <4>1. o \in registered /\ (RegistersTmp(as[o]) => o \in tmpOrders) BY <2>1, <3>3 DEF Registered
      <4> QED BY <3>3, <4>1 DEF Hears
    <3> QED BY <3>1, <3>2, <3>3
  <2> QED BY <1>0, <1>e, <2>1, AccountKept DEF Registered
<1>12. Settled'
  <2>1. ASSUME NEW o \in Oids
        PROVE  \/ as[o] = "none" \/ Queued(o) \/ CreateUnderway(o)' \/ o \in unclear \/ told'[o] # NoStatus
               \/ Unspoken(o)
               \/ as[o] = "tp_sl" /\ account \in {"okx", "bybit"} /\
                    exch[o].state \notin {"none", "refused"}
    <3>1. CASE Making(c, o) BY <3>1
    <3>2. CASE ~ Making(c, o)
      <4>1. Creating \ Stopping = Creates BY DEF Creating, Stopping, Creates
      <4>2. CreateUnderway(o) => CreateUnderway(o)'
        BY <1>0, <3>2, <4>1 DEF CreateUnderway, Making, Legs
      <4> QED BY <1>d, <4>2 DEF Settled
    <3> QED BY <3>1, <3>2
  <2>2. \A o \in Oids : as[o] = "none" \/ (Unspoken(o) => Unspoken(o)')
    BY <1>0, OrderKept DEF TypeOK
  <2> QED BY <1>0, <1>e, <2>1, <2>2 DEF Settled
<1>13. ReportedAsAsked'
  <2>1. \A o \in Oids : shown'[o].status \in Reported => shown'[o] = shown[o] BY DEF Hears, Tells
  <2>2. \A o \in Oids : MixedBatch(o) => MixedBatch(o)' BY <1>0, OrderKept
  <2> QED BY <1>0, <2>1, <2>2 DEF ReportedAsAsked
<1>14. EveryRequestReachesItsOrder'
  <2>1. \A m \in strayed : m[1] \in Oids BY DEF TypeOK
  <2>2. \A o \in Oids : MixedBatch(o) => MixedBatch(o)' BY <1>0, OrderKept
  <2> QED BY <1>0, <2>1, <2>2, AccountKept DEF EveryRequestReachesItsOrder
<1>15. Unheard' BY <1>0 DEF Unheard, Hears
<1> QED BY <1>1, <1>2, <1>3, <1>4, <1>5, <1>6, <1>7, <1>8, <1>9, <1>10, <1>11, <1>12, <1>13, <1>14, <1>15

-----------------------------------------------------------------------------
(* The answers.                                                             *)

\* The leg of a call that names an order.
LEMMA LegFacts ==
  ASSUME NEW c, NEW o \in Legs(c)
  PROVE  LegOf(c, o) \in DOMAIN c.legs /\ c.legs[LegOf(c, o)] = o
<1>1. \E i \in DOMAIN c.legs : c.legs[i] = o BY DEF Legs, Range
<1> QED BY <1>1 DEF LegOf

\* The fields of a call on its way.
LEMMA CallTypes ==
  ASSUME TypeOK, NEW c \in calls
  PROVE  /\ c \in Calls /\ c.op \in Creating \cup Requests /\ c.st \in {"sent", "answered", "broken"}
         /\ c.legs \in Seq(Oids) /\ c.taken \in Seq(BOOLEAN) /\ c.wires \in Seq(Wires) /\
              c.by \in Directions
         /\ \A i \in DOMAIN c.legs : c.legs[i] \in Oids
         /\ \A i \in DOMAIN c.taken : c.taken[i] \in BOOLEAN
         /\ Legs(c) \subseteq Oids
<1>1. c \in Calls BY DEF TypeOK
<1>2. /\ c.op \in Creating \cup Requests /\ c.st \in {"sent", "answered", "broken"}
      /\ c.legs \in Seq(Oids) /\ c.taken \in Seq(BOOLEAN) /\ c.wires \in Seq(Wires) /\ c.by \in Directions
  BY <1>1 DEF Calls
<1>3. /\ \A i \in DOMAIN c.legs : c.legs[i] \in Oids
      /\ \A i \in DOMAIN c.taken : c.taken[i] \in BOOLEAN
  BY <1>2, ElementType, Zenon
<1> QED BY <1>1, <1>2, <1>3 DEF Legs, Range

\* An order whose call has been answered or has broken.
LEMMA Ended ==
  ASSUME Inv, NEW c \in calls, c.op \in Creates, c.st # "sent", NEW o \in Legs(c)
  PROVE  /\ o \in Oids /\ as[o] # "none" /\ ~ Queued(o) /\ exch[o].state # "none"
         /\ as[o] = c.op \/ (c.op = "create" /\ OnBinance)
         /\ told[o] # NoStatus \/ (o \in registered /\ (RegistersTmp(as[o]) => o \in tmpOrders))
         /\ LegOf(c, o) \in DOMAIN c.taken
         /\ c.st = "answered" => (c.taken[LegOf(c, o)] <=> exch[o].state # "refused")
         /\ c.st = "broken" => o \in unclear
<1> DEFINE i == LegOf(c, o)
<1>1. i \in DOMAIN c.legs /\ c.legs[i] = o BY LegFacts
<1>2. o \in Oids BY CallTypes DEF Inv
<1>3. CreateCall(c) BY DEF Inv, WellCalled
<1>4. \A x \in Creates : x # "none" BY DEF Creates
<1>5. CreateUnderway(o)
  <2>1. Creating \ Stopping = Creates BY DEF Creating, Stopping, Creates
  <2> QED BY <2>1 DEF CreateUnderway
<1>6. /\ as[o] = c.op \/ (c.op = "create" /\ OnBinance /\ as[o] # "none")
      /\ c.st = "sent" <=> exch[o].state = "none"
      /\ c.st = "answered" => (c.taken[i] <=> exch[o].state # "refused")
      /\ c.st = "broken" => o \in unclear
      /\ i \in DOMAIN c.taken
  <2> HIDE DEF i
  <2> QED BY <1>1, <1>3 DEF CreateCall
<1>7. ~ Queued(o) BY <1>2, <1>5 DEF Inv, MadeOnce
<1> HIDE DEF i
<1>8. told[o] # NoStatus \/ (o \in registered /\ (RegistersTmp(as[o]) => o \in tmpOrders))
  BY <1>2, <1>4, <1>6, <1>7 DEF Inv, Registered
<1> QED BY <1>2, <1>4, <1>6, <1>7, <1>8 DEF i

\* A call of one leg is all right when its order was taken.
LEMMA OneTaken ==
  ASSUME Inv, NEW c \in calls, c.op \in Creates \ {"batch"}, c.st # "sent", NEW o \in Legs(c)
  PROVE  Ok(c) <=> c.st # "broken" /\ exch[o].state # "refused"
<1>1. CreateCall(c) BY DEF Inv, WellCalled
<1>2. PICK q \in Oids : c.legs = <<q>> BY <1>1 DEF CreateCall
<1>3. DOMAIN c.taken = {1} BY <1>1, <1>2, OneFacts DEF CreateCall
<1>4. LegOf(c, o) = 1 BY <1>2, LegFacts, OneFacts
<1>5. c.st = "answered" => (c.taken[1] <=> exch[o].state # "refused") BY <1>4, Ended
<1>6. c.st \in {"sent", "answered", "broken"} BY CallTypes DEF Inv
<1> QED BY <1>3, <1>5, <1>6 DEF Ok, Broken

\* The statuses an answer writes are not those a report writes.
LEMMA StatusWords ==
  /\ {"PENDING", "FAILED", "CANCELING", "CANCEL_FAILED"} \subseteq OrderStatuses \ Reported
  /\ NoStatus \notin OrderStatuses
BY DEF OrderStatuses, Reported, NoStatus

\* A create whose answer raises was refused or broke, and nobody is told.
LEMMA RaisingAnswerStep ==
  ASSUME Inv, NEW c \in calls, c.st # "sent", HandleCreateAnswer(c), UpdateRaises(c)
  PROVE  Inv'
<1> DEFINE none == [o \in Oids |-> "FAILED"]
<1>1. c.op = "create" /\ Take(c) /\ Silence BY DEF HandleCreateAnswer
<1>2. TypeOK /\ Placed BY TypePlaced DEF Inv
<1>3. Hears(registered, tmpOrders, {}, none) BY <1>1, <1>2, SilenceHears
<1>4. Tells({}, none) BY DEF Tells
<1>5. ASSUME NEW o \in Oids, Making(c, o), o \notin unclear PROVE Unspoken(o)
  <2>1. o \in Legs(c) BY <1>5 DEF Making, Legs
  <2>2. PICK q \in Oids : c.legs = <<q>> BY <1>1 DEF Inv, WellCalled, CreateCall, Creates
  <2>3. Legs(c) = {o} BY <2>1, <2>2, OneFacts DEF Legs
  <2>4. (OnBitget \/ OnHyperliquid) /\ Unpriced(ticket[o])
    BY <2>3 DEF UpdateRaises, Bitget!UpdateRaises, Hyperliquid!UpdateRaises, Unpriced, Bitget!Unpriced,
       Hyperliquid!Unpriced, NeedsPrice, Bitget!NeedsPrice, Hyperliquid!NeedsPrice
  <2>5. ~ OnBinance BY <1>2, <2>4, Venues DEF Placed
  <2>6. as[o] = "create" /\ exch[o].state # "none" BY <1>1, <2>1, <2>5, Ended DEF Creates
  <2>7. exch[o].state = "refused" BY <1>5, <2>4, <2>6 DEF Inv, RightWires, Takeable
  <2> QED BY <2>4, <2>6, <2>7 DEF Unspoken
<1> HIDE DEF none
<1> QED BY <1>1, <1>3, <1>4, <1>5, AnswerStep

\* The answer to a create of one order preserves the invariant.
LEMMA CreateAnswerStep ==
  ASSUME Inv, NEW c \in calls, c.st # "sent", HandleCreateAnswer(c), ~ UpdateRaises(c)
  PROVE  Inv'
<1> DEFINE os == Legs(c)
           status == [o \in Oids |-> IF Ok(c) THEN "PENDING" ELSE "FAILED"]
<1>1. c.op = "create" /\ Take(c) /\ PostTickets(os, status) BY DEF HandleCreateAnswer
<1>2. os \in SUBSET Oids BY CallTypes DEF Inv
<1>3. \A o \in os : status[o] = IF Ok(c) THEN "PENDING" ELSE "FAILED" BY <1>2
<1> HIDE DEF os, status
<1>4. \A o \in os : status[o] \in OrderStatuses /\ status[o] # "EXPIRED" BY <1>3, StatusWords
<1>5. Hears(registered, tmpOrders, os, status) BY <1>1, <1>2, <1>4, PostHears DEF Inv
<1>6. ASSUME NEW o \in os
      PROVE  /\ Ok(c) <=> c.st # "broken" /\ exch[o].state # "refused"
             /\ exch[o].state # "none" /\ (c.st = "broken" => o \in unclear)
             /\ told[o] # NoStatus \/ o \in registered
  <2>1. o \in Legs(c) BY DEF os
  <2> QED BY <1>1, <2>1, Ended, OneTaken DEF Creates
<1>7. Tells(os, status) BY <1>3, <1>6, StatusWords DEF Tells
<1>8. \A o \in Oids : Making(c, o) => told'[o] # NoStatus
  <2>1. \A o \in Oids : Making(c, o) => o \in os BY DEF Making, os, Legs
  <2>2. registered \in SUBSET Oids BY DEF Inv, TypeOK
  <2>3. /\ \A o \in Oids : told[o] # NoStatus => told'[o] # NoStatus
        /\ \A o \in os \cap registered : status[o] # "EXPIRED" => told'[o] # NoStatus
    BY <1>4, <1>5, <2>2, HearingKeeps
  <2> QED BY <1>2, <1>4, <1>5, <1>6, <2>1, <2>3
<1> QED BY <1>1, <1>2, <1>5, <1>7, <1>8, AnswerStep

\* The answer to a batch preserves the invariant: each leg gets its own verdict.
LEMMA BatchAnswerStep ==
  ASSUME Inv, NEW c \in calls, c.st # "sent", HandleBatchAnswer(c)
  PROVE  Inv'
<1> DEFINE os == Legs(c)
           v == IF Broken(c) THEN AllFailed(c.taken) ELSE BatchVerdicts(c.legs, c.taken)
           status == [o \in Oids |-> IF o \in Legs(c) THEN v[LegOf(c, o)] ELSE "FAILED"]
<1>1. c.op = "batch" /\ Take(c) /\ PostTickets(os, status) BY Zenon DEF HandleBatchAnswer
<1>2. os \in SUBSET Oids BY CallTypes DEF Inv
<1>3. \A o \in os : status[o] = v[LegOf(c, o)] BY <1>2
<1>a. CreateCall(c) /\ Placed BY <1>1, TypePlaced DEF Inv, WellCalled, Creates
<1>b. c.legs = BatchOf /\ DOMAIN c.taken = DOMAIN c.legs /\ (os # {} => ~ OnBitget)
  BY <1>1, <1>a DEF CreateCall
<1>4. ASSUME NEW o \in os
      PROVE  /\ exch[o].state # "none" /\ (c.st = "broken" => o \in unclear) /\ as[o] = "batch"
             /\ told[o] # NoStatus \/ o \in registered
             /\ v[LegOf(c, o)] \in {"PENDING", "FAILED"}
             /\ v[LegOf(c, o)] = "PENDING" => exch[o].state # "refused"
             /\ v[LegOf(c, o)] = "FAILED" => o \in unclear \/ exch[o].state = "refused" \/ FailsAsOne(o)
  <2> DEFINE i == LegOf(c, o)
  <2>1. /\ o \in Oids /\ exch[o].state # "none" /\ (c.st = "broken" => o \in unclear) /\ as[o] = "batch"
        /\ told[o] # NoStatus \/ o \in registered
        /\ i \in DOMAIN c.taken
        /\ c.st = "answered" => (c.taken[i] <=> exch[o].state # "refused")
    BY <1>1, Ended DEF os, Creates
  <2> HIDE DEF i
  <2>2. CASE c.st = "broken"
    <3>1. v[i] = "FAILED" BY <2>1, <2>2 DEF Broken, AllFailed
    <3> QED BY <2>1, <2>2, <3>1 DEF i
  <2>3. CASE c.st # "broken"
    <3>0. c.st = "answered" /\ \A j \in DOMAIN c.taken : c.taken[j] \in BOOLEAN
      BY <2>3, CallTypes DEF Inv
    <3>1. v = BatchVerdicts(c.legs, c.taken) BY <2>3 DEF Broken
    <3> HIDE DEF v
    <3>a. AllFailed(c.taken)[i] = "FAILED" BY <2>1 DEF AllFailed
    <3>b. OnePerLeg(c.taken)[i] = IF c.taken[i] THEN "PENDING" ELSE "FAILED" BY <2>1 DEF OnePerLeg
    <3>2. ASSUME v = OnePerLeg(c.taken)
          PROVE  v[i] \in {"PENDING", "FAILED"} /\ (v[i] = "PENDING" <=> exch[o].state # "refused")
      BY <2>1, <3>0, <3>2, <3>b
    <3>3. CASE OnBinance \/ account = "bybit"
      <4>1. v = OnePerLeg(c.taken)
        BY <1>a, <3>1, <3>3, Venues DEF BatchVerdicts, Placed, Binance!BatchVerdicts, Bybit!BatchVerdicts,
           Binance!OnePerLeg, Bybit!OnePerLeg, OnePerLeg
      <4> QED BY <2>1, <3>2, <4>1 DEF i
    <3>4. CASE account = "okx"
      <4>1. v = IF \A j \in DOMAIN c.taken : c.taken[j] THEN OnePerLeg(c.taken) ELSE AllFailed(c.taken)
        BY <1>a, <3>1, <3>4, Venues DEF BatchVerdicts, Placed, Okx!BatchVerdicts, Okx!OnePerLeg,
           OnePerLeg, Okx!AllFailed, AllFailed
      <4>2. CASE \A j \in DOMAIN c.taken : c.taken[j] BY <2>1, <3>2, <4>1, <4>2 DEF i
      <4>3. CASE ~ \A j \in DOMAIN c.taken : c.taken[j]
        <5>1. PICK j \in DOMAIN c.taken : ~ c.taken[j] BY <4>3
        <5>2. exch[c.legs[j]].state = "refused"
          BY <1>a, <1>b, <3>0, <5>1 DEF CreateCall
        <5>3. c.legs[j] \in Range(BatchOf) BY <1>b, <5>1 DEF Range
        <5>4. FailsAsOne(o) BY <2>1, <3>4, <5>2, <5>3 DEF FailsAsOne, BatchMates
        <5>5. v[i] = "FAILED" BY <3>a, <4>1, <4>3
        <5> QED BY <2>1, <5>4, <5>5 DEF i
      <4> QED BY <4>2, <4>3
    <3>5. CASE OnHyperliquid
      <4> DEFINE ts == [j \in DOMAIN c.legs |-> ticket[c.legs[j]]]
      <4>1. v = IF \E j \in DOMAIN ts :
              Hyperliquid!LegRaises(ts[j]) THEN AllFailed(c.taken) ELSE OnePerLeg(c.taken)
        BY <1>a, <3>1, <3>5, Venues DEF BatchVerdicts, Placed, Hyperliquid!BatchVerdicts,
           Hyperliquid!OnePerLeg, OnePerLeg, Hyperliquid!AllFailed, AllFailed
      <4>2. CASE \E j \in DOMAIN ts : Hyperliquid!LegRaises(ts[j])
        <5>1. PICK j \in DOMAIN c.legs : Hyperliquid!LegRaises(ticket[c.legs[j]]) BY <4>2
        <5>3. c.legs[j] \in Range(BatchOf) BY <1>b, <5>1 DEF Range
        <5>4. FailsAsOne(o) BY <2>1, <3>5, <5>1, <5>3 DEF FailsAsOne, BatchMates
        <5>5. v[i] = "FAILED" BY <3>a, <4>1, <4>2
        <5> QED BY <2>1, <5>4, <5>5 DEF i
      <4>3. CASE ~ \E j \in DOMAIN ts : Hyperliquid!LegRaises(ts[j]) BY <2>1, <3>2, <4>1, <4>3 DEF i
      <4> QED BY <4>2, <4>3
    <3> QED BY <1>a, <1>b, <3>3, <3>4, <3>5, Venues DEF Placed
  <2> QED BY <2>2, <2>3
<1> HIDE DEF os, status, v
<1>5. \A o \in os : status[o] \in OrderStatuses /\ status[o] # "EXPIRED" BY <1>3, <1>4, StatusWords
<1>6. Hears(registered, tmpOrders, os, status) BY <1>1, <1>2, <1>5, PostHears DEF Inv
<1>7. Tells(os, status) BY <1>3, <1>4, StatusWords DEF Tells
<1>8. \A o \in Oids : Making(c, o) => told'[o] # NoStatus
  <2>1. \A o \in Oids : Making(c, o) => o \in os BY DEF Making, os, Legs
  <2>2. registered \in SUBSET Oids BY DEF Inv, TypeOK
  <2>3. /\ \A o \in Oids : told[o] # NoStatus => told'[o] # NoStatus
        /\ \A o \in os \cap registered : status[o] # "EXPIRED" => told'[o] # NoStatus
    BY <1>5, <1>6, <2>2, HearingKeeps
  <2> QED BY <1>2, <1>4, <1>5, <1>6, <2>1, <2>3
<1> QED BY <1>1, <1>2, <1>6, <1>7, <1>8, AnswerStep

\* The verdicts of a WebSocket API are alike everywhere.
LEMMA WsVerdicts ==
  ASSUME account \in AllAccounts, NEW ok \in BOOLEAN
  PROVE  /\ WsApiVerdict("create", ok) = IF ok THEN "PENDING" ELSE "FAILED"
         /\ WsApiVerdict("cancel", ok) = IF ok THEN "CANCELING" ELSE "CANCEL_FAILED"
<1>1. CASE OnBinance BY <1>1, Venues DEF WsApiVerdict, Binance!WsApiVerdict
<1>2. CASE account = "okx" BY <1>2, Venues DEF WsApiVerdict, Okx!WsApiVerdict
<1>3. CASE account = "bybit"
  BY <1>3, Venues DEF WsApiVerdict, Bybit!WsApiVerdict, Bybit!CreateVerdict, Bybit!CancelVerdict
<1>4. CASE OnBitget
  BY <1>4, Venues DEF WsApiVerdict, Bitget!WsApiVerdict, Bitget!UtaWsApiVerdict, Bitget!ClassicWsApiVerdict,
     Bitget!UtaPlaceVerdict, Bitget!UtaCancelVerdict, Bitget!PlaceVerdict, Bitget!CancelVerdict
<1>5. CASE OnHyperliquid
  BY <1>5, Venues
     DEF WsApiVerdict, Hyperliquid!WsApiVerdict, Hyperliquid!PlaceVerdict, Hyperliquid!CancelVerdict
<1> QED BY <1>1, <1>2, <1>3, <1>4, <1>5, Venues

\* An answer of the WebSocket API preserves the invariant.
LEMMA WsAnswerStep ==
  ASSUME Inv, NEW c \in calls, c.st # "sent", HandleWsAnswer(c)
  PROVE  Inv'
<1> DEFINE kind == IF c.op = "create_ws" THEN "create" ELSE "cancel"
           heard == Legs(c) \subseteq tmpOrders /\ (c.op = "cancel_ws" => KnowsId(c.by))
           status == [o \in Oids |-> WsApiVerdict(kind, Ok(c))]
<1>1. /\ c.op \in {"create_ws", "cancel_ws"} /\ Take(c)
      /\ \/ heard /\ PostTickets(Legs(c), status)
         \/ ~ heard /\ Silence
         \/ OnHyperliquid /\ ~ Ok(c) /\ Silence
  BY Zenon DEF HandleWsAnswer
<1>2. Legs(c) \in SUBSET Oids /\ Placed /\ TypeOK BY CallTypes, TypePlaced DEF Inv
<1>3. Ok(c) \in BOOLEAN BY DEF Ok
<1>4. \A o \in Legs(c) : status[o] = WsApiVerdict(kind, Ok(c)) BY <1>2
<1>5. ASSUME NEW o \in Legs(c), c.op = "create_ws"
      PROVE  /\ o \in Oids /\ Ok(c) <=> c.st # "broken" /\ exch[o].state # "refused"
             /\ exch[o].state # "none" /\ (c.st = "broken" => o \in unclear) /\ as[o] = "create_ws"
             /\ told[o] # NoStatus \/ (o \in registered /\ o \in tmpOrders)
  BY <1>5, Ended, OneTaken DEF Creates, RegistersTmp
<1>7. \A o \in Oids : Making(c, o) => o \in Legs(c) /\ c.op = "create_ws"
  BY <1>1 DEF Making, Legs, Creates
<1>8. registered \in SUBSET Oids BY DEF Inv, TypeOK
<1>9. CASE heard /\ PostTickets(Legs(c), status)
  <2>1. /\ WsApiVerdict("create", Ok(c)) = IF Ok(c) THEN "PENDING" ELSE "FAILED"
        /\ WsApiVerdict("cancel", Ok(c)) = IF Ok(c) THEN "CANCELING" ELSE "CANCEL_FAILED"
    BY <1>2, <1>3, WsVerdicts DEF Placed
  <2>2. \A o \in Legs(c) : status[o] = IF c.op = "create_ws" THEN IF Ok(c) THEN "PENDING" ELSE "FAILED"
                                                          ELSE IF Ok(c) THEN "CANCELING" ELSE "CANCEL_FAILED"
    BY <1>4, <2>1
  <2> HIDE DEF status, heard, kind
  <2>3. \A o \in Legs(c) : status[o] \in OrderStatuses /\ status[o] # "EXPIRED" BY <2>2, StatusWords
  <2>4. Hears(registered, tmpOrders, Legs(c), status) BY <1>2, <1>9, <2>3, PostHears
  <2>5. Tells(Legs(c), status)
    <3>1. CASE c.op = "create_ws"
      <4>1. \A o \in Legs(c) : status[o] = IF Ok(c) THEN "PENDING" ELSE "FAILED" BY <2>2, <3>1
      <4> QED BY <1>5, <3>1, <4>1, CallTypes, StatusWords DEF Tells, Inv
    <3>2. CASE c.op = "cancel_ws"
      <4>1. \A o \in Legs(c) : status[o] \in {"CANCELING", "CANCEL_FAILED"} BY <2>2, <3>2
      <4> QED BY <4>1, StatusWords DEF Tells
    <3> QED BY <1>1, <3>1, <3>2
  <2>6. /\ \A o \in Oids : told[o] # NoStatus => told'[o] # NoStatus
        /\ \A o \in Legs(c) \cap registered : status[o] # "EXPIRED" => told'[o] # NoStatus
    BY <1>8, <2>3, <2>4, HearingKeeps
  <2>7. \A o \in Oids : Making(c, o) => told'[o] # NoStatus BY <1>5, <1>7, <2>3, <2>6
  <2> QED BY <1>1, <1>2, <2>4, <2>5, <2>7, AnswerStep
<1>10. CASE Silence /\ (~ heard \/ (OnHyperliquid /\ ~ Ok(c)))
  <2> DEFINE none == [o \in Oids |-> "FAILED"]
  <2>1. Hears(registered, tmpOrders, {}, none) BY <1>2, <1>10, SilenceHears
  <2>2. told' = told BY <1>10 DEF Silence, localVars
  <2>3. Tells({}, none) BY DEF Tells
  <2>4. ASSUME NEW o \in Oids, Making(c, o), o \notin unclear
        PROVE  told'[o] # NoStatus \/ Unspoken(o)
    <3>1. o \in Legs(c) /\ c.op = "create_ws" BY <1>7, <2>4
    <3>2. CASE ~ heard
      <4>1. PICK q \in Oids : c.legs = <<q>>
        <5>1. CreateCall(c) BY <3>1 DEF Inv, WellCalled, Creates
        <5> QED BY <3>1, <5>1 DEF CreateCall
      <4>2. Legs(c) = {o} BY <3>1, <4>1, OneFacts DEF Legs
      <4>3. o \notin tmpOrders BY <3>1, <3>2, <4>2
      <4> QED BY <1>5, <2>2, <3>1, <4>3
    <3>3. CASE OnHyperliquid /\ ~ Ok(c)
      <4>1. as[o] = "create_ws" /\ exch[o].state = "refused" BY <1>5, <2>4, <3>1, <3>3
      <4> QED BY <3>3, <4>1 DEF Unspoken
    <3> QED BY <1>10, <3>2, <3>3
  <2> HIDE DEF none
  <2> QED BY <1>1, <2>1, <2>3, <2>4, AnswerStep
<1> QED BY <1>1, <1>9, <1>10

\* An answer nobody reports preserves the invariant.
LEMMA SilentAnswerStep ==
  ASSUME Inv, NEW c \in calls, c.st # "sent", HandleSilentAnswer(c)
  PROVE  Inv'
<1> DEFINE none == [o \in Oids |-> "FAILED"]
<1>1. c.op \in {"tp_sl", "cancel_all"} \cup Stopping /\ Take(c) /\ Silence BY DEF HandleSilentAnswer
<1>2. TypeOK BY DEF Inv
<1>3. Hears(registered, tmpOrders, {}, none) BY <1>1, <1>2, SilenceHears
<1>4. Tells({}, none) BY DEF Tells
<1>5. ASSUME NEW o \in Oids, Making(c, o)
      PROVE  Unspoken(o) \/ (as[o] = "tp_sl" /\ account \in {"okx", "bybit"} /\
               exch[o].state \notin {"none", "refused"})
  <2>1. o \in Legs(c) /\ c.op = "tp_sl" BY <1>1, <1>5 DEF Making, Legs, Creates, Stopping
  <2>2. account \in {"okx", "bybit"} BY <2>1 DEF Inv, WellCalled, CreateCall, Creates
  <2>3. as[o] = "tp_sl" /\ exch[o].state # "none" BY <2>1, Ended DEF Creates
  <2>4. ~ OnBinance BY <2>2 DEF OnBinance, Binance!Accounts
  <2> QED BY <2>2, <2>3, <2>4 DEF Unspoken
<1> HIDE DEF none
<1> QED BY <1>1, <1>3, <1>4, <1>5, AnswerStep

\* A request makes no order.
LEMMA NotMaking ==
  ASSUME NEW c, c.op \in Requests, NEW o
  PROVE  ~ Making(c, o)
BY DEF Requests, Making, Creates

\* The answer to a cancel preserves the invariant.
LEMMA CancelAnswerStep ==
  ASSUME Inv, NEW c \in calls, c.st # "sent", HandleCancelAnswer(c)
  PROVE  Inv'
<1> DEFINE os == IF KnowsId(c.by) THEN Legs(c) ELSE {}
           status == [o \in Oids |-> IF Ok(c) THEN "CANCELING" ELSE "CANCEL_FAILED"]
<1>1. c.op = "cancel" /\ Take(c) /\ (PostTickets(os, status) \/ PostBlanks(os, status))
  BY DEF HandleCancelAnswer
<1>2. os \in SUBSET Oids /\ TypeOK BY CallTypes DEF Inv
<1>3. \A o \in os : status[o] \in {"CANCELING", "CANCEL_FAILED"} BY <1>2
<1> HIDE DEF os, status
<1>4. Hears(registered, tmpOrders, os, status) BY <1>1, <1>2, <1>3, StatusWords, PostHears
<1>5. Tells(os, status) BY <1>3, StatusWords DEF Tells
<1>6. \A o \in Oids : ~ Making(c, o) BY <1>1, NotMaking DEF Requests
<1> QED BY <1>1, <1>2, <1>4, <1>5, <1>6, AnswerStep

\* The answer to a modify preserves the invariant.
LEMMA ModifyAnswerStep ==
  ASSUME Inv, NEW c \in calls, c.st # "sent", HandleModifyAnswer(c)
  PROVE  Inv'
<1> DEFINE status == [o \in Oids |-> IF Ok(c) THEN "PENDING" ELSE "FAILED"]
<1>1. /\ c.op = "modify" /\ Take(c)
      /\ PostTickets(Legs(c), status) \/ PostBlanks(Legs(c), status) \/ Silence
  BY DEF HandleModifyAnswer
<1>2. Legs(c) \in SUBSET Oids /\ TypeOK BY CallTypes DEF Inv
<1>3. \A o \in Legs(c) : status[o] = IF Ok(c) THEN "PENDING" ELSE "FAILED" BY <1>2
<1> HIDE DEF status
<1>4. \A o \in Oids : ~ Making(c, o) BY <1>1, NotMaking DEF Requests
<1>5. CASE PostTickets(Legs(c), status) \/ PostBlanks(Legs(c), status)
  <2>1. RequestCall(c) BY <1>1 DEF Inv, WellCalled, Requests
  <2>2. PICK q \in Oids : c.legs = <<q>> BY <2>1 DEF RequestCall
  <2>3. Legs(c) = {q} /\ Head(c.legs) = q BY <2>2, OneFacts DEF Legs
  <2>4. DOMAIN c.taken = {1} /\ c.st \in {"sent", "answered", "broken"}
    BY <2>1, CallTypes DEF RequestCall, Inv
  <2>5. IF c.st = "answered" /\ c.taken[1] THEN exch[q].state \notin {"none", "refused"} ELSE q \in unclear
    BY <1>1, <2>1, <2>3 DEF RequestCall
  <2>6. IF Ok(c) THEN exch[q].state \notin {"none", "refused"} ELSE q \in unclear
    BY <2>4, <2>5 DEF Ok, Broken
  <2>7. Hears(registered, tmpOrders, Legs(c), status) BY <1>2, <1>3, <1>5, StatusWords, PostHears
  <2>8. Tells(Legs(c), status) BY <1>3, <2>3, <2>6, StatusWords DEF Tells
  <2> QED BY <1>1, <1>2, <1>4, <2>7, <2>8, AnswerStep
<1>6. CASE Silence
  <2>1. Hears(registered, tmpOrders, {}, status) BY <1>2, <1>6, SilenceHears
  <2>2. Tells({}, status) BY DEF Tells
  <2> QED BY <1>1, <1>4, <2>1, <2>2, AnswerStep
<1> QED BY <1>1, <1>5, <1>6

-----------------------------------------------------------------------------
(* The submissions.                                                         *)

\* What the strategy's calls and the task of a late put leave alone.
Waiting == /\ account' = account /\ ticket' = ticket /\ dead' = dead /\ calls' = calls
           /\ localVars' = localVars /\ venueVars' = venueVars /\ unclear' = unclear
           /\ strayed' = strayed

\* An order with a create on its way has been submitted.
LEMMA CallTells ==
  ASSUME Inv, NEW o \in Oids, CreateUnderway(o)
  PROVE  as[o] # "none"
<1>1. PICK c \in calls : o \in Legs(c) /\ c.op \in Creating \ Stopping BY DEF CreateUnderway
<1>2. c.op \in Creates BY <1>1 DEF Creating, Stopping, Creates
<1>3. LegOf(c, o) \in DOMAIN c.legs /\ c.legs[LegOf(c, o)] = o BY <1>1, LegFacts
<1>4. \A x \in Creates : x # "none" BY DEF Creates
<1>5. CreateCall(c) BY <1>2 DEF Inv, WellCalled
<1> DEFINE i == LegOf(c, o)
<1>6. i \in DOMAIN c.legs /\ c.legs[i] = o BY <1>3
<1> HIDE DEF i
<1>7. as[c.legs[i]] = c.op \/ (c.op = "create" /\ OnBinance /\ as[c.legs[i]] # "none") BY <1>5, <1>6 DEF CreateCall
<1> QED BY <1>2, <1>4, <1>6, <1>7

\* Such a step preserves the invariant when each order it names for the first
\* time is queued, once.
LEMMA WaitingStep ==
  ASSUME Inv, Waiting, as' \in [Oids -> Creates \cup {"none"}], requests' \in Nat,
         queue' \in Seq(Submissions), late' \in Seq(Submissions),
         \A o \in Oids : as[o] # "none" => as'[o] = as[o],
         \A o \in Oids : Queued(o) => Queued(o)',
         \A o \in Oids : Queued(o)' => Queued(o) \/ as[o] = "none",
         \A o \in Oids : as[o] = "none" => (as'[o] # "none" <=> Queued(o)'),
         WellSubmitted', QueuedOnce'
  PROVE  Inv'
<1> USE DEF Inv
<1>0. /\ account' = account /\ ticket' = ticket /\ dead' = dead /\ calls' = calls
      /\ registered' = registered /\ tmpOrders' = tmpOrders /\ shown' = shown /\ told' = told
      /\ exch' = exch /\ canceling' = canceling /\ feed' = feed /\ unclear' = unclear
      /\ strayed' = strayed
  BY DEF Waiting, localVars, venueVars
<1>a. \A o \in Oids : CreateUnderway(o)' <=> CreateUnderway(o) BY <1>0 DEF CreateUnderway
<1>b. \A o \in Oids : \A w : AskedFor(o, w) => AskedFor(o, w)' BY <1>0, OrderKept
<1>c. \A o \in Oids : as'[o] = "none" => as[o] = "none" /\ ~ Queued(o)' BY DEF MadeOnce
<1>1. TypeOK' BY <1>0 DEF TypeOK
<1>4. MadeOnce'
  <2>1. \A o \in Oids : as'[o] = "none" => ~ Queued(o)' /\ exch'[o].state = "none"
    BY <1>0, <1>c DEF MadeOnce
  <2>2. \A o \in Oids : Queued(o)' => exch'[o].state = "none" /\ ~ CreateUnderway(o)'
    BY <1>0, <1>a, CallTells DEF MadeOnce
  <2> QED BY <1>0, <2>1, <2>2 DEF MadeOnce
<1>5. WellCalled'
  <2>1. ASSUME NEW d \in calls, d.op \in Creates PROVE CreateCall(d)'
    <3>1. CreateCall(d) BY <2>1 DEF WellCalled
    <3>2. \A i \in DOMAIN d.legs : d.legs[i] \in Oids BY <2>1, CallTypes
    <3>3. d.op # "none" BY <2>1 DEF Creates
    <3> QED BY <1>0, <1>b, <3>1, <3>2, <3>3, AccountKept DEF CreateCall, Legs
  <2>2. ASSUME NEW d \in calls, d.op \in Requests PROVE RequestCall(d)'
    BY <1>0, <2>2, AccountKept DEF WellCalled, RequestCall
  <2> QED BY <1>0, <2>1, <2>2 DEF WellCalled
<1>6. WellReported' BY <1>0, AccountKept DEF WellReported, WorkedOn
<1>7. FirstReported' BY <1>0, AccountKept DEF FirstReported, WorkedOn
<1>8. RightWires' BY <1>0, <1>b DEF RightWires, Takeable
<1>9. PendingIsThere' BY <1>0 DEF PendingIsThere
<1>10. FailedIsNot'
  <2>1. \A o \in Oids : FailsAsOne(o) => FailsAsOne(o)' BY <1>0, FailsAsOneKept
  <2>2. NoStatus # "FAILED" BY DEF NoStatus
  <2> QED BY <1>0, <1>a, <2>1, <2>2 DEF FailedIsNot, IsLive, Unheard
<1>11. Registered' BY <1>0, AccountKept DEF Registered
<1>12. Settled'
  <2>1. \A o \in Oids : as[o] = "none" \/ (Unspoken(o) => Unspoken(o)')
    BY <1>0, OrderKept DEF TypeOK
  <2> QED BY <1>0, <1>a, <2>1 DEF Settled
<1>13. ReportedAsAsked'
  <2>2. \A o \in Oids : MixedBatch(o) => MixedBatch(o)' BY <1>0, OrderKept
  <2> QED BY <1>0, <2>2 DEF ReportedAsAsked
<1>14. EveryRequestReachesItsOrder'
  <2>1. \A m \in strayed : m[1] \in Oids BY DEF TypeOK
  <2>2. \A o \in Oids : MixedBatch(o) => MixedBatch(o)' BY <1>0, OrderKept
  <2> QED BY <1>0, <2>1, <2>2, AccountKept DEF EveryRequestReachesItsOrder
<1>15. Unheard' BY <1>0, <1>c DEF Unheard
<1> QED BY <1>1, <1>4, <1>5, <1>6, <1>7, <1>8, <1>9, <1>10, <1>11, <1>12, <1>13, <1>14, <1>15

\* A put adds one submission, to one of the two places.
LEMMA Putting ==
  ASSUME TypeOK, QueuedOnce, NEW s \in Submissions, SafePut(s),
         \A o \in Oids : Creator(s, o) => ~ Queued(o)
  PROVE  /\ queue' \in Seq(Submissions) /\ late' \in Seq(Submissions)
         /\ Range(queue') \cup Range(late') = Range(queue) \cup Range(late) \cup {s}
         /\ QueuedOnce'
<1>1. queue \in Seq(Submissions) /\ late \in Seq(Submissions) BY DEF TypeOK
<1>2. \A o \in Oids : Creator(s, o) =>
        /\ \A i \in DOMAIN queue : ~ Creator(queue[i], o)
        /\ \A i \in DOMAIN late : ~ Creator(late[i], o)
  BY DEF Queued, Range
<1>3. CASE queue' = Append(queue, s) /\ late' = late
  <2>1. /\ queue' \in Seq(Submissions) /\ DOMAIN queue' = DOMAIN queue \cup {Len(queue) + 1}
        /\ \A i \in DOMAIN queue : queue'[i] = queue[i]
        /\ queue'[Len(queue) + 1] = s
        /\ Range(queue') = Range(queue) \cup {s}
    BY <1>1, <1>3, AppendFacts
  <2>2. QueuedOnce' BY <1>2, <1>3, <2>1 DEF QueuedOnce, Creator
  <2> QED BY <1>1, <1>3, <2>1, <2>2
<1>4. CASE late' = Append(late, s) /\ queue' = queue
  <2>1. /\ late' \in Seq(Submissions) /\ DOMAIN late' = DOMAIN late \cup {Len(late) + 1}
        /\ \A i \in DOMAIN late : late'[i] = late[i]
        /\ late'[Len(late) + 1] = s
        /\ Range(late') = Range(late) \cup {s}
    BY <1>1, <1>4, AppendFacts
  <2>2. QueuedOnce' BY <1>2, <1>4, <2>1 DEF QueuedOnce, Creator
  <2> QED BY <1>1, <1>4, <2>1, <2>2
<1> QED BY <1>3, <1>4 DEF SafePut

\* A put of the strategy's, with the orders it names for the first time.
LEMMA PuttingStep ==
  ASSUME Inv, Waiting, NEW s \in Submissions, SafePut(s),
         as' \in [Oids -> Creates \cup {"none"}], requests' \in Nat,
         \A o \in Oids : as[o] # "none" => as'[o] = as[o],
         \A o \in Oids : Creator(s, o) => as[o] = "none",
         \A o \in Oids : as[o] = "none" => (as'[o] # "none" <=> Creator(s, o)),
         WellFormed(s)'
  PROVE  Inv'
<1> USE DEF Inv
<1>1. \A o \in Oids : Creator(s, o) => ~ Queued(o) BY DEF MadeOnce
<1>2. /\ queue' \in Seq(Submissions) /\ late' \in Seq(Submissions)
      /\ Range(queue') \cup Range(late') = Range(queue) \cup Range(late) \cup {s}
      /\ QueuedOnce'
  BY <1>1, Putting
<1>3. \A o \in Oids : Queued(o)' <=> Queued(o) \/ Creator(s, o) BY <1>2 DEF Queued, Creator
<1>4. \A o \in Oids : as[o] = "none" => ~ Queued(o) BY DEF MadeOnce
<1>5. ASSUME NEW x \in Range(queue) \cup Range(late) PROVE WellFormed(x)'
  <2>1. WellFormed(x) BY DEF WellSubmitted
  <2>2. x \in Submissions
    <3>1. queue \in Seq(Submissions) /\ late \in Seq(Submissions) BY DEF TypeOK
    <3>2. /\ \A i \in DOMAIN queue : queue[i] \in Submissions
          /\ \A i \in DOMAIN late : late[i] \in Submissions
      BY <3>1, ElementType, Zenon
    <3> QED BY <1>5, <3>2 DEF Range
  <2>3. Range(x.legs) \subseteq Oids
    <3>1. x.legs \in Seq(Oids) BY <2>2 DEF Submissions
    <3>2. \A i \in DOMAIN x.legs : x.legs[i] \in Oids BY <3>1, ElementType, Zenon
    <3> QED BY <3>2 DEF Range
  <2>4. \A y \in Creates : y # "none" BY DEF Creates
  <2>5. account' = account BY DEF Waiting
  <2>6. /\ SweepsNatively' <=> SweepsNatively
        /\ OnHyperliquid' <=> OnHyperliquid
    BY <2>5, AccountKept
  <2> QED BY <2>1, <2>3, <2>4, <2>6 DEF WellFormed
<1>6. WellSubmitted' BY <1>2, <1>5 DEF WellSubmitted
<1> QED BY <1>2, <1>3, <1>4, <1>6, WaitingStep

\* A create of the strategy preserves the invariant.
LEMMA SubmitCreateStep == ASSUME Inv, NEW o \in Singles, SubmitCreate(o) PROVE Inv'
<1>0. o \in Oids /\ CreateOps \subseteq Creates BY VenueOrdersAssumption
<1>1. PICK op \in CreateOps \ {"batch"} :
        as' = [as EXCEPT ![o] = op] /\ SafePut([op |-> op, legs |-> <<o>>, by |-> "given"])
  BY DEF SubmitCreate
<1> DEFINE s == [op |-> op, legs |-> <<o>>, by |-> "given"]
<1>2. op \in Creates /\ op # "none" BY <1>0, <1>1 DEF Creates
<1>3. <<o>> \in Seq(Oids) /\ Range(<<o>>) = {o} BY <1>0, OneFacts
<1>4. s \in Submissions /\ s.op = op /\ s.legs = <<o>> /\ s.by = "given"
  BY <1>2, <1>3 DEF Submissions, Directions
<1>5. as \in [Oids -> Creates \cup {"none"}] /\ requests \in Nat /\ as[o] = "none"
  BY DEF Inv, TypeOK, SubmitCreate
<1>6. Waiting /\ requests' = requests BY DEF Waiting, SubmitCreate, localVars, venueVars
<1>7. SafePut(s) BY <1>1
<1> HIDE DEF s
<1>8. as' \in [Oids -> Creates \cup {"none"}] /\ as'[o] = op /\ \A p \in Oids : p # o => as'[p] = as[p]
  BY <1>0, <1>1, <1>2, <1>5
<1>9. \A p : Creator(s, p) <=> p = o BY <1>2, <1>3, <1>4 DEF Creator
<1>10. WellFormed(s)'
  <2>1. op \notin Requests BY <1>2 DEF Requests, Creates
  <2>2. op # "cancel_all" BY <2>1 DEF Requests
  <2> QED BY <1>0, <1>1, <1>2, <1>3, <1>4, <1>8, <2>2 DEF WellFormed
<1> QED BY <1>2, <1>4, <1>5, <1>6, <1>7, <1>8, <1>9, <1>10, PuttingStep

\* A batch of the strategy preserves the invariant.
LEMMA SubmitBatchStep == ASSUME Inv, SubmitBatch PROVE Inv'
<1> DEFINE s == [op |-> "batch", legs |-> BatchOf, by |-> "given"]
<1>0. BatchOf \in Seq(Oids) BY VenueOrdersAssumption
<1>1. /\ \A o \in Range(BatchOf) : as[o] = "none"
      /\ as' = [o \in Oids |-> IF o \in Range(BatchOf) THEN "batch" ELSE as[o]]
      /\ SafePut(s)
  BY DEF SubmitBatch
<1>4. s \in Submissions /\ s.op = "batch" /\ s.legs = BatchOf /\ s.by = "given"
  BY <1>0 DEF Submissions, Directions, Creates
<1>5. as \in [Oids -> Creates \cup {"none"}] /\ requests \in Nat BY DEF Inv, TypeOK
<1>6. Waiting /\ requests' = requests BY DEF Waiting, SubmitBatch, localVars, venueVars
<1> HIDE DEF s
<1>8. as' \in [Oids -> Creates \cup {"none"}] BY <1>1, <1>5 DEF Creates
<1>9. \A p : Creator(s, p) <=> p \in Range(BatchOf) BY <1>4 DEF Creator, Creates
<1>10. WellFormed(s)' BY <1>1, <1>4, BatchIds DEF WellFormed
<1> QED BY <1>1, <1>4, <1>5, <1>6, <1>8, <1>9, <1>10, PuttingStep

\* A cancel, sweep or modify of the strategy preserves the invariant.
LEMMA SubmitRequestStep == ASSUME Inv, NEW o \in Oids, SubmitRequest(o) PROVE Inv'
<1>0. RequestOps \subseteq Requests BY VenueOrdersAssumption
<1>1. PICK op \in RequestOps, by \in {"given", "heard"} :
        /\ op = "cancel_all" => SweepsNatively
        /\ by = "heard" => OnHyperliquid
        /\ SafePut([op |-> op, legs |-> <<o>>, by |-> by])
  BY DEF SubmitRequest
<1> DEFINE s == [op |-> op, legs |-> <<o>>, by |-> by]
<1>2. op \in Requests /\ op \notin Creates /\ op # "batch" BY <1>0, <1>1 DEF Creates, Requests
<1>3. <<o>> \in Seq(Oids) BY OneFacts
<1>4. s \in Submissions /\ s.op = op /\ s.legs = <<o>> /\ s.by = by
  BY <1>1, <1>2, <1>3 DEF Submissions, Directions
<1>a. as[o] # "none" /\ as' = as /\ requests' = requests + 1 BY DEF SubmitRequest
<1>b. as \in [Oids -> Creates \cup {"none"}] /\ requests \in Nat BY DEF Inv, TypeOK
<1>c. requests' \in Nat BY <1>a, <1>b
<1>5. as \in [Oids -> Creates \cup {"none"}] /\ requests' \in Nat /\ as[o] # "none" /\ as' = as
  BY <1>a, <1>b, <1>c, Zenon
<1>6. Waiting BY DEF Waiting, SubmitRequest, localVars, venueVars
<1>7. SafePut(s) BY <1>1
<1> HIDE DEF s
<1>9. \A p : ~ Creator(s, p) BY <1>2, <1>4 DEF Creator
<1>10. WellFormed(s)'
  <2>1. /\ SweepsNatively' <=> SweepsNatively
        /\ OnHyperliquid' <=> OnHyperliquid
    BY <1>6, AccountKept DEF Waiting
  <2> QED BY <1>1, <1>2, <1>4, <1>5, <2>1 DEF WellFormed
<1> QED BY <1>4, <1>5, <1>6, <1>7, <1>9, <1>10, PuttingStep

\* The task of a put that found the queue full preserves the invariant.
LEMMA FlushLateStep == ASSUME Inv, FlushLate PROVE Inv'
<1> USE DEF Inv
<1>1. /\ late # <<>> /\ queue' = Append(queue, Head(late)) /\ late' = Tail(late)
      /\ as' = as /\ requests' = requests /\ Waiting
  BY DEF FlushLate, Waiting, localVars, venueVars
<1>2. queue \in Seq(Submissions) /\ late \in Seq(Submissions) /\ requests \in Nat
      /\ as \in [Oids -> Creates \cup {"none"}]
  BY DEF TypeOK
<1>3. /\ Head(late) \in Submissions /\ Head(late) = late[1] /\ 1 \in DOMAIN late
      /\ late' \in Seq(Submissions)
      /\ \A i \in DOMAIN late' : i \in Nat \ {0} /\ i + 1 \in DOMAIN late /\ late'[i] = late[i + 1]
      /\ Range(late) = {Head(late)} \cup Range(late')
  BY <1>1, <1>2, TailFacts
<1>4. /\ queue' \in Seq(Submissions) /\ DOMAIN queue' = DOMAIN queue \cup {Len(queue) + 1}
      /\ \A i \in DOMAIN queue : queue'[i] = queue[i]
      /\ queue'[Len(queue) + 1] = Head(late)
      /\ Range(queue') = Range(queue) \cup {Head(late)}
  BY <1>1, <1>2, <1>3, AppendFacts
<1>5. Range(queue') \cup Range(late') = Range(queue) \cup Range(late) BY <1>3, <1>4
<1>6. \A o \in Oids : Queued(o)' <=> Queued(o) BY <1>5 DEF Queued, Creator
<1>7. QueuedOnce'
  <2>1. ASSUME NEW o \in Oids
        PROVE  /\ \A i, j \in DOMAIN queue' : Creator(queue'[i], o) /\ Creator(queue'[j], o) => i = j
               /\ \A i, j \in DOMAIN late' : Creator(late'[i], o) /\ Creator(late'[j], o) => i = j
               /\ \A i \in DOMAIN queue', j \in DOMAIN late' :
                    ~ (Creator(queue'[i], o) /\ Creator(late'[j], o))
    <3>1. /\ \A i, j \in DOMAIN queue : Creator(queue[i], o) /\ Creator(queue[j], o) => i = j
          /\ \A i, j \in DOMAIN late : Creator(late[i], o) /\ Creator(late[j], o) => i = j
          /\ \A i \in DOMAIN queue, j \in DOMAIN late : ~ (Creator(queue[i], o) /\ Creator(late[j], o))
      BY DEF QueuedOnce
    <3>2. \A i, j \in DOMAIN queue' : Creator(queue'[i], o) /\ Creator(queue'[j], o) => i = j
      BY <1>3, <1>4, <3>1
    <3>3. \A i, j \in DOMAIN late' : Creator(late'[i], o) /\ Creator(late'[j], o) => i = j
      <4>1. ASSUME NEW i \in DOMAIN late', NEW j \in DOMAIN late',
                   Creator(late'[i], o), Creator(late'[j], o)
            PROVE  i = j
        <5>1. i + 1 = j + 1 BY <1>3, <3>1, <4>1
        <5> QED BY <1>3, <5>1
      <4> QED BY <4>1
    <3>4. \A i \in DOMAIN queue', j \in DOMAIN late' : ~ (Creator(queue'[i], o) /\ Creator(late'[j], o))
      <4>1. ASSUME NEW i \in DOMAIN queue', NEW j \in DOMAIN late',
                   Creator(queue'[i], o), Creator(late'[j], o)
            PROVE  FALSE
        <5>1. j + 1 \in DOMAIN late /\ j \in Nat \ {0} /\ Creator(late[j + 1], o) BY <1>3, <4>1
        <5>2. CASE i \in DOMAIN queue BY <1>4, <3>1, <4>1, <5>1, <5>2
        <5>3. CASE i = Len(queue) + 1
          <6>1. Creator(late[1], o) BY <1>3, <1>4, <4>1, <5>3
          <6>2. j + 1 = 1 BY <1>3, <3>1, <5>1, <6>1
          <6> QED BY <5>1, <6>2
        <5> QED BY <1>4, <5>2, <5>3
      <4> QED BY <4>1
    <3> QED BY <3>2, <3>3, <3>4
  <2> QED BY <2>1 DEF QueuedOnce, Creator
<1>8. WellSubmitted'
  <2>1. /\ SweepsNatively' <=> SweepsNatively
        /\ OnHyperliquid' <=> OnHyperliquid
    BY <1>1, AccountKept DEF Waiting
  <2> QED BY <1>1, <1>5, <2>1 DEF WellSubmitted, WellFormed
<1>9. \A o \in Oids : as[o] = "none" => ~ Queued(o) BY DEF MadeOnce
<1> QED BY <1>1, <1>2, <1>3, <1>4, <1>6, <1>7, <1>8, <1>9, WaitingStep

-----------------------------------------------------------------------------
(* The venue, and answers that are lost.                                    *)

\* The kinds of call.
LEMMA Makers == Creating \ Stopping = Creates /\ Creates \cap Stopping = {} /\ Creates \cap Requests = {}
                /\ Stopping \cap Requests = {}
BY DEF Creating, Stopping, Creates, Requests

\* An order has a create on its way when a call makes it.
LEMMA MakingUnderway ==
  \A o : CreateUnderway(o) <=> \E c \in calls : Making(c, o)
BY Makers DEF CreateUnderway, Making, Legs

\* The loss of an answer preserves the invariant.
LEMMA LoseAnswerStep == ASSUME Inv, NEW c \in calls, LoseAnswer(c) PROVE Inv'
<1> USE DEF Inv
<1>0. /\ calls' = calls \ {c} /\ account' = account /\ ticket' = ticket /\ as' = as
      /\ requests' = requests /\ queue' = queue /\ late' = late /\ dead' = dead
      /\ exch' = exch /\ canceling' = canceling /\ feed' = feed /\ unclear' = unclear \cup Legs(c)
      /\ strayed' = strayed
      /\ registered' = registered /\ tmpOrders' = tmpOrders /\ shown' = shown /\ told' = told
  BY DEF LoseAnswer, clientVars, venueVars, localVars
<1>a. calls' \subseteq calls /\ unclear \subseteq unclear' BY <1>0
<1>b. Legs(c) \subseteq Oids BY CallTypes
<1>e. \A o \in Oids : Queued(o)' <=> Queued(o) BY <1>0 DEF Queued, Creator
<1>f. \A o \in Oids : CreateUnderway(o)' => CreateUnderway(o) BY <1>a DEF CreateUnderway
<1>g. \A o \in Oids : \A w : AskedFor(o, w) => AskedFor(o, w)' BY <1>0, OrderKept
<1>1. TypeOK' BY <1>0, <1>a, <1>b DEF TypeOK
<1>2. WellSubmitted' BY <1>0, AccountKept DEF WellSubmitted, WellFormed
<1>3. QueuedOnce' BY <1>0 DEF QueuedOnce
<1>4. MadeOnce' BY <1>0, <1>a, <1>e, <1>f DEF MadeOnce
<1>5. WellCalled'
  <2>1. ASSUME NEW d \in calls, d.op \in Creates PROVE CreateCall(d)'
    <3>1. CreateCall(d) BY <2>1 DEF WellCalled
    <3>2. \A i \in DOMAIN d.legs : d.legs[i] \in Oids BY <2>1, CallTypes
    <3> QED BY <1>0, <1>a, <1>g, <3>1, <3>2, AccountKept DEF CreateCall, Legs
  <2>2. ASSUME NEW d \in calls, d.op \in Requests PROVE RequestCall(d)'
    BY <1>0, <1>a, <2>2, AccountKept DEF WellCalled, RequestCall
  <2> QED BY <1>a, <2>1, <2>2 DEF WellCalled
<1>6. WellReported' BY <1>0, AccountKept DEF WellReported, WorkedOn
<1>7. FirstReported' BY <1>0, AccountKept DEF FirstReported, WorkedOn
<1>8. RightWires' BY <1>0, <1>g DEF RightWires, Takeable
<1>9. PendingIsThere' BY <1>0 DEF PendingIsThere
<1>10. FailedIsNot'
  <2>2. \A o \in Oids : FailsAsOne(o) => FailsAsOne(o)' BY <1>0, FailsAsOneKept
  <2> QED BY <1>0, <1>a, <1>e, <1>f, <2>2 DEF FailedIsNot, IsLive
<1>11. Registered' BY <1>0, <1>e, AccountKept DEF Registered
<1>12. Settled'
  <2>1. \A o \in Oids : CreateUnderway(o) => CreateUnderway(o)' \/ o \in unclear'
    BY <1>0 DEF CreateUnderway
  <2>2. \A o \in Oids : as[o] = "none" \/ (Unspoken(o) => Unspoken(o)')
    BY <1>0, OrderKept DEF TypeOK
  <2> QED BY <1>0, <1>a, <1>e, <2>1, <2>2 DEF Settled
<1>13. ReportedAsAsked'
  <2>2. \A o \in Oids : MixedBatch(o) => MixedBatch(o)' BY <1>0, OrderKept
  <2> QED BY <1>0, <2>2 DEF ReportedAsAsked
<1>14. EveryRequestReachesItsOrder'
  <2>1. \A m \in strayed : m[1] \in Oids BY DEF TypeOK
  <2>2. \A o \in Oids : MixedBatch(o) => MixedBatch(o)' BY <1>0, OrderKept
  <2> QED BY <1>0, <2>1, <2>2, AccountKept DEF EveryRequestReachesItsOrder
<1>15. Unheard' BY <1>0 DEF Unheard
<1> QED BY <1>1, <1>2, <1>3, <1>4, <1>5, <1>6, <1>7, <1>8, <1>9, <1>10, <1>11, <1>12, <1>13, <1>14, <1>15

\* What happens to a live order, and the report of it.
LEMMA BecomesStep ==
  ASSUME Inv, NEW o \in Oids, NEW state \in States, NEW e \in Events, Becomes(o, state, e),
         exch[o].state \in {"taken", "new", "partial"},
         exch[o].state = "taken" => e \in {"new", "rejected"},
         state \notin {"none", "refused", "taken"}, e = "rejected" => state = "rejected"
  PROVE  Inv'
<1> USE DEF Inv
<1>0. /\ calls' = calls /\ account' = account /\ ticket' = ticket /\ as' = as
      /\ requests' = requests /\ queue' = queue /\ late' = late /\ dead' = dead
      /\ canceling' = canceling /\ unclear' = unclear /\ strayed' = strayed
      /\ registered' = registered /\ tmpOrders' = tmpOrders /\ shown' = shown /\ told' = told
      /\ exch' = [exch EXCEPT ![o].state = state]
  BY DEF Becomes, clientVars, localVars
<1>1. PICK name \in NativeStates[e] : feed' = Append(feed, [oid |-> o, state |-> name])
  BY DEF Becomes
<1>2. Placed BY TypePlaced
<1>3. /\ name \in Names
      /\ name \in FailedNames => e = "rejected"
      /\ name \in ExpiredNames => e = "expired" /\ (OnBinance \/ account \in {"okx", "bybit"})
      /\ e \in {"new", "rejected"} /\ (OnBinance \/ account \in {"okx", "bybit"}) => name \in FirstNames
  BY <1>2, NamesOfEvents DEF Placed
<1>4. exch \in [Oids -> [state : States, wire : Wires]] /\ feed \in Seq([oid : Oids, state : Names])
  BY DEF TypeOK
<1>5. /\ exch' \in [Oids -> [state : States, wire : Wires]]
      /\ exch'[o].state = state /\ \A p \in Oids : exch'[p].wire = exch[p].wire
      /\ \A p \in Oids : p # o => exch'[p] = exch[p]
  BY <1>0, <1>4
<1>6. [oid |-> o, state |-> name] \in [oid : Oids, state : Names] BY <1>3
<1>7. /\ feed' \in Seq([oid : Oids, state : Names])
      /\ DOMAIN feed' = DOMAIN feed \cup {Len(feed) + 1}
      /\ \A i \in DOMAIN feed : feed'[i] = feed[i]
      /\ feed'[Len(feed) + 1].oid = o /\ feed'[Len(feed) + 1].state = name
  <2>1. /\ feed' \in Seq([oid : Oids, state : Names])
        /\ DOMAIN feed' = DOMAIN feed \cup {Len(feed) + 1}
        /\ \A i \in DOMAIN feed : feed'[i] = feed[i]
        /\ feed'[Len(feed) + 1] = [oid |-> o, state |-> name]
    BY <1>1, <1>4, <1>6, AppendFacts
  <2> QED BY <2>1
<1>8. \A i \in DOMAIN feed : feed[i].oid \in Oids BY FeedTypes
<1>9. DOMAIN feed = 1 .. Len(feed) /\ Len(feed) \in Nat BY <1>4
<1>a. \A p \in Oids : /\ exch[p].state \in {"none", "refused"} <=> exch'[p].state \in {"none", "refused"}
                      /\ exch[p].state = "none" <=> exch'[p].state = "none"
                      /\ exch[p].state = "refused" <=> exch'[p].state = "refused"
  BY <1>5
<1>e. \A p \in Oids : Queued(p)' <=> Queued(p) BY <1>0 DEF Queued, Creator
<1>f. \A p \in Oids : CreateUnderway(p)' <=> CreateUnderway(p) BY <1>0 DEF CreateUnderway
<1>g. \A p \in Oids : \A w : AskedFor(p, w) => AskedFor(p, w)' BY <1>0, OrderKept
<1>10. TypeOK' BY <1>0, <1>5, <1>7 DEF TypeOK
<1>11. WellSubmitted' BY <1>0, AccountKept DEF WellSubmitted, WellFormed
<1>12. QueuedOnce' BY <1>0 DEF QueuedOnce
<1>13. MadeOnce' BY <1>0, <1>a, <1>e, <1>f DEF MadeOnce
<1>14. WellCalled'
  <2>1. ASSUME NEW d \in calls, d.op \in Creates PROVE CreateCall(d)'
    <3>1. CreateCall(d) BY <2>1 DEF WellCalled
    <3>2. \A i \in DOMAIN d.legs : d.legs[i] \in Oids BY <2>1, CallTypes
    <3> QED BY <1>0, <1>a, <1>g, <3>1, <3>2, AccountKept DEF CreateCall, Legs
  <2>2. ASSUME NEW d \in calls, d.op \in Requests PROVE RequestCall(d)'
    <3>1. RequestCall(d) BY <2>2 DEF WellCalled
    <3>2. Head(d.legs) \in Oids BY <3>1, OneFacts DEF RequestCall
    <3> QED BY <1>0, <1>a, <3>1, <3>2, AccountKept DEF RequestCall
  <2> QED BY <1>0, <2>1, <2>2 DEF WellCalled
<1>15. WellReported'
  <2>1. ASSUME NEW i \in DOMAIN feed
        PROVE  /\ WorkedOn(feed[i].oid)' /\ \E x \in Events : feed[i].state \in NativeStates'[x]
               /\ feed[i].state \in FailedNames => exch'[feed[i].oid].state = "rejected"
               /\ feed[i].state \in ExpiredNames =>
                    \/ told[feed[i].oid] # NoStatus
                    \/ \E j \in 1 .. i - 1 : feed'[j].oid = feed[i].oid /\ feed'[j].state \in FirstNames
    <3>1. /\ WorkedOn(feed[i].oid) /\ \E x \in Events : feed[i].state \in NativeStates[x]
          /\ feed[i].state \in FailedNames => exch[feed[i].oid].state = "rejected"
          /\ feed[i].state \in ExpiredNames =>
               \/ told[feed[i].oid] # NoStatus
               \/ \E j \in 1 .. i - 1 : feed[j].oid = feed[i].oid /\ feed[j].state \in FirstNames
      BY DEF WellReported
    <3>2. WorkedOn(feed[i].oid)' BY <1>5, <1>7, <1>8, <3>1 DEF WorkedOn
    <3>3. feed[i].state \in FailedNames => exch'[feed[i].oid].state = "rejected" BY <1>5, <1>8, <3>1
    <3>4. \A j \in 1 .. i - 1 : feed'[j] = feed[j] BY <1>7, <1>9
    <3> QED BY <1>0, <3>1, <3>2, <3>3, <3>4, AccountKept
  <2>2. LET i == Len(feed) + 1 IN
        /\ WorkedOn(o)' /\ \E x \in Events : name \in NativeStates'[x]
        /\ name \in FailedNames => exch'[o].state = "rejected"
        /\ name \in ExpiredNames =>
             \/ told[o] # NoStatus
             \/ \E j \in 1 .. i - 1 : feed'[j].oid = o /\ feed'[j].state \in FirstNames
    <3>1. WorkedOn(o)' BY <1>5 DEF WorkedOn
    <3>2. name \in NativeStates'[e] BY <1>0, AccountKept
    <3>3. name \in FailedNames => exch'[o].state = "rejected" BY <1>3, <1>5
    <3>4. ASSUME name \in ExpiredNames
          PROVE  \/ told[o] # NoStatus
                 \/ \E j \in 1 .. Len(feed) : feed'[j].oid = o /\ feed'[j].state \in FirstNames
      <4>1. WorkedOn(o) BY <1>3, <3>4 DEF WorkedOn
      <4>2. told[o] # NoStatus \/ \E j \in DOMAIN feed : feed[j].oid = o /\ feed[j].state \in FirstNames
        BY <1>3, <3>4, <4>1 DEF FirstReported
      <4> QED BY <1>7, <1>9, <4>2
    <3>5. Len(feed) + 1 - 1 = Len(feed) BY <1>9
    <3> QED BY <3>1, <3>2, <3>3, <3>4, <3>5
  <2> QED BY <1>0, <1>7, <2>1, <2>2 DEF WellReported
<1>16. FirstReported'
  <2>1. ASSUME NEW p \in Oids, WorkedOn(p)', OnBinance \/ account \in {"okx", "bybit"}
        PROVE  told[p] # NoStatus \/ \E j \in DOMAIN feed' : feed'[j].oid = p /\
                 feed'[j].state \in FirstNames
    <3>1. CASE WorkedOn(p)
      <4>1. told[p] # NoStatus \/ \E j \in DOMAIN feed : feed[j].oid = p /\ feed[j].state \in FirstNames
        BY <2>1, <3>1 DEF FirstReported
      <4> QED BY <1>7, <4>1
    <3>2. CASE ~ WorkedOn(p)
      <4>1. p = o BY <1>5, <2>1, <3>2 DEF WorkedOn
      <4>2. name \in FirstNames BY <1>3, <2>1, <3>2, <4>1 DEF WorkedOn
      <4> QED BY <1>7, <4>1, <4>2
    <3> QED BY <3>1, <3>2
  <2> QED BY <1>0, <2>1, AccountKept DEF FirstReported
<1>17. RightWires' BY <1>0, <1>5, <1>a, <1>g DEF RightWires, Takeable
<1>18. PendingIsThere' BY <1>0, <1>a DEF PendingIsThere
<1>19. FailedIsNot'
  <2>1. \A p \in Oids : exch[p].state = "refused" => exch'[p].state = "refused" BY <1>a
  <2>2. \A p \in Oids : FailsAsOne(p) => FailsAsOne(p)' BY <1>0, <2>1, FailsAsOneKept
  <2> QED BY <1>0, <1>5, <1>e, <1>f, <2>2 DEF FailedIsNot, IsLive
<1>20. Registered' BY <1>0, <1>e, AccountKept DEF Registered
<1>21. Settled'
  <2>1. \A p \in Oids : p # o => as[p] = "none" \/ (Unspoken(p) => Unspoken(p)')
    BY <1>0, <1>5, OrderKept DEF TypeOK
  <2>2. ~ Unspoken(o) BY DEF Unspoken
  <2> QED BY <1>0, <1>a, <1>e, <1>f, <2>1, <2>2 DEF Settled
<1>22. ReportedAsAsked'
  <2>2. \A p \in Oids : MixedBatch(p) => MixedBatch(p)' BY <1>0, OrderKept
  <2> QED BY <1>0, <2>2 DEF ReportedAsAsked
<1>23. EveryRequestReachesItsOrder'
  <2>1. \A m \in strayed : m[1] \in Oids BY DEF TypeOK
  <2>2. \A p \in Oids : MixedBatch(p) => MixedBatch(p)' BY <1>0, OrderKept
  <2> QED BY <1>0, <2>1, <2>2, AccountKept DEF EveryRequestReachesItsOrder
<1>24. Unheard' BY <1>0 DEF Unheard
<1> QED
  BY <1>10, <1>11, <1>12, <1>13, <1>14, <1>15, <1>16, <1>17, <1>18, <1>19, <1>20, <1>21, <1>22, <1>23, <1>24

\* A move of the venue with an order it works preserves the invariant.
LEMMA VenueMovesStep == ASSUME Inv, NEW o \in Worked, VenueMoves(o) PROVE Inv'
<1>0. o \in Oids BY VenueOrdersAssumption
<1> DEFINE w == exch[o].state
<1>1. CASE w = "taken" /\ Becomes(o, "new", "new")
  BY <1>0, <1>1, BecomesStep DEF States, Events
<1>2. CASE w = "taken" /\ Becomes(o, "rejected", "rejected")
  BY <1>0, <1>2, BecomesStep DEF States, Events
<1>3. CASE w = "new" /\ Becomes(o, "partial", "partial")
  BY <1>0, <1>3, BecomesStep DEF States, Events
<1>4. CASE w \in {"new", "partial"} /\ Becomes(o, "filled", "filled")
  BY <1>0, <1>4, BecomesStep DEF States, Events
<1>5. CASE w \in {"new", "partial"} /\ Becomes(o, "expired", "expired")
  BY <1>0, <1>5, BecomesStep DEF States, Events
<1>6. CASE w \in {"new", "partial"} /\ Becomes(o, "canceled", "canceled")
  BY <1>0, <1>6, BecomesStep DEF States, Events
<1> QED BY <1>1, <1>2, <1>3, <1>4, <1>5, <1>6 DEF VenueMoves

-----------------------------------------------------------------------------
(* The venue's handling of calls.                                           *)

\* A call with the venue's answer.
LEMMA AnsweredCall ==
  ASSUME TypeOK, NEW c \in calls, NEW taken \in Seq(BOOLEAN), NEW st \in {"answered", "broken"},
         Answered(c, taken, st)
  PROVE  \E x \in Calls :
           /\ calls' = (calls \ {c}) \cup {x}
           /\ x.op = c.op /\ x.legs = c.legs /\ x.wires = c.wires /\ x.by = c.by
           /\ x.taken = taken /\ x.st = st /\ Legs(x) = Legs(c)
<1> DEFINE x == [c EXCEPT !.taken = taken, !.st = st]
<1>1. c \in Calls BY CallTypes
<1>2. /\ x \in Calls
      /\ x.op = c.op /\ x.legs = c.legs /\ x.wires = c.wires /\ x.by = c.by
      /\ x.taken = taken /\ x.st = st
  BY <1>1 DEF Calls
<1>3. calls' = (calls \ {c}) \cup {x} BY DEF Answered
<1> HIDE DEF x
<1> QED BY <1>2, <1>3 DEF Legs

\* The venue's handling of a request preserves the invariant.
LEMMA VenueRequestsStep == ASSUME Inv, NEW c \in calls, VenueRequests(c) PROVE Inv'
<1> USE DEF Inv
<1>1. PICK done \in BOOLEAN, st \in {"answered", "broken"} :
        LET o == Head(c.legs) IN
        /\ c.op # "cancel_all" /\ done => Finds(c, o)
        /\ st = "broken" => MayBreak(c)
        /\ Answered(c, <<done>>, st)
        /\ canceling' =
             CASE done /\ c.op \in {"cancel", "cancel_ws"} -> canceling \cup {o}
               [] done /\ c.op = "cancel_all" -> canceling \cup {p \in Oids : Finds(c, p)}
               [] OTHER -> canceling
        /\ unclear' = IF c.op = "modify" /\ (st = "broken" \/ ~ done)
                      THEN unclear \cup {o} ELSE unclear
        /\ strayed' = IF IsLive(o) /\ ~ Finds(c, o) THEN strayed \cup {<<o, c.by>>} ELSE strayed
  BY DEF VenueRequests
<1>0. /\ account' = account /\ ticket' = ticket /\ as' = as
      /\ requests' = requests /\ queue' = queue /\ late' = late /\ dead' = dead
      /\ exch' = exch /\ feed' = feed
      /\ registered' = registered /\ tmpOrders' = tmpOrders /\ shown' = shown /\ told' = told
      /\ c.op \in Requests /\ c.st = "sent"
  BY DEF VenueRequests, clientVars, localVars
<1>2. RequestCall(c) BY <1>0 DEF WellCalled
<1>3. PICK o \in Oids : c.legs = <<o>> /\ as[o] # "none" BY <1>2 DEF RequestCall
<1>4. Head(c.legs) = o /\ c.by \in Directions BY <1>3, CallTypes, OneFacts
<1>5. <<done>> \in Seq(BOOLEAN) /\ DOMAIN <<done>> = {1} /\ <<done>>[1] = done OBVIOUS
<1>6. PICK x \in Calls :
        /\ calls' = (calls \ {c}) \cup {x}
        /\ x.op = c.op /\ x.legs = c.legs /\ x.wires = c.wires /\ x.by = c.by
        /\ x.taken = <<done>> /\ x.st = st /\ Legs(x) = Legs(c)
  <2>1. Answered(c, <<done>>, st) /\ TypeOK BY <1>1
  <2> DEFINE taken == <<done>>
  <2>2. taken \in Seq(BOOLEAN) /\ Answered(c, taken, st) BY <1>5, <2>1
  <2> HIDE DEF taken
  <2>3. \E x \in Calls :
          /\ calls' = (calls \ {c}) \cup {x}
          /\ x.op = c.op /\ x.legs = c.legs /\ x.wires = c.wires /\ x.by = c.by
          /\ x.taken = taken /\ x.st = st /\ Legs(x) = Legs(c)
    BY <2>1, <2>2, AnsweredCall
  <2> QED BY <2>3 DEF taken
<1>7. /\ unclear \subseteq unclear' /\ unclear' \subseteq unclear \cup {o}
      /\ c.op = "modify" /\ (st = "broken" \/ ~ done) => o \in unclear'
      /\ canceling' \subseteq Oids
  <2>1. canceling \subseteq Oids BY DEF TypeOK
  <2>2. canceling' \subseteq Oids BY <1>1, <1>4, <2>1
  <2> QED BY <1>1, <1>4, <2>2
<1>8. \A d \in calls' : ~ (d.op \in Requests) => d \in calls BY <1>0, <1>6
<1>9. \A d \in calls : ~ (d.op \in Requests) => d \in calls' BY <1>0, <1>6
<1>a. \A d : d.op \in Creates => d.op \notin Requests BY Makers
<1>e. \A p \in Oids : Queued(p)' <=> Queued(p) BY <1>0 DEF Queued, Creator
<1>f. \A p \in Oids : CreateUnderway(p)' <=> CreateUnderway(p)
  BY <1>8, <1>9, <1>a, Makers DEF CreateUnderway
<1>g. \A p \in Oids : \A w : AskedFor(p, w) => AskedFor(p, w)' BY <1>0, OrderKept
<1>h. strayed' \subseteq strayed \cup {<<o, c.by>>} BY <1>1, <1>4
<1>10. TypeOK'
  <2>1. strayed' \subseteq Oids \X Directions BY <1>h, <1>4 DEF TypeOK
  <2>2. calls' \subseteq Calls BY <1>6 DEF TypeOK
  <2> QED BY <1>0, <1>7, <2>1, <2>2 DEF TypeOK
<1>11. WellSubmitted' BY <1>0, AccountKept DEF WellSubmitted, WellFormed
<1>12. QueuedOnce' BY <1>0 DEF QueuedOnce
<1>13. MadeOnce'
  <2>1. \A p \in Oids : \A d, b \in calls' : Making(d, p) /\ Making(b, p) => d = b
    BY <1>8, <1>a DEF MadeOnce, Making
  <2> QED BY <1>0, <1>e, <1>f, <2>1 DEF MadeOnce
<1>14. WellCalled'
  <2>1. ASSUME NEW d \in calls, d.op \in Creates PROVE CreateCall(d)'
    <3>1. CreateCall(d) BY <2>1 DEF WellCalled
    <3>2. \A i \in DOMAIN d.legs : d.legs[i] \in Oids BY <2>1, CallTypes
    <3> QED BY <1>0, <1>7, <1>g, <3>1, <3>2, AccountKept DEF CreateCall, Legs
  <2>2. ASSUME NEW d \in calls, d.op \in Requests PROVE RequestCall(d)'
    BY <1>0, <1>7, <2>2, AccountKept DEF WellCalled, RequestCall
  <2>3. RequestCall(x)'
    <3>1. c.op = "modify" /\ st = "answered" /\ done => exch[o].state \notin {"none", "refused"}
      BY <1>1, <1>4 DEF Finds, IsLive
    <3>2. x.taken[1] = done /\ DOMAIN x.taken = {1} BY <1>5, <1>6
    <3> QED BY <1>0, <1>2, <1>3, <1>4, <1>6, <1>7, <3>1, <3>2, AccountKept DEF RequestCall
  <2>4. ASSUME NEW d \in calls', d.op \in Creates PROVE CreateCall(d)' BY <1>8, <1>a, <2>1, <2>4
  <2>5. ASSUME NEW d \in calls', d.op \in Requests PROVE RequestCall(d)' BY <1>6, <2>2, <2>3, <2>5
  <2> QED BY <2>4, <2>5 DEF WellCalled
<1>15. WellReported' BY <1>0, AccountKept DEF WellReported, WorkedOn
<1>16. FirstReported' BY <1>0, AccountKept DEF FirstReported, WorkedOn
<1>17. RightWires' BY <1>0, <1>g DEF RightWires, Takeable
<1>18. PendingIsThere' BY <1>0 DEF PendingIsThere
<1>19. FailedIsNot'
  <2>2. \A p \in Oids : FailsAsOne(p) => FailsAsOne(p)' BY <1>0, FailsAsOneKept
  <2> QED BY <1>0, <1>7, <1>e, <1>f, <2>2 DEF FailedIsNot, IsLive
<1>20. Registered' BY <1>0, <1>e, AccountKept DEF Registered
<1>21. Settled'
  <2>2. \A p \in Oids : as[p] = "none" \/ (Unspoken(p) => Unspoken(p)')
    BY <1>0, OrderKept DEF TypeOK
  <2> QED BY <1>0, <1>7, <1>e, <1>f, <2>2 DEF Settled
<1>22. ReportedAsAsked'
  <2>2. \A p \in Oids : MixedBatch(p) => MixedBatch(p)' BY <1>0, OrderKept
  <2> QED BY <1>0, <2>2 DEF ReportedAsAsked
<1>23. EveryRequestReachesItsOrder'
  <2>1. \A m \in strayed : m[1] \in Oids BY DEF TypeOK
  <2>2. \A p \in Oids : MixedBatch(p) => MixedBatch(p)' BY <1>0, OrderKept
  <2>3. ASSUME IsLive(o), ~ Finds(c, o) PROVE MixedBatch(o) \/ (OnHyperliquid /\ c.by = "given")
    <3>1. PICK p \in Products : (p = ticket[o].product \/ MixedBatch(o)) /\
                 exch[o].wire.route = <<account, p>>
      BY <2>3 DEF RightWires, IsLive, AskedFor
    <3>2. c.wires[1].route = <<account, ticket[o].product>> BY <1>2, <1>4 DEF RequestCall
    <3>3. CASE ~ KnowsId(c.by) BY <1>4, <3>3 DEF KnowsId, Directions
    <3>4. CASE exch[o].wire.route # c.wires[1].route BY <3>1, <3>2, <3>4
    <3> QED BY <2>3, <3>3, <3>4 DEF Finds
  <2>4. ASSUME NEW m \in strayed' PROVE MixedBatch(m[1]) \/ (OnHyperliquid /\ m[2] = "given")
    <3>1. CASE m \in strayed BY <3>1 DEF EveryRequestReachesItsOrder
    <3>2. CASE m \notin strayed
      <4>1. m = <<o, c.by>> /\ IsLive(o) /\ ~ Finds(c, o) BY <1>1, <1>4, <3>2
      <4> QED BY <2>3, <4>1
    <3> QED BY <3>1, <3>2
  <2>5. \A m \in strayed' : m[1] \in Oids BY <1>h, <2>1
  <2>6. OnHyperliquid' <=> OnHyperliquid BY <1>0, AccountKept
  <2> QED BY <2>2, <2>4, <2>5, <2>6 DEF EveryRequestReachesItsOrder
<1>24. Unheard' BY <1>0 DEF Unheard
<1> QED
  BY <1>10, <1>11, <1>12, <1>13, <1>14, <1>15, <1>16, <1>17, <1>18, <1>19, <1>20, <1>21, <1>22, <1>23, <1>24

\* The venue's handling of a create preserves the invariant.
LEMMA VenueCreatesStep == ASSUME Inv, NEW c \in calls, VenueCreates(c) PROVE Inv'
<1> USE DEF Inv
<1>1. PICK taken \in [DOMAIN c.legs -> BOOLEAN], st \in {"answered", "broken"} :
        /\ \A i \in DOMAIN c.legs : taken[i] => Takeable(c.legs[i])
        /\ Answered(c, taken, st)
        /\ exch' = IF c.op \in Stopping THEN exch
                   ELSE [o \in Oids |->
                     IF o \in Legs(c)
                     THEN [state |-> IF taken[LegOf(c, o)] THEN "taken" ELSE "refused",
                           wire |-> c.wires[LegOf(c, o)]]
                     ELSE exch[o]]
        /\ unclear' = IF st = "broken" /\ c.op \notin Stopping
                      THEN unclear \cup Legs(c) ELSE unclear
  BY DEF VenueCreates
<1>0. /\ account' = account /\ ticket' = ticket /\ as' = as
      /\ requests' = requests /\ queue' = queue /\ late' = late /\ dead' = dead
      /\ canceling' = canceling /\ feed' = feed /\ strayed' = strayed
      /\ registered' = registered /\ tmpOrders' = tmpOrders /\ shown' = shown /\ told' = told
      /\ c.op \in Creating /\ c.st = "sent"
  BY DEF VenueCreates, clientVars, localVars
<1>2. /\ c.legs \in Seq(Oids) /\ c.wires \in Seq(Wires) /\ Legs(c) \subseteq Oids
      /\ \A i \in DOMAIN c.legs : c.legs[i] \in Oids
  BY CallTypes
<1>3. taken \in Seq(BOOLEAN)
  <2>1. DOMAIN c.legs = 1 .. Len(c.legs) /\ Len(c.legs) \in Nat BY <1>2
  <2> QED BY <2>1
<1>4. PICK x \in Calls :
        /\ calls' = (calls \ {c}) \cup {x}
        /\ x.op = c.op /\ x.legs = c.legs /\ x.wires = c.wires /\ x.by = c.by
        /\ x.taken = taken /\ x.st = st /\ Legs(x) = Legs(c)
  BY <1>1, <1>3, AnsweredCall
<1> DEFINE made == IF c.op \in Stopping THEN {} ELSE Legs(c)
<1>5. made \subseteq Oids BY <1>2
<1>6. \A o \in made : Making(c, o) BY <1>0, Makers DEF Making, Legs
<1>7. \A o \in Oids : o \notin made => exch'[o] = exch[o]
  BY <1>1
<1>8. c.op \in Creates => CreateCall(c) BY DEF WellCalled
<1>b. c.op \in Creates <=> c.op \notin Stopping BY <1>0, Makers
<1>9. ASSUME NEW o \in made
      PROVE  /\ exch[o].state = "none" /\ LegOf(c, o) \in DOMAIN c.legs /\ c.legs[LegOf(c, o)] = o
             /\ exch'[o].state = IF taken[LegOf(c, o)] THEN "taken" ELSE "refused"
             /\ exch'[o].wire = c.wires[LegOf(c, o)]
             /\ AskedFor(o, exch'[o].wire) /\ exch'[o].wire \in Wires
             /\ as[o] # "none" /\ CreateUnderway(o) /\ ~ Queued(o)
  <2> DEFINE i == LegOf(c, o)
  <2>1. c.op \in Creates /\ o \in Legs(c) /\ o \in Oids BY <1>6, <1>5 DEF Making
  <2>2. i \in DOMAIN c.legs /\ c.legs[i] = o BY <2>1, LegFacts
  <2>3. exch'[o].state = (IF taken[i] THEN "taken" ELSE "refused") /\ exch'[o].wire = c.wires[i]
    BY <1>1, <2>1
  <2> HIDE DEF i
  <2>4. exch[o].state = "none" /\ AskedFor(o, c.wires[i]) /\ i \in DOMAIN c.wires
    BY <1>0, <1>8, <2>1, <2>2 DEF CreateCall
  <2>5. c.wires[i] \in Wires BY <1>2, <2>4, ElementType, Zenon
  <2>6. CreateUnderway(o) BY <1>6, MakingUnderway
  <2>7. as[o] # "none" BY <2>1, <2>6, CallTells
  <2>8. ~ Queued(o) BY <2>1, <2>6 DEF MadeOnce
  <2> QED BY <2>2, <2>3, <2>4, <2>5, <2>6, <2>7, <2>8 DEF i
<1>10. exch' \in [Oids -> [state : States, wire : Wires]]
  <2>1. exch \in [Oids -> [state : States, wire : Wires]] BY DEF TypeOK
  <2>2. CASE c.op \in Stopping BY <1>1, <2>1, <2>2
  <2>3. CASE c.op \notin Stopping
    <3>1. exch' = [o \in Oids |->
                     IF o \in Legs(c)
                     THEN [state |-> IF taken[LegOf(c, o)] THEN "taken" ELSE "refused",
                           wire |-> c.wires[LegOf(c, o)]]
                     ELSE exch[o]]
      BY <1>1, <2>3
    <3>2. ASSUME NEW o \in Legs(c)
          PROVE  [state |-> IF taken[LegOf(c, o)] THEN "taken" ELSE "refused",
                  wire |-> c.wires[LegOf(c, o)]] \in [state : States, wire : Wires]
      <4>1. c.wires[LegOf(c, o)] \in Wires BY <1>9, <2>3
      <4> QED BY <4>1 DEF States
    <3> QED BY <2>1, <3>1, <3>2
  <2> QED BY <2>2, <2>3
<1>11. unclear \subseteq unclear' /\ unclear' \subseteq Oids /\ (st = "broken" => made \subseteq unclear')
  BY <1>1, <1>2 DEF TypeOK
<1> HIDE DEF made
<1>a. /\ \A o \in Oids : exch[o].state # "none" => exch'[o] = exch[o]
      /\ \A o \in made : exch'[o].state \in {"taken", "refused"}
  BY <1>7, <1>9
<1>c. \A o \in Oids : Making(x, o) <=> Making(c, o) BY <1>4 DEF Making
<1>e. \A p \in Oids : Queued(p)' <=> Queued(p) BY <1>0 DEF Queued, Creator
<1>f. \A p \in Oids : CreateUnderway(p)' <=> CreateUnderway(p)
  BY <1>4 DEF CreateUnderway
<1>g. \A p \in Oids : \A w : AskedFor(p, w) => AskedFor(p, w)' BY <1>0, OrderKept
<1>20. TypeOK'
  <2>2. calls' \subseteq Calls BY <1>4 DEF TypeOK
  <2> QED BY <1>0, <1>10, <1>11, <2>2 DEF TypeOK
<1>21. WellSubmitted' BY <1>0, AccountKept DEF WellSubmitted, WellFormed
<1>22. QueuedOnce' BY <1>0 DEF QueuedOnce
<1>23. MadeOnce'
  <2>1. \A p \in Oids : \A d, b \in calls' : Making(d, p) /\ Making(b, p) => d = b
    BY <1>4, <1>c DEF MadeOnce
  <2>2. \A p \in Oids : (as[p] = "none" \/ Queued(p)) => exch'[p].state = "none"
    BY <1>7, <1>9 DEF MadeOnce
  <2> QED BY <1>0, <1>e, <1>f, <2>1, <2>2 DEF MadeOnce
<1>24. WellCalled'
  <2>1. ASSUME NEW d \in calls, d.op \in Creates, d # c PROVE CreateCall(d)'
    <3>1. CreateCall(d) BY <2>1 DEF WellCalled
    <3>2. \A i \in DOMAIN d.legs : d.legs[i] \in Oids BY <2>1, CallTypes
    <3>3. ASSUME NEW i \in DOMAIN d.legs PROVE exch'[d.legs[i]] = exch[d.legs[i]]
      <4>1. Making(d, d.legs[i]) BY <2>1, <3>3 DEF Making, Range
      <4>2. d.legs[i] \notin made BY <1>6, <2>1, <3>2, <4>1 DEF MadeOnce, made
      <4> QED BY <1>7, <3>2, <4>2
    <3> QED BY <1>0, <1>11, <1>g, <3>1, <3>2, <3>3, AccountKept DEF CreateCall, Legs
  <2>2. ASSUME NEW d \in calls, d.op \in Requests PROVE RequestCall(d)'
    <3>1. RequestCall(d) BY <2>2 DEF WellCalled
    <3>2. Head(d.legs) \in Oids BY <3>1, OneFacts DEF RequestCall
    <3>3. exch[Head(d.legs)].state # "none" => exch'[Head(d.legs)] = exch[Head(d.legs)] BY <1>a, <3>2
    <3> QED BY <1>0, <1>11, <3>1, <3>3, AccountKept DEF RequestCall
  <2>3. ASSUME c.op \in Creates PROVE CreateCall(x)'
    <3>1. CreateCall(c) BY <1>8, <2>3
    <3>2. \A i, j \in DOMAIN c.legs : c.legs[i] = c.legs[j] => i = j
      <4>1. CASE c.op = "batch"
        <5>1. c.legs = BatchOf BY <3>1, <4>1 DEF CreateCall
        <5> QED BY <5>1, VenueOrdersAssumption DEF IsInjective
      <4>2. CASE c.op # "batch"
        <5>1. PICK o \in Oids : c.legs = <<o>> BY <3>1, <4>2 DEF CreateCall
        <5> QED BY <5>1
      <4> QED BY <4>1, <4>2
    <3>3. ASSUME NEW i \in DOMAIN c.legs
          PROVE  /\ exch'[c.legs[i]].state = IF taken[i] THEN "taken" ELSE "refused"
                 /\ c.legs[i] \in made /\ taken[i] \in BOOLEAN
      <4>1. c.legs[i] \in made BY <1>b, <2>3, <3>3 DEF made, Legs, Range
      <4> DEFINE j == LegOf(c, c.legs[i])
      <4>2. j \in DOMAIN c.legs /\ c.legs[j] = c.legs[i]
            /\ exch'[c.legs[i]].state = IF taken[j] THEN "taken" ELSE "refused"
        BY <1>9, <4>1
      <4> HIDE DEF j
      <4>3. j = i BY <3>2, <4>2
      <4> QED BY <4>1, <4>2, <4>3
    <3>4. DOMAIN taken = DOMAIN c.legs OBVIOUS
    <3>5. st # "sent" OBVIOUS
    <3>6. \A i \in DOMAIN c.legs : AskedFor(c.legs[i], c.wires[i])' BY <1>2, <1>g, <3>1 DEF CreateCall
    <3>7. st = "broken" => \A i \in DOMAIN c.legs : c.legs[i] \in unclear' BY <1>11, <3>3
    <3>8. \A i \in DOMAIN c.legs : /\ exch'[c.legs[i]].state # "none"
                                   /\ taken[i] <=> exch'[c.legs[i]].state # "refused"
      BY <3>3
    <3>9. \A i \in DOMAIN c.legs :
            /\ as'[c.legs[i]] = c.op \/ (c.op = "create" /\ OnBinance /\ as'[c.legs[i]] # "none")
            /\ st = "sent" <=> exch'[c.legs[i]].state = "none"
            /\ st = "answered" => (taken[i] <=> exch'[c.legs[i]].state # "refused")
            /\ st = "broken" => c.legs[i] \in unclear'
      BY <1>0, <3>1, <3>5, <3>7, <3>8 DEF CreateCall
    <3>10. /\ DOMAIN taken = DOMAIN c.legs /\ DOMAIN c.wires = DOMAIN c.legs
           /\ c.op = "batch" => c.legs = BatchOf /\ (Legs(c) # {} => ~ OnBitget')
           /\ c.op # "batch" => \E o \in Oids : c.legs = <<o>>
           /\ c.op = "tp_sl" => account' \in {"okx", "bybit"}
      BY <1>0, <3>1, <3>4, AccountKept DEF CreateCall
    <3> QED BY <1>0, <1>4, <3>6, <3>9, <3>10, AccountKept DEF CreateCall, Legs
  <2>4. ASSUME c.op \in Requests PROVE FALSE BY <1>0, <2>4, Makers DEF Creating, Requests
  <2>5. ASSUME NEW d \in calls', d.op \in Creates PROVE CreateCall(d)' BY <1>4, <2>1, <2>3, <2>5
  <2>6. ASSUME NEW d \in calls', d.op \in Requests PROVE RequestCall(d)' BY <1>4, <2>2, <2>4, <2>6
  <2> QED BY <2>5, <2>6 DEF WellCalled
<1>25. WellReported'
  <2>1. \A i \in DOMAIN feed : feed[i].oid \in Oids BY FeedTypes
  <2>2. \A i \in DOMAIN feed : WorkedOn(feed[i].oid) BY DEF WellReported
  <2>3. \A i \in DOMAIN feed : exch'[feed[i].oid] = exch[feed[i].oid] BY <1>a, <2>1, <2>2 DEF WorkedOn
  <2> QED BY <1>0, <2>3, AccountKept DEF WellReported, WorkedOn
<1>26. FirstReported'
  <2>1. \A o \in Oids : WorkedOn(o)' => WorkedOn(o)
    <3>1. \A o \in Oids : WorkedOn(o)' => o \notin made BY <1>a DEF WorkedOn
    <3> QED BY <1>7, <3>1 DEF WorkedOn
  <2> QED BY <1>0, <2>1, AccountKept DEF FirstReported
<1>27. RightWires'
  <2>1. ASSUME NEW o \in Oids, exch'[o].state # "none"
        PROVE  AskedFor(o, exch'[o].wire) /\ (exch'[o].state # "refused" => Takeable(o))
    <3>1. CASE o \notin made BY <1>7, <2>1, <3>1 DEF RightWires
    <3>2. CASE o \in made
      <4> DEFINE i == LegOf(c, o)
      <4>1. /\ i \in DOMAIN c.legs /\ c.legs[i] = o /\ AskedFor(o, exch'[o].wire)
            /\ exch'[o].state = IF taken[i] THEN "taken" ELSE "refused"
        BY <1>9, <3>2
      <4> HIDE DEF i
      <4>2. taken[i] => Takeable(o) BY <1>1, <4>1
      <4> QED BY <4>1, <4>2
    <3> QED BY <3>1, <3>2
  <2>2. \A o \in Oids : AskedFor(o, exch'[o].wire) => AskedFor(o, exch[o].wire)'
    <3>1. ASSUME NEW o \in Oids, AskedFor(o, exch'[o].wire) PROVE AskedFor(o, exch[o].wire)'
      <4>1. PICK w : w = exch'[o].wire OBVIOUS
      <4>2. AskedFor(o, w)' BY <1>g, <3>1, <4>1
      <4> QED BY <4>1, <4>2
    <3> QED BY <3>1
  <2>3. \A o \in Oids : Takeable(o) => Takeable(o)' BY <1>0 DEF Takeable
  <2> QED BY <2>1, <2>2, <2>3 DEF RightWires
<1>28. PendingIsThere' BY <1>0, <1>a DEF PendingIsThere
<1>29. FailedIsNot'
  <2>1. \A o \in Oids : exch[o].state = "refused" => exch'[o].state = "refused" BY <1>a
  <2>2. \A o \in Oids : FailsAsOne(o) => FailsAsOne(o)' BY <1>0, <2>1, FailsAsOneKept
  <2>3. ASSUME NEW o \in Oids, ~ IsLive(o), ~ Queued(o), exch[o].state = "none" => ~ CreateUnderway(o)
        PROVE  exch'[o] = exch[o]
    BY <1>7, <1>9, <2>3
  <2> QED BY <1>0, <1>11, <1>e, <1>f, <2>2, <2>3 DEF FailedIsNot, IsLive
<1>30. Registered' BY <1>0, <1>e, AccountKept DEF Registered
<1>31. Settled'
  <2>1. ASSUME NEW o \in Oids, ~ CreateUnderway(o)
        PROVE  exch'[o] = exch[o] /\ (as[o] = "none" \/ (Unspoken(o) => Unspoken(o)'))
    <3>1. exch'[o] = exch[o] BY <1>7, <1>9, <2>1
    <3> QED BY <1>0, <3>1, OrderKept DEF TypeOK
  <2> QED BY <1>0, <1>11, <1>e, <1>f, <2>1 DEF Settled
<1>32. ReportedAsAsked'
  <2>2. \A p \in Oids : MixedBatch(p) => MixedBatch(p)' BY <1>0, OrderKept
  <2> QED BY <1>0, <2>2 DEF ReportedAsAsked
<1>33. EveryRequestReachesItsOrder'
  <2>1. \A m \in strayed : m[1] \in Oids BY DEF TypeOK
  <2>2. \A p \in Oids : MixedBatch(p) => MixedBatch(p)' BY <1>0, OrderKept
  <2> QED BY <1>0, <2>1, <2>2, AccountKept DEF EveryRequestReachesItsOrder
<1>34. Unheard' BY <1>0 DEF Unheard
<1> QED
  BY <1>20, <1>21, <1>22, <1>23, <1>24, <1>25, <1>26, <1>27, <1>28, <1>29, <1>30, <1>31, <1>32, <1>33, <1>34

-----------------------------------------------------------------------------
(* The reports.                                                             *)

\* The handling of a report preserves the invariant.
LEMMA DeliverReportStep == ASSUME Inv, DeliverReport PROVE Inv'
<1> USE DEF Inv
<1> DEFINE o == Head(feed).oid
           name == Head(feed).state
           r == ReadReport(o, name)
<1>0. /\ account' = account /\ ticket' = ticket /\ as' = as
      /\ requests' = requests /\ queue' = queue /\ late' = late /\ dead' = dead /\ calls' = calls
      /\ exch' = exch /\ canceling' = canceling /\ unclear' = unclear /\ strayed' = strayed
      /\ feed # <<>> /\ feed' = Tail(feed)
  BY DEF DeliverReport, clientVars
<1>1. \/ r = Dropped /\ Silence
      \/ /\ r # Dropped
         /\ Post({o}, [p \in Oids |-> r.status],
                 [p \in Oids |-> [type |-> r.type, tif |-> r.tif, amount |-> r.amount,
                                  product |-> r.product]])
  BY Zenon DEF DeliverReport
<1>2. Placed BY TypePlaced
<1>3. feed \in Seq([oid : Oids, state : Names]) BY DEF TypeOK
<1>4. /\ Head(feed) \in [oid : Oids, state : Names] /\ Head(feed) = feed[1] /\ 1 \in DOMAIN feed
      /\ feed' \in Seq([oid : Oids, state : Names])
      /\ \A i \in DOMAIN feed' : i \in Nat \ {0} /\ i + 1 \in DOMAIN feed /\ feed'[i] = feed[i + 1]
      /\ \A i \in DOMAIN feed : i # 1 => i - 1 \in DOMAIN feed' /\ feed[i] = feed'[i - 1]
  <2> DEFINE S == [oid : Oids, state : Names]
  <2>1. feed \in Seq(S) BY <1>3
  <2> HIDE DEF S
  <2>2. /\ Head(feed) \in S /\ Head(feed) = feed[1] /\ 1 \in DOMAIN feed
        /\ Tail(feed) \in Seq(S)
        /\ \A i \in DOMAIN Tail(feed) : i \in Nat \ {0} /\ i + 1 \in DOMAIN feed /\
             Tail(feed)[i] = feed[i + 1]
        /\ \A i \in DOMAIN feed : i # 1 => i - 1 \in DOMAIN Tail(feed) /\ feed[i] = Tail(feed)[i - 1]
    BY <1>0, <2>1, TailFacts
  <2> QED BY <1>0, <2>2 DEF S
<1>5. o \in Oids /\ o = feed[1].oid /\ name = feed[1].state BY <1>4
<1>6. /\ WorkedOn(o) /\ \E e \in Events : name \in NativeStates[e]
      /\ name \in FailedNames => exch[o].state = "rejected"
      /\ name \in ExpiredNames => told[o] # NoStatus
  BY <1>4, <1>5 DEF WellReported
<1>7. PICK e \in Events : name \in NativeStates[e] BY <1>6
<1>8. PICK p \in Products :
        /\ p = ticket[o].product \/ MixedBatch(o)
        /\ exch[o].wire = OrderWire(ticket[o], p)
  BY <1>5, <1>6 DEF RightWires, WorkedOn, AskedFor
<1>9. p = ticket[o].product \/ account = "bybit" BY <1>8 DEF MixedBatch
<1>10. /\ r = Dropped \/ ReadsAs(r, ticket[o], p, name)
       /\ name \in FirstNames /\ (OnBinance \/ account \in {"okx", "bybit"}) =>
            r # Dropped /\ r.status # "EXPIRED"
  BY <1>2, <1>5, <1>7, <1>8, <1>9, Reading DEF Placed
<1> DEFINE os == IF r = Dropped THEN {} ELSE {o}
           status == [q \in Oids |-> r.status]
           content == [q \in Oids |-> [type |-> r.type, tif |-> r.tif, amount |-> r.amount,
                                       product |-> r.product]]
<1>11. ASSUME r # Dropped
       PROVE  /\ r.status \in {"ACCEPTED", "PARTIALLY_FILLED", "FILLED", "CANCELED", "EXPIRED", "FAILED"}
              /\ r.status = "FAILED" => name \in FailedNames
              /\ r.status = "EXPIRED" => name \in ExpiredNames
              /\ r.type = ticket[o].type /\ r.amount = ticket[o].amount /\ r.product = p
              /\ r.tif \in TimesInForce \cup {"none"}
              /\ ticket[o].type = "LIMIT" => r.tif \in {ticket[o].tif, "none"}
  BY <1>10, <1>11 DEF ReadsAs
<1>12. ticket[o] \in AllTickets BY <1>2, <1>5 DEF Placed
<1>13. ticket[o].type \in OrderTypes /\ ticket[o].amount \in Nat
  BY <1>12, VenueOrdersAssumption DEF AllTickets, Tickets
<1>14. registered \in SUBSET Oids /\ tmpOrders \in SUBSET Oids BY DEF TypeOK
<1>15. os \in SUBSET Oids /\ \A q \in os : q = o /\ r # Dropped BY <1>5
<1>16. \A q \in os : /\ status[q] = r.status
                     /\ content[q] = [type |-> r.type, tif |-> r.tif, amount |-> r.amount,
                          product |-> r.product]
  BY <1>15
<1>17. r # Dropped => Update(registered, tmpOrders, os, status, content) BY <1>1 DEF Post
<1>18. r = Dropped => Silence BY <1>1
<1>19. r # Dropped => o \in os OBVIOUS
<1> HIDE DEF o, name, r, os, status, content
<1>20. ASSUME NEW q \in os
       PROVE  /\ status[q] \in OrderStatuses /\ content[q].type \in OrderTypes \cup {"none"}
              /\ content[q].tif \in TimesInForce \cup {"none"} /\ content[q].amount \in Nat
              /\ content[q].product \in Products \cup {"none"}
  <2>1. r # Dropped /\ status[q] = r.status /\ content[q].type = r.type /\ content[q].tif = r.tif
        /\ content[q].amount = r.amount /\ content[q].product = r.product
    BY <1>15, <1>16
  <2>2. r.status \in OrderStatuses BY <1>11, <2>1 DEF OrderStatuses
  <2> QED BY <1>11, <1>13, <2>1, <2>2
<1>21. /\ Hears(registered, tmpOrders, os, status)
       /\ \A q \in Oids : shown'[q] = shown[q] \/ (q \in os /\ shown'[q] = InStatus(status[q], content[q]))
  <2>1. CASE r = Dropped
    <3>1. os = {} BY <1>15, <2>1
    <3>2. Silence BY <1>18, <2>1
    <3>3. Hears(registered, tmpOrders, {}, status) BY <3>2, SilenceHears
    <3> QED BY <3>1, <3>2, <3>3 DEF Silence, localVars
  <2>2. CASE r # Dropped
    <3>1. Update(registered, tmpOrders, os, status, content) BY <1>17, <2>2
    <3>2. TypeOK OBVIOUS
    <3>3. \A q \in os : /\ status[q] \in OrderStatuses /\ content[q].type \in OrderTypes \cup {"none"}
                        /\ content[q].tif \in TimesInForce \cup {"none"} /\ content[q].amount \in Nat
                        /\ content[q].product \in Products \cup {"none"}
      BY <1>20
    <3>4. os \in SUBSET Oids BY <1>15
    <3>5. Hears(registered, tmpOrders, os, status) BY <1>14, <3>1, <3>2, <3>3, <3>4, UpdateHears
    <3>6. \A q \in Oids : shown'[q] = shown[q] \/ (q \in os /\ shown'[q] = InStatus(status[q], content[q]))
      BY <1>14, <3>1, <3>2, <3>3, <3>4, UpdateHears
    <3> QED BY <3>5, <3>6
  <2> QED BY <2>1, <2>2
<1>22. /\ \A q \in Oids : told[q] # NoStatus => told'[q] # NoStatus
       /\ \A q \in os \cap registered : status[q] # "EXPIRED" => told'[q] # NoStatus
  BY <1>14, <1>20, <1>21, HearingKeeps
<1>23. \A q \in os : q = o /\ (status[q] = "EXPIRED" => told'[q] # NoStatus)
  BY <1>5, <1>6, <1>11, <1>15, <1>16, <1>22
<1>24. as[o] # "none" /\ ~ Queued(o) BY <1>5, <1>6 DEF MadeOnce, WorkedOn
<1>25. name \in FirstNames /\ (OnBinance \/ account \in {"okx", "bybit"}) => told'[o] # NoStatus
  BY <1>5, <1>10, <1>16, <1>19, <1>22, <1>24 DEF Registered
<1>26. \A i \in DOMAIN feed' : feed'[i].oid \in Oids /\ feed'[i].state \in Names
  <2>1. \A i \in DOMAIN feed' : feed'[i] \in [oid : Oids, state : Names] BY <1>4, ElementType, Zenon
  <2> QED BY <2>1
<1>e. \A q \in Oids : Queued(q)' <=> Queued(q) BY <1>0 DEF Queued, Creator
<1>f. \A q \in Oids : CreateUnderway(q)' <=> CreateUnderway(q) BY <1>0 DEF CreateUnderway
<1>g. \A q \in Oids : \A w : AskedFor(q, w) => AskedFor(q, w)' BY <1>0, OrderKept
<1>30. TypeOK' BY <1>0, <1>4, <1>21 DEF TypeOK, Hears
<1>31. WellSubmitted' BY <1>0, AccountKept DEF WellSubmitted, WellFormed
<1>32. QueuedOnce' BY <1>0 DEF QueuedOnce
<1>33. MadeOnce' BY <1>0, <1>e, <1>f DEF MadeOnce
<1>34. WellCalled'
  <2>1. ASSUME NEW d \in calls, d.op \in Creates PROVE CreateCall(d)'
    <3>1. CreateCall(d) BY <2>1 DEF WellCalled
    <3>2. \A i \in DOMAIN d.legs : d.legs[i] \in Oids BY <2>1, CallTypes
    <3> QED BY <1>0, <1>g, <3>1, <3>2, AccountKept DEF CreateCall, Legs
  <2>2. ASSUME NEW d \in calls, d.op \in Requests PROVE RequestCall(d)'
    BY <1>0, <2>2, AccountKept DEF WellCalled, RequestCall
  <2> QED BY <1>0, <2>1, <2>2 DEF WellCalled
<1>35. WellReported'
  <2>1. ASSUME NEW i \in DOMAIN feed'
        PROVE  /\ WorkedOn(feed'[i].oid) /\ \E x \in Events : feed'[i].state \in NativeStates[x]
               /\ feed'[i].state \in FailedNames => exch[feed'[i].oid].state = "rejected"
               /\ feed'[i].state \in ExpiredNames =>
                    \/ told'[feed'[i].oid] # NoStatus
                    \/ \E j \in 1 .. i - 1 : feed'[j].oid = feed'[i].oid /\ feed'[j].state \in FirstNames
    <3>1. i \in Nat \ {0} /\ i + 1 \in DOMAIN feed /\ feed'[i] = feed[i + 1] BY <1>4
    <3>2. /\ WorkedOn(feed[i + 1].oid) /\ \E x \in Events : feed[i + 1].state \in NativeStates[x]
          /\ feed[i + 1].state \in FailedNames => exch[feed[i + 1].oid].state = "rejected"
          /\ feed[i + 1].state \in ExpiredNames =>
               \/ told[feed[i + 1].oid] # NoStatus
               \/ \E j \in 1 .. (i + 1) - 1 : feed[j].oid = feed[i + 1].oid /\ feed[j].state \in FirstNames
      BY <3>1 DEF WellReported
    <3>3. ASSUME feed'[i].state \in ExpiredNames
          PROVE  \/ told'[feed'[i].oid] # NoStatus
                 \/ \E j \in 1 .. i - 1 : feed'[j].oid = feed'[i].oid /\ feed'[j].state \in FirstNames
      <4>1. CASE told[feed[i + 1].oid] # NoStatus BY <1>22, <1>26, <3>1, <4>1
      <4>2. CASE \E j \in 1 .. (i + 1) - 1 : feed[j].oid = feed[i + 1].oid /\ feed[j].state \in FirstNames
        <5>1. PICK j \in 1 .. i : feed[j].oid = feed[i + 1].oid /\ feed[j].state \in FirstNames
          BY <3>1, <4>2
        <5>2. CASE j = 1
          <6>1. \E x \in Events : feed'[i].state \in NativeStates[x] BY <3>1, <3>2
          <6>2. OnBinance \/ account \in {"okx", "bybit"} BY <1>2, <3>3, <6>1, NamesOfEvents DEF Placed
          <6> QED BY <1>5, <1>25, <3>1, <5>1, <5>2, <6>2
        <5>3. CASE j # 1
          <6>1. j \in DOMAIN feed
            <7>1. DOMAIN feed = 1 .. Len(feed) /\ Len(feed) \in Nat BY <1>3
            <7> QED BY <3>1, <5>1, <7>1
          <6>2. feed[j] = feed'[j - 1] /\ j - 1 \in 1 .. i - 1 BY <1>4, <3>1, <5>1, <5>3, <6>1
          <6> QED BY <3>1, <5>1, <6>2
        <5> QED BY <5>2, <5>3
      <4> QED BY <3>1, <3>2, <3>3, <4>1, <4>2
    <3> QED BY <3>1, <3>2, <3>3
  <2> QED BY <1>0, <2>1, AccountKept DEF WellReported, WorkedOn
<1>36. FirstReported'
  <2>1. ASSUME NEW q \in Oids, WorkedOn(q), OnBinance \/ account \in {"okx", "bybit"}
        PROVE  told'[q] # NoStatus \/ \E j \in DOMAIN feed' : feed'[j].oid = q /\
                 feed'[j].state \in FirstNames
    <3>1. CASE told[q] # NoStatus BY <1>22, <3>1
    <3>2. CASE \E j \in DOMAIN feed : feed[j].oid = q /\ feed[j].state \in FirstNames
      <4>1. PICK j \in DOMAIN feed : feed[j].oid = q /\ feed[j].state \in FirstNames BY <3>2
      <4>2. CASE j = 1 BY <1>5, <1>25, <2>1, <4>1, <4>2
      <4>3. CASE j # 1 BY <1>4, <4>1, <4>3
      <4> QED BY <4>2, <4>3
    <3> QED BY <2>1, <3>1, <3>2 DEF FirstReported
  <2> QED BY <1>0, <2>1, AccountKept DEF FirstReported, WorkedOn
<1>37. RightWires' BY <1>0, <1>g DEF RightWires, Takeable
<1>38. \A q \in os : status[q] \in {"ACCEPTED", "PARTIALLY_FILLED", "FILLED", "CANCELED", "EXPIRED",
         "FAILED"}
  BY <1>11, <1>15, <1>16
<1>39. PendingIsThere'
  <2>1. \A q \in Oids : told'[q] = "PENDING" => told[q] = "PENDING" BY <1>21, <1>38 DEF Hears
  <2>2. \A q \in Oids : shown'[q].status = "PENDING" => shown[q].status = "PENDING"
    BY <1>21, <1>38 DEF Hears
  <2> QED BY <1>0, <2>1, <2>2 DEF PendingIsThere
<1>40. FailedIsNot'
  <2>1. ASSUME NEW q \in Oids, told'[q] = "FAILED"
        PROVE  \/ q \in unclear
               \/ ~ IsLive(q) /\ ~ Queued(q) /\ (exch[q].state = "none" => ~ CreateUnderway(q))
               \/ FailsAsOne(q)
    <3>1. CASE told[q] = "FAILED" BY <3>1 DEF FailedIsNot
    <3>2. CASE q \in os /\ status[q] = "FAILED"
      <4>1. exch[q].state = "rejected" BY <1>6, <1>11, <1>15, <1>16, <3>2
      <4> QED BY <1>24, <1>15, <3>2, <4>1 DEF IsLive
    <3> QED BY <1>21, <2>1, <3>1, <3>2 DEF Hears
  <2>2. \A q \in Oids : FailsAsOne(q) => FailsAsOne(q)' BY <1>0, FailsAsOneKept
  <2> QED BY <1>0, <1>e, <1>f, <2>1, <2>2 DEF FailedIsNot, IsLive
<1>41. Registered'
  <2>1. ASSUME NEW q \in Oids, as[q] # "none", ~ Queued(q)
        PROVE  told'[q] # NoStatus \/ (q \in registered' /\ (RegistersTmp(as[q]) => q \in tmpOrders'))
    <3>1. CASE told[q] # NoStatus BY <1>22, <3>1
    <3>2. CASE q \in os \cap registered BY <1>22, <1>23, <3>2
    <3>3. CASE told[q] = NoStatus /\ q \notin os \cap registered
      <4>1. q \in registered /\ (RegistersTmp(as[q]) => q \in tmpOrders) BY <2>1, <3>3 DEF Registered
      <4> QED BY <1>21, <3>3, <4>1 DEF Hears
    <3> QED BY <3>1, <3>2, <3>3
  <2> QED BY <1>0, <1>e, <2>1, AccountKept DEF Registered
<1>42. Settled'
  <2>2. \A q \in Oids : as[q] = "none" \/ (Unspoken(q) => Unspoken(q)')
    BY <1>0, OrderKept DEF TypeOK
  <2> QED BY <1>0, <1>22, <1>e, <1>f, <2>2 DEF Settled
<1>43. ReportedAsAsked'
  <2>1. ASSUME NEW q \in Oids, shown'[q].status \in Reported
        PROVE  /\ shown'[q].type = ticket[q].type /\ shown'[q].amount = ticket[q].amount
               /\ shown'[q].product = ticket[q].product \/ MixedBatch(q)
               /\ ticket[q].type = "LIMIT" => shown'[q].tif \in {ticket[q].tif, "none"}
    <3>1. CASE shown'[q] = shown[q] BY <2>1, <3>1 DEF ReportedAsAsked
    <3>2. CASE q \in os /\ shown'[q] = InStatus(status[q], content[q])
      <4>1. q = o /\ r # Dropped BY <1>15, <3>2
      <4>2. /\ shown'[q].type = r.type /\ shown'[q].tif = r.tif /\ shown'[q].amount = r.amount
            /\ shown'[q].product = r.product
        BY <1>16, <3>2 DEF InStatus
      <4> QED BY <1>8, <1>11, <4>1, <4>2
    <3> QED BY <1>21, <3>1, <3>2
  <2>2. \A q \in Oids : MixedBatch(q) => MixedBatch(q)' BY <1>0, OrderKept
  <2> QED BY <1>0, <2>1, <2>2 DEF ReportedAsAsked
<1>44. EveryRequestReachesItsOrder'
  <2>1. \A m \in strayed : m[1] \in Oids BY DEF TypeOK
  <2>2. \A q \in Oids : MixedBatch(q) => MixedBatch(q)' BY <1>0, OrderKept
  <2> QED BY <1>0, <2>1, <2>2, AccountKept DEF EveryRequestReachesItsOrder
<1>45. Unheard' BY <1>0, <1>21 DEF Unheard, Hears
<1> QED
  BY <1>30, <1>31, <1>32, <1>33, <1>34, <1>35, <1>36, <1>37, <1>39, <1>40, <1>41, <1>42, <1>43, <1>44, <1>45

-----------------------------------------------------------------------------
(* The consumer.                                                            *)

\* The consumer takes the submission s and starts the calls news.
LEMMA ConsumedStep ==
  ASSUME Inv, queue # <<>>, queue' = Tail(queue), NEW s, s = Head(queue),
         account' = account, ticket' = ticket, as' = as, requests' = requests, late' = late,
         dead' \in BOOLEAN, venueVars' = venueVars, unclear' = unclear, strayed' = strayed,
         NEW news \in SUBSET Calls, calls' = calls \cup news,
         NEW known \in SUBSET Oids, NEW tmp \in SUBSET Oids, NEW os \in SUBSET Oids, NEW status,
         Hears(known, tmp, os, status),
         registered \subseteq known, tmpOrders \subseteq tmp,
         \A o \in known : o \in registered \/ Creator(s, o),
         \A o \in os : status[o] \in {"FAILED", "CANCEL_FAILED"},
         \A o \in os : status[o] = "FAILED" => Creator(s, o) /\ \A k \in news : ~ Making(k, o),
         \A k \in news : k.op \in Creates => CreateCall(k),
         \A k \in news : k.op \in Requests => RequestCall(k),
         \A o \in Oids : \A k \in news : Making(k, o) => Creator(s, o),
         \A o \in Oids : \A k, j \in news : Making(k, o) /\ Making(j, o) => k = j,
         \A o \in Oids : Creator(s, o) =>
           /\ o \in known /\ (RegistersTmp(as[o]) => o \in tmp)
           /\ told'[o] # NoStatus \/ Unspoken(o) \/ \E k \in news : Making(k, o)
  PROVE  Inv'
<1> USE DEF Inv
<1>0. exch' = exch /\ canceling' = canceling /\ feed' = feed BY DEF venueVars
<1>1. queue \in Seq(Submissions) /\ late \in Seq(Submissions) BY DEF TypeOK
<1>2. /\ s \in Submissions /\ s = queue[1] /\ 1 \in DOMAIN queue
      /\ queue' \in Seq(Submissions)
      /\ \A i \in DOMAIN queue' : i \in Nat \ {0} /\ i + 1 \in DOMAIN queue /\ queue'[i] = queue[i + 1]
      /\ Range(queue) = {s} \cup Range(queue')
  BY <1>1, TailFacts
<1>3. \A o \in Oids : Queued(o) <=> Queued(o)' \/ Creator(s, o) BY <1>2 DEF Queued, Creator
<1>4. \A o \in Oids : Creator(s, o) => ~ Queued(o)'
  <2>1. ASSUME NEW o \in Oids, Creator(s, o) PROVE ~ Queued(o)'
    <3>1. \A i \in DOMAIN queue : Creator(queue[i], o) => i = 1 BY <1>2, <2>1 DEF QueuedOnce
    <3>2. \A i \in DOMAIN queue' : ~ Creator(queue'[i], o)
      <4>1. ASSUME NEW i \in DOMAIN queue', Creator(queue'[i], o) PROVE FALSE
        <5>1. i + 1 = 1 /\ i \in Nat \ {0} BY <1>2, <3>1, <4>1
        <5> QED BY <5>1
      <4> QED BY <4>1
    <3>3. \A j \in DOMAIN late : ~ Creator(late[j], o) BY <1>2, <2>1 DEF QueuedOnce
    <3> QED BY <3>2, <3>3 DEF Queued, Creator, Range
  <2> QED BY <2>1
<1>5. \A o \in Oids : Creator(s, o) =>
        as[o] # "none" /\ exch[o].state = "none" /\ ~ CreateUnderway(o)
  BY <1>3 DEF MadeOnce
<1>6. \A o \in Oids : CreateUnderway(o)' <=> CreateUnderway(o) \/ \E k \in news : Making(k, o)
  BY Makers DEF CreateUnderway, Making, Legs
<1>7. \A o \in Oids : \A c \in calls : Making(c, o) => CreateUnderway(o) BY MakingUnderway
<1>8. \A o \in Oids : told[o] # NoStatus => told'[o] # NoStatus
  <2>1. \A o \in os : status[o] \in OrderStatuses BY DEF OrderStatuses
  <2> QED BY <2>1, HearingKeeps
<1>9. \A o \in os \cap known : told'[o] # NoStatus
  <2>1. \A o \in os : status[o] \in OrderStatuses /\ status[o] # "EXPIRED" BY DEF OrderStatuses
  <2> QED BY <2>1, HearingKeeps
<1>g. \A o \in Oids : \A w : AskedFor(o, w) => AskedFor(o, w)' BY OrderKept
<1>10. TypeOK'
  <2>1. calls' \subseteq Calls BY DEF TypeOK
  <2> QED BY <1>0, <1>2, <2>1 DEF TypeOK, Hears
<1>11. WellSubmitted'
  <2>1. Range(queue') \subseteq Range(queue) BY <1>2
  <2> QED BY <2>1, AccountKept DEF WellSubmitted, WellFormed
<1>12. QueuedOnce'
  <2>1. ASSUME NEW o \in Oids, NEW i \in DOMAIN queue', NEW j \in DOMAIN queue',
               Creator(queue'[i], o), Creator(queue'[j], o)
        PROVE  i = j
    <3>1. i + 1 = j + 1 BY <1>2, <2>1 DEF QueuedOnce
    <3> QED BY <1>2, <3>1
  <2>2. ASSUME NEW o \in Oids, NEW i \in DOMAIN queue', NEW j \in DOMAIN late,
               Creator(queue'[i], o), Creator(late[j], o)
        PROVE  FALSE
    BY <1>2, <2>2 DEF QueuedOnce
  <2> QED BY <2>1, <2>2 DEF QueuedOnce, Creator
<1>13. MadeOnce'
  <2>1. ASSUME NEW o \in Oids, NEW c \in calls', NEW d \in calls', Making(c, o), Making(d, o)
        PROVE  c = d
    <3>1. CASE c \in calls /\ d \in calls BY <2>1, <3>1 DEF MadeOnce
    <3>2. CASE c \in news /\ d \in news BY <2>1, <3>2
    <3>3. ASSUME NEW x \in calls, NEW y \in news, Making(x, o), Making(y, o) PROVE FALSE
      BY <1>5, <1>7, <3>3
    <3> QED BY <2>1, <3>1, <3>2, <3>3
  <2>2. \A o \in Oids : Queued(o)' => exch[o].state = "none" /\ ~ CreateUnderway(o)'
    BY <1>3, <1>4, <1>6 DEF MadeOnce
  <2>3. \A o \in Oids : as[o] = "none" => ~ Queued(o)' /\ exch[o].state = "none" BY <1>3 DEF MadeOnce
  <2> QED BY <1>0, <2>1, <2>2, <2>3 DEF MadeOnce, Making
<1>14. WellCalled'
  <2>1. ASSUME NEW d \in calls', d.op \in Creates PROVE CreateCall(d)'
    <3>1. CreateCall(d) BY <2>1 DEF WellCalled
    <3>2. \A i \in DOMAIN d.legs : d.legs[i] \in Oids
      <4>1. d \in Calls BY <2>1 DEF TypeOK
      <4>2. d.legs \in Seq(Oids) BY <4>1 DEF Calls
      <4> QED BY <4>2, ElementType, Zenon
    <3> QED BY <1>0, <1>g, <3>1, <3>2, AccountKept DEF CreateCall, Legs
  <2>2. ASSUME NEW d \in calls', d.op \in Requests PROVE RequestCall(d)'
    <3>1. RequestCall(d) BY <2>2 DEF WellCalled
    <3> QED BY <1>0, <3>1, AccountKept DEF RequestCall
  <2> QED BY <2>1, <2>2 DEF WellCalled
<1>15. WellReported'
  <2>1. \A i \in DOMAIN feed : feed[i].oid \in Oids BY FeedTypes
  <2> QED BY <1>0, <1>8, <2>1, AccountKept DEF WellReported, WorkedOn
<1>16. FirstReported' BY <1>0, <1>8, AccountKept DEF FirstReported, WorkedOn
<1>17. RightWires' BY <1>0, <1>g DEF RightWires, Takeable
<1>18. PendingIsThere'
  <2>1. \A o \in Oids : told'[o] = "PENDING" => told[o] = "PENDING" BY DEF Hears
  <2>2. \A o \in Oids : shown'[o].status = "PENDING" => shown[o].status = "PENDING" BY DEF Hears
  <2> QED BY <1>0, <2>1, <2>2 DEF PendingIsThere
<1>19. FailedIsNot'
  <2>1. ASSUME NEW o \in Oids, told'[o] = "FAILED"
        PROVE  \/ o \in unclear
               \/ ~ IsLive(o) /\ ~ Queued(o)' /\ (exch[o].state = "none" => ~ CreateUnderway(o)')
               \/ FailsAsOne(o)
    <3>1. CASE told[o] = "FAILED"
      <4>1. CASE o \in unclear \/ FailsAsOne(o) BY <4>1
      <4>2. CASE ~ IsLive(o) /\ ~ Queued(o) /\ (exch[o].state = "none" => ~ CreateUnderway(o))
        BY <1>3, <1>6, <4>2
      <4> QED BY <3>1, <4>1, <4>2 DEF FailedIsNot
    <3>2. CASE o \in os /\ status[o] = "FAILED"
      <4>1. Creator(s, o) /\ \A k \in news : ~ Making(k, o) BY <3>2
      <4> QED BY <1>4, <1>5, <1>6, <4>1 DEF IsLive
    <3> QED BY <2>1, <3>1, <3>2 DEF Hears
  <2>2. \A o \in Oids : FailsAsOne(o) => FailsAsOne(o)' BY <1>0, FailsAsOneKept
  <2> QED BY <1>0, <2>1, <2>2 DEF FailedIsNot, IsLive
<1>20. Registered'
  <2>1. ASSUME NEW o \in Oids, as[o] # "none", ~ Queued(o)'
        PROVE  told'[o] # NoStatus \/ (o \in registered' /\ (RegistersTmp(as[o]) => o \in tmpOrders'))
    <3>1. CASE told[o] # NoStatus BY <1>8, <3>1
    <3>2. CASE o \in os \cap known BY <1>9, <3>2
    <3>3. CASE told[o] = NoStatus /\ o \notin os \cap known
      <4>1. o \in known /\ (RegistersTmp(as[o]) => o \in tmp)
        <5>1. CASE Creator(s, o) BY <5>1
        <5>2. CASE ~ Creator(s, o)
          <6>1. ~ Queued(o) BY <1>3, <2>1, <5>2
          <6> QED BY <2>1, <3>3, <6>1 DEF Registered
        <5> QED BY <5>1, <5>2
      <4> QED BY <3>3, <4>1 DEF Hears
    <3> QED BY <3>1, <3>2, <3>3
  <2> QED BY <2>1, AccountKept DEF Registered
<1>21. Settled'
  <2>1. \A o \in Oids : as[o] = "none" \/ (Unspoken(o) => Unspoken(o)')
    BY <1>0, OrderKept DEF TypeOK
  <2>2. ASSUME NEW o \in Oids, as[o] # "none"
        PROVE  \/ Queued(o)' \/ CreateUnderway(o)' \/ o \in unclear \/ told'[o] # NoStatus
               \/ Unspoken(o)
               \/ as[o] = "tp_sl" /\ account \in {"okx", "bybit"} /\
                    exch[o].state \notin {"none", "refused"}
    <3>1. CASE Creator(s, o) BY <1>6, <3>1
    <3>2. CASE ~ Creator(s, o) BY <1>3, <1>6, <1>8, <2>2, <3>2 DEF Settled
    <3> QED BY <3>1, <3>2
  <2> QED BY <1>0, <2>1, <2>2 DEF Settled
<1>22. ReportedAsAsked'
  <2>1. \A o \in Oids : shown'[o].status \in Reported => shown'[o] = shown[o] BY DEF Hears, Reported
  <2>2. \A o \in Oids : MixedBatch(o) => MixedBatch(o)' BY OrderKept
  <2> QED BY <2>1, <2>2 DEF ReportedAsAsked
<1>23. EveryRequestReachesItsOrder'
  <2>1. \A m \in strayed : m[1] \in Oids BY DEF TypeOK
  <2>2. \A o \in Oids : MixedBatch(o) => MixedBatch(o)' BY OrderKept
  <2> QED BY <2>1, <2>2, AccountKept DEF EveryRequestReachesItsOrder
<1>24. Unheard'
  <2>1. \A o \in Oids : as[o] = "none" => o \notin known BY <1>5 DEF Unheard
  <2> QED BY <2>1 DEF Unheard, Hears
<1> QED
  BY <1>10, <1>11, <1>12, <1>13, <1>14, <1>15, <1>16, <1>17, <1>18, <1>19, <1>20, <1>21, <1>22, <1>23, <1>24

\* A call that is started.
LEMMA StartedCall ==
  ASSUME TypeOK, NEW s \in Submissions, NEW k, k.op \in Creating \cup Requests, k.legs \in Seq(Oids),
         DOMAIN k.outs = DOMAIN k.legs, \A i \in DOMAIN k.legs : \E w \in Wires : k.outs[i] = Sends(w)
  PROVE  /\ Call(s, k) \in Calls
         /\ Call(s, k).op = k.op /\ Call(s, k).legs = k.legs /\ Call(s, k).by = s.by
         /\ Call(s, k).st = "sent" /\ Legs(Call(s, k)) = Legs(k)
         /\ DOMAIN Call(s, k).taken = DOMAIN k.legs /\ DOMAIN Call(s, k).wires = DOMAIN k.legs
         /\ \A i \in DOMAIN k.legs : k.outs[i] = Sends(Call(s, k).wires[i])
<1> DEFINE ws == [i \in DOMAIN k.outs |-> k.outs[i].wire]
           ts == [i \in DOMAIN k.legs |-> FALSE]
<1>1. \A w : Sends(w).wire = w BY DEF Sends
<1>2. \A i \in DOMAIN k.legs : k.outs[i].wire \in Wires /\ k.outs[i] = Sends(k.outs[i].wire)
  <2>1. ASSUME NEW i \in DOMAIN k.legs
        PROVE  k.outs[i].wire \in Wires /\ k.outs[i] = Sends(k.outs[i].wire)
    <3>1. PICK w \in Wires : k.outs[i] = Sends(w) OBVIOUS
    <3> QED BY <1>1, <3>1
  <2> QED BY <2>1
<1>3. DOMAIN k.legs = 1 .. Len(k.legs) /\ Len(k.legs) \in Nat OBVIOUS
<1>4. ws \in Seq(Wires) /\ ts \in Seq(BOOLEAN)
  <2>1. ws \in [1 .. Len(k.legs) -> Wires] /\ ts \in [1 .. Len(k.legs) -> BOOLEAN] BY <1>2, <1>3
  <2> HIDE DEF ws, ts
  <2> QED BY <1>3, <2>1
<1>5. DOMAIN ws = DOMAIN k.legs /\ DOMAIN ts = DOMAIN k.legs /\
        \A i \in DOMAIN k.legs : ws[i] = k.outs[i].wire
  OBVIOUS
<1>6. Call(s, k) = [op |-> k.op, legs |-> k.legs, wires |-> ws, by |-> s.by, n |-> requests,
                    inline |-> HoldsQueue(s.op), st |-> "sent", taken |-> ts]
  BY DEF Call
<1> HIDE DEF ws, ts
<1>7. s.by \in Directions /\ requests \in Nat /\ HoldsQueue(s.op) \in BOOLEAN
  BY DEF Submissions, TypeOK, HoldsQueue
<1>8. /\ Call(s, k) \in Calls
      /\ Call(s, k).op = k.op /\ Call(s, k).legs = k.legs /\ Call(s, k).by = s.by
      /\ Call(s, k).st = "sent" /\ Call(s, k).wires = ws /\ Call(s, k).taken = ts
  BY <1>4, <1>6, <1>7 DEF Calls
<1> QED BY <1>2, <1>5, <1>8 DEF Legs

\* A submission that creates orders.
LEMMA ConsumeCreateStep ==
  ASSUME Inv, Consume, Head(queue).op \in Creates
  PROVE  Inv'
<1> DEFINE s  == Head(queue)
           ks == Coroutines(s)
           failure == IF s.op \in {"cancel", "cancel_ws"} THEN "CANCEL_FAILED" ELSE "FAILED"
           known == registered \cup Range(s.legs)
           tmp   == IF RegistersTmp(s.op) THEN tmpOrders \cup Range(s.legs) ELSE tmpOrders
           news  == {Call(s, k) : k \in {j \in ks : Sending(j)}}
           os    == FailedAtOnce(ks)
           status == [o \in Oids |-> failure]
           content == [o \in Oids |-> Blank(o)]
<1>0. /\ account' = account /\ ticket' = ticket /\ as' = as /\ requests' = requests /\ late' = late
      /\ venueVars' = venueVars /\ unclear' = unclear /\ strayed' = strayed
      /\ queue # <<>> /\ queue' = Tail(queue)
      /\ calls' = calls \cup news
      /\ dead' = (Awaited(s.op) /\ \E k \in ks : Raising(k))
      /\ Update(known, tmp, os, status, content)
  BY DEF Consume
<1>1. TypeOK /\ Placed BY TypePlaced DEF Inv
<1>2. queue \in Seq(Submissions) BY <1>1 DEF TypeOK
<1>3. s \in Submissions /\ Range(queue) = {s} \cup Range(Tail(queue)) BY <1>0, <1>2, TailFacts
<1>4. WellFormed(s) BY <1>3 DEF Inv, WellSubmitted
<1>5. /\ \A k \in ks : CreateCoroutine(s, k)
      /\ \A o \in Range(s.legs) : \E k \in ks : Making(k, o)
      /\ \A o \in Range(s.legs) : \A k, j \in ks : Making(k, o) /\ Making(j, o) => k = j
  BY <1>1, <1>3, <1>4, CreateCoroutines
<1>6. s.legs \in Seq(Oids) /\ Range(s.legs) \subseteq Oids
  <2>1. s.legs \in Seq(Oids) BY <1>3 DEF Submissions
  <2>2. \A i \in DOMAIN s.legs : s.legs[i] \in Oids BY <2>1, ElementType, Zenon
  <2> QED BY <2>1, <2>2 DEF Range
<1>7. dead' \in BOOLEAN BY <1>0
<1>8. PICK x : x = s OBVIOUS
<1>9. \A o : Creator(x, o) <=> o \in Range(s.legs) BY <1>8 DEF Creator
<1>10. \A o \in Range(s.legs) : as[o] = s.op /\ as[o] # "none" /\ exch[o].state = "none"
  <2>1. \A y \in Creates : y # "none" BY DEF Creates
  <2>2. \A o \in Range(s.legs) : Queued(o) BY <1>3 DEF Queued, Creator
  <2> QED BY <1>4, <1>6, <2>1, <2>2 DEF WellFormed, Inv, MadeOnce
<1>11. known \in SUBSET Oids /\ tmp \in SUBSET Oids BY <1>1, <1>6 DEF TypeOK
<1>12. failure = "FAILED" BY DEF Creates
<1>13. ASSUME NEW k \in ks
       PROVE  /\ Failing(k) /\ k.op \notin Stopping \cup {"cancel_all"} => k.op \in Creates
              /\ Legs(k) \subseteq Range(s.legs)
              /\ \A o \in Legs(k) : k.op \in Creates => Making(k, o)
              /\ \A o : Making(k, o) => o \in Legs(k)
  BY <1>5 DEF CreateCoroutine, Making, Legs
<1>14. \A o \in os : /\ o \in Range(s.legs)
                     /\ \E k \in ks : Failing(k) /\ Making(k, o)
  BY <1>13 DEF FailedAtOnce
<1>15. \A k \in ks : \A o : Failing(k) /\ Making(k, o) => o \in os
  <2>1. \A k \in ks : \A o : Making(k, o) => k.op \notin Stopping \cup {"cancel_all"}
    BY DEF Making, Creates, Stopping
  <2> QED BY <1>13, <2>1 DEF FailedAtOnce
<1>16. ASSUME NEW k \in ks, Sending(k)
       PROVE  /\ k.op \in Creating \cup Requests /\ k.legs \in Seq(Oids)
              /\ DOMAIN k.outs = DOMAIN k.legs
              /\ \A i \in DOMAIN k.legs : \E w \in Wires : k.outs[i] = Sends(w)
              /\ k.op \in Creates => \A i \in DOMAIN k.legs : \E w \in Wires : k.outs[i] = Sends(w) /\
                   AskedFor(k.legs[i], w)
  <2>1. CreateCoroutine(s, k) BY <1>5
  <2>2. DOMAIN k.outs = DOMAIN k.legs BY <2>1 DEF CreateCoroutine
  <2>3. \A i \in DOMAIN k.legs : k.outs[i] \notin {Raises, Fails}
    BY <1>16, <2>2 DEF Sending, Failing, Raising
  <2>4. k.op \in Creates => \A i \in DOMAIN k.legs : \E w \in Wires : k.outs[i] = Sends(w) /\
          AskedFor(k.legs[i], w)
    BY <2>1, <2>3 DEF CreateCoroutine, Outcome
  <2>5. k.op \in Stopping => \A i \in DOMAIN k.legs : \E w \in Wires : k.outs[i] = Sends(w)
    BY <2>1, <2>3 DEF CreateCoroutine
  <2>6. k.op \in Creates \cup Stopping /\ k.legs \in Seq(Oids) BY <2>1 DEF CreateCoroutine
  <2>7. k.op \in Creating BY <2>6 DEF Creating, Creates, Stopping
  <2> QED BY <2>2, <2>4, <2>5, <2>6, <2>7
<1>17. ASSUME NEW k \in ks, Sending(k)
       PROVE  /\ Call(s, k) \in Calls
              /\ Call(s, k).op = k.op /\ Call(s, k).legs = k.legs /\ Call(s, k).by = s.by
              /\ Call(s, k).st = "sent" /\ Legs(Call(s, k)) = Legs(k)
              /\ DOMAIN Call(s, k).taken = DOMAIN k.legs /\ DOMAIN Call(s, k).wires = DOMAIN k.legs
              /\ \A i \in DOMAIN k.legs : k.outs[i] = Sends(Call(s, k).wires[i])
  BY <1>1, <1>3, <1>16, <1>17, StartedCall
<1>18. ASSUME NEW k \in ks, Sending(k), k.op \in Creates
       PROVE  CreateCall(Call(s, k))
  <2> DEFINE c == Call(s, k)
  <2>1. CreateCoroutine(s, k) /\ ~ Raising(k) BY <1>5, <1>18 DEF Sending
  <2>2. /\ k.op = s.op \/ (k.op = "create" /\ OnBinance)
        /\ k.op = "batch" => k.legs = s.legs /\ (Legs(k) # {} => ~ OnBitget)
        /\ k.op # "batch" => \E o \in Oids : k.legs = <<o>>
        /\ k.op = "tp_sl" => account \in {"okx", "bybit"}
    BY <1>18, <2>1 DEF CreateCoroutine
  <2>3. /\ c.op = k.op /\ c.legs = k.legs /\ c.st = "sent" /\ Legs(c) = Legs(k)
        /\ DOMAIN c.taken = DOMAIN k.legs /\ DOMAIN c.wires = DOMAIN k.legs
        /\ \A i \in DOMAIN k.legs : k.outs[i] = Sends(c.wires[i])
    BY <1>17, <1>18
  <2>4. k.op = "batch" => k.legs = BatchOf
    <3>1. k.op = "batch" => s.op = "batch" BY <2>2
    <3> QED BY <1>4, <2>2, <3>1 DEF WellFormed
  <2>5. \A i \in DOMAIN k.legs : k.legs[i] \in Range(s.legs) BY <1>13 DEF Legs, Range
  <2>6. \A i \in DOMAIN k.legs : AskedFor(k.legs[i], c.wires[i])
    <3>1. ASSUME NEW i \in DOMAIN k.legs PROVE AskedFor(k.legs[i], c.wires[i])
      <4>1. PICK w \in Wires : k.outs[i] = Sends(w) /\ AskedFor(k.legs[i], w) BY <1>16, <1>18
      <4>2. Sends(w) = Sends(c.wires[i]) BY <2>3, <4>1
      <4>3. w = c.wires[i]
        <5>1. Sends(w).wire = w /\ Sends(c.wires[i]).wire = c.wires[i] BY DEF Sends
        <5> QED BY <4>2, <5>1
      <4> QED BY <4>1, <4>3
    <3> QED BY <3>1
  <2>7. \A i \in DOMAIN k.legs :
          /\ as[k.legs[i]] = k.op \/ (k.op = "create" /\ OnBinance /\ as[k.legs[i]] # "none")
          /\ exch[k.legs[i]].state = "none"
    BY <1>10, <2>2, <2>5
  <2> HIDE DEF c
  <2>8. CreateCall(c) BY <2>2, <2>3, <2>4, <2>6, <2>7 DEF CreateCall
  <2> QED BY <2>8 DEF c
<1>19. news \in SUBSET Calls BY <1>17
<1>20. \A c \in news : c.op \in Creates => CreateCall(c) BY <1>17, <1>18
<1>21. \A c \in news : c.op \notin Requests
  <2>1. \A k \in ks : k.op \notin Requests BY <1>5, Makers DEF CreateCoroutine
  <2> QED BY <1>17, <2>1
<1>22. \A c \in news : \A o : Making(c, o) => \E k \in ks : Sending(k) /\ Making(k, o) /\ c = Call(s, k)
  BY <1>17 DEF Making
<1>23. \A k \in ks : \A o : Sending(k) /\ Making(k, o) => \E c \in news : Making(c, o)
  <2>1. \A k \in ks : Sending(k) => Call(s, k) \in news OBVIOUS
  <2> QED BY <1>17, <2>1 DEF Making
<1>24. \A o \in Oids : \A c \in news : Making(c, o) => Creator(x, o) BY <1>9, <1>13, <1>22
<1>25. \A o \in Oids : \A c, d \in news : Making(c, o) /\ Making(d, o) => c = d
  BY <1>5, <1>13, <1>22
<1>26. \A o \in os : \A c \in news : ~ Making(c, o)
  BY <1>5, <1>14, <1>22 DEF Sending
<1>27. ASSUME NEW o \in os
       PROVE  /\ status[o] = "FAILED" /\ content[o] = Blank(o) /\ o \in Oids
  BY <1>6, <1>12, <1>14
<1>28. \A o \in Range(s.legs) : \A k \in ks : Making(k, o) /\ Raising(k) => Unspoken(o)
  <2>1. ASSUME NEW o \in Range(s.legs), NEW k \in ks, Making(k, o), Raising(k) PROVE Unspoken(o)
    <3> DEFINE z == [op |-> as[o], legs |-> IF as[o] = "batch" THEN BatchOf ELSE One(o), by |-> "given"]
    <3>1. s = z
      <4>1. s.legs = IF s.op = "batch" THEN BatchOf ELSE One(o)
        <5>1. CASE s.op = "batch" BY <1>4, <5>1 DEF WellFormed
        <5>2. CASE s.op # "batch"
          <6>1. PICK p \in Oids : s.legs = <<p>> BY <1>4, <5>2 DEF WellFormed
          <6>2. p = o BY <2>1, <6>1, OneFacts
          <6> QED BY <5>2, <6>1, <6>2 DEF One
        <5> QED BY <5>1, <5>2
      <4>2. s.by = "given" /\ s.op = as[o] BY <1>4, <1>10 DEF WellFormed
      <4>3. s = [op |-> s.op, legs |-> s.legs, by |-> s.by] BY <1>3 DEF Submissions
      <4> QED BY <4>1, <4>2, <4>3
    <3>2. k \in Coroutines(z) BY <2>1, <3>1
    <3>3. o \in Legs(k) BY <1>13, <2>1
    <3> QED BY <1>10, <2>1, <3>2, <3>3 DEF Unspoken
  <2> QED BY <2>1
<1>29. Range(s.legs) \subseteq known /\ registered \subseteq known /\ tmpOrders \subseteq tmp
       /\ (RegistersTmp(s.op) => Range(s.legs) \subseteq tmp)
       /\ \A o \in known : o \in registered \/ o \in Range(s.legs)
  OBVIOUS
<1>30. os \in SUBSET Oids BY <1>6, <1>14
<1>31. calls' = calls \cup news /\ Update(known, tmp, os, status, content) BY <1>0
<1>32. \A k \in ks : \A o : Making(k, o) => Raising(k) \/ Failing(k) \/ Sending(k) BY DEF Sending
<1> DEFINE lg == Range(s.legs)
<1>33. \A o \in lg : \E k \in ks : Making(k, o) BY <1>5
<1>34. /\ Range(s.legs) = lg /\ x = Head(queue) BY <1>8
<1> HIDE DEF ks, known, tmp, news, os, status, content, lg, s
<1>40. \A o \in os : /\ status[o] \in OrderStatuses /\ content[o].type \in OrderTypes \cup {"none"}
                     /\ content[o].tif \in TimesInForce \cup {"none"} /\ content[o].amount \in Nat
                     /\ content[o].product \in Products \cup {"none"}
  <2>1. \A o \in Oids : Blank(o).type = "none" /\ Blank(o).tif = "none" /\ Blank(o).amount = 0
                        /\ Blank(o).product \in Products
    BY <1>1, ProductOf DEF Blank
  <2> QED BY <1>27, <2>1 DEF OrderStatuses
<1>41. Hears(known, tmp, os, status) BY <1>1, <1>11, <1>30, <1>31, <1>40, UpdateHears
<1>42. \A o \in os \cap known : told'[o] # NoStatus
  <2>1. \A o \in os : status[o] \in OrderStatuses /\ status[o] # "EXPIRED" BY <1>27, <1>40
  <2> QED BY <1>11, <1>41, <2>1, HearingKeeps
<1>43. ASSUME NEW o \in Oids, Creator(x, o)
       PROVE  /\ o \in known /\ (RegistersTmp(as[o]) => o \in tmp)
              /\ told'[o] # NoStatus \/ Unspoken(o) \/ \E c \in news : Making(c, o)
  <2>1. o \in lg BY <1>9, <1>34, <1>43
  <2>2. PICK k \in ks : Making(k, o) BY <1>33, <2>1
  <2>3. o \in known /\ (RegistersTmp(as[o]) => o \in tmp) BY <1>10, <1>29, <1>34, <2>1
  <2>4. told'[o] # NoStatus \/ Unspoken(o) \/ \E c \in news : Making(c, o)
    BY <1>15, <1>23, <1>28, <1>32, <1>34, <1>42, <2>1, <2>2, <2>3
  <2> QED BY <2>3, <2>4
<1>44. \A o \in known : o \in registered \/ Creator(x, o) BY <1>9, <1>29
<1>45. \A o \in os : status[o] \in {"FAILED", "CANCEL_FAILED"}
                     /\ Creator(x, o) /\ \A c \in news : ~ Making(c, o)
  BY <1>9, <1>14, <1>26, <1>27
<1> QED
  BY <1>0, <1>7, <1>11, <1>19, <1>20, <1>21, <1>24, <1>25, <1>29, <1>30, <1>34, <1>41, <1>43, <1>44, <1>45,
           ConsumedStep

-----------------------------------------------------------------------------
(* The theorems.                                                            *)

\* A submission that names an order.
LEMMA ConsumeRequestStep ==
  ASSUME Inv, Consume, Head(queue).op \in Requests
  PROVE  Inv'
<1> DEFINE s  == Head(queue)
           ks == Coroutines(s)
           failure == IF s.op \in {"cancel", "cancel_ws"} THEN "CANCEL_FAILED" ELSE "FAILED"
           news  == {Call(s, k) : k \in {j \in ks : Sending(j)}}
           os    == FailedAtOnce(ks)
           status == [o \in Oids |-> failure]
           content == [o \in Oids |-> Blank(o)]
<1>a. s.op \notin Creates /\ ~ RegistersTmp(s.op) BY DEF Requests, Creates, RegistersTmp
<1>0. /\ account' = account /\ ticket' = ticket /\ as' = as /\ requests' = requests /\ late' = late
      /\ venueVars' = venueVars /\ unclear' = unclear /\ strayed' = strayed
      /\ queue # <<>> /\ queue' = Tail(queue)
      /\ calls' = calls \cup news
      /\ dead' = (Awaited(s.op) /\ \E k \in ks : Raising(k))
      /\ Update(registered, tmpOrders, os, status, content)
  BY <1>a DEF Consume
<1>1. TypeOK /\ Placed BY TypePlaced DEF Inv
<1>2. queue \in Seq(Submissions) BY <1>1 DEF TypeOK
<1>3. s \in Submissions /\ Range(queue) = {s} \cup Range(Tail(queue)) BY <1>0, <1>2, TailFacts
<1>4. WellFormed(s) BY <1>3 DEF Inv, WellSubmitted
<1>5. \A k \in ks : RequestCoroutine(s, k) BY <1>1, <1>3, <1>4, RequestCoroutines
<1>6. PICK o \in Oids : s.legs = <<o>> /\ as[o] # "none" BY <1>4 DEF WellFormed, Requests
<1>7. dead' \in BOOLEAN BY <1>0
<1>8. PICK x : x = s OBVIOUS
<1>9. \A p : ~ Creator(x, p) BY <1>8, <1>a DEF Creator
<1>10. <<o>> \in Seq(Oids) /\ DOMAIN <<o>> = {1} /\ Range(<<o>>) = {o} /\ Head(<<o>>) = o BY OneFacts
<1>11. registered \in SUBSET Oids /\ tmpOrders \in SUBSET Oids BY <1>1 DEF TypeOK
<1> DEFINE w == [route |-> <<account, ticket[o].product>>]
<1>12. w \in Wires
  <2>1. ticket[o].product \in Products BY <1>1, ProductOf
  <2> QED BY <1>1, <2>1 DEF Wires, Routes, Placed
<1>13. ASSUME NEW k \in ks
       PROVE  /\ k.op = s.op /\ k.legs = <<o>> /\ DOMAIN k.outs = {1}
              /\ k.outs[1] \in {Raises, Fails, Sends(w)}
              /\ k.op = "modify" => k.outs[1] # Fails
  BY <1>5, <1>6, <1>10 DEF RequestCoroutine
<1>14. ASSUME NEW k \in ks, Sending(k)
       PROVE  /\ Call(s, k) \in Calls
              /\ Call(s, k).op = s.op /\ RequestCall(Call(s, k))
  <2> HIDE DEF w
  <2>1. k.outs[1] = Sends(w) BY <1>13, <1>14 DEF Sending, Failing, Raising
  <2>2. /\ Call(s, k) \in Calls
        /\ Call(s, k).op = k.op /\ Call(s, k).legs = k.legs /\ Call(s, k).by = s.by
        /\ Call(s, k).st = "sent" /\ DOMAIN Call(s, k).taken = DOMAIN k.legs
        /\ \A i \in DOMAIN k.legs : k.outs[i] = Sends(Call(s, k).wires[i])
    <3>1. k.op \in Creating \cup Requests /\ k.legs \in Seq(Oids) BY <1>10, <1>13
    <3>2. DOMAIN k.outs = DOMAIN k.legs BY <1>10, <1>13
    <3>3. \A i \in DOMAIN k.legs : \E v \in Wires : k.outs[i] = Sends(v) BY <1>10, <1>12, <1>13, <2>1
    <3> QED BY <1>1, <1>3, <3>1, <3>2, <3>3, StartedCall
  <2>3. Sends(Call(s, k).wires[1]) = Sends(w) BY <1>10, <1>13, <2>1, <2>2
  <2>4. Call(s, k).wires[1] = w
    <3>1. \A v : Sends(v).wire = v BY DEF Sends
    <3> QED BY <2>3, <3>1
  <2> DEFINE c == Call(s, k)
  <2>5. /\ c.op = s.op /\ c.legs = <<o>> /\ c.st = "sent" /\ DOMAIN c.taken = {1} /\ c.wires[1] = w
        /\ (c.by = "heard" => OnHyperliquid)
    BY <1>4, <1>10, <1>13, <2>2, <2>4 DEF WellFormed
  <2> HIDE DEF c
  <2>7. c.wires[1].route = <<account, ticket[Head(c.legs)].product>> BY <1>10, <2>5 DEF w
  <2>8. \E p \in Oids : c.legs = <<p>> /\ as[p] # "none" BY <1>6, <2>5
  <2>6. RequestCall(c) BY <2>5, <2>7, <2>8 DEF RequestCall
  <2> QED BY <1>13, <2>2, <2>6 DEF c
<1>15. news \in SUBSET Calls BY <1>14
<1>16. \A c \in news : c.op = s.op /\ RequestCall(c) BY <1>14
<1>17. \A c \in news : c.op \notin Creates BY <1>16, <1>a
<1>18. \A c \in news : \A p : ~ Making(c, p) BY <1>17 DEF Making
<1>19. os \subseteq {o}
  BY <1>10, <1>13 DEF FailedAtOnce, Legs
<1>20. os # {} => s.op \in {"cancel", "cancel_ws"}
  <2>1. ASSUME NEW k \in ks, Failing(k) PROVE k.outs[1] = Fails BY <1>13, <2>1 DEF Failing
  <2>2. ASSUME NEW k \in ks, Failing(k), k.op \notin Stopping \cup {"cancel_all"}
        PROVE  s.op \in {"cancel", "cancel_ws"}
    BY <1>13, <2>1, <2>2 DEF Requests
  <2> QED BY <2>2 DEF FailedAtOnce
<1>21. \A p \in os : p \in Oids /\ status[p] = "CANCEL_FAILED" /\ content[p] = Blank(p) BY <1>19, <1>20
<1>22. calls' = calls \cup news /\ Update(registered, tmpOrders, os, status, content) BY <1>0
<1>23. os \in SUBSET Oids BY <1>19
<1>24. x = Head(queue) BY <1>8
<1> HIDE DEF ks, news, os, status, content, s, w
<1>30. \A p \in os : /\ status[p] \in OrderStatuses /\ content[p].type \in OrderTypes \cup {"none"}
                     /\ content[p].tif \in TimesInForce \cup {"none"} /\ content[p].amount \in Nat
                     /\ content[p].product \in Products \cup {"none"}
  <2>1. \A p \in Oids : Blank(p).type = "none" /\ Blank(p).tif = "none" /\ Blank(p).amount = 0
                        /\ Blank(p).product \in Products
    BY <1>1, ProductOf DEF Blank
  <2> QED BY <1>21, <2>1 DEF OrderStatuses
<1>31. Hears(registered, tmpOrders, os, status) BY <1>1, <1>11, <1>22, <1>23, <1>30, UpdateHears
<1>32. \A p \in os : status[p] \in {"FAILED", "CANCEL_FAILED"} /\ status[p] # "FAILED" BY <1>21
<1> QED
  BY <1>0, <1>7, <1>9, <1>11, <1>15, <1>16, <1>17, <1>18, <1>22, <1>23, <1>24, <1>31, <1>32, ConsumedStep

\* The consumer's step preserves the invariant.
LEMMA ConsumeStep == ASSUME Inv, Consume PROVE Inv'
<1>1. queue \in Seq(Submissions) /\ queue # <<>> BY DEF Inv, TypeOK, Consume
<1>2. Head(queue) \in Submissions BY <1>1, TailFacts
<1>3. Head(queue).op \in Creates \cup Requests BY <1>2 DEF Submissions
<1> QED BY <1>3, ConsumeCreateStep, ConsumeRequestStep

\* The invariant holds of the initial states.
LEMMA Initially == Init => Inv
<1> SUFFICES ASSUME Init PROVE Inv OBVIOUS
<1>1. /\ account \in UsedAccounts
      /\ \A o \in Oids : ticket[o] \in TicketsOf[account][o]
      /\ as = [o \in Oids |-> "none"] /\ requests = 0
      /\ queue = <<>> /\ late = <<>> /\ dead = FALSE /\ calls = {}
      /\ registered = {} /\ tmpOrders = {}
      /\ shown = [o \in Oids |-> NoOrder] /\ told = [o \in Oids |-> NoStatus]
      /\ exch = [o \in Oids |-> NotThere]
      /\ canceling = {} /\ feed = <<>> /\ unclear = {} /\ strayed = {}
  BY DEF Init
<1>2. ticket \in [Oids -> AllTickets] /\ \A o \in Oids : ticket[o].product \in Sells(account)
  <2>1. \A o \in Oids : ticket[o] \in AllTickets /\ ticket[o].product \in Sells(account)
    BY <1>1, VenueOrdersAssumption DEF AllTickets
  <2>2. ticket \in [Oids -> UNION Range(TicketsOf[account])] BY DEF Init
  <2> QED BY <2>1, <2>2
<1>3. DOMAIN queue = {} /\ DOMAIN late = {} /\ DOMAIN feed = {} BY <1>1
<1>4. Range(queue) = {} /\ Range(late) = {} BY <1>3 DEF Range
<1>5. \A o \in Oids : ~ Queued(o) BY <1>4 DEF Queued
<1>6. \A o \in Oids : ~ CreateUnderway(o) BY <1>1 DEF CreateUnderway
<1>7. \A o \in Oids : exch[o] = NotThere /\ NotThere.state = "none" /\ as[o] = "none" /\ told[o] = NoStatus
                      /\ shown[o] = NoOrder /\ NoOrder.status = NoStatus
  BY <1>1 DEF NotThere, NoOrder
<1>8. TypeOK
  <2>1. NotThere \in [state : States, wire : Wires]
    <3>1. [route |-> NoRoute] \in Wires BY DEF Wires, Routes
    <3> QED BY <3>1 DEF NotThere, States
  <2>2. exch \in [Oids -> [state : States, wire : Wires]] BY <1>1, <2>1
  <2>3. NoOrder \in ShownOrders BY DEF NoOrder, ShownOrders
  <2>4. shown \in [Oids -> ShownOrders] BY <1>1, <2>3
  <2>5. queue \in Seq(Submissions) /\ late \in Seq(Submissions) /\ feed \in Seq([oid : Oids, state : Names])
    BY <1>1
  <2>6. as \in [Oids -> Creates \cup {"none"}] /\ told \in [Oids -> OrderStatuses \cup {NoStatus}] BY <1>1
  <2> QED BY <1>1, <1>2, <2>2, <2>4, <2>5, <2>6 DEF TypeOK
<1>9. WellSubmitted /\ QueuedOnce BY <1>3, <1>4 DEF WellSubmitted, QueuedOnce
<1>10. MadeOnce BY <1>1, <1>5, <1>6, <1>7 DEF MadeOnce
<1>11. Unheard BY <1>1, <1>7 DEF Unheard
<1>12. WellCalled /\ WellReported BY <1>1, <1>3 DEF WellCalled, WellReported
<1>13. FirstReported /\ RightWires BY <1>7 DEF FirstReported, RightWires, WorkedOn
<1>14. PendingIsThere /\ FailedIsNot /\ Registered /\ Settled
  BY <1>7 DEF PendingIsThere, FailedIsNot, Registered, Settled, NoStatus
<1>15. ReportedAsAsked BY <1>7 DEF ReportedAsAsked, Reported, NoStatus
<1>16. EveryRequestReachesItsOrder BY <1>1 DEF EveryRequestReachesItsOrder
<1> QED BY <1>8, <1>9, <1>10, <1>11, <1>12, <1>13, <1>14, <1>15, <1>16 DEF Inv

\* It is of the variables alone.
LEMMA StutterStep == ASSUME Inv, UNCHANGED vars PROVE Inv'
<1>1. Waiting /\ as' = as /\ requests' = requests /\ queue' = queue /\ late' = late
  BY DEF vars, clientVars, Waiting
<1>2. \A o \in Oids : Queued(o)' <=> Queued(o) BY <1>1 DEF Queued, Creator
<1>3. /\ as \in [Oids -> Creates \cup {"none"}] /\ requests \in Nat
      /\ queue \in Seq(Submissions) /\ late \in Seq(Submissions)
  BY DEF Inv, TypeOK
<1>4. WellSubmitted' /\ QueuedOnce'
  BY <1>1, AccountKept DEF Inv, Waiting, WellSubmitted, WellFormed, QueuedOnce
<1>5. \A o \in Oids : as[o] = "none" => ~ Queued(o) BY DEF Inv, MadeOnce
<1> QED BY <1>1, <1>2, <1>3, <1>4, <1>5, WaitingStep

\* Every step preserves it.
LEMMA NextStep == ASSUME Inv, Next PROVE Inv'
<1>1. CASE Strategy
  BY <1>1, SubmitBatchStep, SubmitCreateStep, SubmitRequestStep DEF Strategy
<1>2. CASE Client
  <2>1. ASSUME NEW c \in calls, HandleAnswer(c) PROVE Inv'
    BY <2>1, CreateAnswerStep, RaisingAnswerStep, BatchAnswerStep, WsAnswerStep, SilentAnswerStep, CancelAnswerStep,
       ModifyAnswerStep DEF HandleAnswer
  <2> QED BY <1>2, <2>1, FlushLateStep, ConsumeStep, DeliverReportStep, LoseAnswerStep DEF Client
<1>3. CASE Venue
  BY <1>3, VenueCreatesStep, VenueRequestsStep, VenueMovesStep DEF Venue
<1> QED BY <1>1, <1>2, <1>3 DEF Next

\* The inductive invariant holds of every execution.
THEOREM Invariance == Spec => []Inv
<1>1. Init => Inv BY Initially
<1>2. Inv /\ [Next]_vars => Inv'
  <2> SUFFICES ASSUME Inv, [Next]_vars PROVE Inv' OBVIOUS
  <2>1. CASE Next BY <2>1, NextStep
  <2>2. CASE UNCHANGED vars BY <2>2, StutterStep
  <2> QED BY <2>1, <2>2
<1> QED BY <1>1, <1>2, PTL DEF Spec

\* The variables keep their types.
THEOREM TypeCorrect == Spec => []TypeOK
<1>1. Inv => TypeOK BY DEF Inv
<1> QED BY <1>1, Invariance, PTL

\* An order that is live is told FAILED only when the answer to its create was
\* lost, or its batch fails as one, and no order the venue refused is shown
\* pending: in every interleaving of answers, reports and late puts, each
\* verdict is that of its own order.
THEOREM VerdictsAreTheirOwn == Spec => []VerdictIsItsOwn
<1>1. Inv => VerdictIsItsOwn
  <2> SUFFICES ASSUME Inv, NEW o \in Oids
               PROVE  /\ IsLive(o) /\ told[o] = "FAILED" => o \in unclear \/ FailsAsOne(o)
                      /\ exch[o].state = "refused" => shown[o].status # "PENDING" /\ told[o] # "PENDING"
    BY DEF VerdictIsItsOwn
  <2> QED BY DEF Inv, FailedIsNot, PendingIsThere, IsLive
<1> QED BY <1>1, Invariance, PTL

\* What a report told of an order is what was asked of it: its type, time in
\* force, amount and product survive the round trip through the venue's words.
THEOREM ReportsAreRead == Spec => []ReportedAsAsked
<1>1. Inv => ReportedAsAsked BY DEF Inv
<1> QED BY <1>1, Invariance, PTL

\* A cancel or modify never reaches another account or book than the one its
\* order was sent to.
THEOREM RequestsArrive == Spec => []EveryRequestReachesItsOrder
<1>1. Inv => EveryRequestReachesItsOrder BY DEF Inv
<1> QED BY <1>1, Invariance, PTL

\* An order that is submitted does not stay without an answer: it is queued, its
\* create is on its way, a report of it is, or the strategy has been told.
THEOREM OrdersSettle == Spec => []EveryOrderIsSettled
<1>1. Inv => EveryOrderIsSettled
  <2> SUFFICES ASSUME Inv, NEW o \in Oids, as[o] # "none", o \notin unclear, ~ Unspoken(o),
    ~ CreateUnderway(o),
                      ~ Queued(o), exch[o].state # "taken", told[o] = NoStatus
               PROVE  \E i \in DOMAIN feed : feed[i].oid = o
    BY DEF EveryOrderIsSettled, Queued, Creator
  <2>1. account \in {"okx", "bybit"} /\ exch[o].state \notin {"none", "refused"}
    BY DEF Inv, Settled
  <2> QED BY <2>1 DEF Inv, FirstReported, WorkedOn
<1> QED BY <1>1, Invariance, PTL
=============================================================================
