# WalrasQuant in TLA+

WalrasQuant is a Python framework for live trading: one asyncio process, one
strategy, several venues.  This directory holds TLA+ models of its stateful
parts, TLC instances of them, and proofs checked by TLAPS.  Paths below are
relative to `src/src/walrasquant/` unless they start with `src/`.

## 1. Inventory

| Part | State it keeps | Operations | Correct when |
| --- | --- | --- | --- |
| `Strategy` (`strategy.py`) | status, pending subscriptions, ready gates | create / cancel / cancel-all / modify / batch / tp-sl submissions, subscriptions, past klines, timers, callbacks | a request reaches the right account's queue; data is there when a gate says so |
| EMS (`base/ems.py`, `exchange/*/ems.py`) | one submit queue per account | put, one consumer per queue, per-venue cancel-all | requests are served in order; every create is registered before its call |
| OMS (`base/oms.py`, `exchange/*/oms.py`) | nothing of its own | REST and WebSocket-API calls, their answers, the user-data stream, positions and balances at start | every answer and report becomes the right status update, position or balance |
| Registry (`core/registry.py`) | followed oids, temporary orders | register, unregister | an order is followed from its create to its close |
| Cache (`core/cache.py`, `backends/`) | orders, open sets, cancel intents, in-flight set, positions, balances, params, market data | status update, eviction, periodic sync, reload | sets and objects agree; what was synced survives a restart |
| Transport (`base/ws_client.py`, `exchange/*/websockets.py`) | connections, topics of each, reconnect loop | connect, reconnect, subscribe, unsubscribe, send, disconnect | every topic is on exactly one connection and is asked for again after each reconnect |
| REST clients and limiters (`base/api_client.py`, `base/retry.py`, `exchange/*/rest_api.py`, `exchange/*/constants.py`) | windows of the limiters, retries of a call | order calls, listen keys, blocking queries | a verdict says what the venue did; calls end |
| Engine and tasks (`engine.py`, `core/entity.py`) | connection policy, set of tasks | start order, policy, dispose | strategies see connection trouble; a shutdown leaves nothing running |
| SMS and `DataReady` (`base/sms.py`, `core/entity.py`) | request queues, readiness of each symbol | subscribe, unsubscribe, per-symbol gates | what is asked for is delivered; ready means the data is there |
| Connectors and aggregation (`base/connector.py`, `exchange/*/connector.py`, `aggregation.py`) | topics, trade aggregators of each symbol, local books | parsing, kline building by time and by volume, past klines | each feed comes as the event it was asked as; each trade is counted in one kline |
| Indicators (`indicator.py`) | warm-up counters, lists by kind of data | register, warm up, on_kline ... | every bar is handled once, in order |
| Execution algorithms (`execution/`) | algorithm orders, spawned orders, slice timers | execute, cancel, TWAP slices | quantity executed never exceeds the order, every order ends |
| Schemas, web, CLI, push, mock connectors | pure data or pure I/O | | not modelled, see section 6 |

How they meet: the strategy puts a submission on an EMS queue; the queue's
consumer registers the order, marks it in flight and starts an OMS coroutine as
a task (or awaits it: batches, tp/sl orders, creates on Hyperliquid); the
coroutine passes a rate limiter and awaits the venue; its answer and the
user-data stream both call `order_status_update`, which consults the registry,
updates the cache and calls the strategy's handler through the message bus,
synchronously.  A background task of the cache evicts and persists orders.  A
connection that drops is reconnected by its own task; nothing asks for what it
missed.  Market data comes the other way: a request waits in the SMS, becomes a
topic of a connector, and each message of the topic is published to the cache,
the aggregators and the strategy.

Everything local runs on one event loop, so what makes the system hard is what
happens *between* two awaits: answers and reports in either order, cancels that
race with fills, evictions of live orders, lost answers, timeouts treated as
refusals, requests served from queues long after they were made, and five venues
that each do the same thing in other words.  The hazards are listed with their
lines in `PROJECT.json`.

## 2. Plan

The order path comes first: it is what loses money when it is wrong.  Then the
parts that keep what the order path relies on (database, connections, requests),
then accounts, then the data and the algorithms built on it.

| Module | Uses | Models |
| --- | --- | --- |
| `OrderStatus` | | the statuses and the table of their moves |
| `OrderStatusSpec` | `OrderStatus` | the abstract specification: what the cache promises about the status of an order |
| `OrderLifecycle` | EXTENDS `OrderStatus`, INSTANCE `OrderStatusSpec` | strategy, EMS queue, OMS calls, stream, registry, cache, venue: any venue |
| `OrderLifecycleProofs` | EXTENDS the one before | theorems about it |
| `OrderTickets` | | what an order says, and what a coroutine may do with it |
| `BinanceOrders`, `OkxOrders`, `BybitOrders`, `BitgetOrders`, `HyperliquidOrders` | EXTEND `OrderTickets` | the OMS of each venue: requests, answers, reports |
| `VenueOrders`, `VenueOrdersProofs` | INSTANCE of the five, EXTENDS `OrderTickets` | one account of any of them under the bounded submit queue; theorems about it |
| `ApiLimits` | | the rate-limiter windows of every request |
| `ApiCalls` | EXTENDS `ApiLimits` | a request through limiter, attempts and answer; the end of the engine |
| `VenueAccounts`, `VenueAccountsProofs` | | positions and balances of one account; theorems about them |
| `CacheSync` | EXTENDS `OrderStatus` | memory and database through rounds, crashes and restarts |
| `ServicesProofs` | EXTENDS `CacheSync` and `ApiCalls` | theorems about the two |
| `WsClient` | | the pool of connections of one client, and the connection policy |
| `Subscriptions` | EXTENDS `WsClient` | the two request queues and handlers in front of it |
| `FeedTopics` | | topics, messages and events of every venue |
| `Feeds`, `FeedsProofs` | EXTENDS `FeedTopics` | market data from the request to the strategy's handler, and the gates |
| `Warmup` | | past klines, page by page, and the warm-up of an indicator |
| `Klines` | | the klines two aggregators build of the same trades |
| `MarketDataProofs` | EXTENDS `Subscriptions` and `Klines` | theorems about the client, the manager and the klines |
| `Twap` | | one TWAP execution against a venue that fills when it likes |
| `StrategyProofs` | EXTENDS `Warmup` and `Twap` | theorems about the two |
| `FoldLemmas` | | induction over sets and sequences: what the folds and the choices of the models compute |

Each module that TLC runs has an `MC` module with the definitions its
configuration needs.  Definitions whose comment begins with *Mutant* are broken
variants of the definition they stand before; nothing uses them but the
experiments of `PROJECT.json`.

All of these are written.  What would come next, in this order: the entry
prices of positions; `OidGen` under a clock that steps back.

## 3. The modules

### OrderLifecycle

The actions are the pieces of code between two awaits.

| Action | Code |
| --- | --- |
| `SubmitCreate`, `SubmitCancel`, `SubmitCancelAll`, `SubmitModify` | the strategy's calls: intent or in-flight marks, then a submission on the account's queue |
| `HandleCreate`, `HandleRequest`, `HandleCancelAll` | the queue's consumer (`base/ems.py:609`), which registers and starts the OMS coroutine; cancel-all as each EMS does it: `native` (one request), `each_open` (OKX: wait for the in-flight creates, then every open order), `each_visible` (Hyperliquid, Bitget: the orders `get_open_orders` shows) |
| `HandleAnswer` | the rest of the coroutine after its await, or the handler of the WebSocket API: REST and WebSocket creates and cancels, modifies |
| `DeliverReport` | the parsers of the user-data stream and `order_status_update` |
| `EvictOrder`, `ReloadOrder` | the cache's cleanup, and `get_order` of an order that is not in memory |
| `LoseAnswer`, `LoseReport` | a timeout or connection error (the coroutine takes it for a failure), a report sent while the stream is down |
| `Exchange...` | the venue: takes or refuses a call, fills, cancels, expires |

State corresponds to the code as the comments at the VARIABLES say: `registered`
and `tmpOrders` are the registry, `memOrders` to `inflight` the cache's
structures, `stored` the row of the database, `notified` the last order event
the strategy was sent.  `swept` and `lost` exist for the properties.  Every
path ends in `OrderStatusUpdate`, which is `order_status_update` with the calls it makes:
the drop of unregistered orders, the event, the table's verdict, the sets.

`OrderStatusSpec` is the abstract view: an order's status moves along the table,
a close is final, an eviction hides the status and does not forget it.
`StatusPromise` says that `OrderLifecycle` implements it, with what memory or the
row holds as the last status.

### VenueOrders and the five venues

`OrderLifecycle` is what the venues share; `VenueOrders` is where they differ.  A
behaviour is on one account of one venue.  A venue's module gives, as functions
of the account and the ticket: the *coroutine* of each submission (what it sends
and on which route, where it raises, what it posts on a refusal or an
exception), the verdicts of a batch and of the WebSocket API, and how a report
is read.  `VenueOrders` runs them: `Consume` takes the next submission and starts the
coroutine or awaits it (`HoldsQueue`), an exception there ends the consumer (`dead`);
a put into a full queue waits in a task and comes later (`late`, `FlushLate`); the venue takes or
refuses each leg (`VenueCreates`), a request finds the order it names or strays
(`VenueRequests`), orders are worked in the venue's own words (`VenueMoves`).
`unclear` and `strayed` exist for the properties.  Words are members of small sets;
a conversion is a table from one set to the other, so that reading back what was
written is checked, word by word.

### ApiLimits and ApiCalls

`Windows` gives for every account and operation the windows of the limiter it takes
of, in the order of the code: creates, cancels and modifies are refused at once
when a window is full (and what was taken of the windows before it stays
taken), listen keys, the address windows of Bybit and Bitget and all queries
wait.  REST, WebSocket and blocking client each have a limiter of their own.

`ApiCalls` sends a request through it.  `Attempt` is one HTTP call: the venue carries
the request out or not, and answers, refuses, asks to try again (`busy`) or breaks off.
`Retry` is the loop of `RetryManager.run`, `TriedAgain` what its check knows: Binance's,
OKX's and Bybit's codes; Bitget's codes are strings compared with numbers and never
match, and Hyperliquid's client has no `RetryManager`.  `End` hands the answer or the
exception to the caller: over REST an order is posted FAILED, over the WebSocket API the
exception ends a task.  `CancelAll`, `CancelTimesOut` and `Save` are
`TaskManager.cancel` and the close of the cache.  A query of the blocking client holds
the loop (`LoopFree`).

### VenueAccounts

`Build` is the constructor of the OMS: balances, positions, the check of the position
mode, any of which may refuse the start.  The venue trades and moves funds (`Trade`,
`Transfer`) and sends a frame in its form: signed or sided sizes, contracts or units,
deltas or totals, whole lists or single entries.  `Handle` is the parser: an exception,
or a return, leaves what is behind it in the frame unread.  At the start of Binance's
linear and inverse accounts an asset may be read with a profit of `Profits` in it.
`KeepAlive` and `KeyExpires` are Binance's listen key.  `lost` names the symbols and
assets whose last change never reached the cache: sent to nobody, dropped with a
connection, behind an unreadable entry, or read at the start as another amount.

### CacheSync

`CopyOrders`, `CommitOrders`, `CopyParams`, `CommitParams` are the steps of
`_periodic_sync`; a `sync_*` call is a snapshot and a commit, since its rows become
visible together.  Between any two of them the loop may handle a report
(`Report`), let an order age past the expiry (`Age`), reload it or set a parameter.
A statement may raise and end the task (`SyncRaises`); the process may be killed
(`Crash`), stop in order (`Stop`: one last synchronisation), or fail while
stopping (`StopFails`), and starts again with the parameters and without the orders.
`told` is the venue's last word and exists for the properties.  `Placed` holds
the orders of venues whose reports carry the time of the placement; the
properties are about the others.

### WsClient and Subscriptions

`WsClient` numbers the connections as the code does.  `Subscribe` and `Unsubscribe`
register topics (creating connections up to the limit, and raising in the
middle of a list beyond it) and send at once to a connection that looks open;
`Connect`, `ConnectOk`, `ConnectFail`, `AuthDone`, `NoticeDrop` and `Retry` are the reconnect loop
of each connection; `Drop` and `VenueTakesLogin` are the network and the venue.  The
transport is never reset, so a dropped one still looks open: `transport` is `"down"` until
the next connection replaces it, and what is sent to it is lost.  `allow` is the policy the engine
recomputes inside each change (`NotifyConnectionChange`).

`Subscriptions` puts the request queues in front of it, or, for a private stream, the
connector's own requests.  The order in which the
loop runs the two handlers is part of the state (`woken`), because a handler
does not give up control between two requests while its queue has some: this
is what keeps a subscribe and a later unsubscribe in order, or not.

### FeedTopics and Feeds

`FeedTopics` has a table per venue for each step: the connector's calls for a feed, the
topics the client asks for, and the events the messages of a topic are parsed
into.  `Feeds` runs a strategy's requests through the two queues of the SMS, the
connector with its aggregators, the cache, the gates and the strategy's
handlers, and delivers messages event by event: an exception in the strategy's
handler leaves the rest of the message unpublished.  The book of Bybit is kept
level by level through snapshots, changes and drops.  `turned` and `cut` name the
requests the properties leave out: turned around while queued, and silenced by
the unsubscription of a feed that shares their topic.

### Warmup, Klines

`Warmup` is `request_klines` of Binance, OKX and Bybit, page by page while the clock
goes on: `Answer` is the venue reading a page, `Fetch` the program parsing it, later,
and deciding which of its bars are closed (`Confirmed`).  A tick stands for the unit of
the clock, a millisecond; clock and venue are taken to agree.  The result warms an
indicator, together with live klines that queue up behind the blocking request.
`Klines` feeds the same trades to a time and a volume aggregator: builder update, drop
of older trades, splitting of a trade over bars, reset and the timer.  Prices and sizes
are whole numbers.

### Twap

One execution: the command, the timer and its queued callback, the slices, the
take-over of the last limit order, the cancel command.  The algorithm decides
on `seen` and `seenFilled`, what the cache shows; `place` and `filled` are the venue's, which
moves on its own.  `counted` is the amount the algorithm's books give to an order
and `missed` marks an order the algorithm gave up because the cache did not
show it; both exist for the properties.

## 4. What the runs check

| Run | Asks | Bounds |
| --- | --- | --- |
| `lifecycle_races` | registry, sets, events, closes and the abstract specification, all at once | one order, both kinds of create and cancel, two further requests (a cancel-all is one native request, accepted or refused), one eviction or reload, slow venue, lost answers and reports |
| `lifecycle_cancel` | is a hidden order really being cancelled, does cancel-all reach what was submitted before it, is every order answered and every fill seen | two orders, one of which raises before its call, two cancels, modifies and cancel-alls over REST, OKX's cancel-all, lost answers, no lost reports |
| `sweep_visible` | ends in a counterexample, see below | one order, one cancel-all |
| `venue_orders` | verdicts, conversions, routes, silence, on every account | one order alone and one batch of two, every type, product and time in force a case differs on, one further request, a queue of one, lost answers |
| `api_calls` | verdicts, silence after the cancellation, end of the shutdown | every account, two requests of any kind, one retry, windows a second order finds full |
| `accounts` | positions and balances against the venue's | every kind of account, five symbols of which two are unknown, hedged or not, a profit of one in a margin balance, two moves, frames of two, reconnections, restarts, a listen key given up after two failures |
| `cache_sync` | `get_order`, an orderly stop, eventual saving | two orders, one with placement times, one parameter, two starts, failing statements, crashes |
| `sms` | requests against registrations, resubscription, policy, delivery | three topics (one unknown), three requests of one topic or two, two connections of one topic, two drops, slow logins; public behind the queues, or private |
| `feeds` | what is asked for is sent, gates, books, shared trades | seven accounts of five venues, five menus of feeds, two symbols (symmetric), three requests |
| `warmup` | pages, live klines, warm-up | three venues, bars of two ticks, pages of two, nine ticks, three live klines |
| `klines` | full bars, agreement of the aggregators | three trades of 1, 4 or 8 against a threshold of 3, three intervals, late trades |
| `twap` | books, take-overs, cancels, the end | five commands of up to five lots and three slices |

The bounds are enough for the cases in question to occur.  A race in
the life of one order needs that order, its create, and one or two requests and
answers that overlap (orders share only the queue and the
sets, which are indexed by order; `lifecycle_cancel` and `venue_orders` have two of them on one
queue).  An eviction followed by a late report needs one eviction.  A full queue needs
one place and two submissions; what differs in a batch shows on two legs.  A consumer
whose cancellation is swallowed twice needs two requests.  The quotas of
`api_calls` are scaled down and the costs are the code's, so that the second order finds a
window full; a window's end is looked at only where a call lacks room, which is
the only place it can be told.  `accounts` scales the five failures after which a listen
key is given up and the three an hour lasts for to two and one: the key may
expire before it is given up, and after.  A feed that is silenced by another
needs one request for each and one to take one back.  A page boundary needs more bars than a page
has, and a bar that closes during a request a tick between two pages, or between the venue's read of
a page and its parsing.  (The repository does not say how many bars Binance puts on a page at
most, so `Warmup` takes any limit as the size of one.)  A trade that spans
several bars needs a size above twice the threshold.  Every property is paired
in `PROJECT.json` with a plausible bug of the code that the run finds.

`CHECK_DEADLOCK FALSE` stands where everything asked may be done and the model's
bounds used up, so that nothing is left to do: the process idles, or has saved
its state and ended.

### Fairness

* `OrderLifecycle`: the queue's consumer, the handling of an answer that has come and
  the delivery of a report are weakly fair, because the event loop runs every ready task
  and none of these waits for anything else.  A call the venue has not answered fails in
  the end: the REST clients have a timeout of ten seconds, which the coroutine takes for
  a refusal.  The venue is under no obligation to fill, cancel or report an expiry.
* `ApiCalls`: some call makes a step while one can (each has finitely many: limiter waits
  and HTTP requests have timeouts, retries are counted), and the disposal goes on.
* `CacheSync`: the loop resumes the sync task when the database has answered.
  Nothing is assumed once a statement has raised.
* `WsClient`, `Subscriptions`: the reconnect loops and the handlers are tasks of the event
  loop (weak fairness); a connection that is attempted again and again succeeds
  (strong fairness), which is the assumption that the venue can be reached in the
  end; drops are bounded.
* `Twap`: the timer goes off and its callback runs.  Nothing is assumed of orders.

### Disagreements

One is a run that ends in a counterexample.  `sweep_visible`:
`Strategy.cancel_all_orders` marks every open order as being cancelled, and
Hyperliquid's and Bitget's EMS then ask for the open orders *without* the marked
ones: none is cancelled.

Others were met while modelling and are part of the models; the properties are
stated so that they do not depend on them, and say so where they except a case.

Orders:

* EXPIRED is a move only from ACCEPTED and PARTIALLY_FILLED: an order that expires
  while CANCELING, CANCEL_FAILED or PENDING stays open here (`constants.py:287`).
* The event of a status goes out before the table is asked (`base/oms.py:64`): a
  late create answer makes the strategy hear ACCEPTED, then PENDING.
* A refused modify is posted as FAILED; if the order is still PENDING it is closed
  and no longer followed, and it is live at the venue (`exchange/binance/oms.py:1014`).
* A cancel over the WebSocket API of an order created over REST, and a refused native
  cancel-all, fail without a word: the intent stays and `get_open_orders` hides the live order
  (`exchange/binance/oms.py:175`).  `lifecycle_cancel` therefore uses REST cancels.
* Hyperliquid keeps an order under another id than the one `create_order` returned
  (`exchange/hyperliquid/ems.py:127`): a cancel with that id, which is what
  `src/docs/source/concepts/orders.rst:108` tells the user to pass, never finds it
  (`EveryRequestReachesItsOrder`).
* OKX's REST client raises on a batch the venue took in part (`exchange/okx/rest_api.py:650`) and
  Hyperliquid's loop on a leg without a price, market or limit (`exchange/hyperliquid/oms.py:399`,
  `:418`): every leg is posted FAILED, the ones taken included (`FailsAsOne`).
* A limit or post-only create without a price is refused by the venue, and on Bitget and
  Hyperliquid the branch that posts the refusal takes `float` of that price
  (`exchange/bitget/oms.py:814`, `:908`, `exchange/hyperliquid/oms.py:309`): it raises,
  and the strategy hears nothing (`Unspoken`).  On Hyperliquid the consumer awaits the
  create and ends with it (`UpdateRaises`).
* A Bybit batch goes out under the category of its first order (`MixedBatch`).
* Bitget's batch and tp/sl orders and Hyperliquid's tp/sl orders are `NotImplementedError`s
  raised inside the consumer, which they end; an unpriced limit stop on Binance does the same.
* The stop-loss and take-profit orders of Binance are sent whether or not the entry was
  taken; the answers to tp/sl orders on OKX and Bybit are dropped (`Unspoken`).
* The answer to a cancel replaces the cached order by one without amount and type.

Requests and shutdown:

* An order the limiter refuses over the WebSocket API raises in a task of its own:
  nothing tells the strategy.  On Hyperliquid it ends the consumer.
* What a refused request took of the windows before the full one stays taken; a retry
  does not ask the limiter.
* `retry_check` of OKX answers None for anything but OKX's own error, so that a broken
  connection is not retried; Bitget's list of codes never matches; a batch of OKX raises
  the code of its first refused leg, which is what is looked up.  The docstring of
  `RetryManager.run` promises None when the retries fail, the code raises.
* `RetryManager.run` swallows `CancelledError` (`base/retry.py:176`).  A REST create
  that is canceled at the shutdown is posted FAILED though the venue may have it, and
  saved like that; a consumer that awaited it goes on with its queue; if that happens
  twice the engine waits for the consumer for ever (`ShutdownEnds`).
* Queries of the blocking client, and their waits for the limiter, hold the event loop.

Accounts:

* Nothing is read again after a reconnection; what the stream said meanwhile is
  missing until the next change.  Binance's listen key is not renewed once it has expired.
* The start of Binance's linear and inverse accounts reads the margin balance, the
  profit of open positions in it (`exchange/binance/schema.py:47`), and the stream sets
  the wallet balance (`:643`): until a frame tells of the asset its balance is off by
  that profit (`MarginProfits`, marked `lost`).
* The portfolio margin account of Binance reports one wallet at a time, which replaces
  the sum read at the start.  Hyperliquid's quote balance is counted on from fills and
  never corrected.  Bitget's balances are unknown until the stream's first report.
* A Bitget snapshot with an unknown symbol closes nothing; a Bybit option position is booked
  under the entry before it; Bybit refuses to start with a position in an unknown symbol, and
  Bybit and Bitget start with a hedged account as long as it is flat.

Data:

* OKX's index price is asked for as `index-tickers` and handled as `index-ticker`: it is
  never heard (`Deaf`).  A spot ticker of Bybit has none of the prices the handler reads.
* A snapshot of Bybit with an empty side leaves that side as it was (`leftover`).
* Giving up one of the feeds that share a topic silences the others (`cut`);
  `unsubscribe_trade` takes the trades from the klines built of them (`base/sms.py:362`).
* After a volume kline is unsubscribed its entry stays, and the next subscription of
  one raises and ends the subscribe handler (`base/sms.py:266`).
* A symbol given with ready=True opens the gate for a symbol that waits
  (`strategy.py:976`); the gate of the trades ignores a second list of symbols; a
  refused funding-rate request leaves a handler whose missing gate loses later events of
  the same message.
* Past klines: OKX compares an end with the clock and returns nothing for one that is past,
  returns bars before the start, and without a start at most its first page; the
  limit of Binance is the size of a page, not of the answer.
* Warm-up: open live klines count; the first live kline is dropped when the history
  alone has warmed the indicator; a closing bar that was queued during the request is
  counted twice if it was subscribed to before.
* Binance's and Bybit's connectors decide whether a past kline is closed by their own
  clock, when the answer is parsed and from the bar's last millisecond on
  (`exchange/binance/connector.py:650`, `exchange/bybit/connector.py:702`): a bar that
  the venue read while it was open is counted with the values it had then, and its close
  may come again on the stream (`unripe`).  OKX takes the venue's word; there a bar that
  ends while the answer travels is left out.
* A trade overtaken by a later one is counted by the volume loop although the builder
  drops it: the bar is published below its threshold (`aggregation.py:331`).

Persistence and algorithms:

* Hyperliquid stamps reports with the time of the placement (`exchange/hyperliquid/oms.py:864`),
  so the cleanup may evict a report that was never written (`Placed`).
* A cleared parameter is never deleted from the database and is back after a
  restart (`core/cache.py:589`).
* `Twap`: a limit order that fills between the cache's last look and its cancel is
  executed twice; one the cache does not show when the timer goes off is given up
  uncancelled; the cancel command passes over such orders too; a command before the first
  book raises and leaves the execution RUNNING without a timer; a remainder no
  larger than the smallest order is dropped.

## 5. What is proved

TLAPS checks the following for every value of the constants that satisfies the modules'
assumptions.  `LifecycleAssumption`, `CacheSyncAssumption`, `ApiCallsAssumption`,
`WsClientAssumption`, `SubscriptionsAssumption`, `KlinesAssumption` and `TwapAssumption`
only give the constants their types.  `FeedsAssumption` also says what a strategy can ask
for: the kinds of feed, the intervals and the depths of the code's own enumerations.
`VenueOrdersAssumption` says that a batch gives each of its orders an id of its own
(`strategy.py:584`), that a ticket names a product its account trades, and that amounts
are whole numbers of contracts.  `WarmupAssumption` says that a bar is longer than a
tick (the code counts in milliseconds and its shortest bar is a second): the loops of
Binance and Bybit ask for the next page one tick after the last bar began and stop when
that is the end, which would lose a bar of one tick.  The proofs need no bound: every
`Max...` constant may be any number, and sets of orders, symbols, topics or requests may
be infinite.

**Orders (`OrderLifecycleProofs`).**  The inductive invariant is `LifecycleInv`.  The
invariants the runs check are not inductive by themselves: that the registry
equals in-flight plus open orders (`RegistryMatchesCache`) survives a create only if
the order was never seen before, so the invariant says that a create is queued
once (`CreatesAreOnce`) and that an order not yet handled is unknown everywhere
(`FreshIsUnknown`); the agreement of sets and objects (`OpenSetsMatchOrders`) survives a
reload only if the row agrees with the sets (`OpenIsLast`); that a close is the last
thing heard needs it to be remembered past an eviction (`CloseIsRemembered`).  From
it follow `RegistryIsExact`, `OpenSetsAreExact`, `CloseIsHeardLast` and
`CacheKeepsPromise`, the refinement of `OrderStatusSpec`: each step moves the shown
status as the abstract `Next` does or leaves it.

`VenueInv` adds the venue: it is asked once to create an order, closing reports
on the stream and closing statuses are true, and while a closed order is followed
its closing report is still on the way.  From it: `ClosesAreTrue`,
`ClosesAreSeen` and `OrphansAreAnnounced` (with `FollowedUntilClosed`).

The cancellations depend on how a venue cancels, and their theorems have hypotheses that
say so.  `HiddenOrdersAreCanceled` is for REST cancels and a cancel-all
that cancels the open orders one by one (`each_open`, which is OKX's): an intent stands for
a request queued, sent or accepted, or for a cancel-all in the queue that will
find the order (`IntentIsPursued`).  Without either hypothesis it fails, for the
reasons section 4 lists: a WebSocket cancel or a native cancel-all may fail
without a word, and `each_visible` skips the marked orders.  `CancelAllReachesAll` is for
`each_open` with a venue that acknowledges within the five seconds the EMS waits, and no
eviction before it does: an order in flight that the venue has taken has its
acknowledgement on the way (`AckIsComing`), so the cancel-all that waits for it finds it open
(`SweepIsPursued`).

**Orders of every venue (`VenueOrdersProofs`).**  Two parts.  The first is about words: what
each OMS makes of a ticket goes to the account and the book of its product (`WireRoute`,
`CreateOutcome`, `LegOutcome`, `RequestOutcome`), and each venue reads of a report what was asked
for (`BinanceReads` to `HyperliquidReads`, put together in `Reading`), whatever the
contract size.  The second is about steps.  The inductive invariant `Inv` follows an order from
the strategy to the venue's reports:

* in the queue: submissions are as the strategy makes them (`WellSubmitted`), one
  submission creates an order, it is in one place (`QueuedOnce`), and while it waits the
  venue knows nothing of the order (`MadeOnce`); of an order not submitted
  nothing is known (`Unheard`).  Two calls for one id would answer each other's orders.
* in its call (`WellCalled`): the legs of a call and the venue's answers to them stay in
  step, a wire asks for its own order, and what was answered is what the venue did, unless the
  call broke and the order is `unclear`.  This is what makes a verdict that of its own order.
* on the venue (`RightWires`): what the venue has is what was asked for.
* in its reports (`WellReported`, `FirstReported`): a report is of an order the venue worked,
  a failure is reported only of a rejected one, and on the venues that report every order a first
  report comes before the strategy hears of an expiry, which the base OMS does not pass on.
* with the strategy: pending only what the venue took (`PendingIsThere`), failed only what it did
  not (`FailedIsNot`), and each order submitted is registered or has been told of
  (`Registered`, `Settled`).

From it `VerdictIsItsOwn`, `ReportedAsAsked`, `EveryRequestReachesItsOrder` and
`EveryOrderIsSettled`, for any orders, any batch, any tickets, any number of requests and
any limit of the queue.

**Positions and balances (`VenueAccountsProofs`).**  What a frame says and what the
cache has of it need not agree with the venue while other frames wait behind it, so the
invariant (`AccountsInv`) is about the last one: of the frames under way, the last that
tells of a symbol has it where the venue has it (`Tells`), and if none tells of it the
cache has it there, unless its last change was lost (`SymbolComes`, `AssetComes`).  Each
venue has a lemma (`BinanceFollows` to `HyperliquidFollows`) that its handler leaves the
cache where the frame has it, by the fold over the entries with the ids it gives them,
and that what it could not read is counted as missed (`Missed`); a snapshot of Bitget
also closes what it does not list.  The quote of Hyperliquid is told of by no frame: the
moves of the fills under way, in order, lead from the cache to the venue
(`QuoteComes`).  Then a step appends one frame (`FrameSent`), takes the first, or cuts
the stream.  Hence `PositionsAreTheVenues` and `BalancesAreTheVenues`, for any symbols,
products and contract sizes, any number of frames and changes; assumed are a fee below
the size of a fill, no option among the markets that are loaded, and one spot pair, that
of the two assets (`AccountsAssumption`).  The profits in a margin balance are any whole
numbers.

**Cache (`ServicesProofs`).**  `GetOrderIsCurrent` and `StopSavesEverything`.  The step
that could break them is the eviction, so the invariant follows a round
(`RoundIsSafe`): an order reported since the round took its copy is held and not old,
every other one is in the table once the orders are committed; what `Evicted` drops
is therefore always in the table.

**Requests (`ServicesProofs`).**  `VerdictIsTrue` and `NothingSentAfterCancel`, for any
number of requests, any windows and quotas and any number of attempts.  A verdict
is given when a call ends, so the invariant (`VerdictInv`) follows the call to it: before it is
sent the venue has not carried it out, and after an attempt without an answer it is
unsure (`CarriedOut`).  Silence after the cancellation (`SilenceInv`) needs that once
the tasks are canceled anything under way, and the consumer itself, goes back to a
consumer that swallowed its cancellation.

**Connections (`MarketDataProofs`).**  `ClientInv` says that a topic is on one
connection (`RegistrationsOK`), that the task of a connection stands where its socket
and the engine's registry say (`LoopsOK`), that opening is allowed only as those states
allow it, and that nothing is served but on an open socket (`ServingOK`).  From it
`OpenConnectionsServe` and `AllowedMeansConnected`, for any number of connections,
topics, losses and logins.  The registration loop of `subscribe` is a fold over the
topics, and its lemma (`RegisterFacts`) is an induction along it.  `ManagerDrivesClient`
is a refinement: the subscription manager with its queues does to the client only what
the client's own specification allows, so all of this holds behind the queues too.
`RequestsAreHonoured` (`RegisteredAsAsked`) rests on `TopicsOK`: a topic whose requests
did not cross is queued on one side at most, that of the last request.

**Market data (`FeedsProofs`).**  Each venue has a lemma (`BinanceFits` to
`HyperliquidFits`) that its tables fit together: a feed has one topic, the messages of
that topic become the event of the feed, and the only klines among them are those asked
for; the feeds without a message (`Deaf`) are named.  `GatesInv` has the gates well
formed and honest (one that waited is open only if everything was heard or its time ran
out, and what it has heard is in the cache) and each request handled admitted to its
gate (`AskedAreAdmitted`); from it `ReadyIsTrue`.  `ListenInv` follows the handlers of
the strategy, which exist before the gate does: such an event has its gate, or its
request still waits (`HandledOK`), and klines have the gate of their interval because
only their own request brings them (`KlinesOK`); from it `NoEventIsLost`.  `FedInv`
follows each request to the topic and the aggregator it lives on; from it and the tables
`AskedFeedsArrive`.  `TradesStay` is an action property, proved step by step, and
`LocalBookIsTrue` is inductive once the book has its type.

**Klines (`MarketDataProofs`).**  `KlinesInv` keeps the bar being filled short of the
threshold, and the builders behind the clock and at the same time when they are fed
alike (`BuildersOK`).  A trade is split by a loop that is a fold; `ApplyVolumeFacts` is the
induction along it: any number of bars, each at the threshold, and no volume lost.  Hence
`VolumeBarsAreFull` and `BothCountTheSameTrades`.

**TWAP (`StrategyProofs`).**  `TwapInv` says what the followed order is (`FollowedOK`), when the
timer is set (`PhaseOK`), and that what the cache shows closed is closed (`SightOK`).  From it
`AmountsAddUp`, where the sums over slices and orders are changed one term at a time
(`SumChange`, `SumRest`), and `NoOrderLeftUnattended`.

**Past klines and warm-up (`StrategyProofs`).**  A page is a row of consecutive bars
(`Bars`), and what a request has collected is one row with the cursor at its open end
(`Row` in `LoopOK`): from its start on at Binance and Bybit (`NextPage`), down from the
newest bar at OKX (`OkxPages`).  While a page travels the clock goes on, so the
invariant has what the page was when it was read (`AnswerOK`).  A loop that ends has
reached what was there when it began (`AllAsked`), because it ends on a short page, on a
page with nothing new, past its end or past its start; the cut keeps the newest bars
(`WholeAfterCut`).  `PlaceOK` ties the list an indicator is in to its count and to what
it has heard, `WireOK` orders the live klines that wait, and `GivenOK` puts the closed
bars an indicator was given before those, but for a bar counted before its end, which
its close may follow (`Later`): what is counted is closed, or `unripe` (`BarsRead`).
The warm-up is a fold whose result is the first bars of the history (`WarmedUp`).  From
them `PagesFitTogether`, `NoLiveKlineTwice` and `WarmOnClosed`, for any bar, page size,
period and request.

The library's induction theorems take an operator as a parameter, which the installed
provers cannot instantiate.  `FoldLemmas` gets around it with sets: induction is stated
over subsets of Nat, the recursion under the folds is shown to have a solution and that
solution to be unique, and each fold of a model is then unfolded to it.  What the folds
of `Subscriptions`, `Feeds`, `Klines`, `Twap`, `Warmup` and `VenueAccounts` compute is
therefore proved for sequences of any length.

Model-checked only: the liveness properties (liveness under fairness and ENABLED
are out of this prover's reach).  Every invariant and every other action property of the passing
runs is the subject of a theorem.  No module declares a RECURSIVE operator.

## 6. Not modelled

* Signing, encoding, message schemas, the web server, the push service and
  the CLI: I/O and data.  Requests no other part of the system makes (savings,
  transfers, one-off tickers and funding rates).
* Mock connectors: marked stale in the source.
* Floats: amounts, prices and sizes are whole numbers, so rounding to a venue's
  precision is left out, except where it makes an amount disappear (`Twap`).
* Entry prices and profits of positions: derived numbers that nothing here reads.
* PostgreSQL: the same calls as SQLite behind a pool.
* `exit_after_cancel`: the engine calls the cancel-all of each OMS directly before it disposes
  of the tasks; what that call does is in `OrderLifecycle` and `VenueOrders`.
* Ids (`OidGen`): they are unique while the clock does not go back; an order's id is a
  model value here.
* `ApiCalls` takes it that the venue refuses a client order id it has seen before; without that a
  retried create could be carried out twice.
* Timers and jobs of the strategy's schedule, and algorithms other than TWAP: user code.
