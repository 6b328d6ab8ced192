---------------------------- MODULE OrderTickets ----------------------------
(***************************************************************************)
(* What a strategy asks for when it creates an order, what a venue's OMS   *)
(* does with it up to its first await, and what it makes of a report.  The *)
(* modules BinanceOrders ... HyperliquidOrders give these their meaning.   *)
(***************************************************************************)
EXTENDS OrderStatus, Naturals, Sequences

Products     == {"spot", "linear", "inverse"}
OrderTypes   == {"LIMIT", "MARKET", "POST_ONLY"}
TimesInForce == {"GTC", "IOC", "FOK"}

\* Amounts are counted in units a contract may hold several of.  "stop" is
\* the stop order a tp/sl submission carries: none, a market order, a limit
\* order with its price, or one without.
Stops == {"none", "market", "limit", "unpriced"}
Tickets(amounts) ==
  [product : Products, type : OrderTypes, tif : TimesInForce, priced : BOOLEAN,
   amount : amounts, stop : Stops]

\* type.is_limit or type.is_post_only
NeedsPrice(t) == t.type \in {"LIMIT", "POST_ONLY"}
Unpriced(t)   == NeedsPrice(t) /\ ~ t.priced

\* A part of a venue that keeps orders of its own: the account and the book.
NoRoute == <<"nowhere", "nowhere">>

\* What a coroutine does up to its first await: it leaves by an exception, it
\* catches one and posts a failure, or it sends a request.
Raises      == [does |-> "raises"]
Fails       == [does |-> "fails"]
Sends(wire) == [does |-> "sends", wire |-> wire]

\* A request whose route may be missing: the exception is caught.
SendsOrFails(route, wire) == IF route = NoRoute THEN Fails ELSE Sends(wire)

\* The same in a coroutine without a try.
SendsOrRaises(route, wire) == IF route = NoRoute THEN Raises ELSE Sends(wire)

\* What a report says of an order; "none" where the code reads no such field.
Dropped == [status |-> "DROPPED", type |-> "none", tif |-> "none", amount |-> 0,
            product |-> "none"]

\* The verdicts of a batch: one answer a leg, or one exception for them all.
OnePerLeg(taken)  == [i \in DOMAIN taken |-> IF taken[i] THEN "PENDING" ELSE "FAILED"]
AllFailed(taken)  == [i \in DOMAIN taken |-> "FAILED"]
=============================================================================
