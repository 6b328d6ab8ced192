---------------------------- MODULE MCVenueOrders ----------------------------
EXTENDS VenueOrders
CONSTANTS o1, o2
MCOids == {o1, o2}
MCSingles == {o1}
MCWorked == {o1}
MCBatchOf == <<o1, o2>>
MCSize == 2

\* Every type and time in force, with and without a price, and every stop, on
\* the products a case differs on.
Ticket(a, products, type, tif, priced, stop) ==
  [product : products \cap Sells(a), type : {type}, tif : {tif}, priced : {priced},
   amount : {2 * MCSize}, stop : {stop}]
First(a) ==
  UNION {Ticket(a, Products, "LIMIT", "IOC", TRUE, "limit"),
         Ticket(a, {"linear"}, "LIMIT", "FOK", TRUE, "none"),
         Ticket(a, {"spot", "inverse"}, "LIMIT", "GTC", FALSE, "none"),
         Ticket(a, {"spot", "linear"}, "POST_ONLY", "GTC", TRUE, "unpriced"),
         Ticket(a, {"spot", "linear"}, "MARKET", "GTC", TRUE, "market"),
         Ticket(a, {"linear"}, "MARKET", "GTC", FALSE, "none")}

\* The other order of a batch; on Bybit its market may be another one.
Second(a) ==
  Ticket(a, IF a = "bybit" THEN {"spot", "linear"}
            ELSE {IF "linear" \in Sells(a) THEN "linear" ELSE CHOOSE p \in Sells(a) : TRUE},
         "LIMIT", "GTC", TRUE, "none")

MCTicketsOf == [a \in AllAccounts |-> (o1 :> First(a)) @@ (o2 :> Second(a))]
MCAccounts  == AllAccounts
MCCreates   == Creates
MCRequests  == Requests
=============================================================================
