-------------------------------- MODULE Warmup --------------------------------
(***************************************************************************)
(* Klines of the past (request_klines of the connectors) and the warm-up   *)
(* of an indicator with them and with the live ones (indicator.py).        *)
(*                                                                         *)
(* A request is a loop of REST calls that blocks the event loop: live      *)
(* klines wait for its end, and the clock goes on between two of its pages *)
(* and while an answer travels.  Bar b begins at b * Interval and is       *)
(* closed at the next one.                                                 *)
(***************************************************************************)
EXTENDS Integers, FiniteSets, SequencesExt

CONSTANTS
  Venues,        \* those whose connector has request_klines
  Periods,       \* warmup_period of the indicator, and the limits of requests
  Interval,      \* ticks of a bar
  PageMax,       \* bars of a page: 100 at OKX, 1000 at Bybit
  BinancePage,   \* bars of a page of Binance without a limit: 500
  MaxTime,       \* bound: ticks
  MaxLive        \* bound: live klines that wait or were heard

ASSUME WarmupAssumption ==
  /\ Venues \subseteq {"binance", "okx", "bybit"}
  /\ Periods \subseteq Nat \ {0}
  /\ Interval \in Nat \ {0, 1}
  /\ {PageMax, BinancePage} \subseteq Nat \ {0}
  /\ MaxTime \in Nat /\ MaxLive \in Nat

VARIABLES
  venue,
  native,       \* the venue's klines, open ones too; FALSE: built, closed ones
  now,
  request,      \* [start, end, limit], None where it is not given
  phase,        \* "idle", "fetching", "answered", "done" or "failed"
  began,        \* newest bar when the request began
  cursor,       \* where the next page is asked for
  answer,       \* the page on its way, and the newest bar when the venue read it
  collected,    \* all_klines
  open,         \* the bars collected without confirm
  unripe,       \* those with it that had not ended when the venue read them
  place,        \* the list of the IndicatorManager it is in
  period, count, warm,   \* warmup_period, _warmup_data_count, _is_warmed_up
  handled,      \* what handle_kline got: [bar, closed, live], and if it is final
  subscribed,
  early,        \* subscribed before the indicator was registered
  wire,         \* live klines that wait for the loop
  heard,        \* live klines published with the indicator registered
  warmBefore    \* the history alone had warmed the indicator

indicator  == <<place, period, count, warm, handled, warmBefore>>
stream     == <<subscribed, early, wire, heard>>
loop       == <<request, phase, began, cursor, answer, collected, open, unripe>>
warmupVars == <<venue, native, now, indicator, stream, loop>>

None == -1
Newest == now \div Interval
Begin(b) == b * Interval
Oldest(bars) == Begin(bars[1])
Requesting == phase \in {"fetching", "answered"}
NoAnswer == [page |-> <<>>, newest |-> 0]
page == answer.page

-----------------------------------------------------------------------------
(* The venues' pages, in the order the code sorts them.                     *)

Bars(lo, hi) == [i \in 1..IF hi < lo THEN 0 ELSE hi - lo + 1 |-> lo + i - 1]
Ceiling(t) == (t + Interval - 1) \div Interval
Least(m, n) == IF m < n THEN m ELSE n
Most(m, n) == IF m < n THEN n ELSE m

\* The first bars from a start, the newest without one.
PageFrom(start, end, size) ==
  LET last == IF end = None THEN Newest ELSE Least(Newest, end \div Interval)
  IN  IF start = None THEN Bars(Most(0, last - size + 1), last)
      ELSE Bars(Ceiling(start), Least(last, Ceiling(start) + size - 1))

\* The newest bars before a time.
PageBefore(time, size) ==
  LET last == Ceiling(time) - 1 IN Bars(Most(0, last - size + 1), last)

\* The bars of a page or a history but for some of them.
Without(bars, some) ==
  FoldLeft(LAMBDA kept, b : IF b \in some THEN kept ELSE Append(kept, b), <<>>, bars)

-----------------------------------------------------------------------------
(* One page of each loop: what is asked for, then, of the page that came,   *)
(* what is collected, where it goes on, or that it ends.                    *)

\* The limit is the size of a page of Binance.
Size == CASE venue = "okx" \/ venue = "bybit" -> PageMax
          [] OTHER -> IF request.limit = None THEN BinancePage ELSE request.limit

\* OKX: the newest, then page by page what is before; "cursor" is the oldest
\* bar's begin.
Asked ==
  IF venue = "okx" THEN PageBefore(IF collected = <<>> THEN now + 1 ELSE cursor, Size)
  ELSE PageFrom(cursor, request.end, Size)

GoesOn(all, next) == [all |-> all, next |-> next, ends |-> FALSE]
Ends(all)         == [all |-> all, next |-> None, ends |-> TRUE]

\* BinancePublicConnector.request_klines
BinanceFetch ==
  LET all  == collected \o page
      next == Begin(Last(page)) + 1
  IN  IF page = <<>> \/ Len(page) < Size \/ (request.end # None /\ next >= request.end)
      THEN Ends(all) ELSE GoesOn(all, next)

\* Mutant: a page goes on from the bar it ended with.
BybitFetchOverlaps ==
  LET all == collected \o page
  IN  IF page = <<>> \/ Begin(Last(page)) = cursor THEN Ends(all)
      ELSE GoesOn(all, Begin(Last(page)))

\* BybitPublicConnector.request_klines: until a page has nothing new.
BybitFetch ==
  LET fresh == Without(page, ToSet(collected))
      all   == collected \o fresh
      next  == Begin(Last(page)) + 1
  IN  IF fresh = <<>> \/ (request.end # None /\ next >= request.end)
      THEN Ends(all) ELSE GoesOn(all, next)

\* OkxPublicConnector.request_klines: only a start makes it go on, when the
\* time its newest page was read at is past it.
OkxFetch ==
  IF collected = <<>>
  THEN IF request.start # None /\ now > request.start /\ Oldest(page) > request.start
       THEN GoesOn(page, Oldest(page)) ELSE Ends(page)
  ELSE LET fresh == Without(page, ToSet(collected))
           all   == fresh \o collected
       IN  IF fresh = <<>> \/ Oldest(page) <= request.start
           THEN Ends(all) ELSE GoesOn(all, Oldest(page))

\* The confirm of a kline.  OKX has it from the venue; Binance and Bybit go by
\* their own clock when the answer is parsed, from a bar's last tick on.
Confirmed(b) == IF venue = "okx" THEN b < answer.newest ELSE Begin(b + 1) - 1 <= now

\* What the loops do at their end.  The bars of OKX carry the time they were
\* read at, and that is what its end_time is compared with.
Cut(all) ==
  LET recent == IF venue = "binance" \/ request.limit = None \/ Len(all) <= request.limit
                THEN all ELSE SubSeq(all, Len(all) - request.limit + 1, Len(all))
  IN  IF venue = "okx" /\ request.end > 0 /\ ~ now < request.end THEN <<>> ELSE recent

Page == CASE venue = "binance" -> BinanceFetch [] venue = "okx" -> OkxFetch
          [] OTHER -> BybitFetch

-----------------------------------------------------------------------------
(* The indicator: its state as a record [place, count, warm, handled].      *)

State == [place |-> place, count |-> count, warm |-> warm, handled |-> handled]

\* Indicator._process_warmup_kline
ProcessWarmupKline(s, k) ==
  IF s.warm THEN s
  ELSE [s EXCEPT !.count = @ + 1, !.handled = Append(@, k), !.warm = s.count + 1 >= period]

\* Mutant: the warm-up list first, then the active one.
OnKlineTwice(k) ==
  LET s == IF place = "pending" THEN ProcessWarmupKline(State, k) ELSE State
      t == IF s.warm THEN [s EXCEPT !.place = "active"] ELSE s
  IN  IF t.place = "active" THEN [t EXCEPT !.handled = Append(@, k)] ELSE t

\* IndicatorManager.on_kline: an active indicator gets the kline; a pending one
\* that is warm becomes active, and what made it warm, or found it so, is done.
OnKline(k) ==
  LET s == ProcessWarmupKline(State, k)
  IN  IF place = "active" THEN [State EXCEPT !.handled = Append(@, k)]
      ELSE IF s.warm THEN [s EXCEPT !.place = "active"] ELSE s

Becomes(s) ==
  /\ place' = s.place /\ count' = s.count /\ warm' = s.warm /\ handled' = s.handled

\* Mutant: the open bar of the history counts too.
PastWithOpen(all, opened, unfinished) ==
  [i \in DOMAIN all |-> [bar |-> all[i], closed |-> all[i] \notin opened, live |-> FALSE,
                         final |-> all[i] \notin opened \cup unfinished]]

\* _perform_indicator_warmup: the bars of the history that have confirm.
Past(all, opened, unfinished) ==
  LET closed == Without(all, opened)
  IN  [i \in DOMAIN closed |-> [bar |-> closed[i], closed |-> TRUE, live |-> FALSE,
                                final |-> closed[i] \notin unfinished]]

-----------------------------------------------------------------------------
Asks(r) ==
  /\ request' = r /\ phase' = "fetching" /\ began' = Newest
  /\ cursor' = r.start /\ collected' = <<>> /\ open' = {} /\ unripe' = {}
  /\ UNCHANGED answer

\* register_indicator, with its warm-up.
Register ==
  /\ phase = "idle"
  /\ \E n \in Periods :
       /\ n * Interval <= now
       /\ period' = n
       /\ Asks([start |-> now - n * Interval, end |-> None, limit |-> n])
  /\ place' = "pending" /\ early' = subscribed
  /\ UNCHANGED <<venue, native, now, count, warm, handled, warmBefore, subscribed, wire, heard>>

\* Strategy.request_klines; request_index_klines runs the same loops.
RequestKlines ==
  /\ phase = "idle"
  /\ \E start, end \in {None} \cup 0..now, limit \in {None} \cup Periods :
       /\ start = None \/ end = None \/ start < end
       /\ Asks([start |-> start, end |-> end, limit |-> limit])
  /\ UNCHANGED <<venue, native, now, indicator, stream>>

\* The venue reads a page.
Answer ==
  /\ phase = "fetching"
  /\ phase' = "answered" /\ answer' = [page |-> Asked, newest |-> Newest]
  /\ UNCHANGED <<venue, native, now, indicator, stream, request, began, cursor, collected,
                 open, unripe>>

\* The page is parsed.
Fetch ==
  /\ phase = "answered"
  /\ LET read == ToSet(Page.all) \ ToSet(collected)
     IN
     /\ open' = open \cup {b \in read : ~ Confirmed(b)}
     /\ unripe' = unripe \cup {b \in read : Confirmed(b) /\ b >= answer.newest}
     /\ IF Page.ends
        THEN /\ phase' = "done"
             /\ collected' = Cut(Page.all)
             /\ cursor' = None
             /\ IF place = "pending"
                THEN LET s == FoldLeft(ProcessWarmupKline, State,
                                       Past(Cut(Page.all), open', unripe'))
                     IN  Becomes(s) /\ warmBefore' = s.warm
                ELSE UNCHANGED <<place, count, warm, handled, warmBefore>>
        ELSE /\ phase' = "fetching"
             /\ collected' = Page.all
             /\ cursor' = Page.next
             /\ UNCHANGED <<place, count, warm, handled, warmBefore>>
  /\ answer' = NoAnswer
  /\ UNCHANGED <<venue, native, now, period, stream, request, began>>

\* A call raises: the warm-up is left to the live klines.
FetchFails ==
  /\ Requesting
  /\ phase' = "failed" /\ answer' = NoAnswer
  /\ UNCHANGED <<venue, native, now, indicator, stream, request, began, cursor, collected, open,
                 unripe>>

Subscribe ==
  /\ ~ Requesting /\ ~ subscribed
  /\ subscribed' = TRUE
  /\ UNCHANGED <<venue, native, now, indicator, early, wire, heard, loop>>

MayPublish == heard + Len(wire) < MaxLive
Live(b, closed) == [bar |-> b, closed |-> closed, live |-> TRUE, final |-> TRUE]

\* The clock; a bar that ends is sent closed.
Tick ==
  /\ now < MaxTime
  /\ now' = now + 1
  /\ LET ends == (now + 1) % Interval = 0
     IN  /\ ends /\ subscribed => MayPublish
         /\ wire' = IF ends /\ subscribed THEN Append(wire, Live(Newest, TRUE)) ELSE wire
  /\ UNCHANGED <<venue, native, indicator, subscribed, early, heard, loop>>

Update ==
  /\ native /\ subscribed /\ MayPublish
  /\ wire # <<>> => Last(wire) # Live(Newest, FALSE)
  /\ wire' = Append(wire, Live(Newest, FALSE))
  /\ UNCHANGED <<venue, native, now, indicator, subscribed, early, heard, loop>>

\* A live kline is published, once the loop runs.
Deliver ==
  /\ ~ Requesting /\ wire # <<>>
  /\ wire' = Tail(wire)
  /\ IF place = "none" THEN UNCHANGED <<heard, place, count, warm, handled>>
     ELSE heard' = heard + 1 /\ Becomes(OnKline(Head(wire)))
  /\ UNCHANGED <<venue, native, now, period, warmBefore, subscribed, early, loop>>

WarmupInit ==
  /\ venue \in Venues /\ native \in BOOLEAN /\ now = 0
  /\ request = [start |-> None, end |-> None, limit |-> None]
  /\ phase = "idle" /\ began = 0 /\ cursor = None /\ collected = <<>> /\ open = {}
  /\ answer = NoAnswer /\ unripe = {}
  /\ place = "none" /\ period = 0 /\ count = 0 /\ warm = FALSE /\ handled = <<>>
  /\ warmBefore = FALSE
  /\ subscribed = FALSE /\ early = FALSE /\ wire = <<>> /\ heard = 0

WarmupNext == \/ Register \/ RequestKlines \/ Answer \/ Fetch \/ FetchFails \/ Subscribe
              \/ Tick \/ Update \/ Deliver
WarmupSpec == WarmupInit /\ [][WarmupNext]_warmupVars

-----------------------------------------------------------------------------
(* Properties.                                                              *)

InARow(bars) == \A i \in DOMAIN bars \ {1} : bars[i] = bars[i - 1] + 1

\* The pages of a request, read while new bars begin, fit together: each bar
\* asked for that was there when the request began is returned, once and in
\* order, or the last "limit" of them.  OKX returns nothing for an end that is
\* past; without a start only the newest bars are promised.
HistoryIsWhole ==
  LET last  == IF request.end = None THEN began ELSE Least(began, request.end \div Interval)
      limit == IF request.limit = None THEN MaxTime ELSE request.limit
  IN
  phase = "done" =>
    /\ InARow(collected)
    /\ \/ venue = "okx" /\ request.end # None
       \/ request.start = None /\ \E b \in ToSet(collected) : b >= last
       \/ /\ request.start # None
          /\ \A b \in Ceiling(request.start) .. last :
               \/ b \in ToSet(collected)
               \/ Len(collected) >= limit /\ b < collected[1]

\* From its registration on an indicator gets every live kline once, warm or
\* not, but for the first one when the history alone has warmed it.
LiveIsHandledOnce ==
  Cardinality({i \in DOMAIN handled : handled[i].live})
    + (IF warmBefore /\ heard > 0 THEN 1 ELSE 0) = heard

\* A bar comes after a kline, or is the kline's own that had not ended in it.
Later(k, b) == k.bar < b \/ (k.bar = b /\ ~ k.final)

\* An indicator is warm after as many closed bars as it asked for, when its live
\* klines are closed bars too.  One subscribed to after its registration gives
\* none of them before another, and none twice but for a bar of the history
\* that was counted before it had ended.  OKX counts no such bar.
WarmOnClosedBars ==
  LET closed == {i \in DOMAIN handled : handled[i].closed}
  IN
  /\ venue = "okx" => \A i \in closed : handled[i].final
  /\ warm /\ ~ native => Cardinality(closed) >= period
  /\ ~ early => \A i, j \in closed : i < j => Later(handled[i], handled[j].bar)
=============================================================================
