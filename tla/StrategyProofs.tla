--------------------------- MODULE StrategyProofs ---------------------------
(***************************************************************************)
(* Proofs about what a strategy runs.                                      *)
(*                                                                         *)
(* The TWAP execution, for every total amount, every number of slices,     *)
(* every smallest order and both kinds of slices: the books of the         *)
(* algorithm always add up to the amount commanded, and no order is left   *)
(* working that nobody looks after.                                        *)
(*                                                                         *)
(* Past klines and the warm-up of an indicator, for every bar, page size,  *)
(* warm-up period and request: the pages read while new bars begin fit     *)
(* together, every live kline is handled once, and an indicator is warm    *)
(* after as many closed bars as it asked for.                              *)
(***************************************************************************)
EXTENDS Twap, Warmup, FoldLemmas, SequenceTheorems, FiniteSetTheorems

-----------------------------------------------------------------------------
(* TWAP: the invariant.                                                     *)

Spawned ==
  [limit : BOOLEAN, amount : Int, counted : Int, place : {"sent", "live", "done"},
   filled : Int, seen : {"NONE", "OPEN", "CLOSED"}, seenFilled : Int,
   cancel : BOOLEAN, missed : BOOLEAN]

TwapTypeOK ==
  /\ command \in Commands
  /\ status \in Statuses
  /\ schedule \in Seq(Int)
  /\ timer \in BOOLEAN /\ due \in BOOLEAN
  /\ orders \in Seq(Spawned)
  /\ limitOid \in Nat
  /\ skipped \in Int

\* The order the next timer event looks at is one of the execution's, still
\* counted on in full; only a running execution has one.
FollowedOK ==
  limitOid # 0 =>
    /\ limitOid \in 1 .. Len(orders)
    /\ orders[limitOid].limit /\ orders[limitOid].counted = orders[limitOid].amount
    /\ command.useLimit /\ status = "RUNNING"

\* Where an execution stands: the timer is set while one goes on, and an
\* execution recorded as running whose command raised has placed nothing.
PhaseOK ==
  /\ status = "NONE" => orders = <<>> /\ schedule = <<>> /\ skipped = 0
  /\ timer => status = "RUNNING" /\ ~ AtOnce /\ skipped = 0
  /\ due => status # "NONE"
  /\ due /\ status = "RUNNING" => timer
  /\ status = "RUNNING" /\ ~ timer => orders = <<>>
  /\ status # "RUNNING" => ~ timer

\* What the cache shows closed is closed, and only limit slices make limit orders.
SightOK ==
  \A i \in 1 .. Len(orders) :
    /\ orders[i].seen = "CLOSED" => orders[i].place = "done"
    /\ orders[i].limit => command.useLimit

TwapInv ==
  TwapTypeOK /\ FollowedOK /\ PhaseOK /\ SightOK /\ AmountsAccounted /\ NoOrderUnattended

-----------------------------------------------------------------------------
(* Amounts of sequences.                                                    *)

Counts(os) == [i \in 1 .. Len(os) |-> os[i].counted]

\* What is counted of the orders is a sum.
LEMMA CountedIsSum ==
  ASSUME NEW os \in Seq(Spawned)
  PROVE  /\ Counts(os) \in [1 .. Len(os) -> Int] /\ Len(os) \in Nat
         /\ Counted(os) = SumOf(Counts(os), Len(os))
<1>. DEFINE n == Len(os)
            v == Counts(os)
            IsFold(g) == g = [s \in SUBSET DOMAIN os |->
                                IF s = {} THEN 0 ELSE g[s \ {Max(s)}] + os[Max(s)].counted]
            f == CHOOSE g : IsFold(g)
<1>1. n \in Nat /\ DOMAIN os = 1 .. n /\ \A i \in 1 .. n : os[i] \in Spawned
  OBVIOUS
<1>2. v \in [1 .. n -> Int] /\ \A i \in 1 .. n : v[i] = os[i].counted
  BY <1>1 DEF Counts, Spawned
<1>3. Counted(os) = f[DOMAIN os]
  BY DEF Counted, FoldLeft, MapThenFoldSet
<1>. HIDE DEF v, n
<1>4. ASSUME NEW g PROVE IsFold(g) <=> IsAdding(g, v, n)
  <2>1. ASSUME NEW s \in SUBSET (1 .. n), s # {} PROVE v[Max(s)] = os[Max(s)].counted
    <3>1. Max(s) \in s
      BY <1>1, <2>1, MaxFacts
    <3>. QED BY <1>2, <3>1
  <2>2. [s \in SUBSET DOMAIN os |-> IF s = {} THEN 0 ELSE g[s \ {Max(s)}] + os[Max(s)].counted]
        = [s \in SUBSET (1 .. n) |-> IF s = {} THEN 0 ELSE g[s \ {Max(s)}] + v[Max(s)]]
    BY <1>1, <2>1
  <2>. QED BY <2>2 DEF IsAdding
<1>5. \E g : IsFold(g)
  <2>. HIDE DEF IsFold
  <2>. QED BY <1>1, <1>2, <1>4, AddingRecursion
<1>6. IsFold(f)
  <2>. HIDE DEF IsFold
  <2>. QED BY <1>5
<1>. HIDE DEF IsFold, f
<1>7. f[1 .. n] = SumOf(v, n)
  BY <1>1, <1>2, <1>4, <1>6, FoldIsSum
<1>. QED BY <1>1, <1>2, <1>3, <1>7 DEF v, n

\* The total of the schedule is a sum.
LEMMA TotalIsSum ==
  ASSUME NEW t \in Seq(Int)
  PROVE  t \in [1 .. Len(t) -> Int] /\ Len(t) \in Nat /\ Total(t) = SumOf(t, Len(t))
<1>. DEFINE n == Len(t)
            IsFold(g) == g = [s \in SUBSET DOMAIN t |->
                                IF s = {} THEN 0 ELSE g[s \ {Max(s)}] + t[Max(s)]]
            f == CHOOSE g : IsFold(g)
<1>1. n \in Nat /\ DOMAIN t = 1 .. n /\ t \in [1 .. n -> Int]
  OBVIOUS
<1>2. Total(t) = f[DOMAIN t]
  BY DEF Total, FoldLeft, MapThenFoldSet
<1>. HIDE DEF n
<1>3. ASSUME NEW g PROVE IsFold(g) <=> IsAdding(g, t, n)
  BY <1>1 DEF IsAdding
<1>4. \E g : IsFold(g)
  <2>. HIDE DEF IsFold
  <2>. QED BY <1>1, <1>3, AddingRecursion
<1>5. IsFold(f)
  <2>. HIDE DEF IsFold
  <2>. QED BY <1>4
<1>. HIDE DEF IsFold, f
<1>6. f[1 .. n] = SumOf(t, n)
  BY <1>1, <1>3, <1>5, FoldIsSum
<1>. QED BY <1>1, <1>2, <1>6 DEF n

\* An order that is spawned adds what is counted of it.
LEMMA CountedAppend ==
  ASSUME NEW os \in Seq(Spawned), NEW order \in Spawned
  PROVE  /\ Counted(os) \in Int
         /\ Counted(Append(os, order)) = Counted(os) + order.counted
<1>. DEFINE qs == Append(os, order)
            m == Len(os) + 1
<1>1. qs \in Seq(Spawned) /\ Len(qs) = Len(os) + 1 /\ Len(os) \in Nat
      /\ \A i \in 1 .. Len(os) : qs[i] = os[i]
  OBVIOUS
<1>6. qs[m] = order
  OBVIOUS
<1>. HIDE DEF qs
<1>2. /\ Counts(os) \in [1 .. Len(os) -> Int] /\ Counts(qs) \in [1 .. (Len(os) + 1) -> Int]
      /\ Counted(os) = SumOf(Counts(os), Len(os))
      /\ Counted(qs) = SumOf(Counts(qs), Len(os) + 1)
  BY <1>1, CountedIsSum
<1>3. \A i \in 1 .. Len(os) : Counts(qs)[i] = Counts(os)[i]
  BY <1>1 DEF Counts
<1>4. Counts(qs)[Len(os) + 1] = order.counted
  <2>1. Len(os) + 1 \in 1 .. Len(qs)
    BY <1>1
  <2>2. \A i \in 1 .. Len(qs) : Counts(qs)[i] = qs[i].counted
    BY DEF Counts
  <2>4. m \in 1 .. Len(qs)
    BY <2>1
  <2>. HIDE DEF m
  <2>5. Counts(qs)[m] = qs[m].counted
    BY <2>2, <2>4
  <2>6. Counts(qs)[m] = order.counted
    BY <1>6, <2>5
  <2>. QED BY <2>6 DEF m
<1>5. /\ SumOf(Counts(os), Len(os)) \in Int
      /\ SumOf(Counts(qs), Len(os) + 1) = SumOf(Counts(os), Len(os)) + Counts(qs)[Len(os) + 1]
  BY <1>1, <1>2, <1>3, SumFirst
<1>. QED BY <1>2, <1>4, <1>5 DEF qs, m

\* One order is counted anew.
LEMMA CountedChange ==
  ASSUME NEW os \in Seq(Spawned), NEW k \in 1 .. Len(os), NEW qs \in Seq(Spawned),
         Len(qs) = Len(os), \A i \in 1 .. Len(os) : i # k => qs[i].counted = os[i].counted
  PROVE  Counted(qs) = Counted(os) + (qs[k].counted - os[k].counted)
<1>1. /\ Counts(os) \in [1 .. Len(os) -> Int] /\ Counts(qs) \in [1 .. Len(os) -> Int]
      /\ Len(os) \in Nat
      /\ Counted(os) = SumOf(Counts(os), Len(os))
      /\ Counted(qs) = SumOf(Counts(qs), Len(os))
  BY CountedIsSum
<1>2. \A i \in 1 .. Len(os) : Counts(qs)[i] = qs[i].counted /\ Counts(os)[i] = os[i].counted
  BY DEF Counts
<1>3. \A i \in 1 .. Len(os) : i # k => Counts(qs)[i] = Counts(os)[i]
  BY <1>2
<1>4. SumOf(Counts(qs), Len(os)) = SumOf(Counts(os), Len(os)) + (Counts(qs)[k] - Counts(os)[k])
  BY <1>1, <1>3, SumChange
<1>. QED BY <1>1, <1>2, <1>4

\* What is counted does not change with anything else.
LEMMA CountedSame ==
  ASSUME NEW os \in Seq(Spawned), NEW qs \in Seq(Spawned),
         Len(qs) = Len(os), \A i \in 1 .. Len(os) : qs[i].counted = os[i].counted
  PROVE  Counted(qs) = Counted(os)
<1>1. /\ Counts(os) \in [1 .. Len(os) -> Int] /\ Counts(qs) \in [1 .. Len(os) -> Int]
      /\ Len(os) \in Nat
      /\ Counted(os) = SumOf(Counts(os), Len(os))
      /\ Counted(qs) = SumOf(Counts(qs), Len(os))
  BY CountedIsSum
<1>2. \A i \in 1 .. Len(os) : Counts(qs)[i] = Counts(os)[i]
  BY DEF Counts
<1>. QED BY <1>1, <1>2, SumSame

\* Nothing is counted of no orders.
LEMMA CountedNone == Counted(<<>>) = 0
<1>1. <<>> \in Seq(Spawned) /\ Len(<<>>) = 0
  OBVIOUS
<1>2. Counts(<<>>) \in [1 .. 0 -> Int] /\ Counted(<<>>) = SumOf(Counts(<<>>), 0)
  BY <1>1, CountedIsSum
<1>. QED BY <1>2, SumOfNone

\* A slice is taken off the schedule.
LEMMA TotalHead ==
  ASSUME NEW t \in Seq(Int), t # <<>>
  PROVE  /\ Head(t) \in Int /\ Tail(t) \in Seq(Int) /\ Total(Tail(t)) \in Int
         /\ Total(t) = Head(t) + Total(Tail(t))
<1>1. /\ Head(t) \in Int /\ Tail(t) \in Seq(Int) /\ Head(t) = t[1]
      /\ Len(t) \in Nat \ {0} /\ Len(Tail(t)) = Len(t) - 1
      /\ \A i \in 1 .. (Len(t) - 1) : t[i + 1] = Tail(t)[i]
  OBVIOUS
<1>2. /\ t \in [1 .. Len(t) -> Int] /\ Total(t) = SumOf(t, Len(t))
      /\ Tail(t) \in [1 .. (Len(t) - 1) -> Int] /\ Total(Tail(t)) = SumOf(Tail(t), Len(t) - 1)
  BY <1>1, TotalIsSum
<1>. DEFINE n == Len(t) - 1
<1>3. n \in Nat /\ n + 1 = Len(t)
  BY <1>1
<1>4. t \in [1 .. (n + 1) -> Int] /\ Tail(t) \in [1 .. n -> Int]
      /\ \A i \in 1 .. n : t[i + 1] = Tail(t)[i]
  BY <1>1, <1>2, <1>3
<1>5. Total(t) = SumOf(t, n + 1) /\ Total(Tail(t)) = SumOf(Tail(t), n)
  BY <1>2, <1>3
<1>. HIDE DEF n
<1>6. SumOf(t, n + 1) = t[1] + SumOf(Tail(t), n)
  BY <1>3, <1>4, SumRest
<1>7. SumOf(Tail(t), n) \in Int
  <2>1. PICK r : IsRunningSum(r, Tail(t), n)
    BY <1>3, <1>4, RunningSumExists
  <2>. QED BY <1>3, <1>4, <2>1, SumIsLast
<1>. QED BY <1>1, <1>5, <1>6, <1>7

\* The total of an empty schedule.
LEMMA TotalNone == Total(<<>>) = 0
<1>1. <<>> \in Seq(Int) /\ Len(<<>>) = 0
  OBVIOUS
<1>2. <<>> \in [1 .. 0 -> Int] /\ Total(<<>>) = SumOf(<<>>, 0)
  BY <1>1, TotalIsSum
<1>. QED BY <1>2, SumOfNone

\* The slices, and the remainder where it is scheduled, are the total amount.
LEMMA ScheduleIsWhole ==
  ASSUME command \in Commands
  PROVE  /\ Schedule \in Seq(Int) /\ Schedule # <<>>
         /\ Dropped \in Int /\ Slice \in Nat /\ command.total \in Nat
         /\ Total(Schedule) + Dropped = command.total
         /\ command.slices = 1 => Tail(Schedule) = <<>> /\ Dropped = 0
<1>. DEFINE k == command.slices
            a == command.total
            c == Slice
<1>1. k \in Nat \ {0} /\ a \in Nat \ {0} /\ command.minAmount \in Nat \ {0}
  BY TwapAssumption
<1>2. c \in Nat /\ c * k \in Nat
  BY <1>1 DEF Slice
<1>3. Remainder \in Int /\ Remainder = a - c * k
  BY <1>1, <1>2 DEF Remainder
<1>4. FullSchedule = [i \in 1 .. k |-> c]
  BY DEF FullSchedule
<1>. HIDE DEF c, a, k
<1>5. FullSchedule \in [1 .. k -> Int] /\ SumOf(FullSchedule, k) = k * c
  <2>1. k \in Nat /\ c \in Int
    BY <1>1, <1>2
  <2>2. SumOf([i \in 1 .. k |-> c], k) = k * c
    BY <2>1, SumOfConstant
  <2>. QED BY <1>4, <2>1, <2>2
<1>6. k * c = c * k
  BY <1>1, <1>2
<1>7. k \in 1 .. k
  BY <1>1
<1>8. CASE Remainder > command.minAmount
  <2>1. Schedule = [FullSchedule EXCEPT ![k] = @ + Remainder] /\ Dropped = 0
    BY <1>8 DEF Schedule, Dropped, k
  <2>2. /\ Schedule \in [1 .. k -> Int] /\ Schedule[k] = FullSchedule[k] + Remainder
        /\ \A i \in 1 .. k : i # k => Schedule[i] = FullSchedule[i]
    BY <1>3, <1>5, <1>7, <2>1
  <2>3. SumOf(Schedule, k) = SumOf(FullSchedule, k) + (Schedule[k] - FullSchedule[k])
    BY <1>1, <1>5, <1>7, <2>2, SumChange
  <2>4. Schedule \in Seq(Int) /\ Len(Schedule) = k
    BY <1>1, <2>2
  <2>5. Total(Schedule) = SumOf(Schedule, k)
    BY <2>4, TotalIsSum
  <2>6. FullSchedule[k] \in Int
    BY <1>5, <1>7
  <2>7. Total(Schedule) = a
    BY <1>1, <1>2, <1>3, <1>5, <1>6, <2>2, <2>3, <2>5, <2>6
  <2>8. k # 1
    <3>. SUFFICES ASSUME k = 1 PROVE FALSE
      OBVIOUS
    <3>1. c = a
      BY <1>1 DEF Slice, c, k, a
    <3>. QED BY <1>1, <1>2, <1>3, <1>8, <3>1
  <2>9. Schedule # <<>>
    BY <1>1, <2>4
  <2>. QED BY <1>1, <1>2, <2>1, <2>4, <2>7, <2>8, <2>9 DEF a, c, k
<1>9. CASE ~ (Remainder > command.minAmount)
  <2>1. Schedule = FullSchedule /\ Dropped = Remainder
    BY <1>9 DEF Schedule, Dropped
  <2>2. Schedule \in Seq(Int) /\ Len(Schedule) = k
    BY <1>1, <1>5, <2>1
  <2>3. Total(Schedule) = SumOf(Schedule, k)
    BY <2>2, TotalIsSum
  <2>4. Total(Schedule) + Dropped = a
    BY <1>1, <1>2, <1>3, <1>5, <1>6, <2>1, <2>3
  <2>5. k = 1 => Remainder = 0
    <3>. SUFFICES ASSUME k = 1 PROVE Remainder = 0
      OBVIOUS
    <3>1. c = a
      BY <1>1 DEF Slice, c, k, a
    <3>. QED BY <1>1, <1>2, <1>3, <3>1
  <2>6. Schedule # <<>> /\ (k = 1 => Tail(Schedule) = <<>>)
    BY <1>1, <2>2
  <2>. QED BY <1>1, <1>2, <1>3, <2>1, <2>2, <2>4, <2>5, <2>6 DEF a, c, k
<1>. QED BY <1>8, <1>9

-----------------------------------------------------------------------------
(* Plans: what one event of the algorithm makes of the orders.              *)

PlanSet == [orders : Seq(Spawned), limitOid : Nat, rest : Int]

\* A plan keeps what the cache has shown, looks after every limit order and
\* follows at most one, counted on in full.
Sound(os) ==
  \A i \in 1 .. Len(os) : /\ os[i].seen = "CLOSED" => os[i].place = "done"
                          /\ os[i].limit => command.useLimit
Attended(p) ==
  \A i \in 1 .. Len(p.orders) :
    p.orders[i].limit /\ p.orders[i].place # "done"
    => p.orders[i].cancel \/ p.orders[i].missed \/ i = p.limitOid
Followed(p) ==
  p.limitOid # 0 => /\ p.limitOid \in 1 .. Len(p.orders)
                    /\ p.orders[p.limitOid].limit
                    /\ p.orders[p.limitOid].counted = p.orders[p.limitOid].amount
Kept(p) == p \in PlanSet /\ Sound(p.orders) /\ Attended(p) /\ Followed(p)

\* Replacing the orders and the followed order of a plan.
LEMMA PlanWith ==
  ASSUME NEW p \in PlanSet, NEW os, NEW l,
         NEW q, q = [p EXCEPT !.orders = os, !.limitOid = l]
  PROVE  /\ q.orders = os /\ q.limitOid = l /\ q.rest = p.rest
         /\ os \in Seq(Spawned) /\ l \in Nat => q \in PlanSet
BY DEF PlanSet

\* An order is spawned: it is followed if it is a limit order, and the rest stays.
LEMMA SpawnFacts ==
  ASSUME NEW p, Kept(p), p.limitOid = 0,
         NEW limit \in BOOLEAN, limit => command.useLimit, NEW amount \in Int
  PROVE  /\ Kept(Spawn(p, limit, amount))
         /\ Spawn(p, limit, amount).rest = p.rest
         /\ Spawn(p, limit, amount).orders # <<>>
         /\ ~ limit => Spawn(p, limit, amount).limitOid = 0
         /\ Counted(p.orders) \in Int
         /\ Counted(Spawn(p, limit, amount).orders) = Counted(p.orders) + amount
<1>. DEFINE q == Spawn(p, limit, amount)
            order == NewOrder(limit, amount)
<1>1. p \in PlanSet /\ p.orders \in Seq(Spawned) /\ p.limitOid \in Nat /\ p.rest \in Int
  BY DEF Kept, PlanSet
<1>2. order \in Spawned /\ order.counted = amount /\ order.amount = amount /\ order.limit = limit
      /\ order.seen = "NONE"
  BY DEF NewOrder, Spawned
<1>3. /\ q.orders = Append(p.orders, order)
      /\ q.limitOid = IF limit THEN Len(p.orders) + 1 ELSE 0
      /\ q.rest = p.rest
      /\ q.orders \in Seq(Spawned) /\ q.limitOid \in Nat => q \in PlanSet
  <2>. DEFINE os == Append(p.orders, order)
              l == IF limit THEN Len(p.orders) + 1 ELSE 0
  <2>1. q = [p EXCEPT !.orders = os, !.limitOid = l]
    BY DEF Spawn
  <2>2. q.orders = os /\ q.limitOid = l /\ q.rest = p.rest
        /\ (os \in Seq(Spawned) /\ l \in Nat => q \in PlanSet)
    <3>. HIDE DEF os, l, q, order
    <3>. QED BY <1>1, <2>1 DEF PlanSet
  <2>. QED BY <2>2
<1>. HIDE DEF q, order
<1>4. /\ q.orders \in Seq(Spawned) /\ Len(q.orders) = Len(p.orders) + 1 /\ Len(p.orders) \in Nat
      /\ q.orders # <<>>
      /\ \A i \in 1 .. Len(p.orders) : q.orders[i] = p.orders[i]
      /\ q.orders[Len(p.orders) + 1] = order
  BY <1>1, <1>2, <1>3
<1>5. q \in PlanSet
  <2>1. q.limitOid \in Nat
    BY <1>3, <1>4
  <2>. QED BY <1>3, <1>4, <2>1
<1>6. \A i \in 1 .. Len(q.orders) : i \in 1 .. Len(p.orders) \/ i = Len(p.orders) + 1
  BY <1>4
<1>7. Sound(q.orders)
  BY <1>2, <1>4, <1>6 DEF Kept, Sound
<1>8. Attended(q)
  <2>. SUFFICES ASSUME NEW i \in 1 .. Len(q.orders), q.orders[i].limit, q.orders[i].place # "done"
                PROVE  q.orders[i].cancel \/ q.orders[i].missed \/ i = q.limitOid
    BY DEF Attended
  <2>1. CASE i \in 1 .. Len(p.orders)
    <3>1. i # 0 /\ i # p.limitOid
      BY <2>1
    <3>. QED BY <1>4, <2>1, <3>1 DEF Kept, Attended
  <2>2. CASE i = Len(p.orders) + 1
    BY <1>2, <1>3, <1>4, <2>2
  <2>. QED BY <1>6, <2>1, <2>2
<1>9. Followed(q)
  <2>1. CASE limit
    <3>1. q.limitOid = Len(p.orders) + 1
      BY <1>3, <2>1
    <3>2. q.limitOid \in 1 .. Len(q.orders) /\ q.orders[q.limitOid] = order
      BY <1>4, <3>1
    <3>. QED BY <1>2, <2>1, <3>2 DEF Followed
  <2>2. CASE ~ limit
    BY <1>3, <2>2 DEF Followed
  <2>. QED BY <2>1, <2>2
<1>10. Counted(p.orders) \in Int /\ Counted(q.orders) = Counted(p.orders) + amount
  BY <1>1, <1>2, <1>3, CountedAppend
<1>. QED BY <1>3, <1>4, <1>5, <1>7, <1>8, <1>9, <1>10 DEF Kept, q

\* Giving up the followed order, or not having one: nothing is counted anew.
LEMMA UnfollowFacts ==
  ASSUME NEW p, Kept(p), ~ Tracked(p)
  PROVE  /\ Kept(Unfollow(p)) /\ Unfollow(p).limitOid = 0 /\ Unfollow(p).rest = p.rest
         /\ Counted(Unfollow(p).orders) = Counted(p.orders)
<1>. DEFINE k == p.limitOid
            q == Unfollow(p)
<1>1. p \in PlanSet /\ p.orders \in Seq(Spawned) /\ k \in Nat /\ p.rest \in Int
      /\ p = [orders |-> p.orders, limitOid |-> k, rest |-> p.rest]
  BY DEF Kept, PlanSet
<1>2. CASE k = 0
  BY <1>2 DEF Unfollow
<1>3. CASE k # 0
  <2>1. k \in 1 .. Len(p.orders) /\ p.orders[k] \in Spawned /\ p.orders[k].seen # "OPEN"
    BY <1>1, <1>3 DEF Kept, Followed, Tracked
  <2>. DEFINE order == [p.orders[k] EXCEPT !.missed = p.orders[k].seen = "NONE"]
  <2>2. order \in Spawned
        /\ order.counted = p.orders[k].counted /\ order.seen = p.orders[k].seen
        /\ order.place = p.orders[k].place /\ order.limit = p.orders[k].limit
        /\ order.missed = (p.orders[k].seen = "NONE")
    BY <2>1 DEF Spawned
  <2>3. q.orders = [p.orders EXCEPT ![k] = order] /\ q.limitOid = 0 /\ q.rest = p.rest
        /\ q = [orders |-> q.orders, limitOid |-> q.limitOid, rest |-> q.rest]
    BY <1>1, <1>3, <2>1 DEF Unfollow
  <2>. HIDE DEF q, order
  <2>4. /\ q.orders \in Seq(Spawned) /\ Len(q.orders) = Len(p.orders) /\ q.orders[k] = order
        /\ \A i \in 1 .. Len(p.orders) : i # k => q.orders[i] = p.orders[i]
    BY <1>1, <2>1, <2>2, <2>3
  <2>5. q \in PlanSet
    BY <1>1, <2>3, <2>4 DEF PlanSet
  <2>6. Sound(q.orders)
    BY <2>1, <2>2, <2>4 DEF Kept, Sound
  <2>7. Attended(q)
    <3>. SUFFICES ASSUME NEW i \in 1 .. Len(q.orders), q.orders[i].limit,
                         q.orders[i].place # "done"
                  PROVE  q.orders[i].cancel \/ q.orders[i].missed
      BY DEF Attended
    <3>1. CASE i = k
      <4>1. p.orders[k].seen # "CLOSED"
        BY <2>1, <2>2, <2>4, <3>1 DEF Kept, Sound
      <4>2. p.orders[k].seen = "NONE"
        BY <2>1, <4>1 DEF Spawned
      <4>. QED BY <2>2, <2>4, <3>1, <4>2
    <3>2. CASE i # k
      BY <2>4, <3>2 DEF Kept, Attended
    <3>. QED BY <3>1, <3>2
  <2>8. Followed(q)
    BY <2>3 DEF Followed
  <2>9. Counted(q.orders) = Counted(p.orders)
    <3>1. \A i \in 1 .. Len(p.orders) : q.orders[i].counted = p.orders[i].counted
      BY <2>2, <2>4
    <3>. QED BY <1>1, <2>4, <3>1, CountedSame
  <2>. QED BY <2>3, <2>5, <2>6, <2>7, <2>8, <2>9 DEF Kept, q
<1>. QED BY <1>2, <1>3

\* Canceling it: what it has not shown filled is no longer counted on.
LEMMA CancelFacts ==
  ASSUME NEW p, Kept(p), Tracked(p)
  PROVE  /\ Kept(CancelTracked(p)) /\ CancelTracked(p).limitOid = 0
         /\ CancelTracked(p).rest = p.rest /\ Unfilled(p) \in Int /\ Counted(p.orders) \in Int
         /\ Counted(CancelTracked(p).orders) + Unfilled(p) = Counted(p.orders)
<1>. DEFINE k == p.limitOid
            q == CancelTracked(p)
            order == [p.orders[k] EXCEPT !.cancel = TRUE, !.counted = p.orders[k].seenFilled]
<1>1. p \in PlanSet /\ p.orders \in Seq(Spawned) /\ k \in Nat /\ p.rest \in Int
      /\ p = [orders |-> p.orders, limitOid |-> k, rest |-> p.rest]
  BY DEF Kept, PlanSet
<1>2. k \in 1 .. Len(p.orders) /\ p.orders[k] \in Spawned
      /\ p.orders[k].counted = p.orders[k].amount
  BY <1>1 DEF Kept, Followed, Tracked
<1>3. order \in Spawned
      /\ order.counted = p.orders[k].seenFilled /\ order.seen = p.orders[k].seen
      /\ order.place = p.orders[k].place /\ order.limit = p.orders[k].limit
      /\ order.cancel = TRUE
  BY <1>2 DEF Spawned
<1>4. q.orders = [p.orders EXCEPT ![k] = order] /\ q.limitOid = 0 /\ q.rest = p.rest
      /\ (q.orders \in Seq(Spawned) => q \in PlanSet)
  <2>. DEFINE mid == [p.orders EXCEPT ![k].cancel = TRUE]
              os == [mid EXCEPT ![k].counted = p.orders[k].seenFilled]
  <2>1. q = [p EXCEPT !.orders = os, !.limitOid = 0]
    BY <1>1 DEF CancelTracked
  <2>2. os = [p.orders EXCEPT ![k] = order]
    BY <1>1, <1>2
  <2>. HIDE DEF os
  <2>3. q.orders = os /\ q.limitOid = 0 /\ q.rest = p.rest
        /\ (os \in Seq(Spawned) /\ 0 \in Nat => q \in PlanSet)
    BY <1>1, <2>1, PlanWith, Zenon
  <2>. QED BY <2>2, <2>3
<1>. HIDE DEF q, order
<1>5. /\ q.orders \in Seq(Spawned) /\ Len(q.orders) = Len(p.orders) /\ q.orders[k] = order
      /\ \A i \in 1 .. Len(p.orders) : i # k => q.orders[i] = p.orders[i]
  BY <1>1, <1>2, <1>3, <1>4
<1>6. q \in PlanSet
  BY <1>4, <1>5
<1>7. Sound(q.orders)
  BY <1>2, <1>3, <1>5 DEF Kept, Sound
<1>8. Attended(q)
  BY <1>3, <1>5 DEF Kept, Attended
<1>9. Followed(q)
  BY <1>4 DEF Followed
<1>10. Counted(q.orders) = Counted(p.orders) + (q.orders[k].counted - p.orders[k].counted)
  <2>1. \A i \in 1 .. Len(p.orders) : i # k => q.orders[i].counted = p.orders[i].counted
    BY <1>5
  <2>. QED BY <1>1, <1>2, <1>5, <2>1, CountedChange
<1>11. Unfilled(p) = p.orders[k].amount - p.orders[k].seenFilled
       /\ p.orders[k].amount \in Int /\ p.orders[k].seenFilled \in Int
  BY <1>2 DEF Unfilled, Spawned
<1>12. Counted(p.orders) \in Int
  BY <1>1, <1>3, CountedAppend
<1>. QED BY <1>2, <1>3, <1>4, <1>5, <1>6, <1>7, <1>8, <1>9, <1>10, <1>11, <1>12 DEF Kept, q

\* _handle_previous_limit_order and _handle_final_limit_order: what is counted
\* on, together with what is carried or skipped, stays the same.
LEMMA TakeOverFacts ==
  ASSUME NEW p, Kept(p), p.rest = 0, command \in Commands
  PROVE  /\ Kept(TakeOver(p)) /\ TakeOver(p).limitOid = 0
         /\ Counted(TakeOver(p).orders) \in Int /\ TakeOver(p).rest \in Int
         /\ Counted(TakeOver(p).orders) + TakeOver(p).rest = Counted(p.orders)
<1>0. \A q : Kept(q) => Counted(q.orders) \in Int /\ q.rest \in Int
  <2>. SUFFICES ASSUME NEW q, Kept(q) PROVE Counted(q.orders) \in Int /\ q.rest \in Int
    OBVIOUS
  <2>1. q.orders \in Seq(Spawned) /\ q.rest \in Int
    BY DEF Kept, PlanSet
  <2>2. NewOrder(FALSE, 0) \in Spawned
    BY DEF NewOrder, Spawned
  <2>. QED BY <2>1, <2>2, CountedAppend
<1>1. CASE ~ Tracked(p)
  <2>1. TakeOver(p) = Unfollow(p)
    BY <1>1 DEF TakeOver
  <2>. QED BY <1>0, <1>1, <2>1, UnfollowFacts
<1>2. CASE Tracked(p) /\ Unfilled(p) >= command.minAmount
  <2>1. TakeOver(p) = Spawn(CancelTracked(p), FALSE, Unfilled(p))
    BY <1>2 DEF TakeOver
  <2>2. /\ Kept(CancelTracked(p)) /\ CancelTracked(p).limitOid = 0
        /\ CancelTracked(p).rest = 0 /\ Unfilled(p) \in Int
        /\ Counted(CancelTracked(p).orders) + Unfilled(p) = Counted(p.orders)
    BY <1>2, CancelFacts
  <2>. DEFINE c == CancelTracked(p)
              u == Unfilled(p)
  <2>. HIDE DEF c, u
  <2>3. /\ Kept(Spawn(c, FALSE, u)) /\ Spawn(c, FALSE, u).rest = 0
        /\ Spawn(c, FALSE, u).limitOid = 0
        /\ Counted(Spawn(c, FALSE, u).orders) = Counted(c.orders) + u
    <3>1. Kept(c) /\ c.limitOid = 0 /\ c.rest = 0 /\ u \in Int /\ FALSE \in BOOLEAN
      BY <2>2 DEF c, u
    <3>. QED BY <3>1, SpawnFacts
  <2>4. /\ Kept(TakeOver(p)) /\ TakeOver(p).rest = 0 /\ TakeOver(p).limitOid = 0
        /\ Counted(TakeOver(p).orders) = Counted(CancelTracked(p).orders) + Unfilled(p)
    BY <2>1, <2>3 DEF c, u
  <2>5. Counted(TakeOver(p).orders) \in Int
    BY <1>0, <2>4
  <2>. QED BY <2>2, <2>4, <2>5
<1>3. CASE Tracked(p) /\ ~ (Unfilled(p) >= command.minAmount)
  <2>. DEFINE c == CancelTracked(p)
              q == TakeOver(p)
  <2>1. q = [c EXCEPT !.rest = Unfilled(p)]
    BY <1>3 DEF TakeOver
  <2>2. /\ Kept(c) /\ c.limitOid = 0 /\ Unfilled(p) \in Int
        /\ Counted(c.orders) + Unfilled(p) = Counted(p.orders)
    BY <1>3, CancelFacts
  <2>. HIDE DEF c, q
  <2>3. c \in PlanSet
    BY <2>2 DEF Kept
  <2>4. q \in PlanSet /\ q.orders = c.orders /\ q.limitOid = c.limitOid /\ q.rest = Unfilled(p)
    BY <2>1, <2>2, <2>3 DEF PlanSet
  <2>5. Kept(q)
    BY <2>2, <2>4 DEF Kept, Sound, Attended, Followed
  <2>. QED BY <1>0, <2>2, <2>4, <2>5 DEF q
<1>. QED BY <1>1, <1>2, <1>3

\* _execute_slice: the slice is counted on, and what was carried with it.
LEMMA ExecuteSliceFacts ==
  ASSUME NEW p, Kept(p), p.rest = 0, command \in Commands, NEW amount \in Int
  PROVE  /\ Kept(ExecuteSlice(p, amount)) /\ ExecuteSlice(p, amount).orders # <<>>
         /\ ~ command.useLimit => ExecuteSlice(p, amount).limitOid = 0
         /\ Counted(ExecuteSlice(p, amount).orders) = Counted(p.orders) + amount
<1>1. CASE ~ command.useLimit
  <2>1. ExecuteSlice(p, amount) = Spawn(p, FALSE, amount)
    BY <1>1 DEF ExecuteSlice
  <2>2. p.limitOid = 0
    BY <1>1 DEF Kept, Followed, Sound
  <2>. QED BY <2>1, <2>2, SpawnFacts
<1>2. CASE command.useLimit
  <2>. DEFINE t == TakeOver(p)
              c == [t EXCEPT !.rest = 0]
  <2>1. ExecuteSlice(p, amount) = Spawn(c, TRUE, amount + t.rest)
    BY <1>2 DEF ExecuteSlice
  <2>2. /\ Kept(t) /\ t.limitOid = 0 /\ Counted(t.orders) \in Int /\ t.rest \in Int
        /\ Counted(t.orders) + t.rest = Counted(p.orders)
    BY TakeOverFacts
  <2>. HIDE DEF t
  <2>3. t \in PlanSet
    BY <2>2 DEF Kept
  <2>4. c \in PlanSet /\ c.orders = t.orders /\ c.limitOid = t.limitOid /\ c.rest = 0
    BY <2>3 DEF PlanSet
  <2>. HIDE DEF c
  <2>5. Kept(c)
    BY <2>2, <2>4 DEF Kept, Sound, Attended, Followed
  <2>6. amount + t.rest \in Int
    BY <2>2
  <2>7. /\ Kept(Spawn(c, TRUE, amount + t.rest))
        /\ Spawn(c, TRUE, amount + t.rest).orders # <<>>
        /\ Counted(Spawn(c, TRUE, amount + t.rest).orders) = Counted(c.orders) + (amount + t.rest)
    BY <1>2, <2>2, <2>4, <2>5, <2>6, SpawnFacts
  <2>8. Counted(c.orders) + (amount + t.rest) = Counted(p.orders) + amount
    <3>1. Counted(c.orders) = Counted(t.orders)
      BY <2>4
    <3>. QED BY <2>2, <3>1
  <2>. QED BY <1>2, <2>1, <2>7, <2>8
<1>3. command.useLimit \in BOOLEAN
  BY TwapAssumption
<1>. QED BY <1>1, <1>2, <1>3

-----------------------------------------------------------------------------
(* The steps.                                                               *)

LEMMA BooksMeaning ==
  /\ Submitted = Counted(orders) /\ Scheduled = Total(schedule)
  /\ Submitted' = Counted(orders') /\ Scheduled' = Total(schedule')
BY DEF Submitted, Scheduled

\* Nothing scheduled and nothing spawned.
LEMMA EmptyTyped == <<>> \in Seq(Int) /\ <<>> \in Seq(Spawned)
OBVIOUS

\* What a step has to leave to keep the types.
LEMMA TypeStays ==
  ASSUME command \in Commands, command' = command, status' \in Statuses,
         schedule' \in Seq(Int), timer' \in BOOLEAN, due' \in BOOLEAN,
         orders' \in Seq(Spawned), limitOid' \in Nat, skipped' \in Int
  PROVE  TwapTypeOK'
BY DEF TwapTypeOK

\* The slices are those of the command.
LEMMA CommandStays ==
  ASSUME command' = command
  PROVE  Slice' = Slice /\ Dropped' = Dropped /\ (AtOnce' <=> AtOnce)
BY DEF Slice, Dropped, Remainder, AtOnce

\* The orders of an execution that has placed none or goes on are a plan kept.
LEMMA PlanIsKept ==
  ASSUME TwapInv, status = "NONE" \/ timer
  PROVE  Kept(Plan) /\ Plan.orders = orders /\ Plan.rest = 0
<1>1. Plan.orders = orders /\ Plan.rest = 0 /\ Plan.limitOid = limitOid
  BY DEF Plan
<1>2. Plan \in PlanSet
  BY DEF Plan, PlanSet, TwapInv, TwapTypeOK
<1>3. Sound(orders)
  BY DEF TwapInv, SightOK, Sound
<1>4. Attended(Plan)
  <2>1. CASE status = "NONE"
    <3>1. Len(orders) = 0
      BY <2>1 DEF TwapInv, PhaseOK
    <3>. QED BY <1>1, <3>1 DEF Attended
  <2>2. CASE timer
    <3>1. ~ AtOnce
      BY <2>2 DEF TwapInv, PhaseOK
    <3>2. DOMAIN orders = 1 .. Len(orders)
      BY DEF TwapInv, TwapTypeOK
    <3>. QED BY <1>1, <3>1, <3>2 DEF TwapInv, NoOrderUnattended, Attended
  <2>. QED BY <2>1, <2>2
<1>5. Followed(Plan)
  BY <1>1 DEF TwapInv, FollowedOK, Followed
<1>. QED BY <1>1, <1>2, <1>3, <1>4, <1>5 DEF Kept

\* What a plan kept leaves behind.
LEMMA PlanIsTaken ==
  ASSUME command' = command, NEW q, Kept(q), orders' = q.orders,
         \/ status' = "RUNNING" /\ limitOid' = q.limitOid
         \/ status' = "COMPLETED" /\ limitOid' = 0 /\ (AtOnce \/ q.limitOid = 0)
  PROVE  /\ orders' \in Seq(Spawned) /\ limitOid' \in Nat
         /\ FollowedOK' /\ SightOK' /\ NoOrderUnattended'
<1>1. q.orders \in Seq(Spawned) /\ q.limitOid \in Nat
      /\ Sound(q.orders) /\ Attended(q) /\ Followed(q)
  BY DEF Kept, PlanSet
<1>2. DOMAIN orders' = 1 .. Len(orders')
  BY <1>1
<1>3. FollowedOK'
  BY <1>1 DEF FollowedOK, Followed, Sound
<1>4. SightOK'
  BY <1>1 DEF SightOK, Sound
<1>5. NoOrderUnattended'
  <2>1. status' # "CANCELED" /\ (~ AtOnce => limitOid' = q.limitOid)
    OBVIOUS
  <2>2. AtOnce' <=> AtOnce
    BY CommandStays
  <2>. SUFFICES ASSUME NEW i \in 1 .. Len(orders'),
                       orders'[i].limit, ~ AtOnce, orders'[i].place # "done"
                PROVE  orders'[i].cancel \/ orders'[i].missed \/ i = limitOid'
    BY <1>2, <2>1, <2>2 DEF NoOrderUnattended
  <2>. QED BY <1>1, <2>1 DEF Attended
<1>. QED BY <1>1, <1>3, <1>4, <1>5

\* At the start nothing is scheduled.
LEMMA InitKeeps == Init => TwapInv
<1>. SUFFICES ASSUME Init PROVE TwapInv
  OBVIOUS
<1>1. TwapTypeOK
  <2>1. timer \in BOOLEAN /\ due \in BOOLEAN
    BY Zenon DEF Init
  <2>2. status \in Statuses /\ limitOid \in Nat /\ skipped \in Int /\ command \in Commands
    BY DEF Init, Statuses
  <2>. QED BY <2>1, <2>2, EmptyTyped, Zenon DEF Init, TwapTypeOK
<1>2. Len(orders) = 0 /\ DOMAIN orders = {}
  BY DEF Init
<1>3. FollowedOK /\ PhaseOK /\ SightOK /\ NoOrderUnattended
  BY <1>2 DEF Init, FollowedOK, PhaseOK, SightOK, NoOrderUnattended
<1>4. AmountsAccounted
  BY DEF Init, AmountsAccounted
<1>. QED BY <1>1, <1>3, <1>4 DEF TwapInv

\* execute: the slices are scheduled.
LEMMA ExecuteKeeps == TwapInv /\ Execute => TwapInv'
<1>. SUFFICES ASSUME TwapInv, Execute PROVE TwapInv'
  OBVIOUS
<1>1. /\ command \in Commands /\ command' = command /\ status = "NONE" /\ ~ timer
      /\ orders = <<>> /\ ~ due /\ due' = due /\ skipped' = 0 /\ skipped = 0
  BY DEF TwapInv, TwapTypeOK, PhaseOK, Execute
<1>2. Kept(Plan) /\ Plan.rest = 0 /\ Counted(Plan.orders) = 0
  BY <1>1, PlanIsKept, CountedNone
<1>3. /\ Schedule \in Seq(Int) /\ Schedule # <<>> /\ Dropped \in Int
      /\ Slice \in Nat /\ command.total \in Nat
      /\ Total(Schedule) + Dropped = command.total
      /\ command.slices = 1 => Tail(Schedule) = <<>> /\ Dropped = 0
  BY <1>1, ScheduleIsWhole
<1>4. /\ Head(Schedule) \in Int /\ Tail(Schedule) \in Seq(Int) /\ Total(Tail(Schedule)) \in Int
      /\ Total(Schedule) = Head(Schedule) + Total(Tail(Schedule))
  BY <1>3, TotalHead
<1>5. Slice' = Slice /\ Dropped' = Dropped /\ (AtOnce' <=> AtOnce)
  BY <1>1, CommandStays
<1>6. CASE AtOnce
  <2>. DEFINE amount == IF Slice < command.minAmount THEN command.total ELSE Head(Schedule)
              q == ExecuteSlice(Plan, amount)
  <2>1. Complete(q)
    BY <1>6 DEF Execute, AtOnce
  <2>2. amount \in Int
    BY <1>3, <1>4
  <2>3. amount + (IF Slice < command.minAmount THEN 0 ELSE Dropped) = command.total
    <3>1. CASE Slice < command.minAmount
      BY <1>3, <3>1
    <3>2. CASE ~ (Slice < command.minAmount)
      <4>1. command.slices = 1
        BY <1>6, <3>2 DEF AtOnce
      <4>2. Total(Tail(Schedule)) = 0
        BY <1>3, <4>1, TotalNone
      <4>. QED BY <1>3, <1>4, <3>2, <4>1, <4>2
    <3>. QED BY <3>1, <3>2
  <2>. HIDE DEF amount
  <2>4. Kept(q) /\ Counted(q.orders) = 0 + amount
    BY <1>1, <1>2, <2>2, ExecuteSliceFacts, Zenon
  <2>. HIDE DEF q
  <2>5. /\ status' = "COMPLETED" /\ orders' = q.orders /\ schedule' = <<>>
        /\ timer' = FALSE /\ limitOid' = 0
    BY <2>1 DEF Complete
  <2>6. /\ orders' \in Seq(Spawned) /\ limitOid' \in Nat
        /\ FollowedOK' /\ SightOK' /\ NoOrderUnattended'
    BY <1>1, <1>6, <2>4, <2>5, PlanIsTaken
  <2>7. TwapTypeOK'
    <3>1. timer' \in BOOLEAN /\ due' \in BOOLEAN
      BY <1>1, <2>5, Zenon DEF TwapInv, TwapTypeOK
    <3>2. status' \in Statuses /\ limitOid' \in Nat /\ skipped' \in Int
      BY <1>1, <2>5 DEF Statuses
    <3>. QED BY <1>1, <2>5, <2>6, <3>1, <3>2, EmptyTyped, TypeStays, Zenon
  <2>8. PhaseOK'
    BY <1>1, <2>5 DEF PhaseOK
  <2>9. AmountsAccounted'
    <3>1. Submitted' = amount
      BY <2>2, <2>4, <2>5, BooksMeaning
    <3>2. amount + skipped' + (IF Slice < command.minAmount THEN 0 ELSE Dropped) = command.total
      BY <1>1, <1>3, <2>2, <2>3
    <3>. QED BY <1>1, <1>5, <2>5, <3>1, <3>2 DEF AmountsAccounted
  <2>. QED BY <2>6, <2>7, <2>8, <2>9 DEF TwapInv
<1>7. CASE ~ AtOnce
  <2>. DEFINE amount == Head(Schedule)
              q == ExecuteSlice(Plan, amount)
  <2>1. Goes(q, Tail(Schedule))
    BY <1>7 DEF Execute, AtOnce
  <2>2. amount \in Int
    BY <1>4
  <2>. HIDE DEF amount
  <2>3. Kept(q) /\ Counted(q.orders) = 0 + amount
    BY <1>1, <1>2, <2>2, ExecuteSliceFacts, Zenon
  <2>. HIDE DEF q
  <2>4. /\ status' = "RUNNING" /\ orders' = q.orders /\ schedule' = Tail(Schedule)
        /\ timer' = TRUE /\ limitOid' = q.limitOid
    BY <2>1 DEF Goes
  <2>5. /\ orders' \in Seq(Spawned) /\ limitOid' \in Nat
        /\ FollowedOK' /\ SightOK' /\ NoOrderUnattended'
    BY <1>1, <2>3, <2>4, PlanIsTaken
  <2>6. TwapTypeOK'
    <3>1. timer' \in BOOLEAN /\ due' \in BOOLEAN
      BY <1>1, <2>4, Zenon DEF TwapInv, TwapTypeOK
    <3>2. status' \in Statuses /\ skipped' \in Int
      BY <1>1, <2>4 DEF Statuses
    <3>. QED BY <1>1, <1>4, <2>4, <2>5, <3>1, <3>2, TypeStays, Zenon
  <2>7. PhaseOK'
    BY <1>1, <1>5, <1>7, <2>4 DEF PhaseOK
  <2>8. AmountsAccounted'
    <3>1. Submitted' = amount /\ Scheduled' = Total(Tail(Schedule))
      BY <2>2, <2>3, <2>4, BooksMeaning
    <3>2. amount + Total(Tail(Schedule)) + Dropped = command.total
      BY <1>3, <1>4 DEF amount
    <3>. QED BY <1>1, <1>5, <2>4, <3>1, <3>2 DEF AmountsAccounted
  <2>. QED BY <2>5, <2>6, <2>7, <2>8 DEF TwapInv
<1>. QED BY <1>6, <1>7

\* The timer runs out: a slice is placed.
LEMMA PlaceSliceKeeps == TwapInv /\ PlaceSlice => TwapInv'
<1>. SUFFICES ASSUME TwapInv, PlaceSlice PROVE TwapInv'
  OBVIOUS
<1>1. /\ command \in Commands /\ command' = command /\ timer /\ ~ AtOnce
      /\ schedule \in Seq(Int) /\ schedule # <<>> /\ due' = FALSE
      /\ skipped' = skipped /\ skipped = 0
  BY DEF TwapInv, TwapTypeOK, PhaseOK, PlaceSlice
<1>2. Kept(Plan) /\ Plan.rest = 0 /\ Plan.orders = orders
  BY <1>1, PlanIsKept
<1>3. /\ Head(schedule) \in Int /\ Tail(schedule) \in Seq(Int) /\ Total(Tail(schedule)) \in Int
      /\ Total(schedule) = Head(schedule) + Total(Tail(schedule))
  BY <1>1, TotalHead
<1>4. Slice' = Slice /\ Dropped' = Dropped /\ (AtOnce' <=> AtOnce) /\ Dropped \in Int
  BY <1>1, CommandStays, ScheduleIsWhole
<1>. DEFINE amount == Head(schedule)
            q == ExecuteSlice(Plan, amount)
<1>5. Goes(q, Tail(schedule))
  BY DEF PlaceSlice
<1>6. amount \in Int
  BY <1>3
<1>7. Counted(orders) \in Int
  <2>1. orders \in Seq(Spawned) /\ NewOrder(FALSE, 0) \in Spawned
    BY DEF TwapInv, TwapTypeOK, NewOrder, Spawned
  <2>. QED BY <2>1, CountedAppend
<1>8. Counted(orders) + (amount + Total(Tail(schedule))) + Dropped = command.total
  BY <1>1, <1>3, BooksMeaning DEF TwapInv, AmountsAccounted
<1>. HIDE DEF amount
<1>9. Kept(q) /\ Counted(q.orders) = Counted(orders) + amount
  BY <1>1, <1>2, <1>6, ExecuteSliceFacts, Zenon
<1>. HIDE DEF q
<1>10. /\ status' = "RUNNING" /\ orders' = q.orders /\ schedule' = Tail(schedule)
       /\ timer' = TRUE /\ limitOid' = q.limitOid
  BY <1>5 DEF Goes
<1>11. /\ orders' \in Seq(Spawned) /\ limitOid' \in Nat
       /\ FollowedOK' /\ SightOK' /\ NoOrderUnattended'
  BY <1>1, <1>9, <1>10, PlanIsTaken
<1>12. TwapTypeOK'
  <2>1. timer' \in BOOLEAN /\ due' \in BOOLEAN
    BY <1>1, <1>10, Zenon
  <2>2. status' \in Statuses /\ skipped' \in Int
    BY <1>1, <1>10 DEF Statuses
  <2>. QED BY <1>1, <1>3, <1>10, <1>11, <2>1, <2>2, TypeStays, Zenon
<1>13. PhaseOK'
  BY <1>1, <1>4, <1>10 DEF PhaseOK
<1>14. AmountsAccounted'
  <2>1. Submitted' = Counted(orders) + amount /\ Scheduled' = Total(Tail(schedule))
    BY <1>9, <1>10, BooksMeaning
  <2>2. (Counted(orders) + amount) + Total(Tail(schedule)) + Dropped = command.total
    BY <1>3, <1>4, <1>6, <1>7, <1>8
  <2>. QED BY <1>1, <1>4, <1>10, <2>1, <2>2 DEF AmountsAccounted
<1>. QED BY <1>11, <1>12, <1>13, <1>14 DEF TwapInv

\* The execution is complete.
LEMMA FinishKeeps == TwapInv /\ Finish => TwapInv'
<1>. SUFFICES ASSUME TwapInv, Finish PROVE TwapInv'
  OBVIOUS
<1>. DEFINE q == TakeOver(Plan)
<1>1. /\ command \in Commands /\ command' = command /\ timer /\ ~ AtOnce
      /\ schedule = <<>> /\ due' = FALSE
  BY DEF TwapInv, TwapTypeOK, PhaseOK, Finish
<1>2. Kept(Plan) /\ Plan.rest = 0 /\ Plan.orders = orders
  BY <1>1, PlanIsKept
<1>3. Complete(q) /\ skipped' = q.rest
  BY DEF Finish, TakeFinal, TakeOver
<1>4. Slice' = Slice /\ Dropped' = Dropped /\ Dropped \in Int
  BY <1>1, CommandStays, ScheduleIsWhole
<1>5. ~ (Slice < command.minAmount)
  BY <1>1 DEF AtOnce
<1>6. /\ Kept(q) /\ q.limitOid = 0 /\ Counted(q.orders) \in Int /\ q.rest \in Int
      /\ Counted(q.orders) + q.rest = Counted(orders)
  BY <1>1, <1>2, TakeOverFacts
<1>7. Counted(orders) + 0 + Dropped = command.total
  BY <1>1, BooksMeaning, TotalNone DEF TwapInv, AmountsAccounted
<1>. HIDE DEF q
<1>8. /\ status' = "COMPLETED" /\ orders' = q.orders /\ schedule' = <<>>
      /\ timer' = FALSE /\ limitOid' = 0
  BY <1>3 DEF Complete
<1>9. /\ orders' \in Seq(Spawned) /\ limitOid' \in Nat
      /\ FollowedOK' /\ SightOK' /\ NoOrderUnattended'
  BY <1>1, <1>6, <1>8, PlanIsTaken
<1>10. TwapTypeOK'
  BY <1>1, <1>3, <1>6, <1>8, <1>9, EmptyTyped, TypeStays DEF Statuses
<1>11. PhaseOK'
  BY <1>1, <1>8 DEF PhaseOK
<1>12. AmountsAccounted'
  <2>1. Submitted' = Counted(q.orders)
    BY <1>8, BooksMeaning
  <2>2. Counted(q.orders) + q.rest + Dropped = command.total
    BY <1>4, <1>6, <1>7
  <2>. QED BY <1>1, <1>3, <1>4, <1>5, <1>8, <2>1, <2>2 DEF AmountsAccounted
<1>. QED BY <1>9, <1>10, <1>11, <1>12 DEF TwapInv

\* A callback that comes too late finds no order followed.
LEMMA TooLateKeeps == TwapInv /\ TooLate => TwapInv'
<1>. SUFFICES ASSUME TwapInv, TooLate PROVE TwapInv'
  OBVIOUS
<1>1. /\ limitOid = 0 /\ limitOid' = 0 /\ status' = status /\ status # "NONE"
      /\ status # "RUNNING" /\ schedule' = <<>> /\ timer' = FALSE /\ due' = FALSE
      /\ command' = command /\ orders' = orders /\ skipped' = skipped
  BY DEF TwapInv, FollowedOK, PhaseOK, TooLate
<1>2. TwapTypeOK'
  <2>1. TwapTypeOK
    BY DEF TwapInv
  <2>2. /\ status' \in Statuses /\ orders' \in Seq(Spawned) /\ limitOid' \in Nat
        /\ skipped' \in Int /\ schedule' \in Seq(Int) /\ timer' \in BOOLEAN /\ due' \in BOOLEAN
    BY <1>1, <2>1, EmptyTyped DEF TwapTypeOK
  <2>. QED BY <1>1, <2>1, <2>2 DEF TwapTypeOK
<1>3. FollowedOK' /\ PhaseOK' /\ SightOK'
  BY <1>1 DEF TwapInv, FollowedOK, PhaseOK, SightOK
<1>4. Slice' = Slice /\ Dropped' = Dropped /\ (AtOnce' <=> AtOnce)
  BY <1>1, CommandStays
<1>5. NoOrderUnattended'
  BY <1>1, <1>4 DEF TwapInv, NoOrderUnattended
<1>6. AmountsAccounted'
  <2>1. Submitted' = Submitted
    BY <1>1, BooksMeaning
  <2>. QED BY <1>1, <1>4, <2>1 DEF TwapInv, AmountsAccounted
<1>. QED BY <1>2, <1>3, <1>5, <1>6 DEF TwapInv

\* Canceling an execution reaches every order the cache shows open; one it does
\* not show is given up, and one it shows closed is closed.
LEMMA CancelExecutionKeeps == TwapInv /\ CancelExecution => TwapInv'
<1>. SUFFICES ASSUME TwapInv, CancelExecution PROVE TwapInv'
  OBVIOUS
<1>1. /\ limitOid' = 0 /\ status' = "CANCELED" /\ schedule' = <<>> /\ timer' = FALSE
      /\ due' = due /\ command' = command /\ skipped' = skipped
  BY DEF CancelExecution
<1>2. TwapTypeOK
  BY DEF TwapInv
<1>3. orders \in Seq(Spawned)
  BY <1>2 DEF TwapTypeOK
<1>4. DOMAIN orders = 1 .. Len(orders) /\ Len(orders) \in Nat
  BY <1>3
<1>. DEFINE Left(i) == [orders[i] EXCEPT !.cancel = @ \/ orders[i].seen = "OPEN",
                                         !.missed = @ \/ orders[i].seen = "NONE"]
<1>5. orders' = [i \in 1 .. Len(orders) |-> Left(i)]
  BY <1>4 DEF CancelExecution
<1>6. ASSUME NEW i \in 1 .. Len(orders)
      PROVE  /\ Left(i) \in Spawned
             /\ Left(i).seen = orders[i].seen /\ Left(i).place = orders[i].place
             /\ Left(i).limit = orders[i].limit
             /\ orders[i].seen = "OPEN" => Left(i).cancel
             /\ orders[i].seen = "NONE" => Left(i).missed
  <2>1. orders[i] \in Spawned
    BY <1>3, <1>4
  <2>. QED BY <2>1 DEF Spawned
<1>. HIDE DEF Left
<1>7. /\ orders' \in Seq(Spawned) /\ Len(orders') = Len(orders)
      /\ DOMAIN orders' = 1 .. Len(orders)
      /\ \A i \in 1 .. Len(orders) : orders'[i] = Left(i)
  BY <1>3, <1>4, <1>5, <1>6
<1>8. TwapTypeOK'
  <2>1. command \in Commands /\ due' \in BOOLEAN /\ skipped' \in Int
    BY <1>1, <1>2 DEF TwapTypeOK
  <2>. QED BY <1>1, <1>7, <2>1, EmptyTyped, TypeStays DEF Statuses
<1>9. FollowedOK' /\ PhaseOK'
  BY <1>1 DEF TwapInv, FollowedOK, PhaseOK, CancelExecution
<1>10. SightOK'
  BY <1>1, <1>6, <1>7 DEF TwapInv, SightOK
<1>11. NoOrderUnattended'
  <2>. SUFFICES ASSUME NEW i \in 1 .. Len(orders), orders'[i].place # "done"
                PROVE  orders'[i].cancel \/ orders'[i].missed
    BY <1>7 DEF NoOrderUnattended
  <2>1. orders[i].seen # "CLOSED"
    BY <1>6, <1>7 DEF TwapInv, SightOK
  <2>2. orders[i].seen \in {"NONE", "OPEN", "CLOSED"}
    <3>1. orders[i] \in Spawned
      BY <1>3, <1>4
    <3>. QED BY <3>1 DEF Spawned
  <2>. QED BY <1>6, <1>7, <2>1, <2>2
<1>12. AmountsAccounted'
  BY <1>1 DEF AmountsAccounted
<1>. QED BY <1>8, <1>9, <1>10, <1>11, <1>12 DEF TwapInv

\* What happens to one order at the venue or in the cache leaves the books alone.
LEMMA OrderStepKeeps ==
  ASSUME TwapInv, NEW i \in DOMAIN orders, NEW order \in Spawned, OrderStep(i, order),
         order.counted = orders[i].counted, order.amount = orders[i].amount,
         order.limit = orders[i].limit, order.cancel = orders[i].cancel,
         order.missed = orders[i].missed,
         order.place # "done" => orders[i].place # "done",
         order.seen = "CLOSED" => order.place = "done"
  PROVE  TwapInv'
<1>1. /\ command' = command /\ status' = status /\ schedule' = schedule /\ timer' = timer
      /\ due' = due /\ limitOid' = limitOid /\ skipped' = skipped
      /\ orders' = [orders EXCEPT ![i] = order]
  BY DEF OrderStep
<1>2. orders \in Seq(Spawned) /\ DOMAIN orders = 1 .. Len(orders) /\ Len(orders) \in Nat
      /\ i \in 1 .. Len(orders)
  BY DEF TwapInv, TwapTypeOK
<1>3. /\ orders' \in Seq(Spawned) /\ Len(orders') = Len(orders)
      /\ DOMAIN orders' = 1 .. Len(orders) /\ orders'[i] = order
      /\ \A j \in 1 .. Len(orders) : j # i => orders'[j] = orders[j]
  BY <1>1, <1>2
<1>4. TwapTypeOK'
  BY <1>1, <1>3 DEF TwapInv, TwapTypeOK
<1>5. FollowedOK'
  BY <1>1, <1>3 DEF TwapInv, FollowedOK
<1>6. orders # <<>>
  BY <1>2
<1>7. PhaseOK'
  <2>1. AtOnce' <=> AtOnce
    BY <1>1, CommandStays
  <2>. QED BY <1>1, <1>6, <2>1 DEF TwapInv, PhaseOK
<1>8. SightOK'
  BY <1>1, <1>2, <1>3 DEF TwapInv, SightOK
<1>9. AmountsAccounted'
  <2>1. \A j \in 1 .. Len(orders) : orders'[j].counted = orders[j].counted
    BY <1>3
  <2>2. Counted(orders') = Counted(orders)
    BY <1>2, <1>3, <2>1, CountedSame
  <2>3. Submitted' = Submitted /\ Scheduled' = Scheduled
    BY <1>1, <2>2, BooksMeaning
  <2>4. Slice' = Slice /\ Dropped' = Dropped
    BY <1>1, CommandStays
  <2>. QED BY <1>1, <2>3, <2>4 DEF TwapInv, AmountsAccounted
<1>10. NoOrderUnattended'
  <2>1. AtOnce' <=> AtOnce
    BY <1>1, CommandStays
  <2>. SUFFICES ASSUME NEW j \in 1 .. Len(orders),
                       status = "CANCELED" \/ (orders'[j].limit /\ ~ AtOnce),
                       orders'[j].place # "done"
                PROVE  orders'[j].cancel \/ orders'[j].missed \/ j = limitOid
    BY <1>1, <1>3, <2>1 DEF NoOrderUnattended
  <2>2. CASE j = i
    BY <1>2, <1>3, <2>2 DEF TwapInv, NoOrderUnattended
  <2>3. CASE j # i
    BY <1>2, <1>3, <2>3 DEF TwapInv, NoOrderUnattended
  <2>. QED BY <2>2, <2>3
<1>. QED BY <1>4, <1>5, <1>7, <1>8, <1>9, <1>10 DEF TwapInv

\* The venue fills or ends an order.
LEMMA VenueKeeps == TwapInv /\ Venue => TwapInv'
<1>. SUFFICES ASSUME TwapInv, NEW i \in DOMAIN orders,
                     VenueTakes(i) \/ VenueFills(i) \/ VenueCancels(i) \/ CacheSees(i)
              PROVE  TwapInv'
  BY DEF Venue
<1>1. orders[i] \in Spawned /\ (orders[i].seen = "CLOSED" => orders[i].place = "done")
  BY DEF TwapInv, TwapTypeOK, SightOK
<1>2. CASE VenueTakes(i)
  <2>1. PICK p \in {"live", "done"} :
          OrderStep(i, [orders[i] EXCEPT !.place = p]) /\ orders[i].place = "sent"
    BY <1>2 DEF VenueTakes
  <2>. DEFINE order == [orders[i] EXCEPT !.place = p]
  <2>2. /\ order \in Spawned
        /\ order.counted = orders[i].counted /\ order.amount = orders[i].amount
        /\ order.limit = orders[i].limit /\ order.cancel = orders[i].cancel
        /\ order.missed = orders[i].missed
        /\ order.place # "done" => orders[i].place # "done"
        /\ order.seen = "CLOSED" => order.place = "done"
    BY <1>1, <2>1 DEF Spawned
  <2>3. OrderStep(i, order)
    BY <2>1
  <2>. HIDE DEF order
  <2>. QED BY <2>2, <2>3, OrderStepKeeps
<1>3. CASE VenueFills(i)
  <2>1. PICK f \in orders[i].filled + 1 .. orders[i].amount :
          /\ OrderStep(i, [orders[i] EXCEPT !.filled = f,
                                            !.place = IF f = orders[i].amount THEN "done" ELSE @])
          /\ orders[i].place = "live"
    BY <1>3 DEF VenueFills
  <2>. DEFINE order == [orders[i] EXCEPT !.filled = f,
                                         !.place = IF f = orders[i].amount THEN "done" ELSE @]
  <2>2. orders[i].filled \in Int /\ orders[i].amount \in Int
    BY <1>1 DEF Spawned
  <2>3. f \in Int
    BY <2>1, <2>2
  <2>4. /\ order \in Spawned
        /\ order.counted = orders[i].counted /\ order.amount = orders[i].amount
        /\ order.limit = orders[i].limit /\ order.cancel = orders[i].cancel
        /\ order.missed = orders[i].missed
        /\ order.place # "done" => orders[i].place # "done"
        /\ order.seen = "CLOSED" => order.place = "done"
    BY <1>1, <2>1, <2>3 DEF Spawned
  <2>5. OrderStep(i, order)
    BY <2>1
  <2>. HIDE DEF order
  <2>. QED BY <2>4, <2>5, OrderStepKeeps
<1>4. CASE VenueCancels(i)
  <2>. DEFINE order == [orders[i] EXCEPT !.place = "done"]
  <2>1. /\ order \in Spawned
        /\ order.counted = orders[i].counted /\ order.amount = orders[i].amount
        /\ order.limit = orders[i].limit /\ order.cancel = orders[i].cancel
        /\ order.missed = orders[i].missed
        /\ order.place = "done"
    BY <1>1 DEF Spawned
  <2>2. OrderStep(i, order)
    BY <1>4 DEF VenueCancels
  <2>. HIDE DEF order
  <2>. QED BY <2>1, <2>2, OrderStepKeeps
<1>5. CASE CacheSees(i)
  <2>. DEFINE order == [orders[i] EXCEPT
                          !.seen = IF orders[i].place = "done" THEN "CLOSED" ELSE "OPEN",
                          !.seenFilled = orders[i].filled]
  <2>1. /\ order \in Spawned
        /\ order.counted = orders[i].counted /\ order.amount = orders[i].amount
        /\ order.limit = orders[i].limit /\ order.cancel = orders[i].cancel
        /\ order.missed = orders[i].missed
        /\ order.place # "done" => orders[i].place # "done"
        /\ order.seen = "CLOSED" => order.place = "done"
    BY <1>1 DEF Spawned
  <2>2. OrderStep(i, order)
    BY <1>5 DEF CacheSees
  <2>. HIDE DEF order
  <2>. QED BY <2>1, <2>2, OrderStepKeeps
<1>. QED BY <1>2, <1>3, <1>4, <1>5

\* The steps that only move the status or the timer.
LEMMA QuietStepKeeps ==
  TwapInv /\ (RefuseCommand \/ ExecuteRaises \/ IntervalPasses \/ UNCHANGED vars) => TwapInv'
<1>. SUFFICES ASSUME TwapInv,
                     RefuseCommand \/ ExecuteRaises \/ IntervalPasses \/ UNCHANGED vars
              PROVE  TwapInv'
  OBVIOUS
<1>1. /\ command' = command /\ schedule' = schedule /\ timer' = timer /\ orders' = orders
      /\ limitOid' = limitOid /\ skipped' = skipped
      /\ \/ status' = status /\ due' = due
         \/ status' = status /\ due' = TRUE /\ timer
         \/ status = "NONE" /\ status' \in {"FAILED", "RUNNING"} /\ due' = due
  BY DEF RefuseCommand, ExecuteRaises, IntervalPasses, vars
<1>2. status = "NONE" => orders = <<>> /\ DOMAIN orders = {} /\ ~ timer /\ ~ due /\ limitOid = 0
  BY DEF TwapInv, PhaseOK, FollowedOK
<1>3. Slice' = Slice /\ Dropped' = Dropped /\ (AtOnce' <=> AtOnce)
  BY <1>1, CommandStays
<1>4. Submitted' = Submitted /\ Scheduled' = Scheduled
  BY <1>1, BooksMeaning
<1>5. TwapTypeOK'
  BY <1>1 DEF TwapInv, TwapTypeOK, Statuses
<1>6. FollowedOK' /\ SightOK'
  BY <1>1, <1>2 DEF TwapInv, FollowedOK, SightOK
<1>7. PhaseOK'
  BY <1>1, <1>2, <1>3 DEF TwapInv, PhaseOK
<1>8. AmountsAccounted'
  BY <1>1, <1>2, <1>3, <1>4 DEF TwapInv, AmountsAccounted
<1>9. NoOrderUnattended'
  BY <1>1, <1>2, <1>3 DEF TwapInv, NoOrderUnattended
<1>. QED BY <1>5, <1>6, <1>7, <1>8, <1>9 DEF TwapInv

-----------------------------------------------------------------------------
(* The theorems.                                                            *)

\* The invariant of one TWAP execution.
THEOREM TwapInvariant == Spec => []TwapInv
<1>1. TwapInv /\ [Next]_vars => TwapInv'
  BY ExecuteKeeps, PlaceSliceKeeps, FinishKeeps, TooLateKeeps, CancelExecutionKeeps,
     VenueKeeps, QuietStepKeeps DEF Next, Timer
<1>. QED BY InitKeeps, <1>1, PTL DEF Spec

\* Whatever the venue fills and whenever the cache learns of it: while the
\* timer is set, and when the execution has completed, the slices to come,
\* the amounts counted on from the orders, what was skipped and what was
\* dropped are together the amount commanded.
THEOREM AmountsAddUp == Spec => []AmountsAccounted
<1>1. TwapInv => AmountsAccounted
  BY DEF TwapInv
<1>. QED BY <1>1, TwapInvariant, PTL

\* No limit order of an execution in slices, and no order of a canceled one,
\* is left working unless it is being canceled, was not to be seen when it was
\* given up, or is the one the next timer event looks at.
THEOREM NoOrderLeftUnattended == Spec => []NoOrderUnattended
<1>1. TwapInv => NoOrderUnattended
  BY DEF TwapInv
<1>. QED BY <1>1, TwapInvariant, PTL

-----------------------------------------------------------------------------
(* Past klines and the warm-up: the invariant.                              *)

Requests == [start : Nat \cup {None}, end : Nat \cup {None}, limit : Periods \cup {None}]
Phases == {"idle", "fetching", "answered", "done", "failed"}
Answers == [page : Seq(Nat), newest : Nat]
LiveKlines == [bar : Nat, closed : BOOLEAN, live : BOOLEAN, final : BOOLEAN]

WarmupTypeOK ==
  /\ venue \in Venues /\ native \in BOOLEAN /\ now \in Nat
  /\ request \in Requests /\ phase \in Phases /\ began \in Nat
  /\ cursor \in Nat \cup {None} /\ answer \in Answers
  /\ collected \in Seq(Nat) /\ open \in SUBSET Nat /\ unripe \in SUBSET Nat
  /\ place \in {"none", "pending", "active"} /\ period \in Nat /\ count \in Nat
  /\ warm \in BOOLEAN /\ handled \in Seq(LiveKlines)
  /\ subscribed \in BOOLEAN /\ early \in BOOLEAN
  /\ wire \in Seq(LiveKlines) /\ heard \in Nat /\ warmBefore \in BOOLEAN

\* The newest bar a request is sure of.
LastAsked == IF request.end = None THEN began ELSE Least(began, request.end \div Interval)

\* The pages collected so far are one row of bars, from the start on (Binance,
\* Bybit) or up to the newest (OKX), and the cursor is at its open end.
Row(bars, next, lo, hi) ==
  /\ lo <= hi /\ hi <= Newest /\ bars = Bars(lo, hi)
  /\ IF venue = "okx"
     THEN next = Begin(lo) /\ began <= hi /\ request.start # None /\ request.start < Begin(lo)
     ELSE /\ next = Begin(hi) + 1
          /\ IF request.start = None THEN LastAsked <= hi ELSE lo = Ceiling(request.start)

LoopOK ==
  /\ began <= Newest
  /\ Requesting /\ collected = <<>> => cursor = request.start
  /\ Requesting /\ collected # <<>> => \E lo, hi \in Nat : Row(collected, cursor, lo, hi)

\* Bars in order, each before the next.
InOrder(bars) == \A i, j \in DOMAIN bars : i < j => bars[i] < bars[j]

\* The page on its way goes on where what is collected ends, up to the last bar
\* asked for when it is not a full one (Binance, Bybit).
NextFits(bars) ==
  /\ bars \in Seq(Nat) /\ InOrder(bars) /\ ToSet(bars) \cap ToSet(collected) = {}
  /\ \E lo \in Nat, hi \in Int :
       /\ collected \o bars = Bars(lo, hi) /\ hi <= Newest
       /\ IF request.start = None THEN lo <= hi /\ LastAsked <= hi
          ELSE lo = Ceiling(request.start)
       /\ bars # <<>> => lo <= hi /\ Last(bars) = hi
       /\ bars = <<>> \/ Len(bars) < Size => LastAsked <= hi

\* It ends with the newest bar, or where what is collected begins (OKX).
OkxFits(bars) ==
  IF collected = <<>>
  THEN \E lo, hi \in Nat : lo <= hi /\ began <= hi /\ hi <= Newest /\ bars = Bars(lo, hi)
  ELSE bars = PageBefore(cursor, PageMax)

AnswerOK ==
  phase = "answered" =>
    /\ answer.newest <= Newest
    /\ IF venue = "okx" THEN OkxFits(page) ELSE NextFits(page)

\* A bar that was read has no confirm, was counted before it had ended, or is closed.
BarsRead ==
  /\ \A i \in DOMAIN collected :
       /\ collected[i] \in open \/ collected[i] \in unripe \/ collected[i] < Newest
       /\ collected[i] <= Newest
  /\ venue = "okx" => unripe = {}

PlaceOK ==
  /\ phase = "idle" => place = "none"
  /\ place = "none" \/ Requesting =>
       handled = <<>> /\ heard = 0 /\ count = 0 /\ ~ warm /\ ~ warmBefore
  /\ place # "none" => period > 0
  /\ place = "pending" => warm = warmBefore /\ (warm => heard = 0)
  /\ place = "active" => heard > 0
  /\ count <= Len(handled)
  /\ warm => period <= count

\* The live klines that wait.
WireOK ==
  /\ ~ subscribed => wire = <<>>
  /\ \A i \in DOMAIN wire : /\ wire[i].live /\ wire[i].final
                            /\ wire[i].closed => wire[i].bar < Newest
  /\ \A i, j \in DOMAIN wire : i < j /\ wire[i].closed /\ wire[j].closed =>
       wire[i].bar < wire[j].bar

\* The closed bars an indicator was given come before those that wait, but for
\* those that had not ended.
GivenOK ==
  /\ place # "none" /\ Requesting /\ ~ early => ~ subscribed
  /\ \A i \in DOMAIN handled : handled[i].closed => Later(handled[i], Newest)
  /\ venue = "okx" => \A i \in DOMAIN handled : handled[i].final
  /\ ~ native => /\ \A i \in DOMAIN handled : handled[i].closed
                 /\ \A i \in DOMAIN wire : wire[i].closed
  /\ ~ early =>
       /\ \A i, j \in DOMAIN handled :
            i < j /\ handled[i].closed /\ handled[j].closed =>
              Later(handled[i], handled[j].bar)
       /\ \A i \in DOMAIN handled : \A j \in DOMAIN wire :
            handled[i].closed /\ wire[j].closed => Later(handled[i], wire[j].bar)

-----------------------------------------------------------------------------
(* Times and bars.                                                          *)

LEMMA Division ==
  ASSUME NEW a \in Nat, NEW c \in Nat \ {0}
  PROVE  /\ a \div c \in Nat /\ (a \div c) * c \in Nat
         /\ (a \div c) * c <= a /\ a < (a \div c) * c + c
OBVIOUS

\* The quotient, by the multiples it lies between.
LEMMA QuotientIs ==
  ASSUME NEW a \in Nat, NEW c \in Nat \ {0}, NEW q \in Nat, q * c <= a, a < q * c + c
  PROVE  a \div c = q
OBVIOUS

\* Multiples are in the order of their factors.
LEMMA Ordered ==
  ASSUME NEW c \in Nat \ {0}, NEW p \in Nat, NEW q \in Nat
  PROVE  /\ p < q => p * c + c <= q * c
         /\ p * c \in Nat
OBVIOUS

\* A number without a remainder is a multiple.
LEMMA Multiple ==
  ASSUME NEW a \in Nat, NEW c \in Nat \ {0}, a % c = 0
  PROVE  a = (a \div c) * c
OBVIOUS

\* When bars begin, and which bar a time is in.
LEMMA TimeFacts ==
  /\ Interval \in Nat /\ 1 < Interval
  /\ \A b \in Nat : /\ Begin(b) \in Nat /\ Begin(b) \div Interval = b
                    /\ Ceiling(Begin(b)) = b /\ Ceiling(Begin(b) + 1) = b + 1
  /\ \A b, d \in Nat : b < d => Begin(b) + Interval <= Begin(d)
  /\ \A t \in Nat : /\ t \div Interval \in Nat /\ Ceiling(t) \in Nat
                    /\ Begin(t \div Interval) <= t /\ t < Begin(t \div Interval) + Interval
                    /\ t <= Begin(Ceiling(t)) /\ Begin(Ceiling(t)) < t + Interval
                    /\ Ceiling(t + 1) = (t \div Interval) + 1
<1>1. Interval \in Nat \ {0} /\ 1 < Interval
  BY WarmupAssumption
<1>2. ASSUME NEW b \in Nat
      PROVE  /\ Begin(b) \in Nat /\ Begin(b) \div Interval = b
             /\ Ceiling(Begin(b)) = b /\ Ceiling(Begin(b) + 1) = b + 1
  <2>1. b * Interval \in Nat /\ (b + 1) * Interval = b * Interval + Interval
    BY <1>1
  <2>2. (b * Interval) \div Interval = b
    BY <1>1, <2>1, QuotientIs
  <2>3. (b * Interval + Interval - 1) \div Interval = b
    BY <1>1, <2>1, QuotientIs
  <2>4. (b * Interval + 1 + Interval - 1) \div Interval = b + 1
    BY <1>1, <2>1, QuotientIs
  <2>. QED BY <2>1, <2>2, <2>3, <2>4 DEF Begin, Ceiling
<1>3. ASSUME NEW b \in Nat, NEW d \in Nat, b < d PROVE Begin(b) + Interval <= Begin(d)
  BY <1>1, <1>3, Ordered DEF Begin
<1>4. ASSUME NEW t \in Nat
      PROVE  /\ t \div Interval \in Nat /\ Ceiling(t) \in Nat
             /\ Begin(t \div Interval) <= t /\ t < Begin(t \div Interval) + Interval
             /\ t <= Begin(Ceiling(t)) /\ Begin(Ceiling(t)) < t + Interval
             /\ Ceiling(t + 1) = (t \div Interval) + 1
  <2>. DEFINE q == t \div Interval
              r == (t + Interval - 1) \div Interval
  <2>1. q \in Nat /\ q * Interval \in Nat /\ q * Interval <= t /\ t < q * Interval + Interval
    BY <1>1, Division
  <2>2. t + Interval - 1 \in Nat
    BY <1>1
  <2>3. r \in Nat /\ r * Interval \in Nat /\ r * Interval <= t + Interval - 1
        /\ t + Interval - 1 < r * Interval + Interval
    BY <1>1, <2>2, Division
  <2>. HIDE DEF q
  <2>4. (q + 1) * Interval = q * Interval + Interval
    BY <1>1, <2>1
  <2>5. (t + 1 + Interval - 1) \div Interval = q + 1
    <3>1. t + 1 + Interval - 1 \in Nat /\ q + 1 \in Nat
      BY <1>1, <2>1
    <3>2. (q + 1) * Interval <= t + 1 + Interval - 1 /\
            t + 1 + Interval - 1 < (q + 1) * Interval + Interval
      BY <1>1, <2>1, <2>4
    <3>. QED BY <1>1, <3>1, <3>2, QuotientIs
  <2>. HIDE DEF r
  <2>6. t <= r * Interval /\ r * Interval < t + Interval
    BY <1>1, <2>3
  <2>. QED BY <2>1, <2>3, <2>5, <2>6 DEF Begin, Ceiling, q, r
<1>. QED BY <1>1, <1>2, <1>3, <1>4

\* A row of bars.
LEMMA BarsFacts ==
  ASSUME NEW lo \in Nat, NEW hi \in Int
  PROVE  /\ Bars(lo, hi) \in Seq(Nat)
         /\ Len(Bars(lo, hi)) = IF hi < lo THEN 0 ELSE hi - lo + 1
         /\ DOMAIN Bars(lo, hi) = 1 .. Len(Bars(lo, hi))
         /\ \A i \in DOMAIN Bars(lo, hi) : Bars(lo, hi)[i] = lo + i - 1
         /\ ToSet(Bars(lo, hi)) = lo .. hi
         /\ Bars(lo, hi) = <<>> <=> hi < lo
         /\ lo <= hi => Bars(lo, hi)[1] = lo /\ Last(Bars(lo, hi)) = hi
<1>. DEFINE n == IF hi < lo THEN 0 ELSE hi - lo + 1
            s == [i \in 1 .. n |-> lo + i - 1]
<1>1. n \in Nat
  OBVIOUS
<1>2. \A i \in 1 .. n : lo + i - 1 \in Nat
  OBVIOUS
<1>3. s \in Seq(Nat) /\ Len(s) = n /\ DOMAIN s = 1 .. n /\ \A i \in 1 .. n : s[i] = lo + i - 1
  <2>. HIDE DEF n
  <2>. QED BY <1>1, <1>2, IsASeq
<1>4. Bars(lo, hi) = s
  BY DEF Bars
<1>. HIDE DEF s
<1>5. ToSet(s) = lo .. hi
  <2>1. ASSUME NEW b \in lo .. hi PROVE b \in ToSet(s)
    <3>1. b - lo + 1 \in 1 .. n /\ lo + (b - lo + 1) - 1 = b
      OBVIOUS
    <3>. QED BY <1>3, <3>1 DEF ToSet
  <2>2. ASSUME NEW i \in 1 .. n PROVE lo + i - 1 \in lo .. hi
    OBVIOUS
  <2>. HIDE DEF n
  <2>. QED BY <1>3, <2>1, <2>2 DEF ToSet
<1>6. s = <<>> <=> hi < lo
  BY <1>3
<1>7. lo <= hi => s[1] = lo /\ s[Len(s)] = hi
  BY <1>3
<1>. HIDE DEF n
<1>. QED BY <1>3, <1>4, <1>5, <1>6, <1>7 DEF Last, n

\* A row of bars, by its ends.
LEMMA BarsRow ==
  ASSUME NEW lo \in Nat, NEW hi \in Int, lo <= hi + 1
  PROVE  /\ Bars(lo, hi) \in Seq(Nat) /\ Len(Bars(lo, hi)) = hi - lo + 1
         /\ \A i \in 1 .. Len(Bars(lo, hi)) : Bars(lo, hi)[i] = lo + i - 1
<1>. DEFINE s == Bars(lo, hi)
<1>1. /\ s \in Seq(Nat) /\ Len(s) = IF hi < lo THEN 0 ELSE hi - lo + 1
      /\ DOMAIN s = 1 .. Len(s) /\ \A i \in DOMAIN s : s[i] = lo + i - 1
  BY BarsFacts, Zenon
<1>. HIDE DEF s
<1>2. Len(s) = hi - lo + 1
  BY <1>1
<1>. QED BY <1>1, <1>2 DEF s

\* Two rows that meet are one.
LEMMA BarsJoin ==
  ASSUME NEW lo \in Nat, NEW mid \in Int, NEW hi \in Int, lo <= mid + 1, mid <= hi
  PROVE  Bars(lo, mid) \o Bars(mid + 1, hi) = Bars(lo, hi)
<1>. DEFINE a == Bars(lo, mid)
            b == Bars(mid + 1, hi)
            c == Bars(lo, hi)
<1>1. mid + 1 \in Nat
  OBVIOUS
<1>2. /\ a \in Seq(Nat) /\ Len(a) = mid - lo + 1 /\ \A i \in 1 .. Len(a) : a[i] = lo + i - 1
  BY BarsRow, Zenon
<1>3. /\ b \in Seq(Nat) /\ Len(b) = hi - (mid + 1) + 1
      /\ \A i \in 1 .. Len(b) : b[i] = (mid + 1) + i - 1
  <2>1. mid + 1 <= hi + 1
    OBVIOUS
  <2>. QED BY <1>1, <2>1, BarsRow, Zenon
<1>4. /\ c \in Seq(Nat) /\ Len(c) = hi - lo + 1 /\ \A i \in 1 .. Len(c) : c[i] = lo + i - 1
  <2>1. lo <= hi + 1
    OBVIOUS
  <2>. QED BY <2>1, BarsRow, Zenon
<1>. HIDE DEF a, b, c
<1>5. /\ a \o b \in Seq(Nat) /\ Len(a \o b) = Len(a) + Len(b)
      /\ \A i \in 1 .. Len(a) + Len(b) :
           (a \o b)[i] = IF i <= Len(a) THEN a[i] ELSE b[i - Len(a)]
  BY <1>2, <1>3, ConcatProperties
<1>6. Len(a \o b) = Len(c)
  BY <1>2, <1>3, <1>4, <1>5
<1>7. ASSUME NEW i \in 1 .. Len(c) PROVE (a \o b)[i] = c[i]
  <2>1. i \in 1 .. Len(a) + Len(b) /\ c[i] = lo + i - 1
    BY <1>2, <1>3, <1>4
  <2>2. CASE i <= Len(a)
    BY <1>2, <1>5, <2>1, <2>2
  <2>3. CASE ~ i <= Len(a)
    <3>1. i - Len(a) \in 1 .. Len(b)
      BY <1>2, <1>3, <2>1, <2>3
    <3>2. b[i - Len(a)] = (mid + 1) + (i - Len(a)) - 1
      BY <1>3, <3>1
    <3>3. (a \o b)[i] = b[i - Len(a)]
      BY <1>5, <2>1, <2>3
    <3>. QED BY <1>2, <2>1, <3>2, <3>3
  <2>. QED BY <2>2, <2>3
<1>8. a \o b = c
  BY <1>4, <1>5, <1>6, <1>7, SeqEqual
<1>. QED BY <1>8 DEF a, b, c

-----------------------------------------------------------------------------
(* Filtering a page or a history.                                           *)

\* A kline is put at the end.
LEMMA Appended ==
  ASSUME NEW S, NEW q \in Seq(S), NEW x \in S
  PROVE  /\ Append(q, x) \in Seq(S) /\ Len(q) \in Nat /\ Len(Append(q, x)) = Len(q) + 1
         /\ DOMAIN q = 1 .. Len(q) /\ DOMAIN Append(q, x) = 1 .. (Len(q) + 1)
         /\ \A i \in 1 .. Len(q) : Append(q, x)[i] = q[i]
         /\ Append(q, x)[Len(q) + 1] = x
OBVIOUS

\* What is left is in the order it was in, and it is all when nothing is to go.
LEMMA WithoutFacts ==
  ASSUME NEW list \in Seq(Nat), InOrder(list), NEW some
  PROVE  /\ Without(list, some) \in Seq(Nat) /\ InOrder(Without(list, some))
         /\ \A i \in DOMAIN Without(list, some) :
              Without(list, some)[i] \in ToSet(list) \ some
         /\ ToSet(list) \cap some = {} => Without(list, some) = list
<1>. DEFINE n == Len(list)
            Next1(kept, b) == IF b \in some THEN kept ELSE Append(kept, b)
            IsFold(g) == g = [s \in SUBSET DOMAIN list |->
                                IF s = {} THEN <<>>
                                ELSE IF list[Max(s)] \in some THEN g[s \ {Max(s)}]
                                     ELSE Append(g[s \ {Max(s)}], list[Max(s)])]
            h == CHOOSE g : IsFold(g)
            step == [p \in Seq(Nat) \X (1 .. n) |-> Next1(p[1], list[p[2]])]
<1>1. n \in Nat /\ DOMAIN list = 1 .. n /\ \A i \in 1 .. n : list[i] \in Nat
  OBVIOUS
<1>2. Without(list, some) = h[DOMAIN list]
  BY DEF Without, FoldLeft, MapThenFoldSet
<1>. HIDE DEF n
<1>3. step \in [Seq(Nat) \X (1 .. n) -> Seq(Nat)]
  <2>1. ASSUME NEW kept \in Seq(Nat), NEW i \in 1 .. n PROVE Next1(kept, list[i]) \in Seq(Nat)
    BY <1>1
  <2>. HIDE DEF Next1
  <2>. QED BY <2>1
<1>4. \A q \in Seq(Nat), i \in 1 .. n : step[<<q, i>>] = Next1(q, list[i])
  OBVIOUS
<1>5. <<>> \in Seq(Nat)
  OBVIOUS
<1>6. \E g : IsFold(g)
  <2>. HIDE DEF step
  <2>1. PICK g \in [SUBSET (1 .. n) -> Seq(Nat)] : IsMaxRecursion(g, n, <<>>, step)
    BY <1>1, <1>3, <1>5, MaxRecursion, Zenon
  <2>2. ASSUME NEW s \in SUBSET (1 .. n)
        PROVE  g[s] = IF s = {} THEN <<>> ELSE Next1(g[s \ {Max(s)}], list[Max(s)])
    <3>1. CASE s = {}
      BY <2>1, <3>1 DEF IsMaxRecursion
    <3>2. CASE s # {}
      <4>1. Max(s) \in s
        BY <1>1, <3>2, MaxFacts
      <4>2. Max(s) \in 1 .. n /\ g[s \ {Max(s)}] \in Seq(Nat)
        BY <2>1, <4>1
      <4>3. g[s] = step[<<g[s \ {Max(s)}], Max(s)>>]
        BY <2>1, <3>2 DEF IsMaxRecursion
      <4>. HIDE DEF Next1
      <4>. QED BY <1>4, <3>2, <4>2, <4>3
    <3>. QED BY <3>1, <3>2
  <2>3. IsFold(g)
    BY <1>1, <2>1, <2>2
  <2>. HIDE DEF IsFold
  <2>. QED BY <2>3
<1>7. IsFold(h)
  <2>. HIDE DEF IsFold
  <2>. QED BY <1>6
<1>. HIDE DEF h, step
<1>8. h[1 .. 0] = <<>>
  <2>1. 1 .. 0 = {} /\ 1 .. 0 \in SUBSET (1 .. n)
    BY <1>1
  <2>. QED BY <1>1, <1>7, <2>1
<1>9. ASSUME NEW i \in 1 .. n PROVE h[1 .. i] = Next1(h[1 .. (i - 1)], list[i])
  <2>1. Max(1 .. i) = i /\ (1 .. i) \ {i} = 1 .. (i - 1)
    BY <1>1, MaxOfInterval
  <2>2. 1 .. i \in SUBSET (1 .. n) /\ 1 .. i # {}
    <3>1. i \in Nat /\ i <= n /\ i \in 1 .. i
      BY <1>1
    <3>. QED BY <1>1, <3>1
  <2>3. h[1 .. i] = Next1(h[(1 .. i) \ {Max(1 .. i)}], list[Max(1 .. i)])
    BY <1>1, <1>7, <2>2
  <2>. QED BY <2>1, <2>3
<1>. HIDE DEF IsFold
<1>10. \A i, j \in 1 .. n : i < j => list[i] < list[j]
  BY <1>1 DEF InOrder
<1>. DEFINE Stays == \A j \in 1 .. n : list[j] \notin some
            Holds(i) ==
              /\ h[1 .. i] \in Seq(Nat) /\ InOrder(h[1 .. i])
              /\ \A k \in DOMAIN h[1 .. i] : \E j \in 1 .. i : h[1 .. i][k] = list[j] /\
                   list[j] \notin some
              /\ Stays => Len(h[1 .. i]) = i /\ \A j \in 1 .. i : h[1 .. i][j] = list[j]
            Done == {i \in Nat : i <= n => Holds(i)}
<1>11. Holds(0)
  BY <1>5, <1>8 DEF InOrder
<1>12. ASSUME NEW i \in Nat, i + 1 <= n, Holds(i) PROVE Holds(i + 1)
  <2>. DEFINE kept == h[1 .. i]
              x    == list[i + 1]
  <2>1. i + 1 \in 1 .. n /\ (i + 1) - 1 = i /\ x \in Nat
    <3>. HIDE DEF Holds, Stays, Next1
    <3>1. i + 1 \in 1 .. n /\ (i + 1) - 1 = i
      BY <1>1, <1>12
    <3>. QED BY <1>1, <3>1
  <2>2. h[1 .. (i + 1)] = Next1(kept, x)
    BY <1>9, <2>1
  <2>3. kept \in Seq(Nat) /\ DOMAIN kept = 1 .. Len(kept)
    BY <1>12
  <2>4. /\ InOrder(kept)
        /\ \A k \in DOMAIN kept : \E j \in 1 .. i : kept[k] = list[j] /\ list[j] \notin some
        /\ Stays => Len(kept) = i /\ \A j \in 1 .. i : kept[j] = list[j]
    BY <1>12
  <2>5. \A k \in DOMAIN kept : kept[k] < x
    <3>. TAKE k \in DOMAIN kept
    <3>1. PICK j \in 1 .. i : kept[k] = list[j]
      BY <2>4
    <3>2. j \in 1 .. n /\ j < i + 1
      BY <1>1, <1>12
    <3>. QED BY <1>10, <2>1, <3>1, <3>2
  <2>6. Stays => x \notin some
    BY <2>1
  <2>. HIDE DEF kept, Stays
  <2>7. CASE x \in some
    <3>1. \A j \in 1 .. i : j \in 1 .. (i + 1)
      OBVIOUS
    <3>2. h[1 .. (i + 1)] = kept
      BY <2>2, <2>7
    <3>3. \A k \in DOMAIN kept : \E j \in 1 .. (i + 1) : kept[k] = list[j] /\ list[j] \notin some
      BY <2>4, <3>1
    <3>. HIDE DEF x
    <3>. QED BY <2>3, <2>4, <2>6, <2>7, <3>2, <3>3
  <2>8. CASE x \notin some
    <3>. DEFINE new == Append(kept, x)
                m   == Len(kept)
    <3>0. h[1 .. (i + 1)] = new
      BY <2>2, <2>8
    <3>1. /\ new \in Seq(Nat) /\ m \in Nat /\ Len(new) = m + 1
          /\ DOMAIN kept = 1 .. m /\ DOMAIN new = 1 .. (m + 1)
          /\ \A k \in 1 .. m : new[k] = kept[k]
          /\ new[m + 1] = x
      BY <2>1, <2>3, Appended
    <3>. HIDE DEF new, m
    <3>2. \A k \in 1 .. (m + 1) : k \in 1 .. m \/ k = m + 1
      BY <3>1
    <3>3. InOrder(new)
      <4>. SUFFICES ASSUME NEW k \in 1 .. (m + 1), NEW l \in 1 .. (m + 1), k < l
                    PROVE  new[k] < new[l]
        BY <3>1 DEF InOrder
      <4>1. k \in 1 .. m
        BY <3>1
      <4>2. CASE l = m + 1
        BY <2>5, <3>1, <4>1, <4>2
      <4>3. CASE l \in 1 .. m
        BY <2>4, <3>1, <4>1, <4>3 DEF InOrder
      <4>. QED BY <3>2, <4>2, <4>3
    <3>4. \A k \in DOMAIN new : \E j \in 1 .. (i + 1) : new[k] = list[j] /\ list[j] \notin some
      <4>. SUFFICES ASSUME NEW k \in 1 .. (m + 1)
                    PROVE  \E j \in 1 .. (i + 1) : new[k] = list[j] /\ list[j] \notin some
        BY <3>1
      <4>1. CASE k = m + 1
        BY <2>1, <2>8, <3>1, <4>1
      <4>2. CASE k \in 1 .. m
        <5>1. PICK j \in 1 .. i : kept[k] = list[j] /\ list[j] \notin some
          BY <2>4, <3>1, <4>2
        <5>2. j \in 1 .. (i + 1)
          OBVIOUS
        <5>. QED BY <3>1, <4>2, <5>1, <5>2
      <4>. QED BY <3>2, <4>1, <4>2
    <3>5. Stays => Len(new) = i + 1 /\ \A j \in 1 .. (i + 1) : new[j] = list[j]
      <4>. SUFFICES ASSUME Stays PROVE Len(new) = i + 1 /\ \A j \in 1 .. (i + 1) : new[j] = list[j]
        OBVIOUS
      <4>1. Len(kept) = i /\ m = i /\ \A j \in 1 .. i : kept[j] = list[j]
        BY <2>4 DEF m
      <4>2. \A j \in 1 .. (i + 1) : j \in 1 .. i \/ j = i + 1
        OBVIOUS
      <4>. QED BY <3>1, <4>1, <4>2
    <3>. HIDE DEF x
    <3>. QED BY <3>0, <3>1, <3>3, <3>4, <3>5
  <2>. QED BY <2>7, <2>8
<1>13. n \in Done
  <2>1. 0 \in Done /\ \A i \in Nat : i \in Done => i + 1 \in Done
    <3>. HIDE DEF Holds
    <3>. QED BY <1>1, <1>11, <1>12
  <2>. HIDE DEF Done
  <2>. QED BY <1>1, <2>1, NatSetInduction
<1>14. Holds(n)
  <2>. HIDE DEF Holds
  <2>. QED BY <1>1, <1>13
<1>15. h[1 .. n] = Without(list, some)
  BY <1>1, <1>2
<1>. DEFINE r == Without(list, some)
<1>16. /\ r \in Seq(Nat) /\ InOrder(r)
       /\ \A k \in DOMAIN r : \E j \in 1 .. n : r[k] = list[j] /\ list[j] \notin some
       /\ Stays => Len(r) = n /\ \A j \in 1 .. n : r[j] = list[j]
  BY <1>14, <1>15
<1>. HIDE DEF r, Holds, Stays
<1>17. \A k \in DOMAIN r : r[k] \in ToSet(list) \ some
  BY <1>1, <1>16 DEF ToSet
<1>18. ASSUME ToSet(list) \cap some = {} PROVE r = list
  <2>1. Stays
    BY <1>1, <1>18 DEF Stays, ToSet
  <2>2. Len(r) = Len(list) /\ \A j \in 1 .. Len(r) : r[j] = list[j]
    BY <1>16, <2>1 DEF n
  <2>. QED BY <1>16, <2>2, SeqEqual
<1>. QED BY <1>16, <1>17, <1>18 DEF r

-----------------------------------------------------------------------------
(* A warm-up: the indicator takes the first bars of the history, as many as *)
(* it asked for or as there are.                                            *)

Indicators ==
  [place : {"none", "pending", "active"}, count : Nat, warm : BOOLEAN, handled : Seq(LiveKlines)]
First(past, c) == [i \in 1 .. c |-> past[i]]
After(past, c) ==
  [place |-> "pending", count |-> c, warm |-> period <= c, handled |-> First(past, c)]

\* process_warmup_kline: a bar is handled until the indicator is warm.
LEMMA Process ==
  ASSUME period \in Nat, NEW s \in Indicators, NEW k \in LiveKlines
  PROVE  /\ ProcessWarmupKline(s, k) \in Indicators
         /\ ProcessWarmupKline(s, k).place = s.place
         /\ s.warm => ProcessWarmupKline(s, k) = s
         /\ ~ s.warm => /\ ProcessWarmupKline(s, k).count = s.count + 1
                        /\ ProcessWarmupKline(s, k).handled = Append(s.handled, k)
                        /\ ProcessWarmupKline(s, k).warm = (period <= s.count + 1)
<1>1. Append(s.handled, k) \in Seq(LiveKlines) /\ s.count + 1 \in Nat
  <2>. HIDE DEF LiveKlines
  <2>. QED BY DEF Indicators
<1>2. (s.count + 1 >= period) = (period <= s.count + 1)
  BY <1>1
<1>. HIDE DEF LiveKlines
<1>3. CASE s.warm
  BY <1>3 DEF ProcessWarmupKline
<1>4. CASE ~ s.warm
  <2>. DEFINE t == [place |-> s.place, count |-> s.count + 1, warm |-> s.count + 1 >= period,
                    handled |-> Append(s.handled, k)]
  <2>1. ProcessWarmupKline(s, k) = t
    BY <1>4 DEF ProcessWarmupKline, Indicators
  <2>2. t \in Indicators
    BY <1>1 DEF Indicators
  <2>. QED BY <1>2, <1>4, <2>1, <2>2
<1>. QED BY <1>3, <1>4

\* The warm-up handles the first bars of the history, up to the period.
LEMMA WarmedUp ==
  ASSUME period \in Nat \ {0}, NEW past \in Seq(LiveKlines),
         NEW start, start = [place |-> "pending", count |-> 0, warm |-> FALSE, handled |-> <<>>]
  PROVE  \E c \in 0 .. Len(past) : FoldLeft(ProcessWarmupKline, start, past) = After(past, c)
<1>. DEFINE n == Len(past)
            IsFold(g) == g = [s \in SUBSET DOMAIN past |->
                                IF s = {} THEN start
                                ELSE ProcessWarmupKline(g[s \ {Max(s)}], past[Max(s)])]
            h == CHOOSE g : IsFold(g)
            step == [p \in Indicators \X (1 .. n) |-> ProcessWarmupKline(p[1], past[p[2]])]
<1>. HIDE DEF LiveKlines
<1>1. n \in Nat /\ DOMAIN past = 1 .. n /\ \A i \in 1 .. n : past[i] \in LiveKlines
  OBVIOUS
<1>2. FoldLeft(ProcessWarmupKline, start, past) = h[DOMAIN past]
  BY DEF FoldLeft, MapThenFoldSet
<1>. HIDE DEF n
<1>3. step \in [Indicators \X (1 .. n) -> Indicators]
  <2>1. ASSUME NEW s \in Indicators, NEW i \in 1 .. n
        PROVE  ProcessWarmupKline(s, past[i]) \in Indicators
    BY <1>1, Process
  <2>. QED BY <2>1
<1>4. \A s \in Indicators, i \in 1 .. n : step[<<s, i>>] = ProcessWarmupKline(s, past[i])
  OBVIOUS
<1>5. start \in Indicators
  <2>1. <<>> \in Seq(LiveKlines)
    OBVIOUS
  <2>. QED BY <2>1 DEF Indicators
<1>6. \E g : IsFold(g)
  <2>. HIDE DEF step
  <2>1. PICK g \in [SUBSET (1 .. n) -> Indicators] : IsMaxRecursion(g, n, start, step)
    BY <1>1, <1>3, <1>5, MaxRecursion, Zenon
  <2>2. ASSUME NEW s \in SUBSET (1 .. n)
        PROVE  g[s] = IF s = {} THEN start ELSE ProcessWarmupKline(g[s \ {Max(s)}], past[Max(s)])
    <3>1. CASE s = {}
      BY <2>1, <3>1 DEF IsMaxRecursion
    <3>2. CASE s # {}
      <4>1. Max(s) \in s
        BY <1>1, <3>2, MaxFacts
      <4>2. Max(s) \in 1 .. n /\ g[s \ {Max(s)}] \in Indicators
        BY <2>1, <4>1
      <4>3. g[s] = step[<<g[s \ {Max(s)}], Max(s)>>]
        BY <2>1, <3>2 DEF IsMaxRecursion
      <4>. QED BY <1>4, <3>2, <4>2, <4>3
    <3>. QED BY <3>1, <3>2
  <2>3. IsFold(g)
    BY <1>1, <2>1, <2>2
  <2>. HIDE DEF IsFold
  <2>. QED BY <2>3
<1>7. IsFold(h)
  <2>. HIDE DEF IsFold
  <2>. QED BY <1>6
<1>. HIDE DEF h, step
<1>8. h[1 .. 0] = start
  <2>1. 1 .. 0 = {} /\ 1 .. 0 \in SUBSET (1 .. n)
    BY <1>1
  <2>. QED BY <1>1, <1>7, <2>1
<1>9. ASSUME NEW i \in 1 .. n PROVE h[1 .. i] = ProcessWarmupKline(h[1 .. (i - 1)], past[i])
  <2>1. Max(1 .. i) = i /\ (1 .. i) \ {i} = 1 .. (i - 1)
    BY <1>1, MaxOfInterval
  <2>2. 1 .. i \in SUBSET (1 .. n) /\ 1 .. i # {}
    <3>1. i \in Nat /\ i <= n /\ i \in 1 .. i
      BY <1>1
    <3>2. \A y \in 1 .. i : y \in 1 .. n
      BY <1>1, <3>1
    <3>. QED BY <3>1, <3>2, Zenon
  <2>3. h[1 .. i] = ProcessWarmupKline(h[(1 .. i) \ {Max(1 .. i)}], past[Max(1 .. i)])
    BY <1>1, <1>7, <2>2
  <2>. QED BY <2>1, <2>3
<1>. HIDE DEF IsFold
<1>. DEFINE Holds(i) == \E c \in 0 .. i : h[1 .. i] = After(past, c) /\ (c = i \/ period <= c)
            Done == {i \in Nat : i <= n => Holds(i)}
<1>10. Holds(0)
  <2>1. First(past, 0) = <<>> /\ (period <= 0) = FALSE
    BY DEF First
  <2>2. After(past, 0) = start
    BY <2>1 DEF After
  <2>. QED BY <1>8, <2>2
<1>11. ASSUME NEW i \in Nat, i + 1 <= n, Holds(i) PROVE Holds(i + 1)
  <2>. DEFINE k == past[i + 1]
  <2>1. i + 1 \in 1 .. n /\ (i + 1) - 1 = i /\ k \in LiveKlines
    BY <1>1, <1>11
  <2>2. PICK c \in 0 .. i : h[1 .. i] = After(past, c) /\ (c = i \/ period <= c)
    BY <1>11
  <2>3. h[1 .. (i + 1)] = ProcessWarmupKline(After(past, c), k)
    BY <1>9, <2>1, <2>2
  <2>4. First(past, c) \in Seq(LiveKlines) /\ Len(First(past, c)) = c
    <3>1. c \in Nat /\ \A j \in 1 .. c : past[j] \in LiveKlines
      BY <1>1, <1>11
    <3>2. [j \in 1 .. c |-> past[j]] \in Seq(LiveKlines)
      BY <3>1, IsASeq
    <3>. QED BY <3>1, <3>2 DEF First
  <2>5. After(past, c) \in Indicators
    BY <2>4 DEF After, Indicators
  <2>6. CASE period <= c
    <3>1. ProcessWarmupKline(After(past, c), k) = After(past, c)
      <4>1. After(past, c).warm
        BY <2>6 DEF After
      <4>. HIDE DEF k
      <4>. QED BY <2>1, <2>5, <4>1, Process
    <3>2. c \in 0 .. (i + 1)
      OBVIOUS
    <3>. QED BY <2>3, <2>6, <3>1, <3>2
  <2>7. CASE ~ period <= c
    <3>1. c = i
      BY <2>2, <2>7
    <3>. DEFINE s == After(past, c)
                t == ProcessWarmupKline(s, k)
    <3>2. s.place = "pending" /\ s.count = c /\ ~ s.warm /\ s.handled = First(past, c)
      BY <2>7 DEF After
    <3>. HIDE DEF k, s, t
    <3>3. /\ t \in Indicators /\ t.place = s.place /\ t.count = s.count + 1
          /\ t.handled = Append(s.handled, k) /\ t.warm = (period <= s.count + 1)
      BY <2>1, <2>5, <3>2, Process DEF t, s
    <3>4. Append(First(past, c), k) = First(past, c + 1)
      <4>. DEFINE new == Append(First(past, c), k)
                  goal == First(past, c + 1)
      <4>1. /\ new \in Seq(LiveKlines) /\ Len(new) = c + 1
            /\ \A j \in 1 .. c : new[j] = First(past, c)[j]
            /\ new[c + 1] = k
        BY <2>1, <2>4, Appended
      <4>2. \A j \in 1 .. c : First(past, c)[j] = past[j]
        BY DEF First
      <4>3. \A j \in 1 .. (c + 1) : goal[j] = past[j]
        BY DEF First
      <4>4. goal \in Seq(LiveKlines) /\ Len(goal) = c + 1
        <5>1. c + 1 \in Nat /\ \A j \in 1 .. (c + 1) : past[j] \in LiveKlines
          BY <1>1, <1>11
        <5>2. [j \in 1 .. (c + 1) |-> past[j]] \in Seq(LiveKlines)
          BY <5>1, IsASeq
        <5>. QED BY <5>1, <5>2 DEF First
      <4>. HIDE DEF new, goal
      <4>5. ASSUME NEW j \in 1 .. Len(new) PROVE new[j] = goal[j]
        <5>1. j \in 1 .. c \/ j = c + 1
          BY <4>1
        <5>2. c + 1 \in 1 .. (c + 1) /\ j \in 1 .. (c + 1)
          BY <4>1
        <5>3. k = past[c + 1]
          BY <3>1 DEF k
        <5>. QED BY <4>1, <4>2, <4>3, <5>1, <5>2, <5>3
      <4>6. new = goal
        BY <4>1, <4>4, <4>5, SeqEqual
      <4>. QED BY <4>6 DEF new, goal
    <3>5. t = After(past, c + 1)
      BY <3>2, <3>3, <3>4 DEF After, Indicators
    <3>6. c + 1 \in 0 .. (i + 1) /\ c + 1 = i + 1
      BY <3>1
    <3>. QED BY <2>3, <3>5, <3>6 DEF t, s
  <2>. QED BY <2>6, <2>7
<1>12. n \in Done
  <2>1. 0 \in Done /\ \A i \in Nat : i \in Done => i + 1 \in Done
    <3>. HIDE DEF Holds
    <3>. QED BY <1>1, <1>10, <1>11
  <2>. HIDE DEF Done
  <2>. QED BY <1>1, <2>1, NatSetInduction
<1>13. Holds(n)
  <2>. HIDE DEF Holds
  <2>. QED BY <1>1, <1>12
<1>. QED BY <1>1, <1>2, <1>13 DEF n

-----------------------------------------------------------------------------
(* Pages.                                                                   *)

NewestOf(end) == IF end = None THEN Newest ELSE Least(Newest, end \div Interval)

\* The newest bar there is, and the newest before an end.
LEMMA NewestFacts ==
  ASSUME now \in Nat, NEW end \in Nat \cup {None}
  PROVE  NewestOf(end) \in Nat /\ Newest \in Nat /\ NewestOf(end) <= Newest
<1>1. Newest \in Nat
  BY TimeFacts DEF Newest
<1>2. end # None => end \div Interval \in Nat
  <2>1. end # None => end \in Nat
    OBVIOUS
  <2>. QED BY <2>1, TimeFacts
<1>. QED BY <1>1, <1>2 DEF NewestOf, Least

\* A page of Binance or Bybit: as many bars as it may hold, or up to the last.
LEMMA PageFromFacts ==
  ASSUME now \in Nat, NEW start \in Nat \cup {None}, NEW end \in Nat \cup {None},
         NEW size \in Nat \ {0}
  PROVE  \E lo \in Nat, hi \in Int :
           /\ PageFrom(start, end, size) = Bars(lo, hi)
           /\ hi <= NewestOf(end)
           /\ IF start = None THEN lo <= hi /\ hi = NewestOf(end)
              ELSE /\ lo = Ceiling(start)
                   /\ hi = NewestOf(end) \/ (lo <= hi /\ hi - lo + 1 = size)
<1>. DEFINE last == NewestOf(end)
<1>1. last \in Nat
  BY NewestFacts
<1>2. PageFrom(start, end, size) =
        IF start = None THEN Bars(Most(0, last - size + 1), last)
        ELSE Bars(Ceiling(start), Least(last, Ceiling(start) + size - 1))
  BY DEF PageFrom, NewestOf
<1>. HIDE DEF last
<1>3. CASE start = None
  <2>. DEFINE lo == Most(0, last - size + 1)
  <2>1. lo \in Nat /\ lo <= last
    BY <1>1 DEF Most
  <2>. HIDE DEF lo
  <2>2. PageFrom(start, end, size) = Bars(lo, last)
    BY <1>2, <1>3 DEF lo
  <2>. QED BY <1>1, <1>3, <2>1, <2>2 DEF last
<1>4. CASE start # None
  <2>. DEFINE lo == Ceiling(start)
              hi == Least(last, lo + size - 1)
  <2>1. lo \in Nat
    <3>1. start \in Nat
      BY <1>4
    <3>. QED BY <3>1, TimeFacts
  <2>2. PageFrom(start, end, size) = Bars(lo, hi)
    BY <1>2, <1>4
  <2>. HIDE DEF lo
  <2>3. hi \in Int /\ hi <= last /\ (hi = last \/ (lo <= hi /\ hi - lo + 1 = size))
    BY <1>1, <2>1 DEF Least
  <2>. HIDE DEF hi
  <2>. QED BY <1>4, <2>1, <2>2, <2>3 DEF last, lo
<1>. QED BY <1>3, <1>4

\* A page that ends before a time is a row of bars up to it.
LEMMA PageBeforeFacts ==
  ASSUME NEW time \in Nat, NEW size \in Nat \ {0}, NEW last \in Nat, Ceiling(time) = last + 1
  PROVE  \E lo \in Nat : lo <= last /\ PageBefore(time, size) = Bars(lo, last)
<1>. DEFINE lo == Most(0, last - size + 1)
<1>1. lo \in Nat /\ lo <= last
  BY DEF Most
<1>2. (last + 1) - 1 = last
  OBVIOUS
<1>3. PageBefore(time, size) = Bars(lo, last)
  BY <1>2 DEF PageBefore
<1>. HIDE DEF lo
<1>. QED BY <1>1, <1>3

\* A row of bars is in order.
LEMMA BarsInOrder ==
  ASSUME NEW lo \in Nat, NEW hi \in Int
  PROVE  InOrder(Bars(lo, hi))
<1>. DEFINE s == Bars(lo, hi)
<1>1. s \in Seq(Nat) /\ DOMAIN s = 1 .. Len(s) /\ \A i \in DOMAIN s : s[i] = lo + i - 1
  BY BarsFacts, Zenon
<1>. HIDE DEF s
<1>2. ASSUME NEW i \in DOMAIN s, NEW j \in DOMAIN s, i < j PROVE s[i] < s[j]
  <2>1. i \in Int /\ j \in Int /\ s[i] = lo + i - 1 /\ s[j] = lo + j - 1
    BY <1>1
  <2>. QED BY <1>2, <2>1
<1>3. InOrder(s)
  BY <1>2 DEF InOrder
<1>. QED BY <1>3 DEF s

\* What was asked for was there when the request began.
LEMMA AskedFacts ==
  ASSUME WarmupTypeOK, began <= Newest
  PROVE  LastAsked \in Nat /\ LastAsked <= NewestOf(request.end) /\ LastAsked <= began
<1>1. request.end \in Nat \cup {None} /\ began \in Nat /\ Newest \in Nat
  BY TimeFacts DEF WarmupTypeOK, Requests, Newest
<1>2. request.end # None => request.end \div Interval \in Nat
  <2>1. request.end # None => request.end \in Nat
    BY <1>1
  <2>. QED BY <2>1, TimeFacts
<1>. QED BY <1>1, <1>2 DEF LastAsked, NewestOf, Least

\* The size of a page.
LEMMA SizeFacts ==
  ASSUME WarmupTypeOK
  PROVE  Size \in Nat \ {0} /\ (venue = "okx" \/ venue = "bybit" => Size = PageMax)
<1>1. request.limit = None \/ request.limit \in Nat \ {0}
  BY WarmupAssumption DEF WarmupTypeOK, Requests
<1>2. CASE venue = "okx" \/ venue = "bybit"
  BY <1>2, WarmupAssumption DEF Size
<1>3. CASE ~ (venue = "okx" \/ venue = "bybit")
  BY <1>1, <1>3, WarmupAssumption DEF Size
<1>. QED BY <1>2, <1>3

\* A page of Binance or Bybit goes on where the one before it ended.
LEMMA NextPage ==
  ASSUME WarmupTypeOK, LoopOK, phase = "fetching", venue # "okx",
         NEW size, size = Size, NEW bars, bars = PageFrom(cursor, request.end, size)
  PROVE  NextFits(bars)
<1>. DEFINE last == NewestOf(request.end)
            Whole(lo, hi) ==
              /\ collected \o bars = Bars(lo, hi) /\ hi <= Newest
              /\ IF request.start = None THEN lo <= hi /\ LastAsked <= hi
                 ELSE lo = Ceiling(request.start)
              /\ bars # <<>> => lo <= hi /\ Last(bars) = hi
              /\ bars = <<>> \/ Len(bars) < size => LastAsked <= hi
<1>9. size \in Nat \ {0}
  BY SizeFacts
<1>1. /\ now \in Nat /\ cursor \in Nat \cup {None} /\ request.end \in Nat \cup {None}
      /\ request.start \in Nat \cup {None} /\ collected \in Seq(Nat)
  BY DEF WarmupTypeOK, Requests
<1>2. last \in Nat /\ Newest \in Nat /\ last <= Newest /\ LastAsked \in Nat /\ LastAsked <= last
  <2>1. began <= Newest
    BY DEF LoopOK
  <2>. QED BY <1>1, <2>1, NewestFacts, AskedFacts
<1>3. PICK p \in Nat, q \in Int :
        /\ bars = Bars(p, q) /\ q <= last
        /\ IF cursor = None THEN p <= q /\ q = last
           ELSE /\ p = Ceiling(cursor)
                /\ q = last \/ (p <= q /\ q - p + 1 = size)
  <2>. HIDE DEF Whole, last
  <2>1. \E lo \in Nat, hi \in Int :
          /\ PageFrom(cursor, request.end, size) = Bars(lo, hi)
          /\ hi <= NewestOf(request.end)
          /\ IF cursor = None THEN lo <= hi /\ hi = NewestOf(request.end)
             ELSE /\ lo = Ceiling(cursor)
                  /\ hi = NewestOf(request.end) \/ (lo <= hi /\ hi - lo + 1 = size)
    BY <1>1, <1>9, PageFromFacts, Zenon
  <2>. QED BY <2>1 DEF last
<1>4. /\ bars \in Seq(Nat) /\ Len(bars) = IF q < p THEN 0 ELSE q - p + 1
      /\ ToSet(bars) = p .. q /\ (bars = <<>> <=> q < p) /\ (p <= q => Last(bars) = q)
  <2>. HIDE DEF Whole, NextFits
  <2>1. /\ Bars(p, q) \in Seq(Nat) /\ Len(Bars(p, q)) = IF q < p THEN 0 ELSE q - p + 1
        /\ ToSet(Bars(p, q)) = p .. q /\ (Bars(p, q) = <<>> <=> q < p)
        /\ (p <= q => Last(Bars(p, q)) = q)
    BY BarsFacts, Zenon
  <2>. QED BY <1>3, <2>1
<1>5. InOrder(bars)
  BY <1>3, BarsInOrder
<1>. HIDE DEF last
<1>6. CASE collected = <<>>
  <2>1. cursor = request.start
    BY <1>6 DEF LoopOK, Requesting
  <2>2. collected \o bars = bars
    BY <1>4, <1>6, ConcatEmptySeq, Zenon
  <2>3. ToSet(collected) = {}
    BY <1>6 DEF ToSet
  <2>4. q <= Newest
    BY <1>2, <1>3
  <2>5. IF request.start = None THEN p <= q /\ LastAsked <= q ELSE p = Ceiling(request.start)
    BY <1>2, <1>3, <2>1
  <2>6. bars = <<>> \/ Len(bars) < size => LastAsked <= q
    BY <1>2, <1>3, <1>4
  <2>7. bars # <<>> => p <= q /\ Last(bars) = q
    BY <1>4
  <2>8. Whole(p, q)
    BY <1>3, <2>2, <2>4, <2>5, <2>6, <2>7
  <2>. HIDE DEF Whole, NextFits
  <2>9. \E lo \in Nat, hi \in Int : Whole(lo, hi)
    BY <2>8
  <2>. QED BY <1>4, <1>5, <2>3, <2>9 DEF Whole, NextFits
<1>7. CASE collected # <<>>
  <2>1. PICK lo \in Nat, hi \in Nat : Row(collected, cursor, lo, hi)
    BY <1>7 DEF LoopOK, Requesting
  <2>2. /\ lo <= hi /\ hi <= Newest /\ collected = Bars(lo, hi) /\ cursor = Begin(hi) + 1
        /\ IF request.start = None THEN LastAsked <= hi ELSE lo = Ceiling(request.start)
    BY <2>1 DEF Row
  <2>3. Begin(hi) \in Nat /\ Ceiling(Begin(hi) + 1) = hi + 1
    BY TimeFacts
  <2>4. p = hi + 1 /\ (q = last \/ (p <= q /\ q - p + 1 = size))
    <3>1. cursor # None
      BY <2>2, <2>3 DEF None
    <3>. QED BY <1>3, <2>2, <2>3, <3>1
  <2>5. ToSet(collected) = lo .. hi
    <3>1. hi \in Int
      OBVIOUS
    <3>. QED BY <2>2, <3>1, BarsFacts, Zenon
  <2>6. ToSet(bars) \cap ToSet(collected) = {}
    BY <1>4, <2>4, <2>5
  <2>7. CASE q < p
    <3>1. bars = <<>>
      BY <1>4, <2>7
    <3>2. collected \o bars = collected
      BY <1>1, <3>1, ConcatEmptySeq, Zenon
    <3>3. LastAsked <= hi
      BY <1>2, <2>4, <2>7
    <3>4. Whole(lo, hi)
      BY <2>2, <3>1, <3>2, <3>3
    <3>. HIDE DEF Whole, NextFits
    <3>5. \E a \in Nat, b \in Int : Whole(a, b)
      BY <3>4
    <3>. QED BY <1>4, <1>5, <2>6, <3>5 DEF Whole, NextFits
  <2>8. CASE ~ q < p
    <3>1. collected \o bars = Bars(lo, q)
      <4>1. bars = Bars(hi + 1, q)
        BY <1>3, <2>4
      <4>2. lo <= hi + 1 /\ hi <= q
        BY <2>2, <2>4, <2>8
      <4>3. Bars(lo, hi) \o Bars(hi + 1, q) = Bars(lo, q)
        <5>1. lo \in Nat /\ hi \in Int /\ q \in Int
          OBVIOUS
        <5>. QED BY <4>2, <5>1, BarsJoin, Zenon
      <4>. QED BY <2>2, <4>1, <4>3
    <3>2. q <= Newest /\ lo <= q /\ hi <= q
      BY <1>2, <1>3, <2>2, <2>4, <2>8
    <3>3. IF request.start = None THEN lo <= q /\ LastAsked <= q ELSE lo = Ceiling(request.start)
      BY <1>2, <2>2, <3>2
    <3>4. bars # <<>> /\ Last(bars) = q
      BY <1>4, <2>8
    <3>5. Len(bars) < size => LastAsked <= q
      BY <1>2, <1>4, <2>4, <2>8
    <3>6. Whole(lo, q)
      BY <3>1, <3>2, <3>3, <3>4, <3>5
    <3>. HIDE DEF Whole, NextFits
    <3>7. \E a \in Nat, b \in Int : Whole(a, b)
      BY <3>6
    <3>. QED BY <1>4, <1>5, <2>6, <3>7 DEF Whole, NextFits
  <2>. QED BY <2>7, <2>8
<1>. QED BY <1>6, <1>7

\* A request ends with all that it asked for.
AllAsked(bars, lo, hi) ==
  /\ bars = Bars(lo, hi) /\ hi <= Newest /\ LastAsked <= hi
  /\ IF request.start = None THEN lo <= hi ELSE lo <= Ceiling(request.start)

Fits(got) ==
  \E lo \in Nat, hi \in Int :
    IF got.ends THEN AllAsked(got.all, lo, hi)
    ELSE hi \in Nat /\ Row(got.all, got.next, lo, hi)

\* The end of a request is in the bar that a page has reached.
LEMMA EndReached ==
  ASSUME NEW end \in Nat, NEW hi \in Nat, Begin(hi) + 1 >= end
  PROVE  end \div Interval <= hi
<1>. DEFINE q == end \div Interval
<1>1. q \in Nat /\ Begin(q) <= end /\ Begin(q) \in Nat /\ Begin(hi) \in Nat /\ 1 < Interval /\
        Interval \in Nat
  BY TimeFacts
<1>. HIDE DEF q
<1>2. hi < q => Begin(hi) + Interval <= Begin(q)
  BY <1>1, TimeFacts
<1>3. ~ hi < q
  BY <1>1, <1>2
<1>4. q <= hi
  BY <1>1, <1>3
<1>. QED BY <1>4 DEF q

\* A request has reached its end when a bar that begins there has.
LEMMA AskedReached ==
  ASSUME WarmupTypeOK, began <= Newest, NEW hi \in Nat, request.end # None,
         Begin(hi) + 1 >= request.end
  PROVE  LastAsked <= hi
<1>1. request.end \in Nat /\ began \in Nat
  BY DEF WarmupTypeOK, Requests
<1>2. request.end \div Interval <= hi /\ request.end \div Interval \in Nat
  BY <1>1, EndReached, TimeFacts
<1>. QED BY <1>1, <1>2 DEF LastAsked, Least

\* The pages of Binance go on from the last bar.
LEMMA BinancePages ==
  ASSUME WarmupTypeOK, LoopOK, AnswerOK, phase = "answered", venue = "binance"
  PROVE  BinanceFetch.ends \in BOOLEAN /\ Fits(BinanceFetch)
<1>. DEFINE all  == collected \o page
            next == Begin(Last(page)) + 1
            stop == page = <<>> \/ Len(page) < Size \/ (request.end # None /\ next >= request.end)
<1>1. NextFits(page)
  BY DEF AnswerOK
<1>2. PICK lo \in Nat, hi \in Int :
        /\ all = Bars(lo, hi) /\ hi <= Newest
        /\ IF request.start = None THEN lo <= hi /\ LastAsked <= hi
           ELSE lo = Ceiling(request.start)
        /\ page # <<>> => lo <= hi /\ Last(page) = hi
        /\ page = <<>> \/ Len(page) < Size => LastAsked <= hi
  BY <1>1 DEF NextFits
<1>3. BinanceFetch = IF stop THEN Ends(all) ELSE GoesOn(all, next)
  BY DEF BinanceFetch
<1>. HIDE DEF all, next
<1>4. CASE stop
  <2>1. BinanceFetch.ends = TRUE /\ BinanceFetch.all = all
    BY <1>3, <1>4 DEF Ends
  <2>2. LastAsked <= hi
    <3>1. CASE page = <<>> \/ Len(page) < Size
      BY <1>2, <3>1
    <3>2. CASE page # <<>> /\ request.end # None /\ next >= request.end
      <4>1. hi \in Nat /\ Begin(hi) + 1 >= request.end /\ began <= Newest
        BY <1>2, <3>2 DEF next, LoopOK
      <4>. QED BY <3>2, <4>1, AskedReached
    <3>. QED BY <1>4, <3>1, <3>2
  <2>3. IF request.start = None THEN lo <= hi ELSE lo <= Ceiling(request.start)
    BY <1>2
  <2>4. AllAsked(BinanceFetch.all, lo, hi)
    BY <1>2, <2>1, <2>2, <2>3 DEF AllAsked
  <2>. HIDE DEF AllAsked
  <2>. QED BY <2>1, <2>4 DEF Fits
<1>5. CASE ~ stop
  <2>1. BinanceFetch.ends = FALSE /\ BinanceFetch.all = all /\ BinanceFetch.next = next
    BY <1>3, <1>5 DEF GoesOn
  <2>2. page # <<>>
    BY <1>5
  <2>3. lo <= hi /\ hi \in Nat /\ next = Begin(hi) + 1
    BY <1>2, <2>2 DEF next
  <2>4. IF request.start = None THEN LastAsked <= hi ELSE lo = Ceiling(request.start)
    BY <1>2
  <2>5. Row(BinanceFetch.all, BinanceFetch.next, lo, hi)
    BY <1>2, <2>1, <2>3, <2>4 DEF Row
  <2>. HIDE DEF Row
  <2>. QED BY <2>1, <2>3, <2>5 DEF Fits
<1>. QED BY <1>4, <1>5

\* The pages of Bybit go on from the last bar.
LEMMA BybitPages ==
  ASSUME WarmupTypeOK, LoopOK, AnswerOK, phase = "answered", venue = "bybit"
  PROVE  BybitFetch.ends \in BOOLEAN /\ Fits(BybitFetch)
<1>. DEFINE fresh == Without(page, ToSet(collected))
            all   == collected \o page
            next  == Begin(Last(page)) + 1
            stop  == page = <<>> \/ (request.end # None /\ next >= request.end)
<1>1. NextFits(page)
  BY DEF AnswerOK
<1>2. page \in Seq(Nat) /\ InOrder(page) /\ ToSet(page) \cap ToSet(collected) = {}
  BY <1>1 DEF NextFits
<1>3. PICK lo \in Nat, hi \in Int :
        /\ all = Bars(lo, hi) /\ hi <= Newest
        /\ IF request.start = None THEN lo <= hi /\ LastAsked <= hi
           ELSE lo = Ceiling(request.start)
        /\ page # <<>> => lo <= hi /\ Last(page) = hi
        /\ page = <<>> \/ Len(page) < Size => LastAsked <= hi
  BY <1>1 DEF NextFits
<1>4. fresh = page
  BY <1>2, WithoutFacts, Zenon
<1>5. BybitFetch = IF stop THEN Ends(all) ELSE GoesOn(all, next)
  BY <1>4 DEF BybitFetch
<1>. HIDE DEF all, next, fresh
<1>6. CASE stop
  <2>1. BybitFetch.ends = TRUE /\ BybitFetch.all = all
    BY <1>5, <1>6 DEF Ends
  <2>2. LastAsked <= hi
    <3>1. CASE page = <<>>
      BY <1>3, <3>1
    <3>2. CASE page # <<>> /\ request.end # None /\ next >= request.end
      <4>1. hi \in Nat /\ Begin(hi) + 1 >= request.end /\ began <= Newest
        BY <1>3, <3>2 DEF next, LoopOK
      <4>. QED BY <3>2, <4>1, AskedReached
    <3>. QED BY <1>6, <3>1, <3>2
  <2>3. IF request.start = None THEN lo <= hi ELSE lo <= Ceiling(request.start)
    BY <1>3
  <2>4. AllAsked(BybitFetch.all, lo, hi)
    BY <1>3, <2>1, <2>2, <2>3 DEF AllAsked
  <2>. HIDE DEF AllAsked
  <2>. QED BY <2>1, <2>4 DEF Fits
<1>7. CASE ~ stop
  <2>1. BybitFetch.ends = FALSE /\ BybitFetch.all = all /\ BybitFetch.next = next
    BY <1>5, <1>7 DEF GoesOn
  <2>2. page # <<>>
    BY <1>7
  <2>3. lo <= hi /\ hi \in Nat /\ next = Begin(hi) + 1
    BY <1>3, <2>2 DEF next
  <2>4. IF request.start = None THEN LastAsked <= hi ELSE lo = Ceiling(request.start)
    BY <1>3
  <2>5. Row(BybitFetch.all, BybitFetch.next, lo, hi)
    BY <1>3, <2>1, <2>3, <2>4 DEF Row
  <2>. HIDE DEF Row
  <2>. QED BY <2>1, <2>3, <2>5 DEF Fits
<1>. QED BY <1>6, <1>7

\* A page of OKX ends where the one before it began.
LEMMA OkxPages ==
  ASSUME WarmupTypeOK, LoopOK, AnswerOK, phase = "answered", venue = "okx"
  PROVE  OkxFetch.ends \in BOOLEAN /\ Fits(OkxFetch)
<1>. DEFINE start == request.start
<1>1. /\ PageMax \in Nat \ {0} /\ now \in Nat /\ start \in Nat \cup {None} /\ Newest \in Nat
      /\ began \in Nat /\ began <= Newest /\ LastAsked \in Nat /\ LastAsked <= began
  <2>1. Newest \in Nat
    BY TimeFacts DEF WarmupTypeOK, Newest
  <2>. QED BY <2>1, AskedFacts, WarmupAssumption DEF WarmupTypeOK, LoopOK, Requests
<1>. HIDE DEF start
<1>2. CASE collected = <<>>
  <2>. DEFINE more == start # None /\ now > start /\ Oldest(page) > start
  <2>1. PICK lo \in Nat, hi \in Nat :
          lo <= hi /\ began <= hi /\ hi <= Newest /\ page = Bars(lo, hi)
    BY <1>2 DEF AnswerOK, OkxFits
  <2>2. hi \in Int
    OBVIOUS
  <2>3. Bars(lo, hi)[1] = lo
    BY <2>1, <2>2, BarsFacts, Zenon
  <2>4. Oldest(page) = Begin(lo) /\ Begin(lo) \in Nat
    BY <2>1, <2>3, TimeFacts DEF Oldest
  <2>5. OkxFetch = IF more THEN GoesOn(page, Oldest(page)) ELSE Ends(page)
    BY <1>2 DEF OkxFetch, start
  <2>6. CASE more
    <3>1. OkxFetch.ends = FALSE /\ OkxFetch.all = page /\ OkxFetch.next = Begin(lo)
      BY <2>4, <2>5, <2>6 DEF GoesOn
    <3>2. Row(OkxFetch.all, OkxFetch.next, lo, hi)
      <4>1. start < Begin(lo) /\ start # None
        BY <1>1, <2>4, <2>6
      <4>. QED BY <1>1, <2>1, <3>1, <4>1 DEF Row, start
    <3>. HIDE DEF Row
    <3>. QED BY <1>1, <2>2, <3>1, <3>2 DEF Fits
  <2>7. CASE ~ more
    <3>1. OkxFetch.ends = TRUE /\ OkxFetch.all = page
      BY <2>5, <2>7 DEF Ends
    <3>2. ASSUME start # None PROVE lo <= Ceiling(start)
      <4>1. start \in Nat
        BY <1>1, <3>2
      <4>. DEFINE c == Ceiling(start)
      <4>2. c \in Nat /\ start <= Begin(c) /\ Begin(c) \in Nat
        BY <4>1, TimeFacts
      <4>3. Begin(Newest) <= now /\ Begin(Newest) \in Nat /\ Begin(lo) \in Nat
            /\ Interval \in Nat /\ 1 < Interval
        BY <1>1, TimeFacts DEF Newest
      <4>. HIDE DEF c
      <4>4. CASE now <= start
        <5>1. ~ c < Newest
          <6>1. c < Newest => Begin(c) + Interval <= Begin(Newest)
            BY <1>1, <4>2, TimeFacts
          <6>. QED BY <1>1, <4>1, <4>2, <4>3, <4>4, <6>1
        <5>. QED BY <1>1, <2>1, <4>2, <5>1 DEF c
      <4>5. CASE Begin(lo) <= start
        <5>1. ~ c < lo
          <6>1. c < lo => Begin(c) + Interval <= Begin(lo)
            BY <4>2, TimeFacts
          <6>. QED BY <4>1, <4>2, <4>3, <4>5, <6>1
        <5>. QED BY <4>2, <5>1 DEF c
      <4>6. now <= start \/ Begin(lo) <= start
        BY <1>1, <2>4, <2>7, <3>2, <4>1, <4>3
      <4>. QED BY <4>4, <4>5, <4>6
    <3>3. AllAsked(OkxFetch.all, lo, hi)
      BY <1>1, <2>1, <3>1, <3>2 DEF AllAsked, start
    <3>. HIDE DEF AllAsked
    <3>. QED BY <2>2, <3>1, <3>3 DEF Fits
  <2>. HIDE DEF more
  <2>. QED BY <2>6, <2>7
<1>3. CASE collected # <<>>
  <2>1. PICK l \in Nat, h \in Nat : Row(collected, cursor, l, h)
    BY <1>3 DEF LoopOK, Requesting
  <2>2. /\ l <= h /\ h <= Newest /\ collected = Bars(l, h)
        /\ cursor = Begin(l) /\ began <= h /\ start # None /\ start < Begin(l)
    BY <2>1 DEF Row, start
  <2>3. Begin(l) \in Nat /\ Ceiling(Begin(l)) = l /\ start \in Nat
    BY <1>1, <2>2, TimeFacts
  <2>4. l # 0
    <3>1. Begin(0) = 0
      BY WarmupAssumption DEF Begin
    <3>. QED BY <2>2, <2>3, <3>1
  <2>5. l - 1 \in Nat /\ (l - 1) + 1 = l
    BY <2>4
  <2>. DEFINE fresh == Without(page, ToSet(collected))
              all == page \o collected
              stop == page = <<>> \/ Oldest(page) <= start
  <2>6. PICK lo \in Nat : lo <= l - 1 /\ page = Bars(lo, l - 1)
    <3>1. Ceiling(cursor) = (l - 1) + 1 /\ cursor \in Nat /\ page = PageBefore(cursor, PageMax)
      BY <1>3, <2>2, <2>3, <2>5 DEF AnswerOK, OkxFits
    <3>2. PageMax \in Nat \ {0}
      BY WarmupAssumption
    <3>3. \E lo \in Nat : lo <= l - 1 /\ PageBefore(cursor, PageMax) = Bars(lo, l - 1)
      BY <2>5, <3>1, <3>2, PageBeforeFacts, Zenon
    <3>. QED BY <3>1, <3>3, Zenon
  <2>7. l - 1 \in Int /\ h \in Int
    BY <2>5
  <2>8. /\ page \in Seq(Nat) /\ ToSet(page) = lo .. (l - 1) /\ page[1] = lo /\ InOrder(page)
        /\ ToSet(collected) = l .. h
    <3>1. /\ Bars(lo, l - 1) \in Seq(Nat) /\ ToSet(Bars(lo, l - 1)) = lo .. (l - 1)
          /\ Bars(lo, l - 1)[1] = lo /\ ToSet(Bars(l, h)) = l .. h
      BY <2>6, <2>7, BarsFacts, Zenon
    <3>. QED BY <2>2, <2>6, <2>7, <3>1, BarsInOrder
  <2>9. fresh = page
    <3>1. ToSet(page) \cap ToSet(collected) = {}
      BY <2>5, <2>8
    <3>. QED BY <2>8, <3>1, WithoutFacts, Zenon
  <2>10. all = Bars(lo, h)
    <3>1. lo <= (l - 1) + 1 /\ l - 1 <= h
      BY <2>2, <2>5, <2>6
    <3>2. Bars(lo, l - 1) \o Bars((l - 1) + 1, h) = Bars(lo, h)
      BY <2>7, <3>1, BarsJoin, Zenon
    <3>. QED BY <2>2, <2>5, <2>6, <3>2
  <2>11. lo <= h /\ Begin(lo) \in Nat /\ Oldest(page) = Begin(lo)
    <3>1. lo <= h
      BY <2>2, <2>5, <2>6
    <3>. QED BY <2>8, <3>1, TimeFacts DEF Oldest
  <2>12. /\ all[1] = lo
    BY <2>7, <2>10, <2>11, BarsFacts, Zenon
  <2>13. page # <<>>
    <3>1. lo \in ToSet(page)
      BY <2>6, <2>7, <2>8
    <3>. QED BY <3>1 DEF ToSet
  <2>14. Oldest(all) = Begin(lo)
    BY <2>12 DEF Oldest
  <2>15. OkxFetch = IF Begin(lo) <= start THEN Ends(all) ELSE GoesOn(all, Begin(lo))
    BY <1>3, <2>9, <2>11, <2>13, <2>14 DEF OkxFetch, start
  <2>. HIDE DEF fresh, all
  <2>16. CASE Begin(lo) <= start
    <3>1. OkxFetch.ends = TRUE /\ OkxFetch.all = all
      BY <2>15, <2>16 DEF Ends
    <3>2. lo <= Ceiling(start)
      <4>. DEFINE c == Ceiling(start)
      <4>1. c \in Nat /\ start <= Begin(c) /\ Begin(c) \in Nat /\ Interval \in Nat /\ 1 < Interval
        BY <2>3, TimeFacts
      <4>. HIDE DEF c
      <4>2. c < lo => Begin(c) + Interval <= Begin(lo)
        BY <4>1, TimeFacts
      <4>3. ~ c < lo
        BY <2>3, <2>11, <2>16, <4>1, <4>2
      <4>. QED BY <4>1, <4>3 DEF c
    <3>3. LastAsked <= h
      BY <1>1, <2>2
    <3>4. AllAsked(OkxFetch.all, lo, h)
      BY <2>2, <2>10, <3>1, <3>2, <3>3 DEF AllAsked, start
    <3>. HIDE DEF AllAsked
    <3>. QED BY <2>7, <3>1, <3>4 DEF Fits
  <2>17. CASE ~ Begin(lo) <= start
    <3>1. OkxFetch.ends = FALSE /\ OkxFetch.all = all /\ OkxFetch.next = Begin(lo)
      BY <2>15, <2>17 DEF GoesOn
    <3>2. start < Begin(lo)
      BY <2>3, <2>11, <2>17
    <3>3. Row(OkxFetch.all, OkxFetch.next, lo, h)
      BY <2>2, <2>10, <2>11, <3>1, <3>2 DEF Row, start
    <3>. HIDE DEF Row
    <3>. QED BY <2>7, <3>1, <3>3 DEF Fits
  <2>. QED BY <2>16, <2>17
<1>. QED BY <1>2, <1>3

\* On every venue a page fits what was collected.
LEMMA PageFacts ==
  ASSUME WarmupTypeOK, LoopOK, AnswerOK, phase = "answered"
  PROVE  Page.ends \in BOOLEAN /\ Fits(Page)
<1>1. venue \in {"binance", "okx", "bybit"}
  BY WarmupAssumption DEF WarmupTypeOK
<1>2. CASE venue = "binance"
  <2>1. Page = BinanceFetch
    BY <1>2 DEF Page
  <2>. QED BY <1>2, <2>1, BinancePages DEF Fits
<1>3. CASE venue = "okx"
  <2>1. Page = OkxFetch
    BY <1>3 DEF Page
  <2>. QED BY <1>3, <2>1, OkxPages DEF Fits
<1>4. CASE venue = "bybit"
  <2>1. Page = BybitFetch
    BY <1>4 DEF Page
  <2>. QED BY <1>4, <2>1, BybitPages DEF Fits
<1>. QED BY <1>1, <1>2, <1>3, <1>4

\* The cut leaves the newest bars, as many as the limit.
LEMMA CutFacts ==
  ASSUME WarmupTypeOK, NEW lo \in Nat, NEW hi \in Int
  PROVE  \/ venue = "okx" /\ request.end # None /\ Cut(Bars(lo, hi)) = <<>>
         \/ Cut(Bars(lo, hi)) = Bars(lo, hi)
         \/ \E from \in Nat : /\ lo <= from /\ from <= hi /\ Cut(Bars(lo, hi)) = Bars(from, hi)
                              /\ request.limit # None /\ hi - from + 1 = request.limit
<1>. DEFINE all == Bars(lo, hi)
            n == request.limit
            whole == venue = "binance" \/ n = None \/ Len(all) <= n
<1>1. /\ all \in Seq(Nat) /\ Len(all) = (IF hi < lo THEN 0 ELSE hi - lo + 1)
      /\ DOMAIN all = 1 .. Len(all) /\ \A i \in DOMAIN all : all[i] = lo + i - 1
  BY BarsFacts, Zenon
<1>. HIDE DEF all
<1>2. n = None \/ n \in Nat \ {0}
  BY WarmupAssumption DEF WarmupTypeOK, Requests
<1>3. Cut(all) = IF venue = "okx" /\ request.end > 0 /\ ~ now < request.end THEN <<>>
                 ELSE IF whole THEN all ELSE SubSeq(all, Len(all) - n + 1, Len(all))
  BY DEF Cut
<1>. HIDE DEF n
<1>4. CASE venue = "okx" /\ request.end > 0 /\ ~ now < request.end
  <2>1. request.end # None
    BY <1>4 DEF None
  <2>. QED BY <1>3, <1>4, <2>1 DEF all
<1>5. CASE ~ (venue = "okx" /\ request.end > 0 /\ ~ now < request.end) /\ whole
  BY <1>3, <1>5 DEF all
<1>6. CASE ~ (venue = "okx" /\ request.end > 0 /\ ~ now < request.end) /\ ~ whole
  <2>. DEFINE from == hi - n + 1
              m == Len(all) - n + 1
              cut == SubSeq(all, m, Len(all))
              goal == Bars(from, hi)
  <2>1. n \in Nat \ {0} /\ n < Len(all) /\ Len(all) \in Nat
    BY <1>1, <1>2, <1>6
  <2>2. lo <= hi /\ Len(all) = hi - lo + 1
    BY <1>1, <2>1
  <2>3. from \in Nat /\ lo <= from /\ from <= hi /\ hi - from + 1 = n /\ m \in 1 .. Len(all)
        /\ Len(all) - m + 1 = n /\ from <= hi + 1
    BY <2>1, <2>2
  <2>4. \A i \in m .. Len(all) : all[i] \in Nat
    <3>. HIDE DEF m
    <3>1. \A i \in m .. Len(all) : i \in 1 .. Len(all)
      BY <2>1, <2>3
    <3>. QED BY <1>1, <3>1
  <2>5. /\ cut \in Seq(Nat) /\ Len(cut) = n /\ \A i \in 1 .. n : cut[i] = all[m + i - 1]
    <3>. HIDE DEF m
    <3>1. m \in Int /\ Len(all) \in Int /\ m <= Len(all)
      BY <2>1, <2>3
    <3>2. /\ cut \in Seq(Nat) /\ Len(cut) = (IF m <= Len(all) THEN Len(all) - m + 1 ELSE 0)
          /\ \A i \in 1 .. Len(all) - m + 1 : cut[i] = all[m + i - 1]
      BY <2>4, <3>1, SubSeqProperties
    <3>. HIDE DEF cut
    <3>. QED BY <2>3, <3>1, <3>2
  <2>6. goal \in Seq(Nat) /\ Len(goal) = n /\ \A i \in 1 .. n : goal[i] = from + i - 1
    <3>. HIDE DEF from
    <3>1. /\ goal \in Seq(Nat) /\ Len(goal) = hi - from + 1
          /\ \A i \in 1 .. Len(goal) : goal[i] = from + i - 1
      BY <2>3, BarsRow, Zenon
    <3>. HIDE DEF goal
    <3>. QED BY <2>3, <3>1
  <2>. HIDE DEF cut, goal
  <2>7. ASSUME NEW i \in 1 .. n PROVE cut[i] = goal[i]
    <3>1. m + i - 1 \in 1 .. Len(all) /\ lo + (m + i - 1) - 1 = from + i - 1
      BY <2>1, <2>2
    <3>. QED BY <1>1, <2>5, <2>6, <3>1
  <2>8. cut = goal
    BY <2>5, <2>6, <2>7, SeqEqual
  <2>9. Cut(all) = cut
    BY <1>3, <1>6 DEF cut
  <2>10. n # None
    BY <2>1 DEF None
  <2>. HIDE DEF from
  <2>. QED BY <2>3, <2>8, <2>9, <2>10 DEF all, goal, n
<1>. HIDE DEF whole
<1>. QED BY <1>4, <1>5, <1>6

-----------------------------------------------------------------------------
(* What the steps do to the indicator.                                      *)

LEMMA PastFacts ==
  ASSUME NEW bars \in Seq(Nat), InOrder(bars), NEW opened, NEW unfinished
  PROVE  /\ Past(bars, opened, unfinished) \in Seq(LiveKlines)
         /\ \A i \in DOMAIN Past(bars, opened, unfinished) :
              /\ Past(bars, opened, unfinished)[i].closed /\ ~ Past(bars, opened, unfinished)[i].live
              /\ Past(bars, opened, unfinished)[i].bar \in ToSet(bars) \ opened
              /\ Past(bars, opened, unfinished)[i].final =
                   (Past(bars, opened, unfinished)[i].bar \notin unfinished)
         /\ \A i, j \in DOMAIN Past(bars, opened, unfinished) :
              i < j =>
              Past(bars, opened, unfinished)[i].bar < Past(bars, opened, unfinished)[j].bar
<1>. DEFINE closed == Without(bars, opened)
            past == Past(bars, opened, unfinished)
            OfBar(i) == [bar |-> closed[i], closed |-> TRUE, live |-> FALSE,
                        final |-> closed[i] \notin unfinished]
<1>1. /\ closed \in Seq(Nat) /\ InOrder(closed)
      /\ \A i \in DOMAIN closed : closed[i] \in ToSet(bars) \ opened
  BY WithoutFacts, Zenon
<1>2. past = [i \in DOMAIN closed |-> OfBar(i)]
  BY DEF Past
<1>. HIDE DEF closed, past
<1>3. DOMAIN closed = 1 .. Len(closed) /\ Len(closed) \in Nat
  BY <1>1
<1>4. DOMAIN past = 1 .. Len(closed) /\ \A i \in 1 .. Len(closed) :
        past[i] = OfBar(i)
  BY <1>2, <1>3
<1>5. past \in Seq(LiveKlines)
  <2>1. \A i \in 1 .. Len(closed) :
          OfBar(i) \in LiveKlines
    BY <1>1, <1>3 DEF LiveKlines
  <2>2. [i \in 1 .. Len(closed) |-> OfBar(i)] \in Seq(LiveKlines)
    <3>. HIDE DEF LiveKlines
    <3>. QED BY <1>3, <2>1, IsASeq
  <2>. QED BY <1>2, <1>3, <2>2
<1>6. \A i, j \in 1 .. Len(closed) : i < j => closed[i] < closed[j]
  BY <1>1, <1>3 DEF InOrder
<1>. QED BY <1>1, <1>3, <1>4, <1>5, <1>6 DEF past

\* The first bars of a history.
LEMMA FirstFacts ==
  ASSUME NEW past \in Seq(LiveKlines), NEW c \in 0 .. Len(past)
  PROVE  /\ First(past, c) \in Seq(LiveKlines) /\ Len(First(past, c)) = c
         /\ DOMAIN First(past, c) = 1 .. c
         /\ \A i \in 1 .. c : First(past, c)[i] = past[i] /\ i \in DOMAIN past
<1>. HIDE DEF LiveKlines
<1>1. c \in Nat /\ \A i \in 1 .. c : past[i] \in LiveKlines /\ i \in DOMAIN past
  OBVIOUS
<1>2. [i \in 1 .. c |-> past[i]] \in Seq(LiveKlines)
  BY <1>1, IsASeq
<1>. QED BY <1>1, <1>2 DEF First

\* The live klines an indicator got.
LiveOnes(klines) == {i \in DOMAIN klines : klines[i].live}

\* One more live kline.
LEMMA LiveOnesFacts ==
  ASSUME NEW klines \in Seq(LiveKlines), NEW k \in LiveKlines, k.live
  PROVE  /\ Cardinality(LiveOnes(klines)) \in Nat
         /\ Cardinality(LiveOnes(Append(klines, k))) = Cardinality(LiveOnes(klines)) + 1
<1>. DEFINE n == Len(klines)
            new == Append(klines, k)
<1>1. /\ n \in Nat /\ DOMAIN klines = 1 .. n /\ DOMAIN new = 1 .. (n + 1)
      /\ \A i \in 1 .. n : new[i] = klines[i]
      /\ new[n + 1] = k
  <2>. HIDE DEF LiveKlines
  <2>. QED BY Appended
<1>. HIDE DEF n, new
<1>2. IsFiniteSet(1 .. n) /\ LiveOnes(klines) \subseteq 1 .. n
  BY <1>1, FS_Interval DEF LiveOnes
<1>3. IsFiniteSet(LiveOnes(klines)) /\ Cardinality(LiveOnes(klines)) \in Nat
  BY <1>2, FS_Subset, FS_CardinalityType, Zenon
<1>4. n + 1 \notin LiveOnes(klines)
  BY <1>1 DEF LiveOnes
<1>5. LiveOnes(new) = LiveOnes(klines) \cup {n + 1}
  <2>1. \A i \in 1 .. (n + 1) : i \in 1 .. n \/ i = n + 1
    BY <1>1
  <2>2. \A i \in 1 .. n : i \in 1 .. (n + 1)
    BY <1>1
  <2>3. n + 1 \in 1 .. (n + 1)
    BY <1>1
  <2>. QED BY <1>1, <2>1, <2>2, <2>3 DEF LiveOnes
<1>6. Cardinality(LiveOnes(klines) \cup {n + 1}) = Cardinality(LiveOnes(klines)) + 1
  BY <1>3, <1>4, FS_AddElement
<1>. QED BY <1>3, <1>5, <1>6 DEF new

\* An indicator gets a live kline.
LEMMA OnKlineFacts ==
  ASSUME WarmupTypeOK, place # "none", NEW k \in LiveKlines
  PROVE  /\ OnKline(k) \in Indicators /\ OnKline(k).place \in {"pending", "active"}
         /\ place = "active" =>
              /\ OnKline(k).place = "active" /\ OnKline(k).count = count
              /\ OnKline(k).warm = warm /\ OnKline(k).handled = Append(handled, k)
         /\ place = "pending" /\ warm =>
              /\ OnKline(k).place = "active" /\ OnKline(k).count = count
              /\ OnKline(k).warm = warm /\ OnKline(k).handled = handled
         /\ place = "pending" /\ ~ warm =>
              /\ OnKline(k).count = count + 1 /\ OnKline(k).handled = Append(handled, k)
              /\ OnKline(k).warm = (period <= count + 1)
              /\ OnKline(k).place = IF period <= count + 1 THEN "active" ELSE "pending"
<1>. DEFINE s == ProcessWarmupKline(State, k)
<1>. HIDE DEF LiveKlines
<1>1. /\ State \in Indicators /\ State.place = place /\ State.count = count
      /\ State.warm = warm /\ State.handled = handled /\ period \in Nat
      /\ Append(handled, k) \in Seq(LiveKlines)
  BY DEF State, Indicators, WarmupTypeOK
<1>2. /\ s \in Indicators /\ s.place = place
      /\ warm => s = State
      /\ ~ warm => /\ s.count = count + 1 /\ s.handled = Append(handled, k)
                   /\ s.warm = (period <= count + 1)
  BY <1>1, Process
<1>3. OnKline(k) = IF place = "active" THEN [State EXCEPT !.handled = Append(@, k)]
                   ELSE IF s.warm THEN [s EXCEPT !.place = "active"] ELSE s
  BY DEF OnKline
<1>. HIDE DEF s
<1>4. CASE place = "active"
  <2>. DEFINE t == [State EXCEPT !.handled = Append(@, k)]
  <2>1. OnKline(k) = t
    BY <1>3, <1>4
  <2>2. /\ t \in Indicators /\ t.place = State.place /\ t.count = State.count
        /\ t.warm = State.warm /\ t.handled = Append(State.handled, k)
    BY <1>1 DEF Indicators
  <2>. HIDE DEF t
  <2>. QED BY <1>1, <1>4, <2>1, <2>2
<1>5. CASE place = "pending"
  <2>. DEFINE t == [s EXCEPT !.place = "active"]
  <2>1. /\ t \in Indicators /\ t.place = "active" /\ t.count = s.count
        /\ t.warm = s.warm /\ t.handled = s.handled
    BY <1>2 DEF Indicators
  <2>2. OnKline(k) = IF s.warm THEN t ELSE s
    BY <1>3, <1>5
  <2>. HIDE DEF t
  <2>3. CASE warm
    BY <1>1, <1>2, <1>5, <2>1, <2>2, <2>3
  <2>4. CASE ~ warm
    <3>1. CASE period <= count + 1
      BY <1>1, <1>2, <1>5, <2>1, <2>2, <2>4, <3>1
    <3>2. CASE ~ period <= count + 1
      BY <1>1, <1>2, <1>5, <2>1, <2>2, <2>4, <3>2
    <3>. QED BY <3>1, <3>2
  <2>. QED BY <2>3, <2>4
<1>6. place = "pending" \/ place = "active"
  BY DEF WarmupTypeOK
<1>. QED BY <1>4, <1>5, <1>6

-----------------------------------------------------------------------------
(* What a page does.                                                        *)

Whole(bars) ==
  LET limit == IF request.limit = None THEN MaxTime ELSE request.limit
  IN  /\ InARow(bars)
      /\ \/ venue = "okx" /\ request.end # None
         \/ request.start = None /\ \E b \in ToSet(bars) : b >= LastAsked
         \/ /\ request.start # None
            /\ \A b \in Ceiling(request.start) .. LastAsked :
                 \/ b \in ToSet(bars)
                 \/ Len(bars) >= limit /\ b < bars[1]

\* What the property says of a history that is read.
LEMMA HistoryMeans == HistoryIsWhole <=> (phase = "done" => Whole(collected))
BY DEF HistoryIsWhole, Whole, LastAsked

\* A row of bars has no gap.
LEMMA InARowBars ==
  ASSUME NEW lo \in Nat, NEW hi \in Int
  PROVE  InARow(Bars(lo, hi))
<1>. DEFINE s == Bars(lo, hi)
<1>1. s \in Seq(Nat) /\ DOMAIN s = 1 .. Len(s) /\ \A i \in DOMAIN s : s[i] = lo + i - 1
  BY BarsFacts, Zenon
<1>. HIDE DEF s
<1>2. ASSUME NEW i \in DOMAIN s \ {1} PROVE s[i] = s[i - 1] + 1
  <2>1. i \in DOMAIN s /\ i - 1 \in DOMAIN s /\ i \in Int
    BY <1>1
  <2>2. s[i] = lo + i - 1 /\ s[i - 1] = lo + (i - 1) - 1
    BY <1>1, <2>1
  <2>. QED BY <2>1, <2>2
<1>3. InARow(s)
  BY <1>2 DEF InARow
<1>. QED BY <1>3 DEF s

\* The cut to the limit keeps the newest bars of the row.
LEMMA WholeAfterCut ==
  ASSUME WarmupTypeOK, began <= Newest, NEW all, NEW lo \in Nat, NEW hi \in Int,
         AllAsked(all, lo, hi)
  PROVE  Whole(Cut(all))
<1>. DEFINE cut == Cut(all)
<1>1. /\ all = Bars(lo, hi) /\ LastAsked <= hi /\ LastAsked \in Nat
      /\ IF request.start = None THEN lo <= hi ELSE lo <= Ceiling(request.start)
  BY AskedFacts DEF AllAsked
<1>2. \/ venue = "okx" /\ request.end # None /\ cut = <<>>
      \/ cut = Bars(lo, hi)
      \/ \E from \in Nat : /\ lo <= from /\ from <= hi /\ cut = Bars(from, hi)
                           /\ request.limit # None /\ hi - from + 1 = request.limit
  BY <1>1, CutFacts, Zenon
<1>. HIDE DEF cut
<1>3. request.start # None => Ceiling(request.start) \in Nat
  <2>1. request.start # None => request.start \in Nat
    BY DEF WarmupTypeOK, Requests
  <2>. QED BY <2>1, TimeFacts
<1>4. ASSUME venue = "okx", request.end # None, cut = <<>> PROVE Whole(cut)
  BY <1>4 DEF Whole, InARow
<1>5. ASSUME NEW from \in Nat, lo <= from, cut = Bars(from, hi),
             from = lo \/ (from <= hi /\ request.limit # None /\ hi - from + 1 = request.limit)
      PROVE  Whole(cut)
  <2>1. /\ Len(cut) = (IF hi < from THEN 0 ELSE hi - from + 1) /\ ToSet(cut) = from .. hi
        /\ from <= hi => cut[1] = from
    <3>1. /\ Len(Bars(from, hi)) = (IF hi < from THEN 0 ELSE hi - from + 1)
          /\ ToSet(Bars(from, hi)) = from .. hi
          /\ from <= hi => Bars(from, hi)[1] = from
      BY BarsFacts, Zenon
    <3>. QED BY <1>5, <3>1
  <2>2. InARow(cut)
    BY <1>5, InARowBars
  <2>3. ASSUME request.start = None PROVE \E b \in ToSet(cut) : b >= LastAsked
    <3>1. hi \in ToSet(cut)
      BY <1>1, <1>5, <2>1, <2>3
    <3>. QED BY <1>1, <3>1
  <2>4. ASSUME request.start # None, NEW b \in Ceiling(request.start) .. LastAsked
        PROVE  \/ b \in ToSet(cut)
               \/ request.limit # None /\ Len(cut) = request.limit /\ b < cut[1]
    <3>1. lo <= b /\ b <= hi /\ b \in Int
      BY <1>1, <1>3, <2>4
    <3>2. CASE from <= b
      BY <2>1, <3>1, <3>2
    <3>3. CASE ~ from <= b
      <4>1. from # lo /\ from <= hi /\ ~ hi < from
        BY <1>5, <3>1, <3>3
      <4>. QED BY <1>5, <2>1, <3>1, <3>3, <4>1
    <3>. QED BY <3>2, <3>3
  <2>5. request.limit # None => request.limit \in Nat
    BY WarmupAssumption DEF WarmupTypeOK, Requests
  <2>. DEFINE limit == IF request.limit = None THEN MaxTime ELSE request.limit
  <2>6. ASSUME request.start # None, NEW b \in Ceiling(request.start) .. LastAsked
        PROVE  b \in ToSet(cut) \/ (Len(cut) >= limit /\ b < cut[1])
    <3>1. CASE b \in ToSet(cut)
      BY <3>1
    <3>2. CASE request.limit # None /\ Len(cut) = request.limit /\ b < cut[1]
      BY <2>5, <3>2
    <3>. QED BY <2>4, <2>6, <3>1, <3>2
  <2>. QED BY <2>2, <2>3, <2>6 DEF Whole
<1>6. ASSUME cut = Bars(lo, hi) PROVE Whole(cut)
  BY <1>5, <1>6
<1>7. ASSUME NEW from \in Nat, lo <= from, from <= hi, cut = Bars(from, hi),
             request.limit # None, hi - from + 1 = request.limit
      PROVE  Whole(cut)
  BY <1>5, <1>7
<1>8. Whole(cut)
  <2>. HIDE DEF Whole
  <2>. QED BY <1>2, <1>4, <1>6, <1>7
<1>. QED BY <1>8 DEF cut

WarmupInv ==
  /\ WarmupTypeOK /\ LoopOK /\ AnswerOK /\ BarsRead /\ HistoryIsWhole
  /\ PlaceOK /\ LiveIsHandledOnce /\ WireOK /\ GivenOK

\* The bars of a page, and those that are left of them, are bars that were read.
LEMMA CutIsPart ==
  ASSUME WarmupTypeOK, NEW lo \in Nat, NEW hi \in Int
  PROVE  /\ Cut(Bars(lo, hi)) \in Seq(Nat) /\ InOrder(Cut(Bars(lo, hi)))
         /\ ToSet(Cut(Bars(lo, hi))) \subseteq ToSet(Bars(lo, hi))
<1>. DEFINE cut == Cut(Bars(lo, hi))
<1>1. cut = <<>> \/ \E from \in Nat : (from = lo \/ (lo <= from /\ from <= hi)) /\
        cut = Bars(from, hi)
  <2>1. \/ venue = "okx" /\ request.end # None /\ cut = <<>>
        \/ cut = Bars(lo, hi)
        \/ \E from \in Nat : /\ lo <= from /\ from <= hi /\ cut = Bars(from, hi)
                             /\ request.limit # None /\ hi - from + 1 = request.limit
    BY CutFacts, Zenon
  <2>. HIDE DEF cut
  <2>. QED BY <2>1
<1>. HIDE DEF cut
<1>2. CASE cut = <<>>
  <2>1. cut \in Seq(Nat) /\ InOrder(cut) /\ ToSet(cut) = {}
    BY <1>2 DEF InOrder, ToSet
  <2>. QED BY <2>1 DEF cut
<1>3. ASSUME NEW from \in Nat, from = lo \/ (lo <= from /\ from <= hi), cut = Bars(from, hi)
      PROVE  cut \in Seq(Nat) /\ InOrder(cut) /\ ToSet(cut) \subseteq ToSet(Bars(lo, hi))
  <2>1. Bars(from, hi) \in Seq(Nat) /\ ToSet(Bars(from, hi)) = from .. hi /\ InOrder(Bars(from, hi))
    BY BarsFacts, BarsInOrder, Zenon
  <2>2. ToSet(Bars(lo, hi)) = lo .. hi
    BY BarsFacts, Zenon
  <2>3. from .. hi \subseteq lo .. hi
    BY <1>3
  <2>. QED BY <1>3, <2>1, <2>2, <2>3
<1>. QED BY <1>1, <1>2, <1>3 DEF cut

\* A bar that a page leaves collected.
Read(b) == (b \in open' \/ b \in unripe' \/ b < Newest) /\ b <= Newest

\* A page: what is collected, and the indicator once the request ends.
LEMMA FetchStep ==
  ASSUME WarmupInv, Fetch
  PROVE  /\ phase' \in {"fetching", "done"} /\ open' \in SUBSET Nat
         /\ unripe' \in SUBSET Nat /\ answer' = NoAnswer
         /\ collected' \in Seq(Nat) /\ InOrder(collected')
         /\ \A i \in DOMAIN collected' : Read(collected'[i])
         /\ venue = "okx" => unripe' = {}
         /\ phase' = "done" => cursor' = None /\ Whole(collected')
         /\ phase' = "fetching" => /\ collected' # <<>> /\ cursor' \in Nat
                                   /\ \E lo, hi \in Nat : Row(collected', cursor', lo, hi)
         /\ IF phase' = "done" /\ place = "pending"
            THEN LET past == Past(collected', open', unripe')
                 IN  /\ place' = "pending" /\ warmBefore' = warm'
                     /\ \E c \in 0 .. Len(past) :
                          count' = c /\ warm' = (period <= c) /\ handled' = First(past, c)
            ELSE UNCHANGED <<place, count, warm, handled, warmBefore>>
<1>. DEFINE got == Page
            read == ToSet(got.all) \ ToSet(collected)
<1>1. WarmupTypeOK /\ LoopOK /\ AnswerOK /\ BarsRead /\ PlaceOK
  BY DEF WarmupInv
<1>2. /\ phase = "answered" /\ answer' = NoAnswer
      /\ open' = open \cup {b \in read : ~ Confirmed(b)}
      /\ unripe' = unripe \cup {b \in read : Confirmed(b) /\ b >= answer.newest}
      /\ got.ends => /\ phase' = "done" /\ collected' = Cut(got.all) /\ cursor' = None
                      /\ IF place = "pending"
                         THEN LET s == FoldLeft(ProcessWarmupKline, State,
                           Past(Cut(got.all), open', unripe'))
                              IN  Becomes(s) /\ warmBefore' = s.warm
                         ELSE UNCHANGED <<place, count, warm, handled, warmBefore>>
      /\ ~ got.ends => /\ phase' = "fetching" /\ collected' = got.all /\ cursor' = got.next
                        /\ UNCHANGED <<place, count, warm, handled, warmBefore>>
  BY DEF Fetch
<1>3. got.ends \in BOOLEAN /\ Fits(got)
  BY <1>1, <1>2, PageFacts
<1>4. PICK lo \in Nat, hi \in Int :
        IF got.ends THEN AllAsked(got.all, lo, hi)
        ELSE hi \in Nat /\ Row(got.all, got.next, lo, hi)
  BY <1>3 DEF Fits
<1>. HIDE DEF got
<1>5. got.all = Bars(lo, hi) /\ hi <= Newest
  BY <1>4 DEF AllAsked, Row
<1>6. /\ Bars(lo, hi) \in Seq(Nat) /\ ToSet(Bars(lo, hi)) = lo .. hi
      /\ DOMAIN Bars(lo, hi) = 1 .. Len(Bars(lo, hi))
      /\ (Bars(lo, hi) = <<>> <=> hi < lo)
  BY BarsFacts, Zenon
<1>7. Newest \in Nat
  BY <1>1, TimeFacts DEF WarmupTypeOK, Newest
<1>8. open' \in SUBSET Nat /\ unripe' \in SUBSET Nat
  <2>1. open \in SUBSET Nat /\ unripe \in SUBSET Nat
    BY <1>1 DEF WarmupTypeOK
  <2>2. read \subseteq Nat
    BY <1>5, <1>6
  <2>. HIDE DEF read
  <2>. QED BY <1>2, <2>1, <2>2
<1>12. venue = "okx" => unripe' = {}
  <2>1. ASSUME venue = "okx", NEW b \in read PROVE ~ (Confirmed(b) /\ b >= answer.newest)
    <3>1. b \in Nat /\ answer.newest \in Nat
      <4>1. answer.newest \in Nat
        BY <1>1 DEF WarmupTypeOK, Answers
      <4>. QED BY <1>5, <1>6, <4>1
    <3>. HIDE DEF read
    <3>. QED BY <2>1, <3>1 DEF Confirmed
  <2>2. venue = "okx" => unripe = {}
    BY <1>1 DEF BarsRead
  <2>. HIDE DEF read
  <2>. QED BY <1>2, <2>1, <2>2
<1>9. ASSUME NEW b \in ToSet(Bars(lo, hi)) PROVE Read(b)
  <2>1. CASE b \in ToSet(collected)
    <3>1. (b \in open \/ b \in unripe \/ b < Newest) /\ b <= Newest
      <4>1. PICK i \in DOMAIN collected : b = collected[i]
        BY <2>1 DEF ToSet
      <4>. QED BY <1>1, <4>1 DEF BarsRead
    <3>. QED BY <1>2, <3>1 DEF Read
  <2>2. CASE b \notin ToSet(collected)
    <3>1. b \in read
      BY <1>5, <1>9, <2>2
    <3>2. b <= Newest /\ b \in Nat
      BY <1>5, <1>6, <1>7, <1>9
    <3>3. answer.newest \in Nat /\ answer.newest <= Newest
      BY <1>1, <1>2 DEF WarmupTypeOK, Answers, AnswerOK
    <3>. HIDE DEF read
    <3>4. b \in open' \/ b \in unripe' \/ b < answer.newest
      BY <1>2, <3>1, <3>2, <3>3
    <3>. QED BY <1>7, <3>2, <3>3, <3>4 DEF Read
  <2>. QED BY <2>1, <2>2
<1>10. CASE got.ends
  <2>1. collected' = Cut(Bars(lo, hi)) /\ phase' = "done" /\ cursor' = None
    BY <1>2, <1>5, <1>10
  <2>2. /\ collected' \in Seq(Nat) /\ InOrder(collected')
        /\ ToSet(collected') \subseteq ToSet(Bars(lo, hi))
    <3>1. /\ Cut(Bars(lo, hi)) \in Seq(Nat) /\ InOrder(Cut(Bars(lo, hi)))
          /\ ToSet(Cut(Bars(lo, hi))) \subseteq ToSet(Bars(lo, hi))
      BY <1>1, CutIsPart, Zenon
    <3>. QED BY <2>1, <3>1
  <2>3. \A i \in DOMAIN collected' : Read(collected'[i])
    <3>1. \A i \in DOMAIN collected' : collected'[i] \in ToSet(collected')
      BY DEF ToSet
    <3>. QED BY <1>9, <2>2, <3>1
  <2>4. Whole(collected')
    <3>1. AllAsked(Bars(lo, hi), lo, hi) /\ began <= Newest
      BY <1>1, <1>4, <1>5, <1>10 DEF LoopOK
    <3>2. Whole(Cut(Bars(lo, hi)))
      BY <1>1, <3>1, WholeAfterCut, Zenon
    <3>. QED BY <2>1, <3>2
  <2>5. IF place = "pending"
        THEN /\ place' = "pending" /\ warmBefore' = warm'
             /\ \E c \in 0 .. Len(Past(collected', open', unripe')) :
                  /\ count' = c /\ warm' = (period <= c)
                  /\ handled' = First(Past(collected', open', unripe'), c)
        ELSE UNCHANGED <<place, count, warm, handled, warmBefore>>
    <3>1. CASE place = "pending"
      <4>. DEFINE past == Past(collected', open', unripe')
                  s == FoldLeft(ProcessWarmupKline, State, past)
      <4>1. Becomes(s) /\ warmBefore' = s.warm
        BY <1>2, <1>5, <1>10, <2>1, <3>1
      <4>2. past \in Seq(LiveKlines)
        BY <2>2, PastFacts, Zenon
      <4>3. period \in Nat \ {0}
        BY <1>1, <3>1 DEF WarmupTypeOK, PlaceOK
      <4>4. State = [place |-> "pending", count |-> 0, warm |-> FALSE, handled |-> <<>>]
        <5>1. count = 0 /\ warm = FALSE /\ handled = <<>>
          BY <1>1, <1>2 DEF PlaceOK, WarmupTypeOK, Requesting
        <5>. QED BY <3>1, <5>1 DEF State
      <4>. HIDE DEF past
      <4>5. PICK c \in 0 .. Len(past) : s = After(past, c)
        BY <4>2, <4>3, <4>4, WarmedUp
      <4>. HIDE DEF s
      <4>6. s.place = "pending" /\ s.count = c /\ s.warm = (period <= c) /\
              s.handled = First(past, c)
        BY <4>5 DEF After
      <4>7. /\ place' = "pending" /\ count' = c /\ warm' = (period <= c)
            /\ handled' = First(past, c) /\ warmBefore' = warm'
        BY <4>1, <4>6 DEF Becomes
      <4>. QED BY <3>1, <4>7 DEF past
    <3>2. CASE place # "pending"
      BY <1>2, <1>10, <3>2
    <3>. QED BY <3>1, <3>2
  <2>. QED BY <1>2, <1>8, <1>12, <2>1, <2>2, <2>3, <2>4, <2>5
<1>11. CASE ~ got.ends
  <2>1. /\ collected' = Bars(lo, hi) /\ phase' = "fetching" /\ cursor' = got.next
        /\ UNCHANGED <<place, count, warm, handled, warmBefore>>
    BY <1>2, <1>5, <1>11
  <2>2. hi \in Nat /\ Row(collected', cursor', lo, hi)
    BY <1>4, <1>5, <1>11, <2>1
  <2>3. lo <= hi /\ cursor' \in Nat
    <3>1. Begin(lo) \in Nat /\ Begin(hi) + 1 \in Nat
      <4>1. Begin(lo) \in Nat /\ Begin(hi) \in Nat
        BY <2>2, TimeFacts, Zenon
      <4>. QED BY <4>1
    <3>2. lo <= hi /\ (cursor' = Begin(lo) \/ cursor' = Begin(hi) + 1)
      BY <2>2 DEF Row
    <3>. QED BY <3>1, <3>2
  <2>4. collected' # <<>> /\ collected' \in Seq(Nat)
    BY <1>6, <2>1, <2>2, <2>3
  <2>5. InOrder(collected')
    BY <2>1, BarsInOrder
  <2>6. \A i \in DOMAIN collected' : Read(collected'[i])
    <3>1. \A i \in DOMAIN collected' : collected'[i] \in ToSet(collected')
      BY DEF ToSet
    <3>. QED BY <1>9, <2>1, <3>1
  <2>. QED BY <1>2, <1>8, <1>12, <2>1, <2>2, <2>3, <2>4, <2>5, <2>6
<1>. QED BY <1>2, <1>3, <1>10, <1>11

-----------------------------------------------------------------------------
(* The invariant holds initially, and each step keeps it.                   *)

LEMMA WarmupInitKeeps ==
  ASSUME WarmupInit
  PROVE  WarmupInv
<1>. USE DEF WarmupInit
<1>1. WarmupTypeOK
  <2>1. request \in Requests
    BY DEF Requests
  <2>2. handled \in Seq(LiveKlines) /\ wire \in Seq(LiveKlines)
    <3>. HIDE DEF LiveKlines
    <3>. QED OBVIOUS
  <2>3. collected \in Seq(Nat) /\ open \in SUBSET Nat /\ unripe \in SUBSET Nat /\ answer \in Answers
    BY DEF NoAnswer, Answers
  <2>4. phase \in Phases /\ place \in {"none", "pending", "active"} /\ cursor \in Nat \cup {None}
    BY DEF Phases
  <2>5. now \in Nat /\ began \in Nat /\ period \in Nat /\ count \in Nat /\ heard \in Nat
    OBVIOUS
  <2>6. /\ venue \in Venues /\ native \in BOOLEAN /\ warm \in BOOLEAN /\ subscribed \in BOOLEAN
        /\ early \in BOOLEAN /\ warmBefore \in BOOLEAN
    OBVIOUS
  <2>. HIDE DEF WarmupInit
  <2>. QED BY <2>1, <2>2, <2>3, <2>4, <2>5, <2>6 DEF WarmupTypeOK
<1>2. LoopOK /\ AnswerOK /\ BarsRead /\ HistoryIsWhole
  <2>1. Newest \in Nat
    BY <1>1, TimeFacts DEF WarmupTypeOK, Newest
  <2>. QED BY <2>1 DEF LoopOK, AnswerOK, Requesting, BarsRead, HistoryIsWhole
<1>3. PlaceOK
  BY DEF PlaceOK
<1>4. LiveIsHandledOnce
  <2>1. {j \in DOMAIN handled : handled[j].live} = {}
    OBVIOUS
  <2>. QED BY <2>1, FS_EmptySet DEF LiveIsHandledOnce
<1>5. WireOK /\ GivenOK
  BY DEF WireOK, GivenOK
<1>. QED BY <1>1, <1>2, <1>3, <1>4, <1>5 DEF WarmupInv

\* A kline is taken from the front.
LEMMA TailFacts ==
  ASSUME NEW klines \in Seq(LiveKlines), klines # <<>>
  PROVE  /\ Head(klines) \in LiveKlines /\ Head(klines) = klines[1] /\ 1 \in DOMAIN klines
         /\ Tail(klines) \in Seq(LiveKlines)
         /\ \A i \in DOMAIN Tail(klines) :
              i \in Nat /\ 1 < i + 1 /\ i + 1 \in DOMAIN klines /\ Tail(klines)[i] = klines[i + 1]
<1>. HIDE DEF LiveKlines
<1>. QED OBVIOUS

\* An indicator is registered, and its history asked for.
LEMMA RegisterFacts ==
  ASSUME WarmupInv, Register
  PROVE  /\ phase = "idle" /\ phase' = "fetching" /\ request' \in Requests
         /\ began' = Newest /\ cursor' = request'.start /\ collected' = <<>> /\ open' = {}
         /\ unripe' = {} /\ answer' = answer
         /\ period' \in Nat \ {0} /\ place' = "pending" /\ early' = subscribed
         /\ UNCHANGED <<venue, native, now, count, warm, handled, warmBefore, subscribed, wire,
              heard>>
<1>1. PICK n \in Periods :
        /\ n * Interval <= now /\ period' = n
        /\ Asks([start |-> now - n * Interval, end |-> None, limit |-> n])
  BY DEF Register
<1>. DEFINE r == [start |-> now - n * Interval, end |-> None, limit |-> n]
<1>2. r \in Requests
  <2>1. n \in Nat /\ Interval \in Nat /\ now \in Nat
    BY WarmupAssumption DEF WarmupInv, WarmupTypeOK
  <2>2. n * Interval \in Nat
    BY <2>1
  <2>3. now - n * Interval \in Nat
    BY <1>1, <2>1, <2>2
  <2>. QED BY <2>3 DEF Requests
<1>3. request' = r /\ phase' = "fetching" /\ began' = Newest /\ cursor' = r.start
      /\ collected' = <<>> /\ open' = {} /\ unripe' = {} /\ answer' = answer
  BY <1>1 DEF Asks
<1>4. period' \in Nat \ {0}
  BY <1>1, WarmupAssumption
<1>. HIDE DEF r
<1>. QED BY <1>2, <1>3, <1>4 DEF Register

\* The strategy asks for past klines.
LEMMA RequestFacts ==
  ASSUME WarmupInv, RequestKlines
  PROVE  /\ phase = "idle" /\ phase' = "fetching" /\ request' \in Requests
         /\ began' = Newest /\ cursor' = request'.start /\ collected' = <<>> /\ open' = {}
         /\ unripe' = {} /\ answer' = answer
         /\ UNCHANGED <<venue, native, now, indicator, stream>>
<1>1. PICK start \in {None} \cup 0..now, end \in {None} \cup 0..now, limit \in {None} \cup Periods :
        Asks([start |-> start, end |-> end, limit |-> limit])
  BY DEF RequestKlines
<1>. DEFINE r == [start |-> start, end |-> end, limit |-> limit]
<1>2. r \in Requests
  <2>1. now \in Nat
    BY DEF WarmupInv, WarmupTypeOK
  <2>. QED BY <2>1 DEF Requests
<1>3. request' = r /\ phase' = "fetching" /\ began' = Newest /\ cursor' = r.start
      /\ collected' = <<>> /\ open' = {} /\ unripe' = {} /\ answer' = answer
  BY <1>1 DEF Asks
<1>. HIDE DEF r
<1>. QED BY <1>2, <1>3 DEF RequestKlines

\* A live kline is published.
LEMMA DeliverFacts ==
  ASSUME WarmupInv, Deliver
  PROVE  /\ ~ Requesting /\ wire # <<>> /\ wire' = Tail(wire)
         /\ UNCHANGED <<venue, native, now, period, warmBefore, subscribed, early, loop>>
         /\ place = "none" => UNCHANGED <<heard, place, count, warm, handled>>
         /\ place # "none" => heard' = heard + 1
         /\ place = "active" =>
              UNCHANGED <<place, count, warm>> /\ handled' = Append(handled, Head(wire))
         /\ place = "pending" /\ warm =>
              place' = "active" /\ UNCHANGED <<count, warm, handled>>
         /\ place = "pending" /\ ~ warm =>
              /\ count' = count + 1 /\ handled' = Append(handled, Head(wire))
              /\ warm' = (period <= count + 1)
              /\ place' = IF period <= count + 1 THEN "active" ELSE "pending"
<1>. DEFINE k == Head(wire)
<1>1. k \in LiveKlines
  <2>1. wire \in Seq(LiveKlines) /\ wire # <<>>
    BY DEF WarmupInv, WarmupTypeOK, Deliver
  <2>. QED BY <2>1, TailFacts
<1>2. ASSUME place # "none"
      PROVE  /\ heard' = heard + 1 /\ place' = OnKline(k).place /\ count' = OnKline(k).count
             /\ warm' = OnKline(k).warm /\ handled' = OnKline(k).handled
  BY <1>2 DEF Deliver, Becomes
<1>. HIDE DEF k
<1>3. CASE place = "none"
  BY <1>3 DEF Deliver
<1>4. CASE place = "active"
  <2>1. /\ OnKline(k).place = "active" /\ OnKline(k).count = count
        /\ OnKline(k).warm = warm /\ OnKline(k).handled = Append(handled, k)
    BY <1>1, <1>4, OnKlineFacts DEF WarmupInv
  <2>. QED BY <1>2, <1>4, <2>1 DEF Deliver, k
<1>5. CASE place = "pending" /\ warm
  <2>1. /\ OnKline(k).place = "active" /\ OnKline(k).count = count
        /\ OnKline(k).warm = warm /\ OnKline(k).handled = handled
    BY <1>1, <1>5, OnKlineFacts DEF WarmupInv
  <2>. QED BY <1>2, <1>5, <2>1 DEF Deliver
<1>6. CASE place = "pending" /\ ~ warm
  <2>1. /\ OnKline(k).count = count + 1 /\ OnKline(k).handled = Append(handled, k)
        /\ OnKline(k).warm = (period <= count + 1)
        /\ OnKline(k).place = IF period <= count + 1 THEN "active" ELSE "pending"
    BY <1>1, <1>6, OnKlineFacts DEF WarmupInv
  <2>. QED BY <1>2, <1>6, <2>1 DEF Deliver, k
<1>7. place \in {"none", "pending", "active"}
  BY DEF WarmupInv, WarmupTypeOK
<1>. QED BY <1>3, <1>4, <1>5, <1>6, <1>7

\* A live kline is of the newest bar.
LEMMA LiveFacts ==
  ASSUME WarmupInv, NEW closed \in BOOLEAN
  PROVE  /\ Live(Newest, closed) \in LiveKlines /\ Live(Newest, closed).live
         /\ Live(Newest, closed).bar = Newest /\ Live(Newest, closed).closed = closed
         /\ Live(Newest, closed).final
<1>1. Newest \in Nat
  BY TimeFacts DEF WarmupInv, WarmupTypeOK, Newest
<1>. QED BY <1>1 DEF Live, LiveKlines

\* The venue's page fits what was collected when it reads it.
LEMMA AnswerStep ==
  ASSUME WarmupTypeOK, LoopOK, Answer
  PROVE  /\ phase = "fetching" /\ phase' = "answered" /\ answer' \in Answers
         /\ answer'.newest = Newest
         /\ IF venue = "okx" THEN OkxFits(answer'.page) ELSE NextFits(answer'.page)
<1>1. phase = "fetching" /\ phase' = "answered" /\ answer' = [page |-> Asked, newest |-> Newest]
  BY DEF Answer
<1>2. Newest \in Nat /\ began <= Newest /\ began \in Nat /\ now \in Nat
  BY TimeFacts DEF WarmupTypeOK, LoopOK, Newest
<1>3. PageMax \in Nat \ {0}
  BY WarmupAssumption
<1>4. CASE venue # "okx"
  <2>1. Asked = PageFrom(cursor, request.end, Size)
    BY <1>4 DEF Asked
  <2>2. NextFits(Asked)
    BY <1>1, <1>4, <2>1, NextPage, Zenon
  <2>3. Asked \in Seq(Nat)
    BY <2>2 DEF NextFits
  <2>. HIDE DEF NextFits
  <2>. QED BY <1>1, <1>2, <1>4, <2>2, <2>3 DEF Answers
<1>5. CASE venue = "okx" /\ collected = <<>>
  <2>1. Asked = PageBefore(now + 1, PageMax)
    BY <1>5, SizeFacts DEF Asked
  <2>2. PICK lo \in Nat : lo <= Newest /\ Asked = Bars(lo, Newest)
    <3>1. now + 1 \in Nat
      BY <1>2
    <3>2. Ceiling(now + 1) = Newest + 1
      BY <1>2, TimeFacts, Zenon DEF Newest
    <3>. QED BY <1>2, <1>3, <2>1, <3>1, <3>2, PageBeforeFacts, Zenon
  <2>3. Newest \in Int /\ Newest <= Newest
    BY <1>2
  <2>4. Asked \in Seq(Nat)
    BY <2>2, <2>3, BarsFacts, Zenon
  <2>5. OkxFits(Asked)
    BY <1>2, <1>5, <2>2, <2>3 DEF OkxFits
  <2>. HIDE DEF OkxFits
  <2>. QED BY <1>1, <1>2, <1>5, <2>4, <2>5 DEF Answers
<1>6. CASE venue = "okx" /\ collected # <<>>
  <2>1. Asked = PageBefore(cursor, PageMax)
    BY <1>6, SizeFacts DEF Asked
  <2>2. PICK l \in Nat, h \in Nat : Row(collected, cursor, l, h)
    BY <1>1, <1>6 DEF LoopOK, Requesting
  <2>3. cursor = Begin(l) /\ request.start # None /\ request.start < Begin(l)
    BY <1>6, <2>2 DEF Row
  <2>4. Begin(l) \in Nat /\ Ceiling(Begin(l)) = l /\ request.start \in Nat
    BY <2>3, TimeFacts DEF WarmupTypeOK, Requests
  <2>5. l # 0
    <3>1. Begin(0) = 0
      BY WarmupAssumption DEF Begin
    <3>. QED BY <2>3, <2>4, <3>1
  <2>6. l - 1 \in Nat /\ l - 1 \in Int /\ Ceiling(cursor) = (l - 1) + 1 /\ cursor \in Nat
    BY <2>3, <2>4, <2>5
  <2>7. PICK lo \in Nat : lo <= l - 1 /\ PageBefore(cursor, PageMax) = Bars(lo, l - 1)
    BY <1>3, <2>6, PageBeforeFacts, Zenon
  <2>8. Asked \in Seq(Nat)
    <3>1. Bars(lo, l - 1) \in Seq(Nat)
      BY <2>6, BarsFacts, Zenon
    <3>. QED BY <2>1, <2>7, <3>1
  <2>9. OkxFits(Asked)
    BY <1>6, <2>1 DEF OkxFits
  <2>. HIDE DEF OkxFits
  <2>. QED BY <1>1, <1>2, <1>6, <2>8, <2>9 DEF Answers
<1>. QED BY <1>4, <1>5, <1>6

\* Every step keeps the types.
LEMMA TypeStep ==
  ASSUME WarmupInv, WarmupNext \/ UNCHANGED warmupVars
  PROVE  WarmupTypeOK'
<1>1. WarmupTypeOK
  BY DEF WarmupInv
<1>2. Newest \in Nat
  BY <1>1, TimeFacts DEF WarmupTypeOK, Newest
<1>. HIDE DEF LiveKlines
<1>3. CASE Register
  <2>1. cursor' \in Nat \cup {None} /\ collected' \in Seq(Nat) /\ phase' \in Phases
    BY <1>3, RegisterFacts DEF Requests, Phases
  <2>. HIDE DEF Requests, Phases
  <2>. QED BY <1>1, <1>2, <1>3, <2>1, RegisterFacts DEF WarmupTypeOK
<1>4. CASE RequestKlines
  <2>1. cursor' \in Nat \cup {None} /\ collected' \in Seq(Nat) /\ phase' \in Phases
    BY <1>4, RequestFacts DEF Requests, Phases
  <2>. HIDE DEF Requests, Phases
  <2>. QED BY <1>1, <1>2, <1>4, <2>1, RequestFacts DEF WarmupTypeOK, indicator, stream
<1>5. CASE Fetch
  <2>1. /\ phase' \in Phases /\ open' \in SUBSET Nat /\ collected' \in Seq(Nat)
        /\ cursor' \in Nat \cup {None} /\ InOrder(collected')
        /\ unripe' \in SUBSET Nat /\ answer' \in Answers
    <3>1. /\ phase' \in {"fetching", "done"} /\ open' \in SUBSET Nat /\ collected' \in Seq(Nat)
          /\ unripe' \in SUBSET Nat /\ answer' = NoAnswer
          /\ phase' = "done" => cursor' = None
          /\ phase' = "fetching" => cursor' \in Nat
          /\ InOrder(collected')
      BY <1>5, FetchStep
    <3>. QED BY <3>1 DEF Phases, NoAnswer, Answers
  <2>2. /\ place' \in {"none", "pending", "active"} /\ count' \in Nat /\ warm' \in BOOLEAN
        /\ handled' \in Seq(LiveKlines) /\ warmBefore' \in BOOLEAN
    <3>1. CASE UNCHANGED <<place, count, warm, handled, warmBefore>>
      BY <1>1, <3>1 DEF WarmupTypeOK
    <3>2. CASE ~ UNCHANGED <<place, count, warm, handled, warmBefore>>
      <4>. DEFINE past == Past(collected', open', unripe')
      <4>1. place' = "pending" /\ warmBefore' = warm' /\ \E c \in 0 .. Len(past) :
              count' = c /\ warm' = (period <= c) /\ handled' = First(past, c)
        BY <1>5, <3>2, FetchStep
      <4>2. past \in Seq(LiveKlines)
        BY <2>1, PastFacts, Zenon
      <4>. HIDE DEF past
      <4>3. PICK c \in 0 .. Len(past) :
              count' = c /\ warm' = (period <= c) /\ handled' = First(past, c)
        BY <4>1
      <4>4. c \in Nat /\ First(past, c) \in Seq(LiveKlines)
        <5>1. First(past, c) \in Seq(LiveKlines)
          BY <4>2, FirstFacts
        <5>2. Len(past) \in Nat
          BY <4>2
        <5>. QED BY <5>1, <5>2
      <4>. QED BY <4>1, <4>3, <4>4
    <3>. QED BY <3>1, <3>2
  <2>3. UNCHANGED <<venue, native, now, period, stream, request, began>>
    BY <1>5 DEF Fetch
  <2>. HIDE DEF Requests, Phases
  <2>. QED BY <1>1, <2>1, <2>2, <2>3 DEF WarmupTypeOK, stream
<1>6. CASE FetchFails
  <2>1. "failed" \in Phases /\ NoAnswer \in Answers
    BY DEF Phases, NoAnswer, Answers
  <2>. HIDE DEF Requests, Phases
  <2>. QED BY <1>1, <1>6, <2>1 DEF WarmupTypeOK, FetchFails, indicator, stream
<1>7. CASE Subscribe
  <2>. HIDE DEF Requests, Phases
  <2>. QED BY <1>1, <1>7 DEF WarmupTypeOK, Subscribe, indicator, loop
<1>8. CASE Tick
  <2>1. wire' \in Seq(LiveKlines)
    <3>1. Append(wire, Live(Newest, TRUE)) \in Seq(LiveKlines)
      BY <1>1, LiveFacts, Appended DEF WarmupTypeOK
    <3>. QED BY <1>1, <1>8, <3>1 DEF WarmupTypeOK, Tick
  <2>2. now' \in Nat
    BY <1>1, <1>8 DEF WarmupTypeOK, Tick
  <2>. HIDE DEF Requests, Phases
  <2>. QED BY <1>1, <1>8, <2>1, <2>2 DEF WarmupTypeOK, Tick, indicator, loop
<1>9. CASE Update
  <2>1. wire' \in Seq(LiveKlines)
    <3>1. Append(wire, Live(Newest, FALSE)) \in Seq(LiveKlines)
      BY <1>1, LiveFacts, Appended DEF WarmupTypeOK
    <3>. QED BY <1>9, <3>1 DEF Update
  <2>. HIDE DEF Requests, Phases
  <2>. QED BY <1>1, <1>9, <2>1 DEF WarmupTypeOK, Update, indicator, loop
<1>10. CASE Deliver
  <2>1. wire \in Seq(LiveKlines) /\ wire # <<>> /\ wire' = Tail(wire)
    BY <1>1, <1>10, DeliverFacts DEF WarmupTypeOK
  <2>2. wire' \in Seq(LiveKlines) /\ Head(wire) \in LiveKlines
    BY <2>1, TailFacts
  <2>3. /\ heard' \in Nat /\ place' \in {"none", "pending", "active"} /\ count' \in Nat
        /\ warm' \in BOOLEAN /\ handled' \in Seq(LiveKlines)
    <3>1. Append(handled, Head(wire)) \in Seq(LiveKlines)
      BY <1>1, <2>2, Appended DEF WarmupTypeOK
    <3>2. CASE place = "none"
      BY <1>1, <1>10, <3>2, DeliverFacts DEF WarmupTypeOK
    <3>3. CASE place = "active"
      <4>1. heard' = heard + 1 /\ UNCHANGED <<place, count, warm>> /\
              handled' = Append(handled, Head(wire))
        BY <1>10, <3>3, DeliverFacts
      <4>. QED BY <1>1, <3>1, <4>1 DEF WarmupTypeOK
    <3>4. CASE place = "pending" /\ warm
      <4>1. heard' = heard + 1 /\ place' = "active" /\ UNCHANGED <<count, warm, handled>>
        BY <1>10, <3>4, DeliverFacts
      <4>. QED BY <1>1, <4>1 DEF WarmupTypeOK
    <3>5. CASE place = "pending" /\ ~ warm
      <4>1. /\ heard' = heard + 1 /\ count' = count + 1 /\ handled' = Append(handled, Head(wire))
            /\ warm' = (period <= count + 1)
            /\ place' = IF period <= count + 1 THEN "active" ELSE "pending"
        BY <1>10, <3>5, DeliverFacts
      <4>2. place' \in {"none", "pending", "active"}
        BY <4>1
      <4>3. warm' \in BOOLEAN
        BY <4>1
      <4>4. heard' \in Nat /\ count' \in Nat
        BY <1>1, <4>1 DEF WarmupTypeOK
      <4>. QED BY <3>1, <4>1, <4>2, <4>3, <4>4
    <3>. QED BY <1>1, <3>2, <3>3, <3>4, <3>5 DEF WarmupTypeOK
  <2>4. UNCHANGED <<venue, native, now, period, warmBefore, subscribed, early, loop>>
    BY <1>10, DeliverFacts
  <2>. HIDE DEF Requests, Phases
  <2>. QED BY <1>1, <2>2, <2>3, <2>4 DEF WarmupTypeOK, loop
<1>11. CASE UNCHANGED warmupVars
  <2>. HIDE DEF Requests, Phases
  <2>. QED BY <1>1, <1>11 DEF WarmupTypeOK, warmupVars, indicator, stream, loop
<1>12. CASE Answer
  <2>1. phase' \in Phases /\ answer' \in Answers
    BY <1>1, <1>12, AnswerStep DEF WarmupInv, Phases
  <2>. HIDE DEF Requests, Phases
  <2>. QED BY <1>1, <1>12, <2>1 DEF WarmupTypeOK, Answer, indicator, stream
<1>. QED BY <1>3, <1>4, <1>5, <1>6, <1>7, <1>8, <1>9, <1>10, <1>11, <1>12 DEF WarmupNext

\* The clock goes on, and a bar may begin.
LEMMA ClockFacts ==
  ASSUME WarmupInv, Tick
  PROVE  /\ Newest \in Nat /\ Newest' \in Nat /\ Newest <= Newest'
         /\ (now + 1) % Interval = 0 => Newest' = Newest + 1
<1>. DEFINE q == now \div Interval
            r == (now + 1) \div Interval
<1>1. now \in Nat /\ now' = now + 1 /\ Interval \in Nat \ {0}
  BY WarmupAssumption DEF WarmupInv, WarmupTypeOK, Tick
<1>2. q \in Nat /\ q * Interval \in Nat /\ q * Interval <= now /\ now < q * Interval + Interval
  BY <1>1, Division
<1>3. now + 1 \in Nat
  BY <1>1
<1>4. r \in Nat /\ r * Interval \in Nat /\ r * Interval <= now + 1 /\
        now + 1 < r * Interval + Interval
  BY <1>1, <1>3, Division
<1>5. (now + 1) % Interval = 0 => now + 1 = r * Interval
  BY <1>1, <1>3, Multiple
<1>6. Newest = q /\ Newest' = r
  BY <1>1 DEF Newest
<1>. HIDE DEF q, r
<1>7. r < q => r * Interval + Interval <= q * Interval
  BY <1>1, <1>2, <1>4, Ordered
<1>8. q <= r
  BY <1>1, <1>2, <1>4, <1>7
<1>9. ASSUME (now + 1) % Interval = 0 PROVE r = q + 1
  <2>1. now + 1 = r * Interval
    BY <1>5, <1>9
  <2>2. q < r
    <3>1. q = r => q * Interval = r * Interval
      OBVIOUS
    <3>. QED BY <1>1, <1>2, <1>4, <1>8, <2>1, <3>1
  <2>3. q + 1 < r => (q + 1) * Interval + Interval <= r * Interval
    BY <1>1, <1>2, <1>4, Ordered
  <2>4. (q + 1) * Interval = q * Interval + Interval
    BY <1>1, <1>2
  <2>. QED BY <1>1, <1>2, <1>4, <2>1, <2>2, <2>3, <2>4
<1>. QED BY <1>2, <1>4, <1>6, <1>8, <1>9

\* Every step keeps what is collected one row, with the cursor at its open end.
LEMMA LoopStep ==
  ASSUME WarmupInv, WarmupNext \/ UNCHANGED warmupVars
  PROVE  LoopOK' /\ AnswerOK' /\ BarsRead' /\ HistoryIsWhole'
<1>1. WarmupTypeOK /\ LoopOK /\ AnswerOK /\ BarsRead /\ (phase = "done" => Whole(collected))
  BY HistoryMeans DEF WarmupInv
<1>2. Newest \in Nat
  BY <1>1, TimeFacts DEF WarmupTypeOK, Newest
<1>3. SUFFICES LoopOK' /\ AnswerOK' /\ BarsRead' /\ (phase' = "done" => Whole(collected)')
  BY DEF HistoryIsWhole, Whole, LastAsked
<1>4. ASSUME UNCHANGED <<venue, request, began, cursor, collected, open, unripe>>,
             phase' = "failed" \/ UNCHANGED <<phase, answer>>,
             Newest' \in Nat, Newest <= Newest'
      PROVE  LoopOK' /\ AnswerOK' /\ BarsRead' /\ (phase' = "done" => Whole(collected)')
  <2>1. began' <= Newest'
    BY <1>1, <1>2, <1>4 DEF LoopOK, WarmupTypeOK
  <2>2. Requesting' /\ collected' = <<>> => cursor' = request'.start
    BY <1>1, <1>4 DEF LoopOK, Requesting
  <2>3. ASSUME Requesting', collected' # <<>>
        PROVE  \E lo, hi \in Nat : Row(collected, cursor, lo, hi)'
    <3>1. PICK lo \in Nat, hi \in Nat : Row(collected, cursor, lo, hi)
      BY <1>1, <1>4, <2>3 DEF LoopOK, Requesting
    <3>2. hi <= Newest'
      BY <1>2, <1>4, <3>1 DEF Row
    <3>3. Row(collected, cursor, lo, hi)'
      BY <1>4, <3>1, <3>2 DEF Row, LastAsked
    <3>. QED BY <3>3
  <2>4. LoopOK'
    BY <2>1, <2>2, <2>3 DEF LoopOK
  <2>5. BarsRead'
    <3>1. ASSUME NEW i \in DOMAIN collected
          PROVE  /\ collected[i] \in open \/ collected[i] \in unripe \/ collected[i] < Newest'
                 /\ collected[i] <= Newest'
      <4>1. collected[i] \in Nat
        BY <1>1 DEF WarmupTypeOK
      <4>. QED BY <1>1, <1>2, <1>4, <4>1 DEF BarsRead
    <3>. QED BY <1>1, <1>4, <3>1 DEF BarsRead
  <2>6. phase' = "done" => Whole(collected)'
    BY <1>1, <1>4 DEF Whole, LastAsked
  <2>7. ASSUME phase' = "answered" PROVE AnswerOK'
    <3>1. phase = "answered" /\ answer' = answer /\ answer.newest <= Newest
      BY <1>1, <1>4, <2>7 DEF AnswerOK
    <3>2. answer'.newest <= Newest' /\ page' = page /\ Size' = Size /\ LastAsked' = LastAsked
      <4>1. answer.newest \in Nat
        BY <1>1 DEF WarmupTypeOK, Answers
      <4>2. answer'.newest <= Newest'
        BY <1>2, <1>4, <3>1, <4>1
      <4>3. page' = page
        BY <3>1 DEF page
      <4>4. Size' = Size /\ LastAsked' = LastAsked
        BY <1>4 DEF Size, LastAsked
      <4>. QED BY <4>2, <4>3, <4>4
    <3>3. CASE venue = "okx"
      <4>1. OkxFits(page)
        BY <1>1, <3>1, <3>3 DEF AnswerOK
      <4>2. CASE collected = <<>>
        <5>1. PICK lo \in Nat, hi \in Nat :
                lo <= hi /\ began <= hi /\ hi <= Newest /\ page = Bars(lo, hi)
          BY <4>1, <4>2 DEF OkxFits
        <5>2. hi <= Newest'
          BY <1>2, <1>4, <5>1
        <5>3. OkxFits(page)'
          BY <1>4, <3>2, <4>2, <5>1, <5>2 DEF OkxFits
        <5>. QED BY <1>4, <3>2, <3>3, <5>3 DEF AnswerOK
      <4>3. CASE collected # <<>>
        <5>1. OkxFits(page)'
          BY <1>4, <3>2, <4>1, <4>3 DEF OkxFits, PageBefore
        <5>. QED BY <1>4, <3>2, <3>3, <5>1 DEF AnswerOK
      <4>. QED BY <4>2, <4>3
    <3>4. CASE venue # "okx"
      <4>1. NextFits(page)
        BY <1>1, <3>1, <3>4 DEF AnswerOK
      <4>2. PICK lo \in Nat, hi \in Int :
              /\ collected \o page = Bars(lo, hi) /\ hi <= Newest
              /\ IF request.start = None THEN lo <= hi /\ LastAsked <= hi
                 ELSE lo = Ceiling(request.start)
              /\ page # <<>> => lo <= hi /\ Last(page) = hi
              /\ page = <<>> \/ Len(page) < Size => LastAsked <= hi
        BY <4>1 DEF NextFits
      <4>3. hi <= Newest'
        BY <1>2, <1>4, <4>2
      <4>4. NextFits(page)'
        BY <1>4, <3>2, <4>1, <4>2, <4>3 DEF NextFits
      <4>. QED BY <1>4, <3>2, <3>4, <4>4 DEF AnswerOK
    <3>. QED BY <3>3, <3>4
  <2>8. AnswerOK'
    <3>1. phase' # "answered" => AnswerOK'
      BY DEF AnswerOK
    <3>. QED BY <2>7, <3>1
  <2>. QED BY <2>4, <2>5, <2>6, <2>8
<1>5. ASSUME now' = now PROVE Newest' \in Nat /\ Newest <= Newest'
  BY <1>2, <1>5 DEF Newest
<1>6. ASSUME phase' = "fetching", began' = Newest, cursor' = request'.start, collected' = <<>>,
             unripe' = {}, now' = now
      PROVE  LoopOK' /\ AnswerOK' /\ BarsRead' /\ (phase' = "done" => Whole(collected)')
  <2>1. began' <= Newest'
    BY <1>2, <1>6 DEF Newest
  <2>2. LoopOK'
    BY <1>6, <2>1 DEF LoopOK
  <2>. QED BY <1>6, <2>2 DEF AnswerOK, BarsRead
<1>7. CASE Register
  BY <1>6, <1>7, RegisterFacts
<1>8. CASE RequestKlines
  BY <1>6, <1>8, RequestFacts
<1>9. CASE Fetch
  <2>1. UNCHANGED <<venue, now, request, began>>
    BY <1>9 DEF Fetch
  <2>2. Newest' = Newest /\ began' <= Newest'
    BY <1>1, <2>1 DEF Newest, LoopOK
  <2>7. phase' \in {"fetching", "done"}
    BY <1>9, FetchStep
  <2>3. phase' = "fetching" => /\ collected' # <<>>
                               /\ \E lo, hi \in Nat : Row(collected', cursor', lo, hi)
    BY <1>9, FetchStep
  <2>4. LoopOK'
    <3>1. ASSUME phase' = "fetching" PROVE \E lo, hi \in Nat : Row(collected, cursor, lo, hi)'
      <4>1. PICK lo \in Nat, hi \in Nat : Row(collected', cursor', lo, hi)
        BY <2>3, <3>1
      <4>2. Row(collected, cursor, lo, hi)'
        BY <2>1, <2>2, <4>1 DEF Row, LastAsked
      <4>. QED BY <4>2
    <3>. QED BY <2>2, <2>3, <2>7, <3>1 DEF LoopOK, Requesting
  <2>5. BarsRead'
    <3>1. /\ \A j \in DOMAIN collected' : Read(collected'[j])
          /\ venue = "okx" => unripe' = {}
      BY <1>9, FetchStep
    <3>. QED BY <2>1, <2>2, <3>1 DEF BarsRead, Read
  <2>6. phase' = "done" => Whole(collected)'
    <3>1. phase' = "done" => Whole(collected')
      BY <1>9, FetchStep
    <3>. QED BY <2>1, <3>1 DEF Whole, LastAsked
  <2>8. AnswerOK'
    BY <2>7 DEF AnswerOK
  <2>. QED BY <2>4, <2>5, <2>6, <2>8
<1>16. CASE Answer
  <2>1. UNCHANGED <<venue, now, request, began, cursor, collected, open, unripe>>
    BY <1>16 DEF Answer
  <2>2. /\ phase = "fetching" /\ phase' = "answered" /\ answer'.newest = Newest
        /\ IF venue = "okx" THEN OkxFits(answer'.page) ELSE NextFits(answer'.page)
    BY <1>1, <1>16, AnswerStep
  <2>3. Newest' = Newest /\ LastAsked' = LastAsked /\ Size' = Size
    BY <2>1 DEF Newest, LastAsked, Size
  <2>4. LoopOK'
    <3>1. ASSUME collected # <<>> PROVE \E lo, hi \in Nat : Row(collected, cursor, lo, hi)'
      <4>1. PICK lo \in Nat, hi \in Nat : Row(collected, cursor, lo, hi)
        BY <1>1, <2>2, <3>1 DEF LoopOK, Requesting
      <4>2. Row(collected, cursor, lo, hi)'
        BY <2>1, <2>3, <4>1 DEF Row
      <4>. QED BY <4>2
    <3>2. collected = <<>> => cursor = request.start
      BY <1>1, <2>2 DEF LoopOK, Requesting
    <3>3. began <= Newest
      BY <1>1 DEF LoopOK
    <3>. QED BY <2>1, <2>3, <3>1, <3>2, <3>3 DEF LoopOK
  <2>5. venue = "okx" => OkxFits(page)'
    BY <2>1, <2>2, <2>3 DEF OkxFits, PageBefore, page
  <2>6. venue # "okx" => NextFits(page)'
    BY <2>1, <2>2, <2>3 DEF NextFits, page
  <2>7. AnswerOK'
    <3>1. answer'.newest <= Newest'
      BY <1>2, <2>2, <2>3
    <3>. QED BY <2>1, <2>5, <2>6, <3>1 DEF AnswerOK
  <2>8. BarsRead'
    BY <1>1, <2>1, <2>3 DEF BarsRead
  <2>. QED BY <2>2, <2>4, <2>7, <2>8
<1>10. CASE FetchFails
  BY <1>4, <1>5, <1>10 DEF FetchFails
<1>11. CASE Subscribe
  BY <1>4, <1>5, <1>11 DEF Subscribe, loop
<1>12. CASE Tick
  <2>1. Newest' \in Nat /\ Newest <= Newest'
    BY <1>12, ClockFacts
  <2>2. UNCHANGED <<venue, loop>>
    BY <1>12 DEF Tick
  <2>. QED BY <1>4, <2>1, <2>2 DEF loop
<1>13. CASE Update
  BY <1>4, <1>5, <1>13 DEF Update, loop
<1>14. CASE Deliver
  <2>1. UNCHANGED <<venue, now, loop>>
    BY <1>14 DEF Deliver
  <2>. QED BY <1>4, <1>5, <2>1 DEF loop
<1>15. CASE UNCHANGED warmupVars
  BY <1>4, <1>5, <1>15 DEF warmupVars, loop
<1>. QED BY <1>7, <1>8, <1>9, <1>10, <1>11, <1>12, <1>13, <1>14, <1>15, <1>16
     DEF WarmupNext

\* Every step keeps the place of an indicator true to what it has heard.
LEMMA PlaceStep ==
  ASSUME WarmupInv, WarmupNext \/ UNCHANGED warmupVars
  PROVE  PlaceOK'
<1>1. WarmupTypeOK /\ PlaceOK
  BY DEF WarmupInv
<1>. HIDE DEF LiveKlines
<1>2. CASE Register
  BY <1>1, <1>2, RegisterFacts DEF Requesting, PlaceOK, WarmupTypeOK
<1>3. CASE RequestKlines
  BY <1>1, <1>3, RequestFacts DEF Requesting, PlaceOK, WarmupTypeOK, indicator, stream
<1>4. CASE Fetch
  <2>1. phase = "answered" /\ UNCHANGED <<period, heard>> /\ phase' \in {"fetching", "done"}
    BY <1>4, FetchStep DEF Fetch, stream
  <2>2. CASE UNCHANGED <<place, count, warm, handled, warmBefore>>
    BY <1>1, <2>1, <2>2 DEF Requesting, PlaceOK
  <2>3. CASE ~ UNCHANGED <<place, count, warm, handled, warmBefore>>
    <3>. DEFINE past == Past(collected', open', unripe')
    <3>1. phase' = "done" /\ place = "pending" /\ place' = "pending" /\ warmBefore' = warm'
          /\ \E c \in 0 .. Len(past) :
               count' = c /\ warm' = (period <= c) /\ handled' = First(past, c)
      BY <1>4, <2>3, FetchStep
    <3>2. past \in Seq(LiveKlines)
      <4>1. collected' \in Seq(Nat) /\ InOrder(collected')
        BY <1>4, FetchStep
      <4>. QED BY <4>1, PastFacts, Zenon
    <3>. HIDE DEF past
    <3>3. PICK c \in 0 .. Len(past) :
            count' = c /\ warm' = (period <= c) /\ handled' = First(past, c)
      BY <3>1
    <3>4. Len(handled') = c /\ c \in Nat
      <4>1. Len(First(past, c)) = c
        BY <3>2, FirstFacts
      <4>2. Len(past) \in Nat
        BY <3>2
      <4>. QED BY <3>3, <4>1, <4>2
    <3>5. heard = 0 /\ period > 0
      BY <1>1, <2>1, <3>1 DEF Requesting, PlaceOK
    <3>. QED BY <1>1, <2>1, <3>1, <3>3, <3>4, <3>5 DEF Requesting, PlaceOK, WarmupTypeOK
  <2>. QED BY <2>2, <2>3
<1>5. CASE FetchFails
  BY <1>1, <1>5 DEF Requesting, PlaceOK, FetchFails, indicator, stream
<1>6. CASE Subscribe
  BY <1>1, <1>6 DEF Requesting, PlaceOK, Subscribe, indicator, loop
<1>7. CASE Tick
  BY <1>1, <1>7 DEF Requesting, PlaceOK, Tick, indicator, loop
<1>8. CASE Update
  BY <1>1, <1>8 DEF Requesting, PlaceOK, Update, indicator, loop
<1>9. CASE Deliver
  <2>1. ~ Requesting /\ UNCHANGED <<phase, period, warmBefore>>
    BY <1>9, DeliverFacts DEF loop
  <2>2. Len(handled) \in Nat /\ Len(Append(handled, Head(wire))) = Len(handled) + 1
    <3>1. handled \in Seq(LiveKlines)
      BY <1>1 DEF WarmupTypeOK
    <3>. QED BY <3>1
  <2>3. CASE place = "none"
    BY <1>1, <1>9, <2>1, <2>3, DeliverFacts DEF Requesting, PlaceOK
  <2>4. CASE place = "active"
    BY <1>1, <1>9, <2>1, <2>2, <2>4, DeliverFacts DEF Requesting, PlaceOK, WarmupTypeOK
  <2>5. CASE place = "pending" /\ warm
    BY <1>1, <1>9, <2>1, <2>5, DeliverFacts DEF Requesting, PlaceOK, WarmupTypeOK
  <2>6. CASE place = "pending" /\ ~ warm
    <3>1. /\ heard' = heard + 1 /\ count' = count + 1 /\ handled' = Append(handled, Head(wire))
          /\ warm' = (period <= count + 1)
          /\ place' = IF period <= count + 1 THEN "active" ELSE "pending"
      BY <1>9, <2>6, DeliverFacts
    <3>2. CASE period <= count + 1
      BY <1>1, <2>1, <2>2, <2>6, <3>1, <3>2 DEF Requesting, PlaceOK, WarmupTypeOK
    <3>3. CASE ~ period <= count + 1
      BY <1>1, <2>1, <2>2, <2>6, <3>1, <3>3 DEF Requesting, PlaceOK, WarmupTypeOK
    <3>. QED BY <3>2, <3>3
  <2>. QED BY <1>1, <2>3, <2>4, <2>5, <2>6 DEF WarmupTypeOK
<1>10. CASE UNCHANGED warmupVars
  BY <1>1, <1>10 DEF Requesting, PlaceOK, warmupVars, indicator, stream, loop
<1>11. CASE Answer
  BY <1>1, <1>11 DEF Requesting, PlaceOK, Answer, indicator, stream
<1>. QED BY <1>2, <1>3, <1>4, <1>5, <1>6, <1>7, <1>8, <1>9, <1>10, <1>11 DEF WarmupNext

\* The live klines handled, as a number that the steps count up.
LEMMA LiveMeans ==
  LiveIsHandledOnce <=>
    Cardinality(LiveOnes(handled)) + (IF warmBefore /\ heard > 0 THEN 1 ELSE 0) = heard
BY DEF LiveIsHandledOnce, LiveOnes

\* Every step keeps each live kline handled once.
LEMMA LiveStep ==
  ASSUME WarmupInv, WarmupNext \/ UNCHANGED warmupVars
  PROVE  LiveIsHandledOnce'
<1>1. WarmupTypeOK /\ PlaceOK /\ WireOK
      /\ Cardinality(LiveOnes(handled)) + (IF warmBefore /\ heard > 0 THEN 1 ELSE 0) = heard
  BY LiveMeans DEF WarmupInv
<1>. HIDE DEF LiveKlines
<1>2. SUFFICES Cardinality(LiveOnes(handled')) + (IF warmBefore' /\
        heard' > 0 THEN 1 ELSE 0) = heard'
  BY DEF LiveIsHandledOnce, LiveOnes
<1>3. CASE UNCHANGED <<handled, warmBefore, heard>>
  BY <1>1, <1>3
<1>4. CASE Fetch /\ ~ UNCHANGED <<handled, warmBefore, heard>>
  <2>. DEFINE past == Past(collected', open', unripe')
  <2>1. heard' = heard /\ heard = 0
    BY <1>1, <1>4 DEF Fetch, Requesting, PlaceOK, stream
  <2>2. collected' \in Seq(Nat) /\ InOrder(collected')
        /\ \E c \in 0 .. Len(past) : handled' = First(past, c)
    BY <1>4, <2>1, FetchStep
  <2>3. past \in Seq(LiveKlines) /\ \A j \in DOMAIN past : ~ past[j].live
    BY <2>2, PastFacts, Zenon
  <2>. HIDE DEF past
  <2>4. PICK c \in 0 .. Len(past) : handled' = First(past, c)
    BY <2>2
  <2>5. DOMAIN First(past, c) = 1 .. c
        /\ \A j \in 1 .. c : First(past, c)[j] = past[j] /\ j \in DOMAIN past
    BY <2>3, FirstFacts
  <2>6. LiveOnes(handled') = {}
    BY <2>3, <2>4, <2>5 DEF LiveOnes
  <2>. QED BY <2>1, <2>6, FS_EmptySet
<1>5. CASE Deliver /\ place # "none"
  <2>1. wire \in Seq(LiveKlines) /\ wire # <<>> /\ handled \in Seq(LiveKlines) /\ heard \in Nat
    BY <1>1, <1>5 DEF WarmupTypeOK, Deliver
  <2>2. Head(wire) \in LiveKlines /\ Head(wire) = wire[1] /\ 1 \in DOMAIN wire
    BY <2>1, TailFacts
  <2>3. Head(wire).live
    BY <1>1, <2>2 DEF WireOK
  <2>4. /\ Cardinality(LiveOnes(handled)) \in Nat
        /\ Cardinality(LiveOnes(Append(handled, Head(wire)))) = Cardinality(LiveOnes(handled)) + 1
    BY <2>1, <2>2, <2>3, LiveOnesFacts
  <2>5. heard' = heard + 1 /\ warmBefore' = warmBefore
    BY <1>5, DeliverFacts
  <2>6. CASE place = "active"
    <3>1. handled' = Append(handled, Head(wire)) /\ heard > 0
      BY <1>1, <1>5, <2>6, DeliverFacts DEF PlaceOK
    <3>. QED BY <1>1, <2>1, <2>4, <2>5, <3>1
  <2>7. CASE place = "pending" /\ warm
    <3>1. handled' = handled /\ warmBefore /\ heard = 0
      BY <1>1, <1>5, <2>7, DeliverFacts DEF PlaceOK
    <3>. QED BY <1>1, <2>1, <2>4, <2>5, <3>1
  <2>8. CASE place = "pending" /\ ~ warm
    <3>1. handled' = Append(handled, Head(wire)) /\ ~ warmBefore
      BY <1>1, <1>5, <2>8, DeliverFacts DEF PlaceOK, WarmupTypeOK
    <3>. QED BY <1>1, <2>1, <2>4, <2>5, <3>1
  <2>. QED BY <1>1, <1>5, <2>6, <2>7, <2>8 DEF WarmupTypeOK
<1>6. UNCHANGED <<handled, warmBefore, heard>> \/ Fetch \/ (Deliver /\ place # "none")
  BY RegisterFacts, RequestFacts
     DEF WarmupNext, Answer, FetchFails, Subscribe, Tick, Update, Deliver, warmupVars, indicator,
         stream
<1>. QED BY <1>3, <1>4, <1>5, <1>6

\* Every step keeps the live klines that wait in order.
LEMMA WireStep ==
  ASSUME WarmupInv, WarmupNext \/ UNCHANGED warmupVars
  PROVE  WireOK'
<1>1. WarmupTypeOK /\ WireOK
  BY DEF WarmupInv
<1>. HIDE DEF LiveKlines
<1>2. wire \in Seq(LiveKlines) /\ now \in Nat /\ Newest \in Nat
  BY <1>1, TimeFacts DEF WarmupTypeOK, Newest
<1>3. \A j \in DOMAIN wire : wire[j] \in LiveKlines /\ wire[j].bar \in Nat
  <2>1. \A k \in LiveKlines : k.bar \in Nat
    BY DEF LiveKlines
  <2>. QED BY <1>2, <2>1
<1>4. ASSUME wire' = wire, subscribed => subscribed', subscribed' = subscribed \/ wire = <<>>,
             Newest' \in Nat, Newest <= Newest'
      PROVE  WireOK'
  <2>1. ASSUME NEW j \in DOMAIN wire, wire[j].closed PROVE wire[j].bar < Newest'
    <3>1. wire[j].bar < Newest /\ wire[j].bar \in Nat
      BY <1>1, <1>3, <2>1 DEF WireOK
    <3>. QED BY <1>2, <1>4, <3>1
  <2>. QED BY <1>1, <1>4, <2>1 DEF WireOK
<1>5. ASSUME now' = now PROVE Newest' \in Nat /\ Newest <= Newest'
  BY <1>2, <1>5 DEF Newest
<1>6. ASSUME NEW k \in LiveKlines, wire' = Append(wire, k), k.live, k.final,
             subscribed' = subscribed,
               subscribed,
             Newest' \in Nat, Newest <= Newest', k.closed => k.bar = Newest /\ Newest' = Newest + 1
      PROVE  WireOK'
  <2>. DEFINE n == Len(wire)
  <2>1. /\ n \in Nat /\ DOMAIN wire = 1 .. n /\ DOMAIN wire' = 1 .. (n + 1)
        /\ \A j \in 1 .. n : wire'[j] = wire[j]
        /\ wire'[n + 1] = k
    BY <1>2, <1>6, Appended
  <2>. HIDE DEF n
  <2>2. \A j \in 1 .. (n + 1) : j \in 1 .. n \/ j = n + 1
    BY <2>1
  <2>3. ASSUME NEW j \in DOMAIN wire', wire'[j].closed PROVE wire'[j].bar < Newest'
    <3>1. CASE j = n + 1
      BY <1>2, <1>6, <2>1, <2>3, <3>1
    <3>2. CASE j \in 1 .. n
      <4>1. wire'[j] = wire[j] /\ wire[j].bar < Newest /\ wire[j].bar \in Nat
        BY <1>1, <1>3, <2>1, <2>3, <3>2 DEF WireOK
      <4>. QED BY <1>2, <1>6, <4>1
    <3>. QED BY <2>1, <2>2, <3>1, <3>2
  <2>4. ASSUME NEW j \in DOMAIN wire' PROVE wire'[j].live /\ wire'[j].final
    BY <1>1, <1>6, <2>1, <2>2 DEF WireOK
  <2>5. ASSUME NEW a \in DOMAIN wire', NEW b \in DOMAIN wire', a < b, wire'[a].closed,
                 wire'[b].closed
        PROVE  wire'[a].bar < wire'[b].bar
    <3>1. a \in 1 .. n /\ wire'[a] = wire[a]
      BY <2>1, <2>5
    <3>2. CASE b = n + 1
      <4>1. wire[a].bar < Newest
        BY <1>1, <2>1, <2>5, <3>1 DEF WireOK
      <4>. QED BY <1>6, <2>1, <2>5, <3>1, <3>2, <4>1
    <3>3. CASE b \in 1 .. n
      BY <1>1, <2>1, <2>5, <3>1, <3>3 DEF WireOK
    <3>. QED BY <2>1, <2>2, <3>2, <3>3
  <2>. QED BY <1>6, <2>3, <2>4, <2>5 DEF WireOK
<1>7. CASE Tick
  <2>1. Newest' \in Nat /\ Newest <= Newest' /\ ((now + 1) % Interval = 0 => Newest' = Newest + 1)
    BY <1>7, ClockFacts
  <2>2. CASE (now + 1) % Interval = 0 /\ subscribed
    <3>1. wire' = Append(wire, Live(Newest, TRUE)) /\ subscribed' = subscribed
      BY <1>7, <2>2 DEF Tick
    <3>2. Live(Newest, TRUE) \in LiveKlines /\ Live(Newest, TRUE).live /\
            Live(Newest, TRUE).bar = Newest /\ Live(Newest, TRUE).final
      BY LiveFacts
    <3>. QED BY <1>6, <2>1, <2>2, <3>1, <3>2
  <2>3. CASE ~ ((now + 1) % Interval = 0 /\ subscribed)
    <3>1. wire' = wire /\ subscribed' = subscribed
      BY <1>7, <2>3 DEF Tick
    <3>. QED BY <1>4, <2>1, <3>1
  <2>. QED BY <2>2, <2>3
<1>8. CASE Update
  <2>1. Live(Newest, FALSE) \in LiveKlines /\ Live(Newest, FALSE).live /\
          ~ Live(Newest, FALSE).closed /\ Live(Newest, FALSE).final
    BY LiveFacts
  <2>2. wire' = Append(wire, Live(Newest, FALSE)) /\ subscribed' = subscribed /\ subscribed /\
          now' = now
    BY <1>8 DEF Update
  <2>. QED BY <1>5, <1>6, <2>1, <2>2
<1>9. CASE Deliver
  <2>1. wire # <<>> /\ wire' = Tail(wire) /\ subscribed' = subscribed /\ now' = now
    BY <1>9 DEF Deliver
  <2>2. \A j \in DOMAIN wire' : j \in Nat /\ j + 1 \in DOMAIN wire /\ wire'[j] = wire[j + 1]
    BY <1>2, <2>1, TailFacts
  <2>3. Newest' = Newest
    BY <2>1 DEF Newest
  <2>4. subscribed
    BY <1>1, <2>1 DEF WireOK
  <2>5. ASSUME NEW a \in DOMAIN wire', NEW b \in DOMAIN wire', a < b, wire'[a].closed,
                 wire'[b].closed
        PROVE  wire'[a].bar < wire'[b].bar
    <3>1. a + 1 < b + 1
      BY <2>2, <2>5
    <3>. QED BY <1>1, <2>2, <2>5, <3>1 DEF WireOK
  <2>6. ASSUME NEW j \in DOMAIN wire' PROVE wire'[j].live /\ wire'[j].final
    BY <1>1, <2>2 DEF WireOK
  <2>8. ASSUME NEW j \in DOMAIN wire', wire'[j].closed PROVE wire'[j].bar < Newest'
    BY <1>1, <2>2, <2>3, <2>8 DEF WireOK
  <2>7. ~ subscribed' => wire' = <<>>
    BY <2>1, <2>4
  <2>. QED BY <2>5, <2>6, <2>7, <2>8 DEF WireOK
<1>10. CASE Subscribe
  <2>1. wire' = wire /\ now' = now /\ subscribed' /\ ~ subscribed
    BY <1>10 DEF Subscribe
  <2>2. wire = <<>>
    BY <1>1, <2>1 DEF WireOK
  <2>. QED BY <1>4, <1>5, <2>1, <2>2
<1>11. CASE UNCHANGED <<wire, now, subscribed>>
  BY <1>4, <1>5, <1>11
<1>12. UNCHANGED <<wire, now, subscribed>> \/ Tick \/ Update \/ Deliver \/ Subscribe
  BY RegisterFacts, RequestFacts
     DEF WarmupNext, Answer, Fetch, FetchFails, warmupVars, indicator, stream
<1>. QED BY <1>7, <1>8, <1>9, <1>10, <1>11, <1>12

\* A live kline is handed on: the closed bars stay in order.
LEMMA GivenDeliver ==
  ASSUME WarmupInv, Deliver
  PROVE  GivenOK'
<1>1. WarmupTypeOK /\ GivenOK /\ WireOK /\ PlaceOK
  BY DEF WarmupInv
<1>. HIDE DEF LiveKlines
<1>2. /\ wire \in Seq(LiveKlines) /\ wire # <<>> /\ handled \in Seq(LiveKlines)
      /\ wire' = Tail(wire)
      /\ UNCHANGED <<venue, native, now, subscribed, early, phase>> /\ ~ Requesting
  BY <1>1, DeliverFacts DEF WarmupTypeOK, loop
<1>. DEFINE k == Head(wire)
            n == Len(handled)
<1>3. /\ k \in LiveKlines /\ k = wire[1] /\ 1 \in DOMAIN wire
      /\ \A j \in DOMAIN wire' : j \in Nat /\ 1 < j + 1 /\ j + 1 \in DOMAIN wire /\
           wire'[j] = wire[j + 1]
  BY <1>2, TailFacts
<1>4. Newest' = Newest
  BY <1>2 DEF Newest
<1>. HIDE DEF k
<1>5. CASE handled' = handled
  <2>1. ASSUME ~ early', NEW a \in DOMAIN handled', NEW b \in DOMAIN wire',
               handled'[a].closed, wire'[b].closed
        PROVE  Later(handled'[a], wire'[b].bar)
    BY <1>1, <1>2, <1>3, <1>5, <2>1 DEF GivenOK
  <2>2. ~ native' => \A j \in DOMAIN wire' : wire'[j].closed
    BY <1>1, <1>2, <1>3 DEF GivenOK
  <2>. QED BY <1>1, <1>2, <1>4, <1>5, <2>1, <2>2 DEF Requesting, GivenOK
<1>6. CASE handled' = Append(handled, k)
  <2>1. /\ n \in Nat /\ DOMAIN handled = 1 .. n /\ DOMAIN handled' = 1 .. (n + 1)
        /\ \A j \in 1 .. n : handled'[j] = handled[j]
        /\ handled'[n + 1] = k
    BY <1>2, <1>3, <1>6, Appended
  <2>. HIDE DEF n
  <2>2. \A j \in 1 .. (n + 1) : j \in 1 .. n \/ j = n + 1
    BY <2>1
  <2>3. ASSUME NEW j \in DOMAIN handled', handled'[j].closed PROVE Later(handled'[j], Newest')
    <3>1. CASE j = n + 1
      BY <1>1, <1>3, <1>4, <2>1, <2>3, <3>1 DEF WireOK, Later
    <3>2. CASE j \in 1 .. n
      BY <1>1, <1>4, <2>1, <2>3, <3>2 DEF GivenOK
    <3>. QED BY <2>1, <2>2, <3>1, <3>2
  <2>4. ASSUME ~ native' PROVE \A j \in DOMAIN handled' : handled'[j].closed
    <3>1. k.closed /\ \A j \in 1 .. n : handled[j].closed
      BY <1>1, <1>2, <1>3, <2>1, <2>4 DEF GivenOK
    <3>. QED BY <2>1, <2>2, <3>1
  <2>5. ~ native' => \A j \in DOMAIN wire' : wire'[j].closed
    BY <1>1, <1>2, <1>3 DEF GivenOK
  <2>6. ASSUME ~ early', NEW a \in DOMAIN handled', NEW b \in DOMAIN handled', a < b,
               handled'[a].closed, handled'[b].closed
        PROVE  Later(handled'[a], handled'[b].bar)
    <3>1. a \in 1 .. n /\ handled'[a] = handled[a]
      BY <2>1, <2>6
    <3>2. CASE b = n + 1
      BY <1>1, <1>2, <1>3, <2>1, <2>6, <3>1, <3>2 DEF GivenOK
    <3>3. CASE b \in 1 .. n
      BY <1>1, <1>2, <2>1, <2>6, <3>1, <3>3 DEF GivenOK
    <3>. QED BY <2>1, <2>2, <3>2, <3>3
  <2>7. ASSUME ~ early', NEW a \in DOMAIN handled', NEW b \in DOMAIN wire',
               handled'[a].closed, wire'[b].closed
        PROVE  Later(handled'[a], wire'[b].bar)
    <3>1. b + 1 \in DOMAIN wire /\ wire'[b] = wire[b + 1] /\ 1 < b + 1
      BY <1>3
    <3>2. CASE a = n + 1
      <4>1. handled'[a] = wire[1] /\ 1 \in DOMAIN wire
        BY <1>3, <2>1, <3>2
      <4>. QED BY <1>1, <2>7, <3>1, <4>1 DEF WireOK, Later
    <3>3. CASE a \in 1 .. n
      BY <1>1, <1>2, <2>1, <2>7, <3>1, <3>3 DEF GivenOK
    <3>. QED BY <2>1, <2>2, <3>2, <3>3
  <2>8. ASSUME venue' = "okx" PROVE \A j \in DOMAIN handled' : handled'[j].final
    <3>1. k.final /\ \A j \in 1 .. n : handled[j].final
      BY <1>1, <1>2, <1>3, <2>1, <2>8 DEF GivenOK, WireOK
    <3>. QED BY <2>1, <2>2, <3>1
  <2>. QED BY <1>2, <2>3, <2>4, <2>5, <2>6, <2>7, <2>8 DEF Requesting, GivenOK
<1>7. handled' = handled \/ handled' = Append(handled, k)
  BY <1>1, DeliverFacts DEF WarmupTypeOK, k
<1>. QED BY <1>5, <1>6, <1>7

\* The history is handed on: its bars are closed ones, in order.
LEMMA GivenFetch ==
  ASSUME WarmupInv, Fetch
  PROVE  GivenOK'
<1>1. WarmupTypeOK /\ GivenOK /\ WireOK /\ PlaceOK /\ Newest \in Nat
  BY TimeFacts DEF WarmupInv, WarmupTypeOK, Newest
<1>. HIDE DEF LiveKlines
<1>2. UNCHANGED <<venue, native, now, wire, subscribed, early>> /\ phase = "answered" /\ Requesting
  BY DEF Fetch, stream, Requesting
<1>3. Newest' = Newest
  BY <1>2 DEF Newest
<1>4. CASE UNCHANGED <<place, count, warm, handled, warmBefore>>
  BY <1>1, <1>2, <1>3, <1>4 DEF GivenOK, Requesting
<1>5. CASE ~ UNCHANGED <<place, count, warm, handled, warmBefore>>
  <2>. DEFINE past == Past(collected', open', unripe')
  <2>1. /\ phase' = "done" /\ place = "pending"
        /\ \E c \in 0 .. Len(past) : handled' = First(past, c)
    BY <1>5, FetchStep
  <2>2. /\ collected' \in Seq(Nat) /\ InOrder(collected')
        /\ \A j \in DOMAIN collected' : Read(collected'[j])
        /\ venue = "okx" => unripe' = {}
    BY FetchStep
  <2>3. /\ past \in Seq(LiveKlines)
        /\ \A j \in DOMAIN past : /\ past[j].closed /\ past[j].bar \in ToSet(collected') \ open'
                                /\ past[j].final = (past[j].bar \notin unripe')
        /\ \A a, b \in DOMAIN past : a < b => past[a].bar < past[b].bar
    BY <2>2, PastFacts, Zenon
  <2>. HIDE DEF past
  <2>4. PICK c \in 0 .. Len(past) : handled' = First(past, c)
    BY <2>1
  <2>5. DOMAIN First(past, c) = 1 .. c
        /\ \A j \in 1 .. c : First(past, c)[j] = past[j] /\ j \in DOMAIN past
    BY <2>3, FirstFacts
  <2>6. \A j \in DOMAIN handled' : handled'[j] = past[j] /\ j \in DOMAIN past
    BY <2>4, <2>5
  <2>7. ASSUME NEW j \in DOMAIN handled'
        PROVE  handled'[j].closed /\ Later(handled'[j], Newest') /\ handled'[j].bar \in Nat
    <3>1. /\ handled'[j].closed /\ handled'[j].bar \in ToSet(collected') \ open'
          /\ handled'[j].final = (handled'[j].bar \notin unripe')
      BY <2>3, <2>6
    <3>2. PICK m \in DOMAIN collected' : collected'[m] = handled'[j].bar
      BY <3>1 DEF ToSet
    <3>3. /\ handled'[j].bar \in Nat /\ handled'[j].bar <= Newest
          /\ handled'[j].bar \in unripe' \/ handled'[j].bar < Newest
      BY <2>2, <3>1, <3>2 DEF Read
    <3>4. handled'[j].bar \in unripe' => ~ handled'[j].final
      BY <3>1, Zenon
    <3>5. handled'[j].bar < Newest' \/ (handled'[j].bar = Newest' /\ ~ handled'[j].final)
      BY <1>1, <1>3, <3>3, <3>4
    <3>. QED BY <3>1, <3>3, <3>5 DEF Later
  <2>8. \A a, b \in DOMAIN handled' : a < b => Later(handled'[a], handled'[b].bar)
    BY <2>3, <2>6 DEF Later
  <2>11. venue' = "okx" => \A j \in DOMAIN handled' : handled'[j].final
    BY <1>2, <2>2, <2>3, <2>6
  <2>9. ~ native' => \A j \in DOMAIN wire' : wire'[j].closed
    BY <1>1, <1>2 DEF GivenOK
  <2>10. ~ early' => wire' = <<>>
    BY <1>1, <1>2, <2>1 DEF GivenOK, WireOK
  <2>. QED BY <1>2, <2>1, <2>7, <2>8, <2>9, <2>10, <2>11 DEF GivenOK, Requesting
<1>. QED BY <1>4, <1>5

\* Every step keeps the closed bars an indicator was given in a row.
LEMMA GivenStep ==
  ASSUME WarmupInv, WarmupNext \/ UNCHANGED warmupVars
  PROVE  GivenOK'
<1>1. WarmupTypeOK /\ GivenOK /\ WireOK /\ PlaceOK
  BY DEF WarmupInv
<1>. HIDE DEF LiveKlines
<1>2. /\ wire \in Seq(LiveKlines) /\ handled \in Seq(LiveKlines) /\ Newest \in Nat
      /\ \A j \in DOMAIN handled : handled[j].bar \in Nat
  <2>1. \A k \in LiveKlines : k.bar \in Nat
    BY DEF LiveKlines
  <2>2. wire \in Seq(LiveKlines) /\ handled \in Seq(LiveKlines) /\ Newest \in Nat
    BY <1>1, TimeFacts DEF WarmupTypeOK, Newest
  <2>. QED BY <2>1, <2>2
<1>3. CASE Register
  <2>1. handled' = <<>> /\ wire' = wire /\ native' = native /\ subscribed' = subscribed
        /\ early' = subscribed
    BY <1>1, <1>3, RegisterFacts DEF PlaceOK
  <2>2. ~ native' => \A j \in DOMAIN wire' : wire'[j].closed
    BY <1>1, <2>1 DEF GivenOK
  <2>. QED BY <2>1, <2>2 DEF GivenOK, Requesting
<1>4. CASE RequestKlines
  <2>1. phase = "idle" /\ UNCHANGED <<venue, native, now, place, handled, subscribed, early, wire>>
    BY <1>4, RequestFacts DEF indicator, stream
  <2>2. place = "none" /\ Newest' = Newest
    BY <1>1, <2>1 DEF PlaceOK, Newest
  <2>. QED BY <1>1, <2>1, <2>2 DEF GivenOK, Requesting
<1>5. CASE FetchFails \/ Subscribe
  <2>1. /\ UNCHANGED <<venue, native, now, place, handled, early, wire>>
        /\ venue' = venue /\ ~ Requesting'
    BY <1>1, <1>5 DEF FetchFails, Subscribe, Requesting, indicator, stream, loop
  <2>2. Newest' = Newest
    BY <2>1 DEF Newest
  <2>. QED BY <1>1, <2>1, <2>2 DEF GivenOK, Requesting
<1>6. ASSUME NEW k \in LiveKlines, wire' = Append(wire, k), subscribed,
             UNCHANGED <<venue, native, place, handled, subscribed, early, phase>>,
             Newest' \in Nat, Newest <= Newest', k.closed => k.bar = Newest, ~ native => k.closed
      PROVE  GivenOK'
  <2>. DEFINE n == Len(wire)
  <2>1. /\ n \in Nat /\ DOMAIN wire = 1 .. n /\ DOMAIN wire' = 1 .. (n + 1)
        /\ \A j \in 1 .. n : wire'[j] = wire[j]
        /\ wire'[n + 1] = k
    BY <1>2, <1>6, Appended
  <2>. HIDE DEF n
  <2>2. \A j \in 1 .. (n + 1) : j \in 1 .. n \/ j = n + 1
    BY <2>1
  <2>3. ASSUME NEW j \in DOMAIN handled', handled'[j].closed PROVE Later(handled'[j], Newest')
    BY <1>1, <1>2, <1>6, <2>3 DEF GivenOK, Later
  <2>4. ASSUME ~ native' PROVE \A j \in DOMAIN wire' : wire'[j].closed
    <3>1. k.closed /\ \A j \in 1 .. n : wire[j].closed
      BY <1>1, <1>6, <2>1, <2>4 DEF GivenOK
    <3>. QED BY <2>1, <2>2, <3>1
  <2>5. ASSUME ~ early', NEW a \in DOMAIN handled', NEW b \in DOMAIN wire',
               handled'[a].closed, wire'[b].closed
        PROVE  Later(handled'[a], wire'[b].bar)
    <3>1. CASE b = n + 1
      BY <1>1, <1>6, <2>1, <2>5, <3>1 DEF GivenOK
    <3>2. CASE b \in 1 .. n
      BY <1>1, <1>6, <2>1, <2>5, <3>2 DEF GivenOK
    <3>. QED BY <2>1, <2>2, <3>1, <3>2
  <2>. QED BY <1>1, <1>6, <2>3, <2>4, <2>5 DEF GivenOK, Requesting
<1>7. CASE Tick
  <2>1. /\ Newest' \in Nat /\ Newest <= Newest'
        /\ UNCHANGED <<venue, native, place, handled, subscribed, early, phase>>
    BY <1>7, ClockFacts DEF Tick, indicator, loop
  <2>2. CASE (now + 1) % Interval = 0 /\ subscribed
    <3>1. wire' = Append(wire, Live(Newest, TRUE))
      BY <1>7, <2>2 DEF Tick
    <3>2. Live(Newest, TRUE) \in LiveKlines /\ Live(Newest, TRUE).closed /\
            Live(Newest, TRUE).bar = Newest
      BY LiveFacts
    <3>. QED BY <1>6, <2>1, <2>2, <3>1, <3>2
  <2>3. CASE ~ ((now + 1) % Interval = 0 /\ subscribed)
    <3>1. wire' = wire
      BY <1>7, <2>3 DEF Tick
    <3>2. ASSUME NEW j \in DOMAIN handled', handled'[j].closed PROVE Later(handled'[j], Newest')
      BY <1>1, <1>2, <2>1, <3>2 DEF GivenOK, Later
    <3>. QED BY <1>1, <2>1, <3>1, <3>2 DEF GivenOK, Requesting
  <2>. QED BY <2>2, <2>3
<1>8. CASE Update
  <2>1. Live(Newest, FALSE) \in LiveKlines /\ ~ Live(Newest, FALSE).closed
    BY LiveFacts
  <2>2. /\ wire' = Append(wire, Live(Newest, FALSE)) /\ native /\ subscribed
        /\ UNCHANGED <<venue, native, now, place, handled, subscribed, early, phase>>
    BY <1>8 DEF Update, indicator, loop
  <2>3. Newest' \in Nat /\ Newest <= Newest'
    BY <1>2, <2>2 DEF Newest
  <2>. QED BY <1>6, <2>1, <2>2, <2>3
<1>9. CASE UNCHANGED warmupVars
  <2>1. UNCHANGED <<venue, native, now, place, handled, subscribed, early, wire, phase>>
    BY <1>9 DEF warmupVars, indicator, stream, loop
  <2>2. Newest' = Newest
    BY <2>1 DEF Newest
  <2>. QED BY <1>1, <2>1, <2>2 DEF GivenOK, Requesting
<1>10. CASE Answer
  <2>1. /\ UNCHANGED <<venue, native, now, place, handled, subscribed, early, wire>>
        /\ Requesting
    BY <1>10 DEF Answer, Requesting, indicator, stream
  <2>2. Newest' = Newest
    BY <2>1 DEF Newest
  <2>. QED BY <1>1, <2>1, <2>2 DEF GivenOK
<1>. QED BY <1>3, <1>4, <1>5, <1>7, <1>8, <1>9, <1>10, GivenFetch, GivenDeliver DEF WarmupNext

-----------------------------------------------------------------------------
(* The theorems.                                                            *)

\* Every step of the model keeps the invariant.
THEOREM WarmupInvariance == WarmupSpec => []WarmupInv
<1>1. WarmupInv /\ [WarmupNext]_warmupVars => WarmupInv'
  BY TypeStep, LoopStep, PlaceStep, LiveStep, WireStep, GivenStep DEF WarmupInv
<1>. QED BY <1>1, WarmupInitKeeps, PTL DEF WarmupSpec

\* The variables keep their types: the counts, the bars and the klines of a
\* request and of an indicator are what the code stores.
THEOREM WarmupTypeCorrect == WarmupSpec => []WarmupTypeOK
<1>1. WarmupInv => WarmupTypeOK
  BY DEF WarmupInv
<1>. QED BY <1>1, WarmupInvariance, PTL

\* The loops of request_klines (binance, okx, bybit connector.py) return each bar
\* asked for once and in order, or the last "limit" of them, on every venue,
\* whatever begins between two pages.
THEOREM PagesFitTogether == WarmupSpec => []HistoryIsWhole
<1>1. WarmupInv => HistoryIsWhole
  BY DEF WarmupInv
<1>. QED BY <1>1, WarmupInvariance, PTL

\* IndicatorManager.on_kline (indicator.py) hands every live kline to an indicator
\* once, on the pending list, on the active one and on the way between them.
THEOREM NoLiveKlineTwice == WarmupSpec => []LiveIsHandledOnce
<1>1. WarmupInv => LiveIsHandledOnce
  BY DEF WarmupInv
<1>. QED BY <1>1, WarmupInvariance, PTL

\* Strategy._perform_indicator_warmup and on_kline: an indicator fed with closed
\* bars is warm after warmup_period of them, each later than the one before, or
\* the same bar where the history gave it, by the program's clock, before its end.
THEOREM WarmOnClosed == WarmupSpec => []WarmOnClosedBars
<1>1. ASSUME WarmupInv PROVE WarmOnClosedBars
  <2>1. WarmupTypeOK /\ PlaceOK /\ GivenOK
    BY <1>1 DEF WarmupInv
  <2>. DEFINE closed == {i \in DOMAIN handled : handled[i].closed}
              n == Len(handled)
  <2>. HIDE DEF LiveKlines
  <2>2. n \in Nat /\ DOMAIN handled = 1 .. n
    BY <2>1 DEF WarmupTypeOK
  <2>3. ASSUME warm, ~ native PROVE Cardinality(closed) >= period
    <3>1. closed = 1 .. n
      BY <2>1, <2>2, <2>3 DEF GivenOK
    <3>2. Cardinality(1 .. n) = n
      <4>1. 1 \in Int /\ n \in Int /\ Cardinality(1 .. n) = (IF 1 > n THEN 0 ELSE n - 1 + 1)
        BY <2>2, FS_Interval
      <4>. QED BY <2>2, <4>1
    <3>3. period <= count /\ count <= n /\ period \in Nat /\ count \in Nat
      BY <2>1, <2>3 DEF PlaceOK, WarmupTypeOK
    <3>. HIDE DEF closed, n
    <3>. QED BY <2>2, <3>1, <3>2, <3>3
  <2>4. ASSUME ~ early, NEW i \in closed, NEW j \in closed,
                 i < j PROVE Later(handled[i], handled[j].bar)
    BY <2>1, <2>4 DEF GivenOK
  <2>5. venue = "okx" => \A i \in closed : handled[i].final
    BY <2>1 DEF GivenOK
  <2>. QED BY <2>3, <2>4, <2>5 DEF WarmOnClosedBars
<1>. QED BY <1>1, WarmupInvariance, PTL
=============================================================================
