-------------------------- MODULE MarketDataProofs --------------------------
(***************************************************************************)
(* Proofs about what carries market data and what is made of it.           *)
(*                                                                         *)
(* The WebSocket client and the subscription manager in front of it, for   *)
(* every set of topics and requests and every limit on topics per          *)
(* connection and on connections: the client is proved about on its own    *)
(* (Spec), and the manager is shown to drive it only as that specification *)
(* lets it be driven (SmsSpec implements Spec), which carries the client's *)
(* invariants over.                                                        *)
(*                                                                         *)
(* The klines built from trades, for every threshold and all prices and    *)
(* sizes: no volume kline is short of its threshold or above it, however   *)
(* many of them one trade fills, and the two aggregators of a symbol count *)
(* the same trades.                                                        *)
(***************************************************************************)
EXTENDS Subscriptions, Klines, FoldLemmas

-----------------------------------------------------------------------------
(* The invariants of the client and of the manager.                         *)

ClientTypeOK ==
  /\ private \in BOOLEAN /\ started \in BOOLEAN /\ ready \in BOOLEAN /\ allow \in BOOLEAN
  /\ subscriptions \subseteq Topics /\ stranded \subseteq Topics
  /\ assigned \in [ClientIds -> SUBSET Topics]
  /\ serving \in [ClientIds -> SUBSET Topics]
  /\ nextClient \in 0 .. MaxClients
  /\ pc \in [ClientIds -> {"off", "connecting", "auth", "wait", "backoff"}]
  /\ transport \in [ClientIds -> {"none", "up", "down"}]
  /\ connectedState \in [ClientIds -> BOOLEAN]
  /\ loggedIn \in [ClientIds -> BOOLEAN]
  /\ drops \in Nat

\* The registrations: a topic is on one connection, which has been made, and
\* the set of subscriptions is what the connections carry.
Disjoint(asg) == \A c, d \in ClientIds : c # d => asg[c] \cap asg[d] = {}
Unmade(asg, n) == \A c \in ClientIds : c >= n => asg[c] = {}

RegistrationsOK ==
  /\ Disjoint(assigned)
  /\ Unmade(assigned, nextClient)
  /\ subscriptions = UNION {assigned[c] : c \in ClientIds}

\* The loop of a connection stands where the engine's registry and the
\* transport say it does.
LoopsOK ==
  \A c \in ClientIds :
    /\ pc[c] = "off" <=> ~ started \/ c >= nextClient
    /\ connectedState[c] <=> pc[c] \in {"auth", "wait"}
    /\ pc[c] \in {"auth", "wait"} => transport[c] # "none"
    /\ transport[c] = "up" => pc[c] \in {"auth", "wait"}
    /\ pc[c] = "auth" => private

PolicyOK == allow => PolicyAllows(connectedState, nextClient)

\* What the venue sends, on an open connection and on any other.
ServingOK ==
  /\ \A c \in ClientIds : serving[c] \subseteq assigned[c]
  /\ \A c \in ClientIds : transport[c] # "up" => serving[c] = {}
  /\ \A c \in ClientIds :
       pc[c] = "wait" /\ transport[c] = "up" => assigned[c] \ stranded \subseteq serving[c]

ClientInv == ClientTypeOK /\ RegistrationsOK /\ LoopsOK /\ PolicyOK /\ ServingOK

\* The queues of the manager.
QueuesOK ==
  /\ subQueue \in Seq(Requests) /\ unsubQueue \in Seq(Requests)
  /\ private => subQueue = <<>> /\ unsubQueue = <<>>

\* A topic whose requests did not cross is queued on one side at most, the
\* side of its last request, and registered accordingly once it is on none.
TopicsOK ==
  ~ private /\ alive = Handlers
  => \A t \in Topics \ overlapped :
       /\ t \in TopicsIn(subQueue) => t \in wanted /\ t \notin TopicsIn(unsubQueue)
       /\ t \in TopicsIn(unsubQueue) => t \notin wanted
       /\ t \notin TopicsIn(subQueue) \cup TopicsIn(unsubQueue)
          => (t \in wanted <=> t \in subscriptions)

SmsInv == QueuesOK /\ TopicsOK /\ wanted \subseteq Topics

-----------------------------------------------------------------------------
(* The registration loop.                                                   *)

\* The states of the loop: everything placed before stays where it was.
RegSet ==
  {r \in [asg : [ClientIds -> SUBSET Topics], n : nextClient .. MaxClients, full : BOOLEAN] :
     /\ Disjoint(r.asg) /\ Unmade(r.asg, r.n)
     /\ \A c \in ClientIds : assigned[c] \subseteq r.asg[c]}

\* What is registered before a call of subscribe is regular.
LEMMA RegIsRegular ==
  ASSUME ClientTypeOK, RegistrationsOK
  PROVE  Reg \in RegSet /\ Known(Reg) = subscriptions /\ Reg.full = FALSE
<1>. USE WsClientAssumption
<1>1. nextClient \in nextClient .. MaxClients
  BY DEF ClientTypeOK
<1>. QED BY <1>1 DEF ClientTypeOK, RegistrationsOK, Reg, RegSet, Known

\* A new topic gets a place, if there is one left, and takes no other's.
LEMMA PlaceNewKeeps ==
  ASSUME ClientTypeOK, NEW r \in RegSet, NEW t \in Topics, t \notin Known(r), r.full = FALSE
  PROVE  /\ PlaceNew(r, t) \in RegSet
         /\ Known(r) \subseteq Known(PlaceNew(r, t))
         /\ Known(PlaceNew(r, t)) \subseteq Known(r) \cup {t}
         /\ ~ PlaceNew(r, t).full => t \in Known(PlaceNew(r, t))
<1>. USE WsClientAssumption DEF ClientIds
<1>1. r.asg \in [ClientIds -> SUBSET Topics] /\ r.n \in nextClient .. MaxClients
      /\ r = [asg |-> r.asg, n |-> r.n, full |-> r.full]
  BY DEF RegSet
<1>2. nextClient \in Nat /\ MaxClients \in Nat /\ r.n \in 0 .. MaxClients
  BY <1>1 DEF ClientTypeOK
<1>3. CASE Roomy(r) # {}
  <2>. DEFINE m == Min(Roomy(r))
              p == PlaceNew(r, t)
  <2>1. Roomy(r) \subseteq 0 .. r.n - 1
    BY DEF Roomy
  <2>2. Roomy(r) \subseteq Nat
    BY <1>2, <2>1
  <2>3. m \in Roomy(r)
    BY <1>3, <2>2, MinFacts
  <2>4. m \in ClientIds /\ m < r.n
    BY <1>2, <2>1, <2>3
  <2>5. p = [r EXCEPT !.asg[m] = @ \cup {t}]
    BY <1>3 DEF PlaceNew
  <2>. HIDE DEF m, p
  <2>6. p.asg = [r.asg EXCEPT ![m] = @ \cup {t}] /\ p.n = r.n /\ p.full = r.full
        /\ p \in [asg : [ClientIds -> SUBSET Topics], n : nextClient .. MaxClients, full : BOOLEAN]
    BY <1>1, <2>4, <2>5 DEF RegSet
  <2>7. \A c \in ClientIds : p.asg[c] = IF c = m THEN r.asg[c] \cup {t} ELSE r.asg[c]
    BY <1>1, <2>4, <2>6
  <2>8. Disjoint(p.asg)
    <3>1. Disjoint(r.asg) /\ \A c \in ClientIds : t \notin r.asg[c]
      BY DEF RegSet, Known
    <3>. QED BY <2>7, <3>1 DEF Disjoint
  <2>9. Unmade(p.asg, p.n)
    BY <1>2, <2>4, <2>6, <2>7 DEF Unmade, RegSet
  <2>10. \A c \in ClientIds : assigned[c] \subseteq p.asg[c]
    BY <2>7 DEF RegSet
  <2>11. Known(p) = Known(r) \cup {t}
    BY <2>4, <2>7 DEF Known
  <2>12. p \in RegSet
    BY <2>6, <2>8, <2>9, <2>10 DEF RegSet
  <2>. QED BY <2>11, <2>12 DEF p
<1>4. CASE Roomy(r) = {} /\ r.n < MaxClients
  <2>. DEFINE p == PlaceNew(r, t)
  <2>1. r.n \in ClientIds
    BY <1>2, <1>4
  <2>2. p = [r EXCEPT !.asg[r.n] = {t}, !.n = @ + 1]
    BY <1>4 DEF PlaceNew
  <2>. HIDE DEF p
  <2>3. p.asg = [r.asg EXCEPT ![r.n] = {t}] /\ p.n = r.n + 1 /\ p.full = r.full
        /\ p = [asg |-> p.asg, n |-> p.n, full |-> p.full]
    BY <1>1, <2>1, <2>2 DEF RegSet
  <2>4. p.n \in nextClient .. MaxClients
    BY <1>1, <1>2, <1>4, <2>3
  <2>5. \A c \in ClientIds : p.asg[c] = IF c = r.n THEN {t} ELSE r.asg[c]
    BY <1>1, <2>1, <2>3
  <2>6. r.asg[r.n] = {}
    BY <1>2, <2>1 DEF RegSet, Unmade
  <2>7. Disjoint(p.asg)
    BY <2>5 DEF Disjoint, Known, RegSet
  <2>8. Unmade(p.asg, p.n)
    BY <1>2, <2>3, <2>5 DEF Unmade, RegSet
  <2>9. \A c \in ClientIds : assigned[c] \subseteq p.asg[c]
    BY <2>5, <2>6 DEF RegSet
  <2>10. Known(p) = Known(r) \cup {t}
    BY <2>1, <2>5, <2>6 DEF Known
  <2>11. p \in [asg : [ClientIds -> SUBSET Topics], n : nextClient .. MaxClients, full : BOOLEAN]
    BY <1>1, <2>3, <2>4 DEF RegSet
  <2>12. p \in RegSet
    BY <2>7, <2>8, <2>9, <2>11 DEF RegSet
  <2>. QED BY <2>10, <2>12 DEF p
<1>5. CASE Roomy(r) = {} /\ ~ (r.n < MaxClients)
  <2>1. PlaceNew(r, t) = [r EXCEPT !.full = TRUE]
    BY <1>5 DEF PlaceNew
  <2>2. PlaceNew(r, t) = [asg |-> r.asg, n |-> r.n, full |-> TRUE]
    BY <1>1, <2>1
  <2>. QED BY <2>2 DEF RegSet, Known
<1>. QED BY <1>3, <1>4, <1>5

\* A topic gets a place, and one that has a place keeps it.
LEMMA PlaceKeeps ==
  ASSUME ClientTypeOK, NEW r \in RegSet, NEW t \in Topics
  PROVE  /\ Place(r, t) \in RegSet
         /\ Known(r) \subseteq Known(Place(r, t))
         /\ Known(Place(r, t)) \subseteq Known(r) \cup {t}
         /\ ~ Place(r, t).full => ~ r.full /\ t \in Known(Place(r, t))
<1>1. r.full \in BOOLEAN
  BY DEF RegSet
<1>2. CASE r.full \/ t \in Known(r)
  BY <1>2 DEF Place
<1>3. CASE ~ (r.full \/ t \in Known(r))
  <2>1. Place(r, t) = PlaceNew(r, t)
    BY <1>3 DEF Place
  <2>2. r.full = FALSE /\ t \notin Known(r)
    BY <1>1, <1>3
  <2>3. /\ PlaceNew(r, t) \in RegSet
        /\ Known(r) \subseteq Known(PlaceNew(r, t))
        /\ Known(PlaceNew(r, t)) \subseteq Known(r) \cup {t}
        /\ ~ PlaceNew(r, t).full => t \in Known(PlaceNew(r, t))
    BY <2>2, PlaceNewKeeps, Zenon
  <2>. QED BY <2>1, <2>2, <2>3
<1>. QED BY <1>2, <1>3

\* What one call of _register_subscriptions leaves: nothing is moved or lost,
\* and unless it ran into max_clients every topic asked for has a connection.
LEMMA RegisterFacts ==
  ASSUME ClientTypeOK, RegistrationsOK, NEW ts \in Seq(Topics)
  PROVE  /\ RegisterSubscriptions(ts) \in RegSet
         /\ Known(RegisterSubscriptions(ts)) \subseteq subscriptions \cup ToSet(ts)
         /\ subscriptions \subseteq Known(RegisterSubscriptions(ts))
         /\ ~ RegisterSubscriptions(ts).full
            => Known(RegisterSubscriptions(ts)) = subscriptions \cup ToSet(ts)
<1>. DEFINE n == Len(ts)
            IsFold(g) == g = [s \in SUBSET DOMAIN ts |->
                                IF s = {} THEN Reg ELSE Place(g[s \ {Max(s)}], ts[Max(s)])]
            f == CHOOSE g : IsFold(g)
            step == [p \in RegSet \X (1 .. n) |-> Place(p[1], ts[p[2]])]
<1>1. DOMAIN ts = 1 .. n /\ n \in Nat /\ \A i \in 1 .. n : ts[i] \in Topics
  OBVIOUS
<1>2. RegisterSubscriptions(ts) = f[DOMAIN ts]
  BY DEF RegisterSubscriptions, FoldLeft, MapThenFoldSet
<1>3. \E g : IsFold(g)
  <2>1. step \in [RegSet \X (1 .. n) -> RegSet]
    BY <1>1, PlaceKeeps
  <2>2. Reg \in RegSet
    BY RegIsRegular
  <2>3. \A r \in RegSet, i \in 1 .. n : step[<<r, i>>] = Place(r, ts[i])
    OBVIOUS
  <2>. HIDE DEF step, n
  <2>4. PICK g \in [SUBSET (1 .. n) -> RegSet] : IsMaxRecursion(g, n, Reg, step)
    BY <1>1, <2>1, <2>2, MaxRecursion, Zenon
  <2>5. ASSUME NEW s \in SUBSET (1 .. n)
        PROVE  g[s] = IF s = {} THEN Reg ELSE Place(g[s \ {Max(s)}], ts[Max(s)])
    <3>1. CASE s = {}
      BY <2>4, <3>1 DEF IsMaxRecursion
    <3>2. CASE s # {}
      <4>1. Max(s) \in s
        BY <1>1, <3>2, MaxFacts
      <4>2. Max(s) \in 1 .. n /\ g[s \ {Max(s)}] \in RegSet
        BY <4>1
      <4>3. g[s] = step[<<g[s \ {Max(s)}], Max(s)>>]
        BY <2>4, <3>2 DEF IsMaxRecursion
      <4>. QED BY <2>3, <3>2, <4>2, <4>3
    <3>. QED BY <3>1, <3>2
  <2>6. IsFold(g)
    BY <1>1, <2>5
  <2>. HIDE DEF IsFold
  <2>. QED BY <2>6
<1>4. IsFold(f)
  <2>. HIDE DEF IsFold
  <2>. QED BY <1>3
<1>. HIDE DEF f
<1>5. f[1 .. 0] = Reg
  <2>1. 1 .. 0 = {} /\ 1 .. 0 \in SUBSET (1 .. n)
    BY <1>1
  <2>. QED BY <1>1, <1>4, <2>1
<1>6. ASSUME NEW i \in 1 .. n PROVE f[1 .. i] = Place(f[1 .. (i - 1)], ts[i])
  <2>1. Max(1 .. i) = i /\ (1 .. i) \ {i} = 1 .. (i - 1)
    BY <1>1, MaxOfInterval
  <2>2. 1 .. i \in SUBSET (1 .. n) /\ 1 .. i # {}
    BY <1>1
  <2>3. f[1 .. i] = Place(f[(1 .. i) \ {Max(1 .. i)}], ts[Max(1 .. i)])
    BY <1>1, <1>4, <2>2
  <2>. QED BY <2>1, <2>3
<1>. HIDE DEF IsFold
<1>. DEFINE Upto(i) ==
       /\ f[1 .. i] \in RegSet
       /\ Known(f[1 .. i]) \subseteq subscriptions \cup ToSet(ts)
       /\ subscriptions \subseteq Known(f[1 .. i])
       /\ ~ f[1 .. i].full => \A j \in 1 .. i : ts[j] \in Known(f[1 .. i])
     Done == {i \in Nat : i <= n => Upto(i)}
<1>7. Upto(0)
  BY <1>5, RegIsRegular
<1>8. ASSUME NEW i \in Nat, i + 1 <= n, Upto(i) PROVE Upto(i + 1)
  <2>1. i + 1 \in 1 .. n /\ (i + 1) - 1 = i
    BY <1>1, <1>8
  <2>2. f[1 .. (i + 1)] = Place(f[1 .. i], ts[i + 1])
    BY <1>6, <2>1
  <2>3. ts[i + 1] \in Topics /\ ts[i + 1] \in ToSet(ts)
    BY <1>1, <2>1 DEF ToSet
  <2>4. /\ f[1 .. (i + 1)] \in RegSet
        /\ Known(f[1 .. i]) \subseteq Known(f[1 .. (i + 1)])
        /\ Known(f[1 .. (i + 1)]) \subseteq Known(f[1 .. i]) \cup {ts[i + 1]}
        /\ ~ f[1 .. (i + 1)].full => ~ f[1 .. i].full /\ ts[i + 1] \in Known(f[1 .. (i + 1)])
    <3>1. f[1 .. i] \in RegSet
      BY <1>8
    <3>. HIDE DEF Upto, Done
    <3>2. /\ Place(f[1 .. i], ts[i + 1]) \in RegSet
          /\ Known(f[1 .. i]) \subseteq Known(Place(f[1 .. i], ts[i + 1]))
          /\ Known(Place(f[1 .. i], ts[i + 1])) \subseteq Known(f[1 .. i]) \cup {ts[i + 1]}
          /\ ~ Place(f[1 .. i], ts[i + 1]).full
             => ~ f[1 .. i].full /\ ts[i + 1] \in Known(Place(f[1 .. i], ts[i + 1]))
      BY <2>3, <3>1, PlaceKeeps, Zenon
    <3>. QED BY <2>2, <3>2
  <2>5. \A j \in 1 .. (i + 1) : j \in 1 .. i \/ j = i + 1
    OBVIOUS
  <2>. QED BY <1>8, <2>3, <2>4, <2>5
<1>. HIDE DEF Upto
<1>9. n \in Done
  <2>1. 0 \in Done
    BY <1>7
  <2>2. ASSUME NEW i \in Nat, i \in Done PROVE i + 1 \in Done
    BY <1>1, <1>8, <2>2
  <2>. HIDE DEF Done
  <2>. QED BY <1>1, <2>1, <2>2, NatSetInduction
<1>10. Upto(n)
  BY <1>1, <1>9
<1>11. ~ f[1 .. n].full => Known(f[1 .. n]) = subscriptions \cup ToSet(ts)
  BY <1>1, <1>10 DEF Upto, ToSet
<1>. QED BY <1>1, <1>2, <1>10, <1>11 DEF Upto

-----------------------------------------------------------------------------
(* The client, action by action.                                            *)

LEMMA ClientInit == Init => ClientInv
<1>. SUFFICES ASSUME Init PROVE ClientInv
  OBVIOUS
<1>. USE WsClientAssumption DEF Init
<1>1. ClientTypeOK
  <2>1. 0 \in 0 .. MaxClients
    OBVIOUS
  <2>2. /\ assigned \in [ClientIds -> SUBSET Topics] /\ serving \in [ClientIds -> SUBSET Topics]
        /\ connectedState \in [ClientIds -> BOOLEAN] /\ loggedIn \in [ClientIds -> BOOLEAN]
    OBVIOUS
  <2>. QED BY <2>1, <2>2 DEF ClientTypeOK
<1>2. RegistrationsOK
  BY DEF RegistrationsOK, Disjoint, Unmade
<1>3. LoopsOK
  BY DEF LoopsOK
<1>4. PolicyOK /\ ServingOK
  BY DEF PolicyOK, ServingOK
<1>. QED BY <1>1, <1>2, <1>3, <1>4 DEF ClientInv

\* subscribe: the topics are registered and sent to the open connections.
LEMMA SubscribeKeeps ==
  ASSUME ClientInv, MayRequest, NEW ts \in Requests, Subscribe(ts)
  PROVE  ClientInv'
<1>. USE WsClientAssumption DEF ClientIds
<1>. DEFINE reg == RegisterSubscriptions(ts)
            fresh(c) == reg.asg[c] \ assigned[c]
<1>1. ts \in Seq(Topics)
  OBVIOUS
<1>2. /\ reg \in RegSet
      /\ Known(reg) \subseteq subscriptions \cup ToSet(ts)
      /\ subscriptions \subseteq Known(reg)
      /\ ~ reg.full => Known(reg) = subscriptions \cup ToSet(ts)
  BY <1>1, RegisterFacts DEF ClientInv
<1>3. /\ assigned' = reg.asg /\ nextClient' = reg.n /\ subscriptions' = Known(reg)
      /\ serving' = [c \in ClientIds |-> IF ~ reg.full /\ Accepts(c)
                                         THEN serving[c] \cup fresh(c) ELSE serving[c]]
      /\ stranded' = IF reg.full THEN stranded \cup UNION {fresh(c) : c \in ClientIds} ELSE stranded
      /\ pc' = [c \in ClientIds |-> IF started /\ c \in nextClient .. reg.n - 1
                                    THEN "connecting" ELSE pc[c]]
      /\ allow' = (allow /\ reg.n = nextClient)
      /\ UNCHANGED <<started, ready, transport, loggedIn, drops, private, connectedState>>
  BY DEF Subscribe
<1>. HIDE DEF reg
<1>4. /\ reg.asg \in [ClientIds -> SUBSET Topics] /\ reg.n \in nextClient .. MaxClients
      /\ reg.full \in BOOLEAN /\ Disjoint(reg.asg) /\ Unmade(reg.asg, reg.n)
      /\ \A c \in ClientIds : assigned[c] \subseteq reg.asg[c]
  BY <1>2 DEF RegSet
<1>5. nextClient \in 0 .. MaxClients /\ reg.n \in 0 .. MaxClients
  BY <1>4 DEF ClientInv, ClientTypeOK
<1>6. ClientTypeOK'
  <2>1. \A c \in ClientIds : fresh(c) \subseteq Topics
    BY <1>4
  <2>2. stranded' \subseteq Topics
    BY <1>3, <2>1 DEF ClientInv, ClientTypeOK
  <2>3. serving' \in [ClientIds -> SUBSET Topics]
    BY <1>3, <2>1 DEF ClientInv, ClientTypeOK
  <2>4. subscriptions' \subseteq Topics
    BY <1>3, <1>4 DEF Known
  <2>5. pc' \in [ClientIds -> {"off", "connecting", "auth", "wait", "backoff"}]
    BY <1>3 DEF ClientInv, ClientTypeOK
  <2>6. allow' \in BOOLEAN
    BY <1>3 DEF ClientInv, ClientTypeOK
  <2>. QED BY <1>3, <1>4, <1>5, <2>2, <2>3, <2>4, <2>5, <2>6 DEF ClientInv, ClientTypeOK
<1>7. RegistrationsOK'
  BY <1>3, <1>4 DEF RegistrationsOK, Known, Disjoint, Unmade
<1>8. LoopsOK'
  <2>. SUFFICES ASSUME NEW c \in ClientIds
                PROVE  /\ pc'[c] = "off" <=> ~ started \/ c >= reg.n
                       /\ connectedState[c] <=> pc'[c] \in {"auth", "wait"}
                       /\ pc'[c] \in {"auth", "wait"} => transport[c] # "none"
                       /\ transport[c] = "up" => pc'[c] \in {"auth", "wait"}
                       /\ pc'[c] = "auth" => private
    BY <1>3 DEF LoopsOK
  <2>1. /\ pc[c] = "off" <=> ~ started \/ c >= nextClient
        /\ connectedState[c] <=> pc[c] \in {"auth", "wait"}
        /\ pc[c] \in {"auth", "wait"} => transport[c] # "none"
        /\ transport[c] = "up" => pc[c] \in {"auth", "wait"}
        /\ pc[c] = "auth" => private
    BY DEF ClientInv, LoopsOK
  <2>2. pc'[c] = IF started /\ c \in nextClient .. reg.n - 1 THEN "connecting" ELSE pc[c]
    BY <1>3
  <2>3. CASE started /\ c \in nextClient .. reg.n - 1
    BY <1>5, <2>1, <2>2, <2>3
  <2>4. CASE ~ (started /\ c \in nextClient .. reg.n - 1)
    BY <1>4, <1>5, <2>1, <2>2, <2>4
  <2>. QED BY <2>3, <2>4
<1>9. PolicyOK'
  BY <1>3 DEF ClientInv, PolicyOK, PolicyAllows
<1>10. ServingOK'
  <2>. SUFFICES ASSUME NEW c \in ClientIds
                PROVE  /\ serving'[c] \subseteq assigned'[c]
                       /\ transport[c] # "up" => serving'[c] = {}
                       /\ pc'[c] = "wait" /\ transport[c] = "up"
                          => assigned'[c] \ stranded' \subseteq serving'[c]
    BY <1>3 DEF ServingOK
  <2>1. /\ serving[c] \subseteq assigned[c]
        /\ transport[c] # "up" => serving[c] = {}
        /\ pc[c] = "wait" /\ transport[c] = "up" => assigned[c] \ stranded \subseteq serving[c]
    BY DEF ClientInv, ServingOK
  <2>2. serving'[c] = IF ~ reg.full /\ Accepts(c) THEN serving[c] \cup fresh(c) ELSE serving[c]
    BY <1>3
  <2>3. assigned[c] \subseteq assigned'[c] /\ fresh(c) = assigned'[c] \ assigned[c]
    BY <1>3, <1>4
  <2>4. transport[c] # "up" => serving'[c] = {}
    BY <2>1, <2>2 DEF Accepts
  <2>5. ASSUME pc'[c] = "wait", transport[c] = "up"
        PROVE  assigned'[c] \ stranded' \subseteq serving'[c]
    <3>1. pc[c] = "wait"
      BY <1>3, <2>5
    <3>2. ~ private
      BY <3>1 DEF MayRequest, ClientInv, LoopsOK
    <3>3. Accepts(c)
      BY <2>5, <3>2 DEF Accepts
    <3>4. reg.full => fresh(c) \subseteq stranded' /\ stranded \subseteq stranded'
      BY <1>3
    <3>. QED BY <1>3, <2>1, <2>2, <2>3, <2>5, <3>1, <3>3, <3>4
  <2>. QED BY <2>1, <2>2, <2>3, <2>4, <2>5
<1>. QED BY <1>6, <1>7, <1>8, <1>9, <1>10 DEF ClientInv

\* unsubscribe: the topics are taken off their connections.
LEMMA UnsubscribeKeeps ==
  ASSUME ClientInv, NEW ts \in Requests, Unsubscribe(ts)
  PROVE  ClientInv'
<1>. USE DEF Unsubscribe, clientVars, loopVars, policyVars
<1>1. ClientTypeOK'
  BY DEF ClientInv, ClientTypeOK
<1>2. RegistrationsOK'
  <2>1. \A c \in ClientIds : assigned'[c] = assigned[c] \ ToSet(ts)
    OBVIOUS
  <2>2. Disjoint(assigned')
    BY <2>1 DEF ClientInv, RegistrationsOK, Disjoint
  <2>3. Unmade(assigned', nextClient')
    BY <2>1 DEF ClientInv, RegistrationsOK, Unmade
  <2>4. subscriptions' = UNION {assigned'[c] : c \in ClientIds}
    BY <2>1 DEF ClientInv, RegistrationsOK
  <2>. QED BY <2>2, <2>3, <2>4 DEF RegistrationsOK
<1>3. LoopsOK'
  BY DEF ClientInv, LoopsOK
<1>4. PolicyOK'
  BY DEF ClientInv, PolicyOK, PolicyAllows
<1>5. ServingOK'
  <2>1. \A c \in ClientIds : /\ assigned'[c] = assigned[c] \ ToSet(ts)
                             /\ serving'[c] = serving[c] \ ToSet(ts)
    OBVIOUS
  <2>. QED BY <2>1 DEF ClientInv, ServingOK
<1>. QED BY <1>1, <1>2, <1>3, <1>4, <1>5 DEF ClientInv

\* connect: the tasks of the connections are started.
LEMMA ConnectKeeps ==
  ASSUME ClientInv, Connect
  PROVE  ClientInv'
<1>. USE WsClientAssumption DEF Connect, linkVars, policyVars
<1>0. /\ nextClient \in 0 .. MaxClients
      /\ nextClient' = IF nextClient = 0 THEN 1 ELSE nextClient
      /\ \A c \in ClientIds : pc[c] = "off" /\ c \in Nat
      /\ \A c \in ClientIds : pc'[c] = IF c < nextClient' THEN "connecting" ELSE pc[c]
  BY DEF ClientInv, ClientTypeOK, LoopsOK, ClientIds
<1>1. ClientTypeOK'
  BY <1>0 DEF ClientInv, ClientTypeOK
<1>2. RegistrationsOK'
  BY <1>0 DEF ClientInv, RegistrationsOK, Disjoint, Unmade
<1>3. LoopsOK'
  BY <1>0 DEF ClientInv, LoopsOK
<1>4. PolicyOK'
  <2>1. ~ allow
    <3>. SUFFICES ASSUME allow PROVE FALSE
      OBVIOUS
    <3>1. nextClient > 0 /\ \A c \in 0 .. nextClient - 1 : connectedState[c]
      BY DEF ClientInv, PolicyOK, PolicyAllows
    <3>2. 0 \in ClientIds /\ 0 \in 0 .. nextClient - 1
      BY <1>0, <3>1 DEF ClientIds
    <3>. QED BY <1>0, <3>1, <3>2 DEF ClientInv, LoopsOK
  <2>. QED BY <2>1 DEF PolicyOK
<1>5. ServingOK'
  BY <1>0 DEF ClientInv, ServingOK
<1>. QED BY <1>1, <1>2, <1>3, <1>4, <1>5 DEF ClientInv

\* A step that moves one loop past or into its connection reports the change.
LEMMA NotifyKeepsPolicy ==
  ASSUME ClientTypeOK, NEW c \in ClientIds, NEW b \in BOOLEAN, NotifyConnectionChange(c, b),
         nextClient' = nextClient
  PROVE  /\ connectedState' \in [ClientIds -> BOOLEAN] /\ allow' \in BOOLEAN
         /\ \A d \in ClientIds : connectedState'[d] = IF d = c THEN b ELSE connectedState[d]
         /\ PolicyOK'
BY DEF ClientTypeOK, NotifyConnectionChange, PolicyOK, PolicyAllows

\* A connection is open.
LEMMA ConnectOkKeeps ==
  ASSUME ClientInv, NEW c \in ClientIds, ConnectOk(c)
  PROVE  ClientInv'
<1>. USE DEF ConnectOk
<1>1. /\ connectedState' \in [ClientIds -> BOOLEAN] /\ allow' \in BOOLEAN
      /\ \A d \in ClientIds : connectedState'[d] = IF d = c THEN TRUE ELSE connectedState[d]
      /\ PolicyOK'
  BY NotifyKeepsPolicy DEF ClientInv
<1>2. ClientTypeOK'
  BY <1>1 DEF ClientInv, ClientTypeOK
<1>3. RegistrationsOK'
  BY DEF ClientInv, RegistrationsOK
<1>4. LoopsOK'
  BY <1>1 DEF ClientInv, ClientTypeOK, LoopsOK
<1>5. ServingOK'
  <2>1. pc[c] = "connecting" /\ transport[c] # "up" /\ serving[c] = {}
    BY DEF ClientInv, LoopsOK, ServingOK
  <2>2. CASE private /\ assigned[c] # {}
    BY <2>1, <2>2 DEF ClientInv, ClientTypeOK, ServingOK
  <2>3. CASE ~ (private /\ assigned[c] # {})
    <3>1. \A d \in ClientIds : serving'[d] = IF d = c THEN assigned[c] ELSE serving[d]
      BY <2>3 DEF ClientInv, ClientTypeOK
    <3>2. \A d \in ClientIds : d # c => assigned[d] \cap assigned[c] = {}
      BY DEF ClientInv, RegistrationsOK, Disjoint
    <3>3. stranded' = stranded \ assigned[c]
      BY <2>3
    <3>4. \A d \in ClientIds : d # c => assigned[d] \ stranded' = assigned[d] \ stranded
      BY <3>2, <3>3
    <3>. QED BY <2>3, <3>1, <3>4 DEF ClientInv, ClientTypeOK, ServingOK
  <2>. QED BY <2>2, <2>3
<1>. QED BY <1>1, <1>2, <1>3, <1>4, <1>5 DEF ClientInv

\* ConnectFail and Retry move a loop that is not connected, and nothing else.
LEMMA AttemptKeeps ==
  ASSUME ClientInv, NEW c \in ClientIds, ConnectFail(c) \/ Retry(c)
  PROVE  ClientInv'
<1>. USE DEF ConnectFail, Retry, clientVars, linkVars, policyVars
<1>1. ClientTypeOK'
  BY DEF ClientInv, ClientTypeOK
<1>2. RegistrationsOK'
  BY DEF ClientInv, RegistrationsOK
<1>3. LoopsOK'
  BY DEF ClientInv, ClientTypeOK, LoopsOK
<1>4. PolicyOK'
  BY DEF ClientInv, PolicyOK, PolicyAllows
<1>5. ServingOK'
  BY DEF ClientInv, ClientTypeOK, ServingOK
<1>. QED BY <1>1, <1>2, <1>3, <1>4, <1>5 DEF ClientInv

\* A login has been waited for, and the topics are subscribed.
LEMMA AuthDoneKeeps ==
  ASSUME ClientInv, NEW c \in ClientIds, AuthDone(c)
  PROVE  ClientInv'
<1>. USE DEF AuthDone, policyVars
<1>1. ClientTypeOK'
  BY DEF ClientInv, ClientTypeOK
<1>2. RegistrationsOK'
  BY DEF ClientInv, RegistrationsOK
<1>3. LoopsOK'
  BY DEF ClientInv, ClientTypeOK, LoopsOK
<1>4. PolicyOK'
  BY DEF ClientInv, PolicyOK, PolicyAllows
<1>5. ServingOK'
  <2>1. \A d \in ClientIds : d # c => assigned[d] \cap assigned[c] = {}
    BY DEF ClientInv, RegistrationsOK, Disjoint
  <2>2. \A d \in ClientIds : /\ d # c => pc'[d] = pc[d] /\ serving'[d] = serving[d]
                             /\ d = c => serving'[d] = IF Accepts(c) THEN assigned[c] ELSE serving[c]
    BY DEF ClientInv, ClientTypeOK
  <2>3. \A d \in ClientIds : d # c => assigned[d] \ stranded' \subseteq assigned[d] \ stranded
    BY <2>1
  <2>4. ~ Accepts(c) => assigned[c] \ stranded' = {}
    OBVIOUS
  <2>5. Accepts(c) => transport[c] = "up"
    BY DEF Accepts
  <2>. QED BY <2>2, <2>3, <2>4, <2>5 DEF ClientInv, ServingOK
<1>. QED BY <1>1, <1>2, <1>3, <1>4, <1>5 DEF ClientInv

\* A loss is noticed, and the policy is asked.
LEMMA NoticeDropKeeps ==
  ASSUME ClientInv, NEW c \in ClientIds, NoticeDrop(c)
  PROVE  ClientInv'
<1>. USE DEF NoticeDrop, clientVars, linkVars
<1>1. /\ connectedState' \in [ClientIds -> BOOLEAN] /\ allow' \in BOOLEAN
      /\ \A d \in ClientIds : connectedState'[d] = IF d = c THEN FALSE ELSE connectedState[d]
      /\ PolicyOK'
  BY NotifyKeepsPolicy DEF ClientInv
<1>2. ClientTypeOK'
  BY <1>1 DEF ClientInv, ClientTypeOK
<1>3. RegistrationsOK'
  BY DEF ClientInv, RegistrationsOK
<1>4. LoopsOK'
  BY <1>1 DEF ClientInv, ClientTypeOK, LoopsOK
<1>5. ServingOK'
  BY DEF ClientInv, ClientTypeOK, ServingOK
<1>. QED BY <1>1, <1>2, <1>3, <1>4, <1>5 DEF ClientInv

\* The venue takes a login, or drops a connection.
LEMMA VenueStepKeeps ==
  ASSUME ClientInv, NEW c \in ClientIds, VenueTakesLogin(c) \/ Drop(c)
  PROVE  ClientInv'
<1>. USE DEF VenueTakesLogin, Drop, clientVars, loopVars, policyVars
<1>1. ClientTypeOK'
  <2>1. CASE VenueTakesLogin(c)
    BY <2>1 DEF ClientInv, ClientTypeOK
  <2>2. CASE Drop(c)
    BY <2>2 DEF ClientInv, ClientTypeOK
  <2>. QED BY <2>1, <2>2
<1>2. RegistrationsOK'
  BY DEF ClientInv, RegistrationsOK
<1>3. LoopsOK'
  BY DEF ClientInv, ClientTypeOK, LoopsOK
<1>4. PolicyOK'
  BY DEF ClientInv, PolicyOK, PolicyAllows
<1>5. ServingOK'
  BY DEF ClientInv, ClientTypeOK, ServingOK
<1>. QED BY <1>1, <1>2, <1>3, <1>4, <1>5 DEF ClientInv

\* Every step of the transport keeps the invariant of the client.
LEMMA TransportKeeps ==
  ASSUME ClientInv, Transport
  PROVE  ClientInv'
BY ConnectKeeps, ConnectOkKeeps, AttemptKeeps, AuthDoneKeeps, NoticeDropKeeps, VenueStepKeeps, Zenon
   DEF Transport, Loop

\* A step that leaves the client alone keeps its invariant.
LEMMA ClientStutterKeeps ==
  ASSUME ClientInv, UNCHANGED wsVars
  PROVE  ClientInv'
<1>. USE DEF wsVars, clientVars, loopVars, linkVars, policyVars
<1>1. ClientTypeOK'
  BY DEF ClientInv, ClientTypeOK
<1>2. RegistrationsOK' /\ LoopsOK'
  BY DEF ClientInv, RegistrationsOK, LoopsOK
<1>3. PolicyOK' /\ ServingOK'
  BY DEF ClientInv, PolicyOK, PolicyAllows, ServingOK
<1>. QED BY <1>1, <1>2, <1>3 DEF ClientInv

\* The client's invariant, for every request a strategy or connector makes and
\* every way its connections open, fail, log in and drop.
THEOREM ClientInvariant == Spec => []ClientInv
<1>1. ASSUME ClientInv, [Next]_wsVars PROVE ClientInv'
  <2>1. CASE Request
    <3>1. MayRequest /\ \E ts \in Requests : Subscribe(ts) \/ Unsubscribe(ts)
      BY <2>1 DEF Request
    <3>. QED BY <1>1, <3>1, SubscribeKeeps, UnsubscribeKeeps, Zenon
  <2>2. CASE Transport
    BY <1>1, <2>2, TransportKeeps
  <2>3. CASE UNCHANGED wsVars
    BY <1>1, <2>3, ClientStutterKeeps
  <2>. QED BY <1>1, <2>1, <2>2, <2>3 DEF Next
<1>. QED BY <1>1, ClientInit, PTL DEF Spec

\* The two promises of the client follow from its invariant.
LEMMA ClientInvImplies ==
  ASSUME ClientInv
  PROVE  OpenConnectionServes /\ AllowMeansConnected
<1>1. OpenConnectionServes
  BY DEF ClientInv, ServingOK, OpenConnectionServes
<1>2. AllowMeansConnected
  <2>1. \A c \in Clients : c \in ClientIds /\ c \in 0 .. nextClient - 1
    BY WsClientAssumption DEF Clients, ClientIds, ClientInv, ClientTypeOK
  <2>. QED BY <2>1 DEF ClientInv, LoopsOK, PolicyOK, PolicyAllows, AllowMeansConnected
<1>. QED BY <1>1, <1>2

\* While its loop waits for the disconnection, an open connection carries
\* exactly what it has been given, whatever crossed a drop or a login.
THEOREM OpenConnectionsServe == Spec => []OpenConnectionServes
BY ClientInvariant, ClientInvImplies, PTL

\* The strategy is allowed to open positions only while every connection made
\* so far is open, or its drop is still to be noticed.
THEOREM AllowedMeansConnected == Spec => []AllowMeansConnected
BY ClientInvariant, ClientInvImplies, PTL

-----------------------------------------------------------------------------
(* The manager drives the client.                                           *)

LEMMA QueuesInit == SmsInit => QueuesOK
BY DEF SmsInit, QueuesOK

\* What a handler takes off its queue is one of the requests.
LEMMA HeadIsRequest ==
  ASSUME NEW q \in Seq(Requests), q # <<>>
  PROVE  /\ Head(q) \in Requests /\ Tail(q) \in Seq(Requests)
         /\ Head(q) \in Seq(Topics)
         /\ TopicsIn(q) = ToSet(Head(q)) \cup TopicsIn(Tail(q))
<1>1. Head(q) \in Requests /\ Tail(q) \in Seq(Requests) /\ Head(q) = q[1]
  OBVIOUS
<1>2. DOMAIN q = 1 .. Len(q) /\ Len(q) \in Nat \ {0}
  OBVIOUS
<1>3. DOMAIN Tail(q) = 1 .. (Len(q) - 1) /\ \A i \in 1 .. (Len(q) - 1) : Tail(q)[i] = q[i + 1]
  OBVIOUS
<1>4. \A i \in 1 .. Len(q) : i = 1 \/ (i - 1 \in 1 .. (Len(q) - 1) /\ (i - 1) + 1 = i)
  BY <1>2
<1>5. TopicsIn(q) \subseteq ToSet(Head(q)) \cup TopicsIn(Tail(q))
  BY <1>1, <1>2, <1>3, <1>4 DEF TopicsIn
<1>6. \A i \in 1 .. (Len(q) - 1) : i + 1 \in 1 .. Len(q)
  BY <1>2
<1>7. TopicsIn(Tail(q)) \subseteq TopicsIn(q) /\ ToSet(Head(q)) \subseteq TopicsIn(q)
  BY <1>1, <1>2, <1>3, <1>6 DEF TopicsIn
<1>. QED BY <1>1, <1>5, <1>7, WsClientAssumption

\* A request is put at the end of a queue.
LEMMA AppendTopics ==
  ASSUME NEW q \in Seq(Requests), NEW ts \in Requests
  PROVE  Append(q, ts) \in Seq(Requests) /\ TopicsIn(Append(q, ts)) = TopicsIn(q) \cup ToSet(ts)
<1>1. /\ Append(q, ts) \in Seq(Requests) /\ Len(q) \in Nat
      /\ DOMAIN q = 1 .. Len(q) /\ DOMAIN Append(q, ts) = 1 .. (Len(q) + 1)
      /\ \A i \in 1 .. Len(q) : Append(q, ts)[i] = q[i]
      /\ Append(q, ts)[Len(q) + 1] = ts
  OBVIOUS
<1>2. \A i \in 1 .. (Len(q) + 1) : i \in 1 .. Len(q) \/ i = Len(q) + 1
  BY <1>1
<1>3. Len(q) + 1 \in 1 .. (Len(q) + 1) /\ \A i \in 1 .. Len(q) : i \in 1 .. (Len(q) + 1)
  BY <1>1
<1>. QED BY <1>1, <1>2, <1>3 DEF TopicsIn

\* An empty queue asks for nothing.
LEMMA EmptyTopics == TopicsIn(<<>>) = {}
BY DEF TopicsIn

\* A step of the manager is a step of the client or leaves it alone.
LEMMA SmsStepIsClientStep ==
  ASSUME QueuesOK, [SmsNext]_allVars
  PROVE  [Next]_wsVars
<1>1. CASE Ask
  BY <1>1 DEF Ask, AskSubscribe, AskUnsubscribe
<1>2. CASE AskPrivate
  BY <1>2 DEF AskPrivate, Next
<1>3. CASE HandleSubscribe
  <2>1. subQueue # <<>> /\ ~ private
    BY <1>3 DEF HandleSubscribe, Runs, QueuesOK
  <2>2. Head(subQueue) \in Requests
    BY <2>1, HeadIsRequest DEF QueuesOK
  <2>3. Subscribe(Head(subQueue)) \/ UNCHANGED wsVars
    BY <1>3 DEF HandleSubscribe
  <2>. QED BY <2>1, <2>2, <2>3 DEF Next, Request, MayRequest
<1>4. CASE HandleUnsubscribe
  <2>1. unsubQueue # <<>> /\ ~ private
    BY <1>4 DEF HandleUnsubscribe, Runs, QueuesOK
  <2>2. Head(unsubQueue) \in Requests
    BY <2>1, HeadIsRequest DEF QueuesOK
  <2>3. Unsubscribe(Head(unsubQueue)) \/ UNCHANGED wsVars
    BY <1>4 DEF HandleUnsubscribe
  <2>. QED BY <2>1, <2>2, <2>3 DEF Next, Request, MayRequest
<1>5. CASE Transport /\ UNCHANGED smsVars
  BY <1>5 DEF Next
<1>6. CASE UNCHANGED allVars
  BY <1>6 DEF allVars
<1>. QED BY <1>1, <1>2, <1>3, <1>4, <1>5, <1>6 DEF SmsNext

\* No step of the client alone changes whether the stream is a private one.
LEMMA PrivateStays ==
  ASSUME [Next]_wsVars
  PROVE  private' = private
<1>1. CASE Request
  BY <1>1 DEF Request, Subscribe, Unsubscribe
<1>2. CASE Transport
  BY <1>2 DEF Transport, Loop, Connect, ConnectOk, ConnectFail, Retry, AuthDone, NoticeDrop,
              VenueTakesLogin, Drop, linkVars
<1>3. CASE UNCHANGED wsVars
  BY <1>3 DEF wsVars, linkVars
<1>. QED BY <1>1, <1>2, <1>3 DEF Next

\* Every step keeps the queues well formed.
LEMMA QueuesKept ==
  ASSUME QueuesOK, [SmsNext]_allVars
  PROVE  QueuesOK'
<1>0. private' = private
  BY SmsStepIsClientStep, PrivateStays
<1>1. CASE Ask
  <2>1. PICK ts \in Requests : AskSubscribe(ts) \/ AskUnsubscribe(ts)
    BY <1>1 DEF Ask
  <2>. QED BY <1>0, <1>1, <2>1, AppendTopics DEF QueuesOK, Ask, AskSubscribe, AskUnsubscribe
<1>2. CASE HandleSubscribe
  BY <1>0, <1>2, HeadIsRequest DEF QueuesOK, HandleSubscribe, Runs
<1>3. CASE HandleUnsubscribe
  BY <1>0, <1>3, HeadIsRequest DEF QueuesOK, HandleUnsubscribe, Runs
<1>4. CASE AskPrivate \/ (Transport /\ UNCHANGED smsVars) \/ UNCHANGED allVars
  BY <1>0, <1>4 DEF AskPrivate, smsVars, allVars, QueuesOK
<1>. QED BY <1>1, <1>2, <1>3, <1>4 DEF SmsNext

\* The manager, with its queues and its handlers that may die, drives the
\* client only as the client's own specification lets it be driven.
THEOREM ManagerDrivesClient == SmsSpec => Spec
<1>1. SmsInit => Init
  BY DEF SmsInit
<1>. QED BY <1>1, QueuesInit, QueuesKept, SmsStepIsClientStep, PTL DEF SmsSpec, Spec

\* Hence what holds of the client holds behind the manager.
THEOREM ManagedClientIsSound == SmsSpec => [](OpenConnectionServes /\ AllowMeansConnected)
BY ManagerDrivesClient, OpenConnectionsServe, AllowedMeansConnected, PTL

-----------------------------------------------------------------------------
(* The client ends up registered for what was asked of the manager.         *)

LEMMA SubscriptionsKept ==
  ASSUME Transport
  PROVE  subscriptions' = subscriptions
BY DEF Transport, Loop, Connect, ConnectOk, ConnectFail, Retry, AuthDone, NoticeDrop,
       VenueTakesLogin, Drop, clientVars

\* A request is queued: its topics are wanted, or no longer.
LEMMA AskKeeps ==
  ASSUME QueuesOK, TopicsOK, wanted \subseteq Topics, Ask
  PROVE  TopicsOK' /\ wanted' \subseteq Topics
<1>1. PICK ts \in Requests : AskSubscribe(ts) \/ AskUnsubscribe(ts)
  BY DEF Ask
<1>2. ToSet(ts) \subseteq Topics
  BY WsClientAssumption DEF ToSet
<1>3. /\ UNCHANGED <<private, subscriptions, alive>>
  BY <1>1 DEF AskSubscribe, AskUnsubscribe, wsVars, linkVars, clientVars
<1>4. CASE AskSubscribe(ts)
  <2>1. TopicsIn(subQueue') = TopicsIn(subQueue) \cup ToSet(ts) /\ unsubQueue' = unsubQueue
    BY <1>4, AppendTopics DEF QueuesOK, AskSubscribe
  <2>2. /\ wanted' = wanted \cup ToSet(ts)
        /\ overlapped' = (overlapped \ ToSet(ts)) \cup (ToSet(ts) \cap TopicsIn(unsubQueue))
    BY <1>4 DEF AskSubscribe
  <2>. QED BY <1>2, <1>3, <2>1, <2>2 DEF TopicsOK
<1>5. CASE AskUnsubscribe(ts)
  <2>1. TopicsIn(unsubQueue') = TopicsIn(unsubQueue) \cup ToSet(ts) /\ subQueue' = subQueue
    BY <1>5, AppendTopics DEF QueuesOK, AskUnsubscribe
  <2>2. /\ wanted' = wanted \ ToSet(ts)
        /\ overlapped' = (overlapped \ ToSet(ts)) \cup (ToSet(ts) \cap TopicsIn(subQueue))
    BY <1>5 DEF AskUnsubscribe
  <2>. QED BY <1>2, <1>3, <2>1, <2>2 DEF TopicsOK
<1>. QED BY <1>1, <1>4, <1>5

\* A subscription is handled, or its handler dies of it.
LEMMA HandleSubscribeKeeps ==
  ASSUME ClientInv, QueuesOK, TopicsOK, HandleSubscribe
  PROVE  TopicsOK'
<1>. DEFINE ts == Head(subQueue)
<1>1. /\ subQueue # <<>> /\ ts \in Requests /\ ts \in Seq(Topics)
      /\ TopicsIn(subQueue) = ToSet(ts) \cup TopicsIn(subQueue') /\ unsubQueue' = unsubQueue
      /\ wanted' = wanted /\ overlapped' = overlapped
  BY HeadIsRequest DEF HandleSubscribe, Runs, QueuesOK
<1>. SUFFICES ASSUME ~ private', alive' = Handlers, NEW t \in Topics \ overlapped
              PROVE  /\ t \in TopicsIn(subQueue') => t \in wanted /\ t \notin TopicsIn(unsubQueue)
                     /\ t \in TopicsIn(unsubQueue) => t \notin wanted
                     /\ t \notin TopicsIn(subQueue') \cup TopicsIn(unsubQueue)
                        => (t \in wanted <=> t \in subscriptions')
  BY <1>1 DEF TopicsOK
<1>2. /\ ~ RegisterSubscriptions(ts).full /\ Subscribe(ts) /\ alive = Handlers
  BY DEF HandleSubscribe, HandlerEnds, Handlers
<1>3. ~ private
  BY <1>2 DEF Subscribe
<1>4. subscriptions' = subscriptions \cup ToSet(ts)
  BY <1>1, <1>2, RegisterFacts DEF Subscribe, ClientInv
<1>. QED BY <1>1, <1>2, <1>3, <1>4 DEF TopicsOK

\* An unsubscription is handled.
LEMMA HandleUnsubscribeKeeps ==
  ASSUME QueuesOK, TopicsOK, HandleUnsubscribe
  PROVE  TopicsOK'
<1>. DEFINE ts == Head(unsubQueue)
<1>1. /\ unsubQueue # <<>> /\ ts \in Requests
      /\ TopicsIn(unsubQueue) = ToSet(ts) \cup TopicsIn(unsubQueue') /\ subQueue' = subQueue
      /\ wanted' = wanted /\ overlapped' = overlapped
  BY HeadIsRequest DEF HandleUnsubscribe, Runs, QueuesOK
<1>. SUFFICES ASSUME ~ private', alive' = Handlers, NEW t \in Topics \ overlapped
              PROVE  /\ t \in TopicsIn(subQueue) => t \in wanted /\ t \notin TopicsIn(unsubQueue')
                     /\ t \in TopicsIn(unsubQueue') => t \notin wanted
                     /\ t \notin TopicsIn(subQueue) \cup TopicsIn(unsubQueue')
                        => (t \in wanted <=> t \in subscriptions')
  BY <1>1 DEF TopicsOK
<1>2. Unsubscribe(ts) /\ alive = Handlers
  BY DEF HandleUnsubscribe, HandlerEnds, Handlers
<1>3. ~ private /\ subscriptions' = subscriptions \ ToSet(ts)
  BY <1>2 DEF Unsubscribe
<1>. QED BY <1>1, <1>2, <1>3 DEF TopicsOK

\* With nothing queued, no handler dead and no request turned around on the
\* way, the client is registered for exactly what was asked for last.
THEOREM RequestsAreHonoured == SmsSpec => []RegisteredAsAsked
<1>1. SmsInit => SmsInv
  <2>1. SmsInit => TopicsOK /\ wanted \subseteq Topics
    BY EmptyTopics DEF SmsInit, Init, TopicsOK
  <2>. QED BY <2>1, QueuesInit DEF SmsInv
<1>2. ASSUME ClientInv, SmsInv, [SmsNext]_allVars PROVE SmsInv'
  <2>. USE <1>2 DEF SmsInv
  <2>1. QueuesOK'
    BY QueuesKept
  <2>2. CASE Ask
    BY <2>1, <2>2, AskKeeps
  <2>3. CASE HandleSubscribe
    BY <2>1, <2>3, HandleSubscribeKeeps DEF HandleSubscribe
  <2>4. CASE HandleUnsubscribe
    BY <2>1, <2>4, HandleUnsubscribeKeeps DEF HandleUnsubscribe
  <2>5. CASE AskPrivate
    <3>1. private' = private /\ private /\ wanted' = wanted
      BY <2>5, SmsStepIsClientStep, PrivateStays
         DEF AskPrivate, smsVars
    <3>. QED BY <2>1, <3>1 DEF TopicsOK
  <2>6. CASE Transport /\ UNCHANGED smsVars
    <3>1. private' = private /\ subscriptions' = subscriptions
      BY <2>6, SmsStepIsClientStep, PrivateStays, SubscriptionsKept
    <3>. QED BY <2>1, <2>6, <3>1 DEF TopicsOK, smsVars
  <2>7. CASE UNCHANGED allVars
    BY <2>1, <2>7 DEF allVars, smsVars, wsVars, linkVars, clientVars, TopicsOK
  <2>. QED BY <2>2, <2>3, <2>4, <2>5, <2>6, <2>7 DEF SmsNext
<1>3. ClientInv /\ SmsInv => RegisteredAsAsked
  <2>. SUFFICES ASSUME ClientInv, SmsInv, ~ private,
                       subQueue = <<>>, unsubQueue = <<>>, alive = Handlers
                PROVE  wanted \ overlapped = subscriptions \ overlapped
    BY DEF RegisteredAsAsked
  <2>. QED BY EmptyTopics DEF ClientInv, ClientTypeOK, SmsInv, TopicsOK
<1>. QED BY <1>1, <1>2, <1>3, ManagerDrivesClient, ClientInvariant, PTL DEF SmsSpec

-----------------------------------------------------------------------------
(* The invariant of the klines.                                             *)

Builders ==
  [open : Nat, high : Nat, low : Nat, close : Nat, lastClose : Nat,
   volume : Nat, buyVolume : Nat, count : Nat, initialized : BOOLEAN, tsLast : Nat]
Bars == [open : Nat, high : Nat, low : Nat, close : Nat, volume : Nat, buyVolume : Nat]

KlinesTypeOK ==
  /\ volumeType \in {"DEFAULT", "BUY", "SELL"}
  /\ buildWithNoUpdates \in BOOLEAN /\ late \in BOOLEAN
  /\ timeBuilder \in Builders /\ volumeBuilder \in Builders
  /\ timeBars \in Seq(Bars) /\ volumeBars \in Seq(Bars)
  /\ sent \in [time : Nat, timeBuy : Nat, volume : Nat]
  /\ now \in Nat

\* A builder that has a time has taken a trade.
Timed(b) == b.tsLast > 0 => b.initialized

\* The bar being filled is short of the threshold, no builder is ahead of the
\* clock, and those that are fed alike are at the same time.
BuildersOK ==
  /\ volumeBuilder.volume < Threshold
  /\ Timed(timeBuilder) /\ timeBuilder.tsLast <= now
  /\ Timed(volumeBuilder) /\ volumeBuilder.tsLast <= now
  /\ volumeType = "DEFAULT" => timeBuilder.tsLast = volumeBuilder.tsLast

KlinesInv == KlinesTypeOK /\ BuildersOK /\ BarsAreFull /\ AggregatorsAgree

TradeSet == [price : Nat \ {0}, size : Nat \ {0}, side : Sides, timestamp : Nat]

-----------------------------------------------------------------------------
(* Amounts of bars.                                                         *)

LEMMA TotalIsSum ==
  ASSUME NEW t \in Seq(Nat)
  PROVE  t \in [1 .. Len(t) -> Int] /\ Len(t) \in Nat /\ Total(t) = SumOf(t, Len(t))
<1>. DEFINE n == Len(t)
            IsFold(g) == g = [s \in SUBSET DOMAIN t |->
                                IF s = {} THEN 0 ELSE g[s \ {Max(s)}] + t[Max(s)]]
            f == CHOOSE g : IsFold(g)
<1>1. n \in Nat /\ DOMAIN t = 1 .. n /\ t \in [1 .. n -> Int]
  OBVIOUS
<1>2. Total(t) = f[DOMAIN t]
  BY DEF Total, FoldLeft, MapThenFoldSet
<1>. HIDE DEF n
<1>3. ASSUME NEW g PROVE IsFold(g) <=> IsAdding(g, t, n)
  BY <1>1 DEF IsAdding
<1>4. \E g : IsFold(g)
  <2>. HIDE DEF IsFold
  <2>. QED BY <1>1, <1>3, AddingRecursion
<1>5. IsFold(f)
  <2>. HIDE DEF IsFold
  <2>. QED BY <1>4
<1>. HIDE DEF IsFold, f
<1>6. f[1 .. n] = SumOf(t, n)
  BY <1>1, <1>3, <1>5, FoldIsSum
<1>. QED BY <1>1, <1>2, <1>6 DEF n

\* The total of a longer sequence.
LEMMA TotalAppend ==
  ASSUME NEW t \in Seq(Nat), NEW a \in Nat, NEW q, q \in Seq(Nat), Len(q) = Len(t) + 1,
         \A i \in 1 .. Len(t) : q[i] = t[i], q[Len(t) + 1] = a
  PROVE  Total(t) \in Int /\ Total(q) = Total(t) + a
<1>. DEFINE n == Len(t)
<1>1. /\ t \in [1 .. n -> Int] /\ n \in Nat /\ Total(t) = SumOf(t, n)
      /\ q \in [1 .. (n + 1) -> Int] /\ Total(q) = SumOf(q, n + 1)
  BY TotalIsSum
<1>2. (\A i \in 1 .. n : q[i] = t[i]) /\ q[n + 1] = a
  OBVIOUS
<1>. HIDE DEF n
<1>. QED BY <1>1, <1>2, SumFirst

\* The total of nothing.
LEMMA TotalNone == Total(<<>>) = 0
<1>1. <<>> \in Seq(Nat) /\ Len(<<>>) = 0
  OBVIOUS
<1>2. <<>> \in [1 .. 0 -> Int] /\ Total(<<>>) = SumOf(<<>>, 0)
  BY <1>1, TotalIsSum
<1>. QED BY <1>2, SumOfNone

Volumes(bars) == [i \in DOMAIN bars |-> bars[i].volume]
BuyVolumes(bars) == [i \in DOMAIN bars |-> bars[i].buyVolume]

\* A kline that is published adds its volume.
LEMMA VolumeAppend ==
  ASSUME NEW bars \in Seq(Bars), NEW bar \in Bars
  PROVE  /\ VolumeOf(bars) \in Int /\ BuyVolumeOf(bars) \in Int
         /\ VolumeOf(Append(bars, bar)) = VolumeOf(bars) + bar.volume
         /\ BuyVolumeOf(Append(bars, bar)) = BuyVolumeOf(bars) + bar.buyVolume
<1>. DEFINE q == Append(bars, bar)
            n == Len(bars)
<1>1. n \in Nat /\ q \in Seq(Bars) /\ Len(q) = n + 1 /\ DOMAIN bars = 1 .. n
      /\ DOMAIN q = 1 .. (n + 1) /\ \A i \in 1 .. n : q[i] = bars[i]
  OBVIOUS
<1>2. q[n + 1] = bar
  OBVIOUS
<1>. HIDE DEF q
<1>3. /\ \A i \in 1 .. n : bars[i].volume \in Nat /\ bars[i].buyVolume \in Nat
      /\ \A i \in 1 .. (n + 1) : q[i].volume \in Nat /\ q[i].buyVolume \in Nat
  <2>1. (\A i \in 1 .. n : bars[i] \in Bars) /\ (\A i \in 1 .. (n + 1) : q[i] \in Bars)
    BY <1>1
  <2>. QED BY <2>1 DEF Bars
<1>4. n + 1 \in 1 .. (n + 1)
  BY <1>1
<1>. HIDE DEF n
<1>5. /\ Volumes(bars) \in Seq(Nat) /\ Len(Volumes(bars)) = n
      /\ Volumes(q) \in Seq(Nat) /\ Len(Volumes(q)) = n + 1
      /\ \A i \in 1 .. n : Volumes(q)[i] = Volumes(bars)[i]
      /\ Volumes(q)[n + 1] = bar.volume
  BY <1>1, <1>2, <1>3, <1>4 DEF Volumes
<1>6. /\ BuyVolumes(bars) \in Seq(Nat) /\ Len(BuyVolumes(bars)) = n
      /\ BuyVolumes(q) \in Seq(Nat) /\ Len(BuyVolumes(q)) = n + 1
      /\ \A i \in 1 .. n : BuyVolumes(q)[i] = BuyVolumes(bars)[i]
      /\ BuyVolumes(q)[n + 1] = bar.buyVolume
  BY <1>1, <1>2, <1>3, <1>4 DEF BuyVolumes
<1>7. bar.volume \in Nat /\ bar.buyVolume \in Nat
  BY DEF Bars
<1>8. /\ Total(Volumes(bars)) \in Int
      /\ Total(Volumes(q)) = Total(Volumes(bars)) + bar.volume
  BY <1>5, <1>7, TotalAppend
<1>9. /\ Total(BuyVolumes(bars)) \in Int
      /\ Total(BuyVolumes(q)) = Total(BuyVolumes(bars)) + bar.buyVolume
  BY <1>6, <1>7, TotalAppend
<1>. QED BY <1>8, <1>9 DEF VolumeOf, BuyVolumeOf, Volumes, BuyVolumes, q

\* Nothing published has no volume.
LEMMA VolumeNone == <<>> \in Seq(Bars) /\ VolumeOf(<<>>) = 0 /\ BuyVolumeOf(<<>>) = 0
<1>1. DOMAIN <<>> = {}
  OBVIOUS
<1>2. Volumes(<<>>) = <<>> /\ BuyVolumes(<<>>) = <<>>
  BY <1>1 DEF Volumes, BuyVolumes
<1>3. <<>> \in Seq(Bars)
  OBVIOUS
<1>. QED BY <1>2, <1>3, TotalNone DEF VolumeOf, BuyVolumeOf, Volumes, BuyVolumes

\* What is published has a volume.
LEMMA VolumeIsNat ==
  ASSUME NEW bars \in Seq(Bars)
  PROVE  VolumeOf(bars) \in Nat
<1>. DEFINE v == Volumes(bars)
            n == Len(bars)
<1>1. n \in Nat /\ DOMAIN bars = 1 .. n /\ \A i \in 1 .. n : bars[i] \in Bars
  OBVIOUS
<1>2. \A i \in 1 .. n : bars[i].volume \in Nat
  BY <1>1 DEF Bars
<1>. HIDE DEF n
<1>3. v \in Seq(Nat) /\ Len(v) = n /\ \A i \in 1 .. n : v[i] \in Nat
  BY <1>1, <1>2 DEF Volumes
<1>. HIDE DEF v
<1>4. v \in [1 .. n -> Int] /\ Total(v) = SumOf(v, n)
  BY <1>3, TotalIsSum
<1>5. PICK r : IsRunningSum(r, v, n)
  BY <1>1, <1>4, RunningSumExists
<1>. DEFINE Done == {i \in Nat : i <= n => r[i] \in Nat}
<1>6. 0 \in Done
  BY <1>5 DEF IsRunningSum
<1>7. ASSUME NEW i \in Nat, i \in Done PROVE i + 1 \in Done
  <2>. SUFFICES ASSUME i + 1 <= n PROVE r[i + 1] \in Nat
    OBVIOUS
  <2>1. i + 1 \in 1 .. n /\ (i + 1) - 1 = i /\ r[i] \in Nat
    BY <1>1, <1>7
  <2>2. r[i + 1] = r[i] + v[i + 1]
    BY <1>5, <2>1 DEF IsRunningSum
  <2>. QED BY <1>3, <2>1, <2>2
<1>. HIDE DEF Done
<1>8. n \in Done
  BY <1>1, <1>6, <1>7, NatSetInduction
<1>9. SumOf(v, n) = r[n]
  BY <1>1, <1>4, <1>5, SumIsLast
<1>10. r[n] \in Nat
  BY <1>1, <1>8 DEF Done
<1>. QED BY <1>4, <1>9, <1>10 DEF VolumeOf, Volumes, v

-----------------------------------------------------------------------------
(* KlineBuilder.                                                            *)

LEMMA UpdateFacts ==
  ASSUME NEW b \in Builders, Timed(b),
         NEW price \in Nat \ {0}, NEW size \in Nat, NEW side \in Sides, NEW time \in Nat,
         NEW trade, trade = [price |-> price, size |-> size, side |-> side, timestamp |-> time]
  PROVE  LET taken == IF b.tsLast <= time THEN size ELSE 0
         IN  /\ Update(b, trade) \in Builders
             /\ Update(b, trade).initialized /\ Timed(Update(b, trade))
             /\ Update(b, trade).tsLast = (IF b.tsLast <= time THEN time ELSE b.tsLast)
             /\ Update(b, trade).volume = b.volume + taken
             /\ Update(b, trade).buyVolume = b.buyVolume + (IF side = "BUY" THEN taken ELSE 0)
             /\ Update(b, trade).lastClose = b.lastClose
<1>1. trade.price = price /\ trade.size = size /\ trade.side = side /\ trade.timestamp = time
  OBVIOUS
<1>2. Takes(b, trade) <=> b.tsLast <= time
  BY <1>1 DEF Takes, Builders
<1>3. CASE Takes(b, trade)
  <2>. DEFINE first == b.open = Nothing
              buys == IF side = "BUY" THEN size ELSE 0
              u == [b EXCEPT !.open = IF first THEN price ELSE @,
                             !.high = IF first \/ price > @ THEN price ELSE @,
                             !.low = IF first \/ price < @ THEN price ELSE @,
                             !.close = price, !.volume = @ + size, !.buyVolume = @ + buys,
                             !.count = @ + 1, !.initialized = TRUE, !.tsLast = time]
  <2>1. Update(b, trade) = u
    BY <1>1, <1>3 DEF Update
  <2>2. buys \in Nat /\ buys = IF side = "BUY" THEN size ELSE 0
    OBVIOUS
  <2>. HIDE DEF buys
  <2>3. u \in Builders
    <3>1. /\ (IF first THEN price ELSE b.open) \in Nat
          /\ (IF first \/ price > b.high THEN price ELSE b.high) \in Nat
          /\ (IF first \/ price < b.low THEN price ELSE b.low) \in Nat
          /\ b.volume + size \in Nat /\ b.buyVolume + buys \in Nat /\ b.count + 1 \in Nat
      BY <2>2 DEF Builders
    <3>. QED BY <2>2, <3>1 DEF Builders
  <2>4. /\ u.initialized = TRUE /\ u.tsLast = time /\ u.volume = b.volume + size
        /\ u.buyVolume = b.buyVolume + buys /\ u.lastClose = b.lastClose
    BY DEF Builders
  <2>5. b.tsLast <= time
    BY <1>2, <1>3
  <2>. HIDE DEF u
  <2>. QED BY <2>1, <2>2, <2>3, <2>4, <2>5 DEF Timed
<1>4. CASE ~ Takes(b, trade)
  BY <1>1, <1>2, <1>4 DEF Update, Builders, Timed
<1>. QED BY <1>3, <1>4

\* build: the kline of a builder has the builder's volume.
LEMMA KlineFacts ==
  ASSUME NEW b \in Builders
  PROVE  /\ Kline(b) \in Bars
         /\ Kline(b).volume = b.volume /\ Kline(b).buyVolume = b.buyVolume
<1>1. ASSUME NEW x \in Nat, NEW y \in Nat PROVE Max({x, y}) \in Nat /\ Min({x, y}) \in Nat
  <2>. DEFINE top == IF x < y THEN y ELSE x
  <2>1. {x, y} \subseteq Nat /\ {x, y} # {}
    OBVIOUS
  <2>2. Min({x, y}) \in Nat
    BY <2>1, MinFacts
  <2>3. \E z \in {x, y} : \A w \in {x, y} : z >= w
    OBVIOUS
  <2>4. Max({x, y}) \in {x, y}
    BY <2>3 DEF Max
  <2>. QED BY <2>2, <2>4
<1>2. Max({b.high, IF b.open = Nothing THEN b.lastClose ELSE b.close}) \in Nat
  BY <1>1 DEF Builders
<1>3. Min({b.low, IF b.open = Nothing THEN b.lastClose ELSE b.close}) \in Nat
  BY <1>1 DEF Builders
<1>. QED BY <1>2, <1>3 DEF Kline, Builders, Bars

\* reset: a builder has no volume, and its clock stays.
LEMMA ResetFacts ==
  ASSUME NEW b \in Builders
  PROVE  /\ Reset(b) \in Builders /\ Reset(b).volume = 0 /\ Reset(b).buyVolume = 0
         /\ Reset(b).tsLast = b.tsLast /\ Reset(b).initialized = b.initialized
         /\ Timed(b) => Timed(Reset(b))
<1>1. Kline(b).close \in Nat
  BY KlineFacts DEF Bars
<1>. QED BY <1>1 DEF Reset, Builders, Nothing, Timed

-----------------------------------------------------------------------------
(* VolumeKlineAggregator.                                                   *)

\* The pieces of a trade are its size; all but the last fill a bar exactly,
\* the first of them one that was begun, and the last does not overfill one.
LEMMA PiecesFacts ==
  ASSUME NEW size \in Nat \ {0}, NEW volume \in Nat, volume < Threshold
  PROVE  LET ps == Pieces(size, volume)
             begun(i) == IF i = 1 THEN volume ELSE 0
         IN  /\ ps \in Seq(Nat) /\ Len(ps) \in Nat \ {0} /\ Total(ps) = size
             /\ \A i \in 1 .. Len(ps) : ps[i] + begun(i) <= Threshold
             /\ \A i \in 1 .. Len(ps) : i < Len(ps) => ps[i] + begun(i) = Threshold
<1>. DEFINE ps == Pieces(size, volume)
            missing == Threshold - volume
            rest == size - missing
            k == rest \div Threshold
            over == rest % Threshold
            mid == [i \in 1 .. k |-> Threshold]
<1>1. Threshold \in Nat \ {0}
  BY KlinesAssumption
<1>2. missing \in Nat \ {0} /\ rest \in Int /\ rest = size - missing /\ missing = Threshold - volume
  BY <1>1
<1>3. CASE rest < 0
  <2>1. ps = <<size>>
    BY <1>3 DEF Pieces
  <2>2. /\ <<size>> \in Seq(Nat) /\ Len(<<size>>) = 1 /\ <<size>>[1] = size
        /\ <<>> \in Seq(Nat) /\ Len(<<>>) = 0 /\ size \in Nat
    OBVIOUS
  <2>. HIDE DEF ps
  <2>3. Total(ps) = 0 + size
    <3>. DEFINE none == <<>>
    <3>1. /\ none \in Seq(Nat) /\ ps \in Seq(Nat) /\ Len(ps) = Len(none) + 1
          /\ \A i \in 1 .. Len(none) : ps[i] = none[i]
          /\ ps[Len(none) + 1] = size
      BY <2>1, <2>2
    <3>2. Total(none) = 0
      BY TotalNone
    <3>. HIDE DEF none
    <3>. QED BY <2>2, <3>1, <3>2, TotalAppend
  <2>. QED BY <1>1, <1>2, <1>3, <2>1, <2>2, <2>3 DEF ps
<1>4. CASE ~ (rest < 0)
  <2>1. k \in Nat /\ over \in Nat /\ over < Threshold /\ rest = k * Threshold + over
        /\ k * Threshold \in Nat
    BY <1>1, <1>2, <1>4
  <2>. DEFINE q == <<missing>> \o mid
  <2>2. ps = q \o (IF over > 0 THEN <<over>> ELSE <<>>)
    BY <1>4 DEF Pieces
  <2>. HIDE DEF ps, rest, missing, k, over
  <2>3. /\ mid \in Seq(Nat) /\ Len(mid) = k /\ mid \in [1 .. k -> Int]
        /\ \A i \in 1 .. k : mid[i] = Threshold
    BY <1>1, <2>1
  <2>4. SumOf(mid, k) = k * Threshold
    <3>1. k \in Nat /\ Threshold \in Int
      BY <1>1, <2>1
    <3>. QED BY <3>1, SumOfConstant
  <2>. HIDE DEF mid
  <2>5. /\ q \in Seq(Nat) /\ Len(q) = k + 1 /\ q[1] = missing
        /\ \A i \in 1 .. k : q[i + 1] = mid[i]
    BY <1>2, <2>1, <2>3
  <2>. HIDE DEF q
  <2>6. Total(q) = missing + k * Threshold
    <3>1. q \in [1 .. (k + 1) -> Int] /\ Total(q) = SumOf(q, k + 1)
      BY <2>5, TotalIsSum
    <3>2. SumOf(q, k + 1) = q[1] + SumOf(mid, k)
      BY <2>1, <2>3, <2>5, <3>1, SumRest
    <3>. QED BY <2>4, <2>5, <3>1, <3>2
  <2>7. \A i \in 1 .. (k + 1) : q[i] + (IF i = 1 THEN volume ELSE 0) = Threshold
    <3>. SUFFICES ASSUME NEW i \in 1 .. (k + 1)
                  PROVE  q[i] + (IF i = 1 THEN volume ELSE 0) = Threshold
      OBVIOUS
    <3>1. CASE i = 1
      BY <1>1, <1>2, <2>5, <3>1
    <3>2. CASE i # 1
      <4>1. i - 1 \in 1 .. k /\ (i - 1) + 1 = i
        BY <2>1, <3>2
      <4>2. q[i] = Threshold
        BY <2>3, <2>5, <4>1
      <4>. QED BY <1>1, <3>2, <4>2
    <3>. QED BY <3>1, <3>2
  <2>8. CASE over > 0
    <3>1. ps = q \o <<over>>
      BY <2>2, <2>8
    <3>2. /\ ps \in Seq(Nat) /\ Len(ps) = (k + 1) + 1 /\ ps[(k + 1) + 1] = over
          /\ \A i \in 1 .. (k + 1) : ps[i] = q[i]
      BY <2>1, <2>5, <3>1
    <3>3. Total(ps) = (missing + k * Threshold) + over
        <4>1. /\ Len(ps) = Len(q) + 1 /\ ps[Len(q) + 1] = over
            /\ \A i \in 1 .. Len(q) : ps[i] = q[i]
        BY <2>5, <3>2
      <4>2. Total(ps) = Total(q) + over
        BY <2>1, <2>5, <3>2, <4>1, TotalAppend
      <4>. QED BY <2>6, <4>2
    <3>4. Total(ps) = size
      BY <1>1, <1>2, <2>1, <3>3
    <3>5. \A i \in 1 .. Len(ps) : i \in 1 .. (k + 1) \/ i = (k + 1) + 1
      BY <2>1, <3>2
    <3>6. (k + 1) + 1 # 1 /\ k + 1 \in Nat
      BY <2>1
    <3>. QED BY <1>1, <2>1, <2>7, <3>2, <3>4, <3>5, <3>6 DEF ps
  <2>9. CASE ~ (over > 0)
    <3>1. ps = q
      BY <2>2, <2>5, <2>9
    <3>2. Total(ps) = size
      BY <1>1, <1>2, <2>1, <2>6, <2>9, <3>1
    <3>. QED BY <1>1, <2>1, <2>5, <2>7, <3>1, <3>2 DEF ps
  <2>. QED BY <2>8, <2>9
<1>. QED BY <1>3, <1>4

States == [builder : Builders, bars : Seq(Bars)]
Counted(state) == state.builder.volume + VolumeOf(state.bars)
Full(bars) == \A i \in 1 .. Len(bars) : bars[i].volume = Threshold

\* One turn of the loop.
LEMMA ApplyFacts ==
  ASSUME NEW state \in States, Timed(state.builder), NEW trade \in TradeSet, NEW piece \in Nat
  PROVE  LET takes == state.builder.tsLast <= trade.timestamp
             closes == state.builder.volume + piece >= Threshold
             after == Apply(state, trade, piece)
         IN  /\ after \in States /\ Timed(after.builder)
             /\ after.builder.tsLast = IF takes THEN trade.timestamp ELSE state.builder.tsLast
             /\ Counted(state) \in Int
             /\ Counted(after) = Counted(state) + (IF takes THEN piece ELSE 0)
             /\ closes => after.builder.volume = 0
             /\ ~ closes => after.builder.volume = state.builder.volume
                                                   + (IF takes THEN piece ELSE 0)
             /\ Full(state.bars) /\ takes /\ state.builder.volume + piece <= Threshold
                => Full(after.bars)
<1>. DEFINE b == Update(state.builder, [trade EXCEPT !.size = piece])
            takes == state.builder.tsLast <= trade.timestamp
            taken == IF takes THEN piece ELSE 0
            closes == state.builder.volume + piece >= Threshold
            after == Apply(state, trade, piece)
<1>1. state.builder \in Builders /\ state.bars \in Seq(Bars)
  BY DEF States
<1>2. trade.price \in Nat \ {0} /\ trade.side \in Sides /\ trade.timestamp \in Nat
      /\ [trade EXCEPT !.size = piece]
         = [price |-> trade.price, size |-> piece, side |-> trade.side,
            timestamp |-> trade.timestamp]
  BY DEF TradeSet
<1>3. /\ b \in Builders /\ b.initialized /\ Timed(b)
      /\ b.tsLast = (IF takes THEN trade.timestamp ELSE state.builder.tsLast)
      /\ b.volume = state.builder.volume + taken
  <2>. DEFINE part == [trade EXCEPT !.size = piece]
  <2>1. part = [price |-> trade.price, size |-> piece, side |-> trade.side,
                timestamp |-> trade.timestamp]
    BY <1>2
  <2>. HIDE DEF part
  <2>2. /\ Update(state.builder, part) \in Builders /\ Update(state.builder, part).initialized
        /\ Timed(Update(state.builder, part))
        /\ Update(state.builder, part).tsLast
           = (IF takes THEN trade.timestamp ELSE state.builder.tsLast)
        /\ Update(state.builder, part).volume = state.builder.volume + taken
    BY <1>1, <1>2, <2>1, UpdateFacts
  <2>. QED BY <2>2 DEF part
<1>4. /\ state.builder.volume \in Nat /\ taken \in Nat /\ b.volume \in Nat
      /\ Threshold \in Nat
  BY <1>1, <1>3, KlinesAssumption DEF Builders
<1>5. VolumeOf(state.bars) \in Int
  BY <1>1, <1>3, KlineFacts, VolumeAppend
<1>6. CASE closes
  <2>1. after = [builder |-> Reset(b), bars |-> Append(state.bars, Kline(b))]
    BY <1>3, <1>6 DEF Apply
  <2>. HIDE DEF b, after
  <2>2. /\ Reset(b) \in Builders /\ Reset(b).volume = 0
        /\ Reset(b).tsLast = b.tsLast /\ Timed(Reset(b))
    BY <1>3, ResetFacts
  <2>3. Kline(b) \in Bars /\ Kline(b).volume = b.volume
    BY <1>3, KlineFacts
  <2>4. /\ Append(state.bars, Kline(b)) \in Seq(Bars)
        /\ VolumeOf(Append(state.bars, Kline(b))) = VolumeOf(state.bars) + b.volume
    BY <1>1, <2>3, VolumeAppend
  <2>5. after.builder = Reset(b) /\ after.bars = Append(state.bars, Kline(b)) /\ after \in States
    BY <2>1, <2>2, <2>4 DEF States
  <2>6. Counted(after) = Counted(state) + taken
    BY <1>3, <1>4, <1>5, <2>2, <2>4, <2>5 DEF Counted
  <2>7. Counted(state) \in Int
    BY <1>4, <1>5 DEF Counted
  <2>8. Full(state.bars) /\ takes /\ state.builder.volume + piece <= Threshold => Full(after.bars)
    <3>. SUFFICES ASSUME Full(state.bars), takes, state.builder.volume + piece <= Threshold,
                         NEW i \in 1 .. Len(after.bars)
                  PROVE  after.bars[i].volume = Threshold
      BY DEF Full
    <3>1. b.volume = Threshold
      BY <1>3, <1>4, <1>6
    <3>2. /\ Len(after.bars) = Len(state.bars) + 1 /\ Len(state.bars) \in Nat
          /\ \A j \in 1 .. Len(state.bars) : after.bars[j] = state.bars[j]
      BY <1>1, <2>5
    <3>3. after.bars[Len(state.bars) + 1] = Kline(b)
      BY <1>1, <2>5
    <3>4. CASE i \in 1 .. Len(state.bars)
      BY <3>2, <3>4 DEF Full
    <3>5. CASE i = Len(state.bars) + 1
      BY <2>3, <3>1, <3>3, <3>5
    <3>. QED BY <3>2, <3>4, <3>5
  <2>. QED BY <1>3, <1>6, <2>2, <2>5, <2>6, <2>7, <2>8 DEF after
<1>7. CASE ~ closes
  <2>1. after = [state EXCEPT !.builder = b]
    BY <1>7 DEF Apply
  <2>. HIDE DEF b, after
  <2>2. after.builder = b /\ after.bars = state.bars /\ after \in States
    BY <1>1, <1>3, <2>1 DEF States
  <2>3. Counted(after) = Counted(state) + taken /\ Counted(state) \in Int
    BY <1>3, <1>4, <1>5, <2>2 DEF Counted
  <2>. QED BY <1>3, <1>7, <2>2, <2>3 DEF after
<1>. QED BY <1>6, <1>7

\* What a trade makes of the bar being filled.
LEMMA ApplyVolumeFacts ==
  ASSUME NEW trade \in TradeSet, volumeBuilder \in Builders, Timed(volumeBuilder),
         volumeBuilder.volume < Threshold
  PROVE  LET after == ApplyVolume(trade)
             takes == WantedSide(trade) /\ volumeBuilder.tsLast <= trade.timestamp
         IN  /\ after \in States /\ Timed(after.builder)
             /\ after.builder.tsLast = IF takes THEN trade.timestamp ELSE volumeBuilder.tsLast
             /\ VolumeOf(after.bars) \in Int
             /\ after.builder.volume + VolumeOf(after.bars)
                = volumeBuilder.volume + (IF takes THEN trade.size ELSE 0)
             /\ after.builder.volume < Threshold
             /\ volumeBuilder.tsLast <= trade.timestamp => Full(after.bars)
<1>. DEFINE base == [builder |-> volumeBuilder, bars |-> <<>>]
<1>1. /\ base \in States /\ base.builder = volumeBuilder /\ base.bars = <<>>
      /\ Full(base.bars) /\ Counted(base) = volumeBuilder.volume
  <2>1. base \in States /\ base.builder = volumeBuilder /\ base.bars = <<>>
    BY VolumeNone DEF States
  <2>2. Len(base.bars) = 0
    BY <2>1
  <2>. HIDE DEF base
  <2>3. Full(base.bars)
    BY <2>2 DEF Full
  <2>4. VolumeOf(base.bars) = 0 /\ volumeBuilder.volume \in Nat
    BY <2>1, VolumeNone DEF Builders
  <2>. QED BY <2>1, <2>3, <2>4 DEF Counted
<1>2. CASE ~ WantedSide(trade)
  <2>1. ApplyVolume(trade) = base
    BY <1>2 DEF ApplyVolume
  <2>2. VolumeOf(base.bars) = 0 /\ volumeBuilder.volume \in Nat
    BY <1>1, VolumeNone DEF Builders
  <2>. HIDE DEF base
  <2>. QED BY <1>1, <1>2, <2>1, <2>2
<1>3. CASE WantedSide(trade)
  <2>. DEFINE ps == Pieces(trade.size, volumeBuilder.volume)
              n == Len(ps)
              begun(i) == IF i = 1 THEN volumeBuilder.volume ELSE 0
              takes == volumeBuilder.tsLast <= trade.timestamp
              IsFold(g) == g = [s \in SUBSET DOMAIN ps |->
                                  IF s = {} THEN base
                                  ELSE Apply(g[s \ {Max(s)}], trade, ps[Max(s)])]
              f == CHOOSE g : IsFold(g)
              Sound == {state \in States : Timed(state.builder)}
              step == [p \in Sound \X (1 .. n) |-> Apply(p[1], trade, ps[p[2]])]
  <2>1. /\ trade.size \in Nat \ {0} /\ trade.timestamp \in Nat
        /\ volumeBuilder.volume \in Nat /\ volumeBuilder.tsLast \in Nat /\ Threshold \in Nat \ {0}
    BY KlinesAssumption DEF TradeSet, Builders
  <2>2. /\ ps \in Seq(Nat) /\ n \in Nat \ {0} /\ Total(ps) = trade.size
        /\ \A i \in 1 .. n : ps[i] + begun(i) <= Threshold
        /\ \A i \in 1 .. n : i < n => ps[i] + begun(i) = Threshold
    BY <2>1, PiecesFacts
  <2>3. ApplyVolume(trade) = f[DOMAIN ps]
    BY <1>3 DEF ApplyVolume, FoldLeft, MapThenFoldSet
  <2>. HIDE DEF ps, base
  <2>4. DOMAIN ps = 1 .. n /\ n \in Nat /\ \A i \in 1 .. n : ps[i] \in Nat
    BY <2>2
  <2>5. base \in Sound
    BY <1>1
  <2>6. ASSUME NEW state \in Sound, NEW i \in 1 .. n
        PROVE  Apply(state, trade, ps[i]) \in Sound
    BY <2>4, ApplyFacts
  <2>7. \E g : IsFold(g)
    <3>1. step \in [Sound \X (1 .. n) -> Sound]
      BY <2>6
    <3>2. \A r \in Sound, i \in 1 .. n : step[<<r, i>>] = Apply(r, trade, ps[i])
      OBVIOUS
    <3>. HIDE DEF step, n, Sound
    <3>3. PICK g \in [SUBSET (1 .. n) -> Sound] : IsMaxRecursion(g, n, base, step)
      BY <2>4, <2>5, <3>1, MaxRecursion, Zenon
    <3>4. ASSUME NEW s \in SUBSET (1 .. n)
          PROVE  g[s] = IF s = {} THEN base ELSE Apply(g[s \ {Max(s)}], trade, ps[Max(s)])
      <4>1. CASE s = {}
        BY <3>3, <4>1 DEF IsMaxRecursion
      <4>2. CASE s # {}
        <5>1. Max(s) \in s
          BY <2>4, <4>2, MaxFacts
        <5>2. Max(s) \in 1 .. n /\ g[s \ {Max(s)}] \in Sound
          BY <5>1
        <5>3. g[s] = step[<<g[s \ {Max(s)}], Max(s)>>]
          BY <3>3, <4>2 DEF IsMaxRecursion
        <5>. QED BY <3>2, <4>2, <5>2, <5>3
      <4>. QED BY <4>1, <4>2
    <3>5. IsFold(g)
      BY <2>4, <3>4
    <3>. HIDE DEF IsFold
    <3>. QED BY <3>5
  <2>8. IsFold(f)
    <3>. HIDE DEF IsFold
    <3>. QED BY <2>7
  <2>. HIDE DEF f
  <2>9. f[1 .. 0] = base
    <3>1. 1 .. 0 = {} /\ 1 .. 0 \in SUBSET (1 .. n)
      BY <2>4
    <3>. QED BY <2>4, <2>8, <3>1
  <2>10. ASSUME NEW i \in 1 .. n PROVE f[1 .. i] = Apply(f[1 .. (i - 1)], trade, ps[i])
    <3>1. Max(1 .. i) = i /\ (1 .. i) \ {i} = 1 .. (i - 1)
      BY <2>4, MaxOfInterval
    <3>2. 1 .. i \in SUBSET (1 .. n) /\ 1 .. i # {}
      <4>1. i \in Nat /\ i <= n /\ i \in 1 .. i
        BY <2>4
      <4>. HIDE DEF n
      <4>. QED BY <2>4, <4>1
    <3>3. f[1 .. i] = Apply(f[(1 .. i) \ {Max(1 .. i)}], trade, ps[Max(1 .. i)])
      BY <2>4, <2>8, <3>2
    <3>. QED BY <3>1, <3>3
  <2>. HIDE DEF IsFold, step
  <2>11. PICK r : IsRunningSum(r, ps, n)
    <3>1. ps \in [1 .. n -> Int]
      BY <2>4, <2>2
    <3>. QED BY <2>4, <3>1, RunningSumExists
  <2>12. /\ r[0] = 0 /\ r[n] = trade.size
         /\ \A i \in 0 .. n : r[i] \in Int
         /\ \A i \in 1 .. n : r[i] = r[i - 1] + ps[i]
    <3>1. ps \in [1 .. n -> Int] /\ Total(ps) = SumOf(ps, n)
      BY <2>2, TotalIsSum
    <3>2. SumOf(ps, n) = r[n]
      BY <2>4, <2>11, <3>1, SumIsLast
    <3>. QED BY <2>2, <2>11, <3>1, <3>2 DEF IsRunningSum
  <2>. HIDE DEF n
  <2>. DEFINE Upto(i) ==
         /\ f[1 .. i] \in States /\ Timed(f[1 .. i].builder)
         /\ f[1 .. i].builder.tsLast = IF i > 0 /\ takes THEN trade.timestamp
                                       ELSE volumeBuilder.tsLast
         /\ Counted(f[1 .. i]) = volumeBuilder.volume + (IF takes THEN r[i] ELSE 0)
         /\ f[1 .. i].builder.volume < Threshold
         /\ i < n => f[1 .. i].builder.volume = IF i = 0 THEN volumeBuilder.volume ELSE 0
         /\ takes => Full(f[1 .. i].bars)
       Done == {i \in Nat : i <= n => Upto(i)}
  <2>13. Upto(0)
    BY <1>1, <2>1, <2>9, <2>12
  <2>14. ASSUME NEW i \in Nat, i + 1 <= n, Upto(i) PROVE Upto(i + 1)
    <3>. DEFINE state == f[1 .. i]
                next == f[1 .. (i + 1)]
                piece == ps[i + 1]
    <3>1. i + 1 \in 1 .. n /\ (i + 1) - 1 = i /\ i \in 0 .. n /\ i < n
      BY <2>4, <2>14
    <3>2. next = Apply(state, trade, piece)
      BY <2>10, <3>1
    <3>3. piece \in Nat /\ r[i + 1] = r[i] + piece /\ r[i] \in Int
      BY <2>4, <2>12, <3>1
    <3>4. /\ piece + begun(i + 1) <= Threshold
          /\ i + 1 < n => piece + begun(i + 1) = Threshold
      BY <2>2, <3>1
    <3>5. begun(i + 1) = IF i = 0 THEN volumeBuilder.volume ELSE 0
      BY <3>1
    <3>6. /\ state \in States /\ Timed(state.builder)
          /\ state.builder.tsLast = IF i > 0 /\ takes THEN trade.timestamp
                                    ELSE volumeBuilder.tsLast
          /\ Counted(state) = volumeBuilder.volume + (IF takes THEN r[i] ELSE 0)
          /\ state.builder.volume = IF i = 0 THEN volumeBuilder.volume ELSE 0
          /\ takes => Full(state.bars)
      BY <2>14, <3>1
    <3>. HIDE DEF state, next, piece, Upto
    <3>7. state.builder.tsLast <= trade.timestamp <=> takes
      BY <2>1, <3>6
    <3>8. /\ next \in States /\ Timed(next.builder)
          /\ next.builder.tsLast = (IF state.builder.tsLast <= trade.timestamp
                                    THEN trade.timestamp ELSE state.builder.tsLast)
          /\ Counted(state) \in Int
          /\ Counted(next) = Counted(state)
                + (IF state.builder.tsLast <= trade.timestamp THEN piece ELSE 0)
          /\ state.builder.volume + piece >= Threshold => next.builder.volume = 0
          /\ ~ (state.builder.volume + piece >= Threshold)
             => next.builder.volume = state.builder.volume
                  + (IF state.builder.tsLast <= trade.timestamp THEN piece ELSE 0)
          /\ Full(state.bars) /\ state.builder.tsLast <= trade.timestamp
             /\ state.builder.volume + piece <= Threshold => Full(next.bars)
      BY <3>2, <3>3, <3>6, ApplyFacts
    <3>. HIDE DEF begun
    <3>9. state.builder.volume = begun(i + 1) /\ begun(i + 1) \in Nat
      BY <2>1, <3>5, <3>6
    <3>10. next.builder.tsLast = IF takes THEN trade.timestamp ELSE volumeBuilder.tsLast
      BY <3>6, <3>7, <3>8
    <3>11. Counted(next) = volumeBuilder.volume + (IF takes THEN r[i + 1] ELSE 0)
      BY <2>1, <3>3, <3>6, <3>7, <3>8
    <3>12. next.builder.volume < Threshold
           /\ (i + 1 < n => next.builder.volume = 0)
      <4>1. CASE state.builder.volume + piece >= Threshold
        BY <2>1, <3>8, <4>1
      <4>2. CASE ~ (state.builder.volume + piece >= Threshold)
        <5>1. ~ (i + 1 < n)
          BY <2>1, <3>3, <3>4, <3>9, <4>2
        <5>2. next.builder.volume < Threshold
          BY <2>1, <3>3, <3>8, <3>9, <4>2
        <5>. QED BY <5>1, <5>2
      <4>. QED BY <4>1, <4>2
    <3>13. takes => Full(next.bars)
      BY <2>1, <3>3, <3>4, <3>6, <3>7, <3>8, <3>9
    <3>14. i + 1 > 0 /\ i + 1 # 0
      OBVIOUS
    <3>. QED BY <3>8, <3>10, <3>11, <3>12, <3>13, <3>14 DEF Upto, next
  <2>. HIDE DEF Upto
  <2>15. n \in Done
    <3>1. 0 \in Done
      BY <2>13
    <3>2. ASSUME NEW i \in Nat, i \in Done PROVE i + 1 \in Done
      BY <2>4, <2>14, <3>2
    <3>. HIDE DEF Done
    <3>. QED BY <2>4, <3>1, <3>2, NatSetInduction
  <2>16. Upto(n) /\ n > 0
    BY <2>2, <2>4, <2>15
  <2>17. ApplyVolume(trade) = f[1 .. n]
    BY <2>3, <2>4
  <2>. DEFINE last == f[1 .. n]
  <2>18. /\ last \in States /\ Timed(last.builder)
         /\ last.builder.tsLast = IF takes THEN trade.timestamp ELSE volumeBuilder.tsLast
         /\ Counted(last) = volumeBuilder.volume + (IF takes THEN trade.size ELSE 0)
         /\ last.builder.volume < Threshold
         /\ takes => Full(last.bars)
    BY <2>12, <2>16 DEF Upto
  <2>. HIDE DEF last
  <2>19. VolumeOf(last.bars) \in Int
    <3>1. last.bars \in Seq(Bars) /\ last.builder \in Builders
      BY <2>18 DEF States
    <3>. QED BY <3>1, KlineFacts, VolumeAppend
  <2>. QED BY <1>3, <2>17, <2>18, <2>19 DEF last, Counted
<1>. QED BY <1>2, <1>3

-----------------------------------------------------------------------------
(* The steps.                                                               *)

LEMMA InitKeeps == KlinesInit => KlinesInv
<1>. SUFFICES ASSUME KlinesInit PROVE KlinesInv
  OBVIOUS
<1>1. NewBuilder \in Builders /\ Timed(NewBuilder) /\ NewBuilder.volume = 0
      /\ NewBuilder.buyVolume = 0 /\ NewBuilder.tsLast = 0
  BY DEF NewBuilder, Builders, Nothing, Timed
<1>2. KlinesTypeOK
  <2>1. sent \in [time : Nat, timeBuy : Nat, volume : Nat]
    BY DEF KlinesInit
  <2>2. buildWithNoUpdates \in BOOLEAN /\ late \in BOOLEAN
    BY Zenon DEF KlinesInit
  <2>. QED BY <1>1, <2>1, <2>2, VolumeNone DEF KlinesInit, KlinesTypeOK
<1>3. BuildersOK
  BY <1>1, KlinesAssumption DEF KlinesInit, BuildersOK
<1>4. BarsAreFull
  <2>1. DOMAIN volumeBars = {}
    BY DEF KlinesInit
  <2>. QED BY <2>1 DEF BarsAreFull
<1>5. AggregatorsAgree
  <2>1. sent.time = 0 /\ sent.timeBuy = 0 /\ sent.volume = 0
    BY DEF KlinesInit
  <2>2. timeBuilder.volume = 0 /\ timeBuilder.buyVolume = 0 /\ volumeBuilder.volume = 0
    BY <1>1 DEF KlinesInit
  <2>3. volumeType \in {"DEFAULT", "BUY", "SELL"}
    BY DEF KlinesInit
  <2>. QED BY <2>1, <2>2, <2>3 DEF AggregatorsAgree
<1>. QED BY <1>2, <1>3, <1>4, <1>5 DEF KlinesInv

\* A trade is handed to both aggregators.
LEMMA HandleTradeKeeps ==
  ASSUME KlinesInv, NEW trade \in TradeSet, trade.timestamp \in {now - 1, now},
         HandleTrade(trade)
  PROVE  KlinesInv'
<1>. DEFINE after == ApplyVolume(trade)
            takesT == timeBuilder.tsLast <= trade.timestamp
            takesV == WantedSide(trade) /\ volumeBuilder.tsLast <= trade.timestamp
<1>1. /\ KlinesTypeOK /\ BuildersOK /\ AggregatorsAgree
      /\ timeBuilder \in Builders /\ volumeBuilder \in Builders /\ now \in Nat
      /\ Timed(timeBuilder) /\ Timed(volumeBuilder) /\ volumeBuilder.volume < Threshold
      /\ timeBuilder.tsLast <= now /\ volumeBuilder.tsLast <= now
      /\ volumeType = "DEFAULT" => timeBuilder.tsLast = volumeBuilder.tsLast
      /\ volumeType \in {"DEFAULT", "BUY", "SELL"} /\ late \in BOOLEAN
      /\ sent \in [time : Nat, timeBuy : Nat, volume : Nat]
  BY DEF KlinesInv, KlinesTypeOK, BuildersOK
<1>2. /\ trade.price \in Nat \ {0} /\ trade.size \in Nat \ {0} /\ trade.side \in Sides
      /\ trade.timestamp \in Nat /\ trade.timestamp <= now
      /\ trade = [price |-> trade.price, size |-> trade.size, side |-> trade.side,
                  timestamp |-> trade.timestamp]
  BY <1>1 DEF TradeSet
<1>3. /\ timeBuilder' = Update(timeBuilder, trade) /\ timeBars' = <<>>
      /\ volumeBuilder' = after.builder /\ volumeBars' = after.bars
      /\ sent' = [sent EXCEPT !.volume = @ + VolumeOf(after.bars)]
      /\ late' = (late \/ trade.timestamp < now)
      /\ volumeType' = volumeType /\ buildWithNoUpdates' = buildWithNoUpdates /\ now' = now
  BY DEF HandleTrade
<1>4. /\ Update(timeBuilder, trade) \in Builders /\ Timed(Update(timeBuilder, trade))
      /\ Update(timeBuilder, trade).tsLast
         = (IF takesT THEN trade.timestamp ELSE timeBuilder.tsLast)
      /\ Update(timeBuilder, trade).volume
         = timeBuilder.volume + (IF takesT THEN trade.size ELSE 0)
      /\ Update(timeBuilder, trade).buyVolume
         = timeBuilder.buyVolume
             + (IF trade.side = "BUY" THEN IF takesT THEN trade.size ELSE 0 ELSE 0)
  <2>1. trade.size \in Nat
    BY <1>2
  <2>. QED BY <1>1, <1>2, <2>1, UpdateFacts
<1>5. /\ after \in States /\ Timed(after.builder)
      /\ after.builder.tsLast = (IF takesV THEN trade.timestamp ELSE volumeBuilder.tsLast)
      /\ VolumeOf(after.bars) \in Int
      /\ after.builder.volume + VolumeOf(after.bars)
         = volumeBuilder.volume + (IF takesV THEN trade.size ELSE 0)
      /\ after.builder.volume < Threshold
      /\ volumeBuilder.tsLast <= trade.timestamp => Full(after.bars)
  BY <1>1, ApplyVolumeFacts
<1>. HIDE DEF after
<1>6. after.builder \in Builders /\ after.bars \in Seq(Bars)
  BY <1>5 DEF States
<1>7. /\ timeBuilder.volume \in Nat /\ timeBuilder.buyVolume \in Nat /\ volumeBuilder.volume \in Nat
      /\ timeBuilder.tsLast \in Nat /\ volumeBuilder.tsLast \in Nat /\ after.builder.volume \in Nat
      /\ sent.time \in Nat /\ sent.timeBuy \in Nat /\ sent.volume \in Nat
  BY <1>1, <1>6 DEF Builders
<1>8. /\ sent'.volume = sent.volume + VolumeOf(after.bars)
      /\ sent'.time = sent.time /\ sent'.timeBuy = sent.timeBuy
  BY <1>1, <1>3
<1>9. VolumeOf(after.bars) \in Nat
  BY <1>6, VolumeIsNat
<1>10. ~ late' => ~ late /\ trade.timestamp = now
  <2>1. ~ late' => ~ late /\ ~ (trade.timestamp < now)
    BY <1>3, Zenon
  <2>. QED BY <1>1, <1>2, <2>1
<1>11. KlinesTypeOK'
  <2>1. sent' \in [time : Nat, timeBuy : Nat, volume : Nat]
    BY <1>1, <1>3, <1>7, <1>9
  <2>2. late' \in BOOLEAN /\ buildWithNoUpdates' \in BOOLEAN
    BY <1>1, <1>3, Zenon DEF KlinesTypeOK
  <2>. QED BY <1>1, <1>3, <1>4, <1>6, <2>1, <2>2, VolumeNone DEF KlinesTypeOK
<1>12. BuildersOK'
  <2>1. /\ timeBuilder'.tsLast <= now /\ volumeBuilder'.tsLast <= now
    BY <1>1, <1>2, <1>3, <1>4, <1>5
  <2>2. volumeType = "DEFAULT" => timeBuilder'.tsLast = volumeBuilder'.tsLast
    BY <1>1, <1>3, <1>4, <1>5 DEF WantedSide
  <2>. QED BY <1>3, <1>4, <1>5, <2>1, <2>2 DEF BuildersOK
<1>13. BarsAreFull'
  <2>1. ~ late' => Full(after.bars)
    BY <1>1, <1>5, <1>10
  <2>2. DOMAIN after.bars = 1 .. Len(after.bars)
    BY <1>6
  <2>. QED BY <1>3, <2>1, <2>2 DEF BarsAreFull, Full
<1>14. AggregatorsAgree'
  <2>. DEFINE taken == IF takesT THEN trade.size ELSE 0
              counted == IF takesV THEN trade.size ELSE 0
              bought == IF trade.side = "BUY" THEN taken ELSE 0
  <2>1. taken \in Nat /\ counted \in Nat /\ bought \in Nat
    BY <1>2
  <2>2. /\ sent'.volume + volumeBuilder'.volume = (sent.volume + volumeBuilder.volume) + counted
        /\ sent'.time + timeBuilder'.volume = (sent.time + timeBuilder.volume) + taken
        /\ sent'.timeBuy + timeBuilder'.buyVolume
           = (sent.timeBuy + timeBuilder.buyVolume) + bought
    <3>1. /\ timeBuilder'.volume = timeBuilder.volume + taken
          /\ timeBuilder'.buyVolume = timeBuilder.buyVolume + bought
          /\ volumeBuilder'.volume + VolumeOf(after.bars) = volumeBuilder.volume + counted
          /\ volumeBuilder'.volume \in Nat
      BY <1>3, <1>4, <1>5, <1>7
    <3>. HIDE DEF taken, counted, bought
    <3>. QED BY <1>7, <1>8, <1>9, <2>1, <3>1
  <2>3. volumeType = "DEFAULT" => counted = taken
    BY <1>1 DEF WantedSide
  <2>4. ~ late' => ~ late /\ takesT /\ volumeBuilder.tsLast <= trade.timestamp
    BY <1>1, <1>10
  <2>5. ~ late' /\ volumeType = "BUY" => counted = bought
    BY <2>4 DEF WantedSide
  <2>6. ~ late' /\ volumeType = "SELL" => counted = taken - bought
    BY <1>2, <2>4 DEF WantedSide, Sides
  <2>. HIDE DEF taken, counted, bought
  <2>. DEFINE held == sent.volume + volumeBuilder.volume
              all == sent.time + timeBuilder.volume
              buys == sent.timeBuy + timeBuilder.buyVolume
  <2>7. held \in Int /\ all \in Int /\ buys \in Int
    BY <1>7
  <2>8. /\ volumeType = "DEFAULT" => held = all
        /\ ~ late /\ volumeType = "BUY" => held = buys
        /\ ~ late /\ volumeType = "SELL" => held = all - buys
    BY <1>1 DEF AggregatorsAgree
  <2>. HIDE DEF held, all, buys
  <2>9. /\ volumeType = "DEFAULT" => held + counted = all + taken
        /\ ~ late' /\ volumeType = "BUY" => held + counted = buys + bought
        /\ ~ late' /\ volumeType = "SELL"
           => held + counted = (all + taken) - (buys + bought)
    BY <2>1, <2>3, <2>4, <2>5, <2>6, <2>7, <2>8
  <2>. QED BY <1>1, <1>3, <2>2, <2>9 DEF AggregatorsAgree, held, all, buys
<1>. QED BY <1>11, <1>12, <1>13, <1>14 DEF KlinesInv

\* The timer closes a bar.
LEMMA BuildBarKeeps == KlinesInv /\ BuildBar => KlinesInv'
<1>. SUFFICES ASSUME KlinesInv, BuildBar PROVE KlinesInv'
  OBVIOUS
<1>1. /\ KlinesTypeOK /\ BuildersOK /\ AggregatorsAgree
      /\ timeBuilder \in Builders /\ volumeBuilder \in Builders /\ now \in Nat
      /\ Timed(timeBuilder) /\ Timed(volumeBuilder) /\ volumeBuilder.volume < Threshold
      /\ timeBuilder.tsLast <= now /\ volumeBuilder.tsLast <= now
      /\ volumeType = "DEFAULT" => timeBuilder.tsLast = volumeBuilder.tsLast
      /\ volumeType \in {"DEFAULT", "BUY", "SELL"}
      /\ sent \in [time : Nat, timeBuy : Nat, volume : Nat]
  BY DEF KlinesInv, KlinesTypeOK, BuildersOK
<1>. DEFINE builds == (buildWithNoUpdates \/ timeBuilder.count > 0) /\ timeBuilder.initialized
            bars == IF builds THEN <<Kline(timeBuilder)>> ELSE <<>>
<1>2. /\ now' = now + 1 /\ timeBars' = bars
      /\ timeBuilder' = IF builds THEN Reset(timeBuilder) ELSE timeBuilder
      /\ sent' = [sent EXCEPT !.time = @ + VolumeOf(bars), !.timeBuy = @ + BuyVolumeOf(bars)]
      /\ volumeBars' = <<>> /\ volumeType' = volumeType
      /\ buildWithNoUpdates' = buildWithNoUpdates
      /\ late' = late /\ volumeBuilder' = volumeBuilder
  BY DEF BuildBar
<1>3. /\ timeBuilder.volume \in Nat /\ timeBuilder.buyVolume \in Nat /\ volumeBuilder.volume \in Nat
      /\ timeBuilder.tsLast \in Nat /\ volumeBuilder.tsLast \in Nat
      /\ sent.time \in Nat /\ sent.timeBuy \in Nat /\ sent.volume \in Nat
  BY <1>1 DEF Builders
<1>4. /\ bars \in Seq(Bars) /\ timeBuilder' \in Builders /\ Timed(timeBuilder')
      /\ timeBuilder'.tsLast = timeBuilder.tsLast
      /\ VolumeOf(bars) + timeBuilder'.volume = timeBuilder.volume
      /\ BuyVolumeOf(bars) + timeBuilder'.buyVolume = timeBuilder.buyVolume
      /\ VolumeOf(bars) \in Nat /\ BuyVolumeOf(bars) \in Nat
  <2>1. CASE builds
    <3>1. /\ Kline(timeBuilder) \in Bars /\ Kline(timeBuilder).volume = timeBuilder.volume
          /\ Kline(timeBuilder).buyVolume = timeBuilder.buyVolume
      BY <1>1, KlineFacts
    <3>2. /\ Reset(timeBuilder) \in Builders /\ Reset(timeBuilder).volume = 0
          /\ Reset(timeBuilder).buyVolume = 0
          /\ Reset(timeBuilder).tsLast = timeBuilder.tsLast /\ Timed(Reset(timeBuilder))
      BY <1>1, ResetFacts
    <3>3. bars = Append(<<>>, Kline(timeBuilder))
      BY <2>1
    <3>4. timeBuilder' = Reset(timeBuilder)
      BY <1>2, <2>1
    <3>. HIDE DEF bars, builds
    <3>5. /\ VolumeOf(bars) = 0 + timeBuilder.volume
          /\ BuyVolumeOf(bars) = 0 + timeBuilder.buyVolume
      BY <3>1, <3>3, VolumeNone, VolumeAppend
    <3>6. bars \in Seq(Bars)
      BY <3>1, <3>3, VolumeNone
    <3>. QED BY <1>3, <3>2, <3>4, <3>5, <3>6
  <2>2. CASE ~ builds
    BY <1>1, <1>2, <1>3, <2>2, VolumeNone
  <2>. QED BY <2>1, <2>2
<1>. HIDE DEF bars, builds
<1>5. KlinesTypeOK'
  <2>1. sent' \in [time : Nat, timeBuy : Nat, volume : Nat]
    <3>1. sent.time + VolumeOf(bars) \in Nat /\ sent.timeBuy + BuyVolumeOf(bars) \in Nat
      BY <1>3, <1>4
    <3>. QED BY <1>1, <1>2, <3>1
  <2>2. late' \in BOOLEAN /\ buildWithNoUpdates' \in BOOLEAN
    BY <1>1, <1>2, Zenon DEF KlinesTypeOK
  <2>3. now' \in Nat
    BY <1>1, <1>2
  <2>. QED BY <1>1, <1>2, <1>4, <2>1, <2>2, <2>3, VolumeNone DEF KlinesTypeOK
<1>6. BuildersOK'
  <2>1. timeBuilder'.tsLast <= now' /\ volumeBuilder'.tsLast <= now'
    BY <1>1, <1>2, <1>3, <1>4
  <2>. QED BY <1>1, <1>2, <1>4, <2>1 DEF BuildersOK
<1>7. BarsAreFull'
  <2>1. DOMAIN volumeBars' = {}
    BY <1>2
  <2>. QED BY <2>1 DEF BarsAreFull
<1>8. AggregatorsAgree'
  <2>1. /\ sent'.volume = sent.volume /\ sent'.time = sent.time + VolumeOf(bars)
        /\ sent'.timeBuy = sent.timeBuy + BuyVolumeOf(bars)
    BY <1>1, <1>2
  <2>2. timeBuilder'.volume \in Nat /\ timeBuilder'.buyVolume \in Nat
    BY <1>4 DEF Builders
  <2>3. /\ sent'.volume + volumeBuilder'.volume = sent.volume + volumeBuilder.volume
        /\ sent'.time + timeBuilder'.volume = sent.time + timeBuilder.volume
        /\ sent'.timeBuy + timeBuilder'.buyVolume = sent.timeBuy + timeBuilder.buyVolume
    <3>1. volumeBuilder'.volume = volumeBuilder.volume
      BY <1>2
    <3>2. VolumeOf(bars) \in Nat /\ VolumeOf(bars) + timeBuilder'.volume = timeBuilder.volume
      BY <1>4
    <3>3. /\ BuyVolumeOf(bars) \in Nat
          /\ BuyVolumeOf(bars) + timeBuilder'.buyVolume = timeBuilder.buyVolume
      BY <1>4
    <3>4. sent'.time + timeBuilder'.volume = sent.time + timeBuilder.volume
      BY <1>3, <2>1, <2>2, <3>2
    <3>5. sent'.timeBuy + timeBuilder'.buyVolume = sent.timeBuy + timeBuilder.buyVolume
      BY <1>3, <2>1, <2>2, <3>3
    <3>. QED BY <2>1, <3>1, <3>4, <3>5
  <2>. QED BY <1>1, <1>2, <2>3 DEF AggregatorsAgree
<1>. QED BY <1>5, <1>6, <1>7, <1>8 DEF KlinesInv

-----------------------------------------------------------------------------
(* The theorems about the klines.                                           *)

\* The invariant of the two aggregators of a symbol.
THEOREM KlinesInvariant == KlinesSpec => []KlinesInv
<1>1. KlinesInv /\ [KlinesNext]_vars => KlinesInv'
  <2>. SUFFICES ASSUME KlinesInv, [KlinesNext]_vars PROVE KlinesInv'
    OBVIOUS
  <2>1. ASSUME NEW p \in Prices, NEW z \in Sizes, NEW s \in Sides, NEW t \in Timestamps,
               HandleTrade([price |-> p, size |-> z, side |-> s, timestamp |-> t])
        PROVE  KlinesInv'
    <3>. DEFINE trade == [price |-> p, size |-> z, side |-> s, timestamp |-> t]
    <3>1. now \in Nat
      BY DEF KlinesInv, KlinesTypeOK
    <3>2. t \in Nat /\ t \in {now - 1, now}
      BY <3>1 DEF Timestamps
    <3>3. p \in Nat \ {0} /\ z \in Nat \ {0}
      BY KlinesAssumption
    <3>4. trade \in TradeSet /\ trade.timestamp \in {now - 1, now}
      BY <3>2, <3>3 DEF TradeSet
    <3>5. HandleTrade(trade)
      BY <2>1
    <3>. HIDE DEF trade
    <3>. QED BY <3>4, <3>5, HandleTradeKeeps
  <2>2. CASE BuildBar
    BY <2>2, BuildBarKeeps
  <2>3. CASE UNCHANGED vars
    BY <2>3 DEF vars, KlinesInv, KlinesTypeOK, BuildersOK, BarsAreFull, AggregatorsAgree
  <2>. QED BY <2>1, <2>2, <2>3 DEF KlinesNext
<1>. QED BY InitKeeps, <1>1, PTL DEF KlinesSpec

\* As long as no trade comes late, every volume kline published is at its
\* threshold exactly, whatever the sizes of the trades that filled it.
THEOREM VolumeBarsAreFull == KlinesSpec => []BarsAreFull
<1>1. KlinesInv => BarsAreFull
  BY DEF KlinesInv
<1>. QED BY <1>1, KlinesInvariant, PTL

\* The volume published and held by the volume aggregator is that of the time
\* aggregator, of all trades or of the side it selects.
THEOREM BothCountTheSameTrades == KlinesSpec => []AggregatorsAgree
<1>1. KlinesInv => AggregatorsAgree
  BY DEF KlinesInv
<1>. QED BY <1>1, KlinesInvariant, PTL
=============================================================================
