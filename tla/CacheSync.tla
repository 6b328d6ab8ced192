------------------------------ MODULE CacheSync ------------------------------
(***************************************************************************)
(* The persistence of AsyncCache (core/cache.py, backends/db_sqlite.py):   *)
(* orders and parameters live in memory; a periodic task copies them to    *)
(* the database, one table after the other, and then evicts from memory    *)
(* the orders whose timestamp has expired.  The event loop runs between    *)
(* any two of its awaits, and the process may crash at any moment.         *)
(*                                                                         *)
(* The rows of one sync_* call are written one await at a time but become  *)
(* visible together, at its commit: a copy is a snapshot and a commit.     *)
(* Positions, balances and open orders are written between the orders and  *)
(* the parameters; the process never reads the open_orders table back, and *)
(* reloads the others only in a connector nothing instantiates.            *)
(***************************************************************************)
EXTENDS OrderStatus, Naturals

CONSTANTS
  Orders, Keys, Values,
  Unset,              \* a parameter that is not there
  Placed,             \* orders of a venue whose reports carry the time of placement
  SyncMayFail,        \* TRUE: a statement on the database may raise
  MaxStarts           \* bound: starts of the process

ASSUME CacheSyncAssumption ==
  /\ Unset \notin Values
  /\ Placed \subseteq Orders
  /\ SyncMayFail \in BOOLEAN
  /\ MaxStarts \in Nat

VARIABLES
  mem,      \* _mem_orders: the status of the Order held
  told,     \* the last status the venue reported of an order of this run
  old,      \* orders whose latest timestamp is older than expired_time
  unsaved,  \* orders reported since the running round took its copy
  rows,     \* the orders table, as committed
  params,   \* _mem_params
  prows,    \* the params table, as committed
  snap,     \* what the call in progress is writing
  pc,       \* where _periodic_sync is, and whether the process runs
  starts

dataVars == <<mem, told, old, unsaved, params>>
diskVars == <<rows, prows>>
vars == <<mem, told, old, unsaved, rows, params, prows, snap, pc, starts>>

\* The moves of a live order that matter here: acknowledged, closed.
Reported == {"PENDING", "ACCEPTED", "FILLED"}
Statuses == Reported \cup {NoStatus}
Parameters == Values \cup {Unset}
NoOrders == [o \in Orders |-> NoStatus]
NoParams == [k \in Keys |-> Unset]

Syncing == {"sleep", "orders", "between", "params"}
Running == Syncing \cup {"dead"}

TypeOK ==
  /\ mem \in [Orders -> Statuses] /\ told \in [Orders -> Statuses]
  /\ old \subseteq {o \in Orders : told[o] # NoStatus \/ rows[o] # NoStatus}
  /\ unsaved \subseteq Orders
  /\ rows \in [Orders -> Statuses]
  /\ params \in [Keys -> Parameters] /\ prows \in [Keys -> Parameters]
  /\ snap \in CASE pc = "orders" -> [Orders -> Statuses]
                [] pc = "params" -> [Keys -> Parameters]
                [] OTHER -> {<<>>}
  /\ pc \in Running \cup {"stopped", "crashed"}
  /\ starts \in 0 .. MaxStarts

Init ==
  /\ mem = NoOrders /\ told = NoOrders /\ old = {} /\ unsaved = {}
  /\ params = NoParams
  /\ rows = NoOrders /\ prows = NoParams
  /\ snap = <<>> /\ pc = "stopped" /\ starts = 0

\* AsyncCache.start: the parameters are loaded, the orders are not.
Start ==
  /\ pc \in {"stopped", "crashed"} /\ starts < MaxStarts
  /\ starts' = starts + 1
  /\ pc' = "sleep"
  /\ params' = prows
  /\ mem' = NoOrders /\ told' = NoOrders /\ unsaved' = {}
  /\ old' = {o \in old : rows[o] # NoStatus}
  /\ UNCHANGED <<diskVars, snap>>

-----------------------------------------------------------------------------
(* The rest of the process, between two awaits of the sync.                 *)

\* The OMS hands a report of the venue to the cache (_order_status_update).
\* An order of an earlier run is in no registry: its reports are dropped.
Report(o, s) ==
  /\ pc \in Running
  /\ IF told[o] = NoStatus
     THEN s = "PENDING" /\ rows[o] = NoStatus
     ELSE s \in StatusesAfter(told[o]) \ {told[o]}
  /\ told' = [told EXCEPT ![o] = s]
  /\ mem' = IF s \in StatusesAfter(mem[o]) THEN [mem EXCEPT ![o] = s] ELSE mem
  /\ old' = IF o \in Placed THEN old ELSE old \ {o}
  /\ unsaved' = unsaved \cup {o}
  /\ UNCHANGED <<diskVars, params, snap, pc, starts>>

\* expired_time passes since the latest timestamp of o.  It is longer than a
\* round: a report handled during the round does not expire in it.
Age(o) ==
  /\ pc \in Running
  /\ told[o] # NoStatus
  /\ o \notin old
  /\ pc = "sleep" \/ o \notin unsaved
  /\ old' = old \cup {o}
  /\ UNCHANGED <<mem, told, unsaved, diskVars, params, snap, pc, starts>>

\* Cache.get_order of an order that is not in memory loads its row.
Reload(o) ==
  /\ pc \in Running
  /\ mem[o] = NoStatus /\ rows[o] # NoStatus
  /\ mem' = [mem EXCEPT ![o] = rows[o]]
  /\ UNCHANGED <<told, old, unsaved, diskVars, params, snap, pc, starts>>

SetParam(k, v) ==
  /\ pc \in Running
  /\ params' = [params EXCEPT ![k] = v]
  /\ UNCHANGED <<mem, told, old, unsaved, diskVars, snap, pc, starts>>

ClearParam(k) ==
  /\ pc \in Running
  /\ params' = [params EXCEPT ![k] = Unset]
  /\ UNCHANGED <<mem, told, old, unsaved, diskVars, snap, pc, starts>>

-----------------------------------------------------------------------------
(* _periodic_sync.                                                          *)

\* INSERT OR REPLACE of every order held, or of every parameter set.
MergeOrders(table, held) ==
  [o \in Orders |-> IF held[o] = NoStatus THEN table[o] ELSE held[o]]
MergeParams(table, held) ==
  [k \in Keys |-> IF held[k] = Unset THEN table[k] ELSE held[k]]

\* _cleanup_expired_data
Evicted(held) == [o \in Orders |-> IF o \in old THEN NoStatus ELSE held[o]]

\* Mutant: the round starts with the cleanup.
EvictFirst ==
  /\ pc = "sleep"
  /\ pc' = "orders"
  /\ mem' = Evicted(mem) /\ snap' = mem' /\ unsaved' = {}
  /\ UNCHANGED <<told, old, diskVars, params, starts>>

\* Mutant: only the orders that are still live are copied.
CopyLiveOnly ==
  /\ pc = "sleep"
  /\ pc' = "orders"
  /\ snap' = [o \in Orders |-> IF mem[o] \in LiveStatuses THEN mem[o] ELSE NoStatus]
  /\ unsaved' = {}
  /\ UNCHANGED <<mem, told, old, diskVars, params, starts>>

CopyOrders ==
  /\ pc = "sleep"
  /\ pc' = "orders"
  /\ snap' = mem
  /\ unsaved' = {}
  /\ UNCHANGED <<mem, told, old, diskVars, params, starts>>

CommitOrders ==
  /\ pc = "orders"
  /\ pc' = "between" /\ snap' = <<>>
  /\ rows' = MergeOrders(rows, snap)
  /\ UNCHANGED <<dataVars, prows, starts>>

CopyParams ==
  /\ pc = "between"
  /\ pc' = "params" /\ snap' = params
  /\ UNCHANGED <<dataVars, diskVars, starts>>

\* No await separates the commit of the last table from the cleanup.
CommitParams ==
  /\ pc = "params"
  /\ pc' = "sleep" /\ snap' = <<>>
  /\ prows' = MergeParams(prows, snap)
  /\ mem' = Evicted(mem)
  /\ UNCHANGED <<told, old, unsaved, rows, params, starts>>

\* Nothing catches what a statement raises: the task ends, and with it every
\* later sync and eviction.
SyncRaises ==
  /\ SyncMayFail /\ pc \in Syncing \ {"sleep"}
  /\ pc' = "dead" /\ snap' = <<>>
  /\ UNCHANGED <<dataVars, diskVars, starts>>

Sync == CopyOrders \/ CommitOrders \/ CopyParams \/ CommitParams

-----------------------------------------------------------------------------
(* The end of the process.                                                  *)

\* Mutant: close leaves the copying to the periodic task.
StopWithoutSync ==
  /\ pc \in Running
  /\ pc' = "stopped" /\ snap' = <<>>
  /\ UNCHANGED <<dataVars, diskVars, starts>>

\* Engine._dispose: every task is cancelled, then AsyncCache.close writes
\* everything once more.
Stop ==
  /\ pc \in Running
  /\ pc' = "stopped" /\ snap' = <<>>
  /\ rows' = MergeOrders(rows, mem)
  /\ prows' = MergeParams(prows, params)
  /\ UNCHANGED <<dataVars, starts>>

\* close logs what a statement raises and gives up the tables that follow.
StopFails ==
  /\ SyncMayFail /\ pc \in Running
  /\ pc' = "crashed" /\ snap' = <<>>
  /\ rows' \in {rows, MergeOrders(rows, mem)}
  /\ UNCHANGED <<dataVars, prows, starts>>

Crash ==
  /\ pc \in Running
  /\ pc' = "crashed" /\ snap' = <<>>
  /\ UNCHANGED <<dataVars, diskVars, starts>>

Loop ==
  \/ \E o \in Orders : (\E s \in Reported : Report(o, s)) \/ Age(o) \/ Reload(o)
  \/ \E k \in Keys : (\E v \in Values : SetParam(k, v)) \/ ClearParam(k)

Next == Start \/ Loop \/ Sync \/ SyncRaises \/ Stop \/ StopFails \/ Crash

Spec == Init /\ [][Next]_vars

\* The loop runs the sync task whenever the database has answered it.
FairSpec == Spec /\ WF_vars(Sync)

-----------------------------------------------------------------------------
(* Properties.                                                              *)

\* What Cache.get_order answers.
GetOrder(o) == IF mem[o] # NoStatus THEN mem[o] ELSE rows[o]

\* Through copies, evictions and reloads, get_order answers the last status
\* the venue reported of an order of this run, if reports carry their own time.
GetOrderIsCurrent ==
  pc \in Running => \A o \in Orders \ Placed : told[o] # NoStatus => GetOrder(o) = told[o]

\* After an orderly stop the database holds the last status of every order of
\* the run, evicted or not, and every parameter that is set, even if the
\* periodic task died long ago.
StopSavesEverything ==
  pc = "stopped" =>
    /\ \A o \in Orders \ Placed : told[o] # NoStatus => rows[o] = told[o]
    /\ \A k \in Keys : params[k] # Unset => prows[k] = params[k]

\* A status that is not superseded reaches the database, as long as the sync
\* task and the process live.
SavedInTheEnd ==
  \A o \in Orders \ Placed, s \in Reported :
    told[o] = s ~> rows[o] = s \/ told[o] # s \/ pc \notin Syncing
=============================================================================
