------------------------------- MODULE Inventory -------------------------------
(***************************************************************************)
(* The stock of one organization: InventoryService, the requests that call *)
(* it and the Celery task check_inventory_health.                          *)
(*                                                                         *)
(* As in CaseWorkflow, a request first loads the row of an item, checks    *)
(* its guards and stages its changes, and later commits or rolls back;     *)
(* nothing is locked between the two.  Quantities are Python floats in a   *)
(* request and NUMERIC(12, 2) in the database.  They are integers here,    *)
(* in a unit that divides the hundredth: Cent units make a stored          *)
(* hundredth, so that a request may name an amount the column rounds.      *)
(***************************************************************************)
EXTENDS Integers, FiniteSets, FiniteSetsExt, OrmSession

CONSTANTS
    Items,     \* the rows that may come to exist in inventory_items
    Requests,  \* the HTTP requests and task runs that are made
    Cent,      \* units in a hundredth
    Capacity,  \* hundredths in the largest number NUMERIC(12, 2) holds
    Changes,   \* the amounts that requests name
    LastDay    \* the days are 0 .. LastDay

ASSUME CentAssumption == Cent \in Nat \ {0}
ASSUME CapacityAssumption == Capacity \in Nat
ASSUME ChangesAssumption == Changes \subseteq Int
ASSUME LastDayAssumption == LastDay \in Nat

VARIABLES
    items,   \* the committed row of each item that exists
    opening, \* history: the stock the seed script gave an item, without a movement
    ledger,  \* rows of stock_movements
    audit,   \* rows of audit_logs
    alerts,  \* the inventory_low alerts, by the run that wrote them
    today,   \* date.today()
    open,    \* the requests that have loaded an item and not yet committed
    checks,  \* the runs of check_inventory_health that have loaded the items
    served,  \* the requests and runs that have begun
    stale    \* history: the items that a commit from an outdated row has written

vars == <<items, opening, ledger, audit, alerts, today, open, checks, served, stale>>

-----------------------------------------------------------------------------
Stored == {n * Cent : n \in -Capacity .. Capacity}

\* The hundredths a number may be stored as: the nearest one, and either of
\* two at a tie, where the binary error of the float decides.
Nearest(q) == {h \in Stored : 2 * (h - q) <= Cent /\ 2 * (q - h) <= Cent}

Days == 0 .. LastDay
Expiry == Days \cup {LastDay + 1}   \* an item without an expiry date never expires
InventoryStatus == {"available", "low_stock", "out_of_stock", "expired"}

\* The columns of an item that the operations read or write.  A threshold of
\* 0 stands for NULL too: the code tests its truth.
Item(quantities) ==
    [quantity : quantities, threshold : Stored, expiry : Expiry, status : InventoryStatus]

Op == {"create", "update", "adjust"}

\* A request between its first query and its commit: the row it loaded, the
\* row its session holds and the change its movement will record.
Transaction == [req : Requests, op : Op, item : Items,
                loaded : Item(Stored), mine : Item(Int), change : Int]

\* A run of check_inventory_health between its SELECT and its commit.
IsHealthRun(k) ==
    /\ k.req \in Requests
    /\ k.day \in Days
    /\ DOMAIN k.seen \subseteq DOMAIN items
    /\ \A i \in DOMAIN k.seen : k.seen[i] \in Item(Stored)

Movement == [req : Requests, item : Items, change : Stored]
AuditRecord == [req : Requests, item : Items, op : Op]
LowAlert == [req : Requests, item : Items]

TypeOK ==
    /\ DOMAIN items \subseteq Items
    /\ items = [i \in DOMAIN items |-> items[i]]
    /\ \A i \in DOMAIN items : items[i] \in Item(Stored)
    /\ opening \in [Items -> Stored]
    /\ ledger \subseteq Movement
    /\ audit \subseteq AuditRecord
    /\ alerts \subseteq LowAlert
    /\ today \in Days
    /\ open \subseteq Transaction
    /\ \A k \in checks : IsHealthRun(k)
    /\ served \subseteq Requests
    /\ stale \subseteq Items

\* A row as the seed script writes it.
SeededItem ==
    {row \in Item(Stored) : row.quantity > row.threshold /\ row.threshold > 0
                            /\ row.expiry = LastDay + 1 /\ row.status = "available"}

Init ==
    /\ \E seeded \in SUBSET Items :
        /\ items \in [seeded -> SeededItem]
        /\ opening = [i \in Items |-> IF i \in seeded THEN items[i].quantity ELSE 0]
    /\ ledger = {} /\ audit = {} /\ alerts = {}
    /\ today = 0
    /\ open = {} /\ checks = {} /\ served = {} /\ stale = {}

-----------------------------------------------------------------------------
IsLow(row) == row.threshold # 0 /\ row.quantity <= row.threshold

\* _determine_status
DetermineStatus(row) ==
    CASE row.expiry <= today -> "expired"
      [] row.expiry > today /\ row.quantity <= 0 -> "out_of_stock"
      [] row.expiry > today /\ row.quantity > 0 /\ IsLow(row) -> "low_stock"
      [] OTHER -> "available"

WithStatus(row) == [row EXCEPT !.status = DetermineStatus(row)]

\* The assignments to item.status in the loop of check_inventory_health: the
\* last one that applies wins.
HealthStatus(row, day) ==
    CASE row.quantity <= 0 -> "out_of_stock"
      [] row.quantity > 0 /\ IsLow(row) -> "low_stock"
      [] row.quantity > 0 /\ ~IsLow(row) /\ row.expiry <= day -> "expired"
      [] OTHER -> row.status

-----------------------------------------------------------------------------
Begin(r) == r \notin served /\ served' = served \cup {r}

\* POST /inventory/items: nothing is read, so that it is one step.
CreateItem(r, i, quantity, threshold, expiry) ==
    /\ Begin(r)
    /\ i \notin DOMAIN items
    /\ quantity >= 0
    /\ \E q, change \in Nearest(quantity) :
        LET row == [quantity |-> quantity, threshold |-> threshold, expiry |-> expiry,
                    status |-> "available"]
            new == [WithStatus(row) EXCEPT !.quantity = q]
        IN  /\ items' = [j \in DOMAIN items \cup {i} |-> IF j = i THEN new ELSE items[j]]
            /\ ledger' = ledger \cup
                 (IF quantity > 0 THEN {[req |-> r, item |-> i, change |-> change]} ELSE {})
    /\ audit' = audit \cup {[req |-> r, item |-> i, op |-> "create"]}
    /\ UNCHANGED <<opening, alerts, today, open, checks, stale>>

\* Mutant of Stage: the status is not computed again.
StageKeepingStatus(r, op, i, mine, change) ==
    /\ Begin(r)
    /\ i \in DOMAIN items
    /\ open' = open \cup {[req |-> r, op |-> op, item |-> i, loaded |-> items[i],
                           mine |-> mine, change |-> change]}
    /\ UNCHANGED <<items, opening, ledger, audit, alerts, today, checks, stale>>

Stage(r, op, i, mine, change) ==
    /\ Begin(r)
    /\ i \in DOMAIN items
    /\ open' = open \cup {[req |-> r, op |-> op, item |-> i, loaded |-> items[i],
                           mine |-> WithStatus(mine), change |-> change]}
    /\ UNCHANGED <<items, opening, ledger, audit, alerts, today, checks, stale>>

\* PUT /inventory/items/{id}: the metadata; a field that is null is not applied.
UpdateItem(r, i, threshold, expiry) ==
    /\ i \in DOMAIN items
    /\ Stage(r, "update", i,
             [items[i] EXCEPT !.threshold = threshold, !.expiry = expiry], 0)

\* Mutant of AdjustStock: a negative result is not refused.
AdjustUnchecked(r, i, change) ==
    /\ i \in DOMAIN items
    /\ Stage(r, "adjust", i, [items[i] EXCEPT !.quantity = @ + change], change)

\* adjust_stock up to the commit of its caller.
AdjustStock(r, i, change) ==
    /\ i \in DOMAIN items
    /\ items[i].quantity + change >= 0
    /\ Stage(r, "adjust", i, [items[i] EXCEPT !.quantity = @ + change], change)

\* POST /inventory/distribute: an expired item is not refused.
Distribute(r, i, quantity) ==
    /\ i \in DOMAIN items
    /\ quantity > 0
    /\ items[i].status # "out_of_stock"
    /\ items[i].quantity >= quantity
    /\ AdjustStock(r, i, -quantity)

-----------------------------------------------------------------------------
\* The flush of a staged row: q is what the quantity it holds is stored as.
MergeItem(now, t, q) ==
    [quantity  |-> IF t.mine.quantity # t.loaded.quantity THEN q ELSE now.quantity,
     threshold |-> Flushed(now.threshold, t.loaded.threshold, t.mine.threshold),
     expiry    |-> Flushed(now.expiry, t.loaded.expiry, t.mine.expiry),
     status    |-> Flushed(now.status, t.loaded.status, t.mine.status)]

\* Mutants of NewMovements: only what leaves, or only what arrives, is recorded.
NewDepartures(t, change) ==
    IF t.change < 0 THEN {[req |-> t.req, item |-> t.item, change |-> change]} ELSE {}

NewArrivals(t, change) ==
    IF t.change > 0 THEN {[req |-> t.req, item |-> t.item, change |-> change]} ELSE {}

NewMovements(t, change) ==
    IF t.op = "adjust" THEN {[req |-> t.req, item |-> t.item, change |-> change]} ELSE {}

\* db.commit() of the route.  A quantity beyond the column's capacity is
\* stored as nothing: the flush fails, which leaves Rollback.
Commit(t) ==
    /\ \E q \in Nearest(t.mine.quantity), change \in Nearest(t.change) :
        /\ items' = [items EXCEPT ![t.item] = MergeItem(@, t, q)]
        /\ ledger' = ledger \cup NewMovements(t, change)
    /\ audit' = audit \cup {[req |-> t.req, item |-> t.item, op |-> t.op]}
    /\ stale' = IF t.loaded = items[t.item] THEN stale ELSE stale \cup {t.item}
    /\ open' = open \ {t}
    /\ UNCHANGED <<opening, alerts, today, checks, served>>

\* get_db rolls back, or the process is lost.
Rollback(t) ==
    /\ open' = open \ {t}
    /\ UNCHANGED <<items, opening, ledger, audit, alerts, today, checks, served, stale>>

-----------------------------------------------------------------------------
\* check_inventory_health: every item is loaded, by beat or POST /reminders/run.
CheckHealth(r) ==
    /\ Begin(r)
    /\ checks' = checks \cup {[req |-> r, day |-> today, seen |-> items]}
    /\ UNCHANGED <<items, opening, ledger, audit, alerts, today, open, stale>>

\* The commit of the statuses that changed and of an alert for each low item.
CommitHealth(k) ==
    /\ items' = [i \in DOMAIN items |->
           IF i \in DOMAIN k.seen
           THEN [items[i] EXCEPT !.status =
                    Flushed(@, k.seen[i].status, HealthStatus(k.seen[i], k.day))]
           ELSE items[i]]
    /\ alerts' = alerts \cup
           {[req |-> k.req, item |-> i] : i \in {j \in DOMAIN k.seen : IsLow(k.seen[j])}}
    /\ stale' = stale \cup {i \in DOMAIN k.seen : k.seen[i] # items[i]}
    /\ checks' = checks \ {k}
    /\ UNCHANGED <<opening, ledger, audit, today, open, served>>

\* The task ends without its commit: an error or a lost worker.
AbandonHealth(k) ==
    /\ checks' = checks \ {k}
    /\ UNCHANGED <<items, opening, ledger, audit, alerts, today, open, served, stale>>

NextDay ==
    /\ today < LastDay
    /\ today' = today + 1
    /\ UNCHANGED <<items, opening, ledger, audit, alerts, open, checks, served, stale>>

-----------------------------------------------------------------------------
Thresholds == {h \in Changes : h \in Stored}

Receive(r) ==
    \/ \E i \in Items, n \in Changes, h \in Thresholds, x \in Expiry : CreateItem(r, i, n, h, x)
    \/ \E i \in Items, h \in Thresholds, x \in Expiry : UpdateItem(r, i, h, x)
    \/ \E i \in Items, n \in Changes : AdjustStock(r, i, n)
    \/ \E i \in Items, n \in Changes : Distribute(r, i, n)
    \/ CheckHealth(r)

Next ==
    \/ \E r \in Requests : Receive(r)
    \/ \E t \in open : Commit(t) \/ Rollback(t)
    \/ \E k \in checks : CommitHealth(k) \/ AbandonHealth(k)
    \/ NextDay

Spec == Init /\ [][Next]_vars

-----------------------------------------------------------------------------
Movements(i) == {m \in ledger : m.item = i}
Total(movements) == MapThenSumSet(LAMBDA m : m.change, movements)

-----------------------------------------------------------------------------
(***************************************************************************)
(* What holds however the requests interleave.                             *)
(***************************************************************************)

\* The stock of an item is never negative: the guard of adjust_stock is on
\* the value that was loaded, and so is the value that is written, so that
\* stale commits and the rounding of the column cannot take it below zero.
StockNeverNegative == \A i \in DOMAIN items : items[i].quantity >= 0

\* Stock comes from movements only: lost updates can lose stock and
\* resurrect stock, but an item never holds more than the ledger says was
\* ever received, up to the rounding of each movement.
StockWasReceived ==
    \A i \in DOMAIN items :
        items[i].quantity <= opening[i] + Total({m \in Movements(i) : m.change > 0})
                               + Cent * Cardinality(Movements(i))

-----------------------------------------------------------------------------
(***************************************************************************)
(* What holds of an item until a commit from an outdated row writes it.    *)
(***************************************************************************)

\* The ledger accounts for the stock of an item, but for the rounding of each
\* movement, until a request commits a row that it loaded before the last
\* change of that item: requests that overlap on other items, or that end
\* before the commit reads anything outdated, lose nothing.
LedgerAccounts ==
    \A i \in DOMAIN items \ stale :
        LET drift == items[i].quantity - opening[i] - Total(Movements(i))
        IN  -Cent * Cardinality(Movements(i)) <= drift
            /\ drift <= Cent * Cardinality(Movements(i))

\* An item that is out_of_stock, which distribute refuses, has no stock: only
\* a request or a health run that commits a status computed from an outdated
\* row can refuse stock that is there (or offer stock that is gone).
RefusedMeansEmpty ==
    \A i \in DOMAIN items \ stale :
        items[i].status = "out_of_stock" => items[i].quantity = 0

-----------------------------------------------------------------------------
(***************************************************************************)
(* What the documentation says and the code does not keep.                 *)
(***************************************************************************)

\* "Add or remove stock atomically" (adjust_stock): overlapping adjustments
\* overwrite each other, and the stock loses one that the ledger keeps.
LedgerBalances == \A i \in DOMAIN items : items[i].quantity = opening[i] + Total(Movements(i))

=============================================================================
