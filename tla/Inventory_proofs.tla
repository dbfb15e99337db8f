--------------------------- MODULE Inventory_proofs ---------------------------
(***************************************************************************)
(* Proofs about Inventory, for every set of items, requests and amounts:   *)
(* its type invariant, that the stock is never negative, that an item is   *)
(* refused only when it is empty, that an item never holds more than it    *)
(* received and that the ledger accounts for its stock.                    *)
(***************************************************************************)
EXTENDS Inventory, FiniteSetTheorems, WellFoundedInduction, TLAPS

\* A request that has loaded its item knows an item that exists, and holds
\* a quantity that its guard, on the value it loaded, has found not negative,
\* with a status that was computed from it.
StagedStock ==
    \A t \in open :
        /\ t.item \in DOMAIN items
        /\ t.mine.quantity >= 0
        /\ t.mine.status = "out_of_stock" => t.mine.quantity = 0

IInv == TypeOK /\ StockNeverNegative /\ StagedStock /\ RefusedMeansEmpty

-----------------------------------------------------------------------------
LEMMA StoredInt == Stored \subseteq Int /\ 0 \in Stored
  BY CentAssumption, CapacityAssumption, Z3 DEF Stored

\* A value that is not negative is stored as one that is not negative: the
\* next hundredth below zero is further from it than half a hundredth.
LEMMA NearestNotNegative ==
  ASSUME NEW q \in Int, q >= 0, NEW h \in Nearest(q)
  PROVE  h \in Stored /\ h >= 0
<1>1. h \in Stored /\ 2 * (q - h) <= Cent
  BY DEF Nearest
<1>2. PICK n \in -Capacity .. Capacity : h = n * Cent
  BY <1>1 DEF Stored
<1>3. n \in Int /\ Cent \in Int /\ Cent > 0
  BY CentAssumption, CapacityAssumption
<1>4. ASSUME n < 0 PROVE FALSE
  <2>1. n * Cent <= (-1) * Cent
    BY <1>3, <1>4
  <2>2. h <= -Cent /\ h \in Int
    BY <1>2, <1>3, <2>1
  <2> QED
    BY <1>1, <1>3, <2>2
<1>5. n * Cent >= 0
  BY <1>3, <1>4
<1> QED
  BY <1>1, <1>2, <1>5

\* Nothing is stored as nothing.
LEMMA NearestOfZero ==
  ASSUME NEW h \in Nearest(0)
  PROVE  h = 0
<1>1. h \in Stored /\ 2 * h <= Cent /\ -2 * h <= Cent
  BY StoredInt DEF Nearest
<1>2. PICK n \in -Capacity .. Capacity : h = n * Cent
  BY <1>1 DEF Stored
<1>3. n \in Int /\ Cent \in Int /\ Cent > 0
  BY CentAssumption, CapacityAssumption
<1>4. ASSUME n > 0 PROVE FALSE
  <2>1. n * Cent >= Cent
    BY <1>3, <1>4
  <2> QED
    BY <1>1, <1>2, <1>3, <2>1
<1>5. ASSUME n < 0 PROVE FALSE
  <2>1. n * Cent <= (-1) * Cent
    BY <1>3, <1>5
  <2>2. h <= -Cent /\ h \in Int
    BY <1>2, <1>3, <2>1
  <2> QED
    BY <1>1, <1>3, <2>2
<1>6. n = 0
  BY <1>3, <1>4, <1>5
<1> QED
  BY <1>2, <1>3, <1>6

\* A status that is computed says out of stock only of a row without stock.
LEMMA StatusHonest ==
  ASSUME NEW row, row.quantity \in Int, row.quantity >= 0
  PROVE  /\ DetermineStatus(row) = "out_of_stock" => row.quantity = 0
         /\ \A day : HealthStatus(row, day) = "out_of_stock" =>
                row.quantity = 0 \/ row.status = "out_of_stock"
  BY DEF DetermineStatus, HealthStatus

LEMMA StatusTyped ==
  \A row, day : /\ DetermineStatus(row) \in InventoryStatus
                /\ row.status \in InventoryStatus => HealthStatus(row, day) \in InventoryStatus
  BY DEF DetermineStatus, HealthStatus, InventoryStatus

-----------------------------------------------------------------------------
\* In its initial states the system satisfies the invariant.
LEMMA InitInv == Init => IInv
<1> SUFFICES ASSUME Init PROVE IInv
  OBVIOUS
<1>1. PICK seeded \in SUBSET Items :
        /\ items \in [seeded -> SeededItem]
        /\ opening = [i \in Items |-> IF i \in seeded THEN items[i].quantity ELSE 0]
  BY DEF Init
<1>2. \A row \in SeededItem : row \in Item(Stored) /\ row.quantity > row.threshold
                              /\ row.threshold > 0 /\ row.quantity \in Stored /\ row.threshold \in Stored
  BY DEF SeededItem, Item
<1>3. DOMAIN items = seeded /\ \A i \in seeded : items[i] \in SeededItem
  BY <1>1
<1>4. opening \in [Items -> Stored]
  BY <1>1, <1>2, <1>3, StoredInt
<1>5. \A i \in DOMAIN items : items[i].quantity >= 0
  <2> SUFFICES ASSUME NEW i \in DOMAIN items PROVE items[i].quantity >= 0
    OBVIOUS
  <2>1. items[i].quantity \in Int /\ items[i].threshold \in Int
    BY <1>2, <1>3, StoredInt
  <2> QED
    BY <1>2, <1>3, <2>1
<1>6. items = [i \in DOMAIN items |-> items[i]]
  BY <1>1
<1>7. today \in Days
  BY LastDayAssumption DEF Init, Days
<1>8. RefusedMeansEmpty
  BY <1>3 DEF RefusedMeansEmpty, SeededItem
<1> QED
  BY <1>2, <1>3, <1>4, <1>5, <1>6, <1>7, <1>8
     DEF Init, IInv, TypeOK, StockNeverNegative, StagedStock

-----------------------------------------------------------------------------
\* A request that loads an item and stages a typed row with stock in it.
LEMMA StageKeeps ==
  ASSUME IInv, NEW r \in Requests, NEW op \in Op, NEW i \in Items, NEW change \in Int,
         NEW mine \in Item(Int), mine.quantity >= 0,
         Stage(r, op, i, mine, change)
  PROVE  IInv'
<1> DEFINE t == [req |-> r, op |-> op, item |-> i, loaded |-> items[i],
                 mine |-> WithStatus(mine), change |-> change]
<1>1. /\ i \in DOMAIN items
      /\ open' = open \cup {t}
      /\ served' = served \cup {r}
      /\ UNCHANGED <<items, opening, ledger, audit, alerts, today, checks, stale>>
  BY DEF Stage, Begin
<1>2. /\ WithStatus(mine) \in Item(Int) /\ WithStatus(mine).quantity = mine.quantity
      /\ WithStatus(mine).status = "out_of_stock" => mine.quantity = 0
  <2>1. DetermineStatus(mine) \in InventoryStatus
    BY StatusTyped
  <2>2. mine.quantity \in Int
    BY DEF Item
  <2>3. DetermineStatus(mine) = "out_of_stock" => mine.quantity = 0
    BY <2>2, StatusHonest
  <2> QED
    BY <2>1, <2>3 DEF WithStatus, Item
<1>3. items[i] \in Item(Stored)
  BY <1>1 DEF IInv, TypeOK
<1>4. /\ t \in Transaction /\ t.item = i /\ t.mine.quantity >= 0
      /\ t.mine.status = "out_of_stock" => t.mine.quantity = 0
  BY <1>2, <1>3 DEF Transaction
<1> HIDE DEF t
<1>5. TypeOK'
  BY <1>1, <1>4 DEF IInv, TypeOK, IsHealthRun
<1>6. StockNeverNegative'
  BY <1>1 DEF IInv, StockNeverNegative
<1>7. StagedStock'
  BY <1>1, <1>4 DEF IInv, StagedStock
<1>8. RefusedMeansEmpty'
  BY <1>1 DEF IInv, RefusedMeansEmpty
<1> QED
  BY <1>5, <1>6, <1>7, <1>8 DEF IInv

LEMMA AdjustKeeps ==
  ASSUME IInv, NEW r \in Requests, NEW i \in Items, NEW n \in Int, AdjustStock(r, i, n)
  PROVE  IInv'
<1>1. i \in DOMAIN items /\ items[i].quantity + n >= 0
  BY DEF AdjustStock
<1>2. items[i] \in Item(Stored) /\ items[i].quantity \in Int
  BY <1>1, StoredInt DEF IInv, TypeOK, Item
<1> DEFINE mine == [items[i] EXCEPT !.quantity = @ + n]
<1>3. mine \in Item(Int) /\ mine.quantity >= 0
  BY <1>1, <1>2, StoredInt DEF Item
<1>4. Stage(r, "adjust", i, mine, n)
  BY DEF AdjustStock
<1> HIDE DEF mine
<1>5. "adjust" \in Op
  BY DEF Op
<1> QED
  BY <1>3, <1>4, <1>5, StageKeeps

LEMMA UpdateKeeps ==
  ASSUME IInv, NEW r \in Requests, NEW i \in Items, NEW h \in Thresholds, NEW x \in Expiry,
         UpdateItem(r, i, h, x)
  PROVE  IInv'
<1>1. i \in DOMAIN items /\ items[i] \in Item(Stored) /\ items[i].quantity >= 0
  BY DEF UpdateItem, IInv, TypeOK, StockNeverNegative
<1> DEFINE mine == [items[i] EXCEPT !.threshold = h, !.expiry = x]
<1>2. mine \in Item(Int) /\ mine.quantity >= 0
  BY <1>1, StoredInt DEF Item, Thresholds
<1>3. Stage(r, "update", i, mine, 0)
  BY DEF UpdateItem
<1> HIDE DEF mine
<1>4. "update" \in Op
  BY DEF Op
<1> QED
  BY <1>2, <1>3, <1>4, StageKeeps

LEMMA CreateKeeps ==
  ASSUME IInv, NEW r \in Requests, NEW i \in Items, NEW n \in Changes, NEW h \in Thresholds,
         NEW x \in Expiry, CreateItem(r, i, n, h, x)
  PROVE  IInv'
<1> DEFINE row == [quantity |-> n, threshold |-> h, expiry |-> x, status |-> "available"]
           new(q) == [WithStatus(row) EXCEPT !.quantity = q]
           movement(c) == [req |-> r, item |-> i, change |-> c]
<1>1. PICK q \in Nearest(n), change \in Nearest(n) :
        /\ items' = [j \in DOMAIN items \cup {i} |-> IF j = i THEN new(q) ELSE items[j]]
        /\ ledger' = ledger \cup (IF n > 0 THEN {movement(change)} ELSE {})
  BY DEF CreateItem
<1>2. /\ audit' = audit \cup {[req |-> r, item |-> i, op |-> "create"]}
      /\ served' = served \cup {r}
      /\ n >= 0
      /\ UNCHANGED <<opening, alerts, today, open, checks, stale>>
  BY DEF CreateItem, Begin
<1>3. n \in Int /\ q \in Stored /\ q >= 0 /\ change \in Stored
  BY <1>1, <1>2, ChangesAssumption, NearestNotNegative
<1>4. /\ new(q) \in Item(Stored) /\ new(q).quantity >= 0
      /\ new(q).status = "out_of_stock" => new(q).quantity = 0
  <2>1. DetermineStatus(row) \in InventoryStatus
    BY StatusTyped
  <2>2. DetermineStatus(row) = "out_of_stock" => n = 0
    BY <1>2, <1>3, StatusHonest
  <2>3. n = 0 => q = 0
    BY <1>1, NearestOfZero
  <2> QED
    BY <1>3, <2>1, <2>2, <2>3 DEF WithStatus, Item, Thresholds
<1>5. movement(change) \in Movement
  BY <1>3 DEF Movement
<1>6. [req |-> r, item |-> i, op |-> "create"] \in AuditRecord
  BY DEF AuditRecord, Op
<1> HIDE DEF new, movement
<1>7. /\ DOMAIN items' = DOMAIN items \cup {i}
      /\ \A j \in DOMAIN items' : items'[j] \in Item(Stored) /\ items'[j].quantity >= 0
  BY <1>1, <1>4 DEF IInv, TypeOK, StockNeverNegative
<1>8. \A k \in checks : IsHealthRun(k)'
  BY <1>2, <1>7 DEF IInv, TypeOK, IsHealthRun
<1>9. TypeOK'
  <2>1. DOMAIN items' \subseteq Items /\ items' = [j \in DOMAIN items' |-> items'[j]]
    BY <1>1, <1>7 DEF IInv, TypeOK
  <2>2. ledger' \subseteq Movement
    BY <1>1, <1>5 DEF IInv, TypeOK
  <2> QED
    BY <1>2, <1>6, <1>7, <1>8, <2>1, <2>2 DEF IInv, TypeOK
<1>10. StockNeverNegative' /\ StagedStock'
  BY <1>2, <1>7 DEF IInv, StockNeverNegative, StagedStock
<1>11. RefusedMeansEmpty'
  BY <1>1, <1>2, <1>4, <1>7 DEF IInv, RefusedMeansEmpty
<1> QED
  BY <1>9, <1>10, <1>11 DEF IInv

-----------------------------------------------------------------------------
\* A commit stores what was staged; what it merges with is stored already.
LEMMA CommitKeeps ==
  ASSUME IInv, NEW t \in open, Commit(t)
  PROVE  IInv'
<1>1. PICK q \in Nearest(t.mine.quantity), change \in Nearest(t.change) :
        /\ items' = [items EXCEPT ![t.item] = MergeItem(@, t, q)]
        /\ ledger' = ledger \cup NewMovements(t, change)
  BY DEF Commit
<1>2. /\ audit' = audit \cup {[req |-> t.req, item |-> t.item, op |-> t.op]}
      /\ stale' = IF t.loaded = items[t.item] THEN stale ELSE stale \cup {t.item}
      /\ open' = open \ {t}
      /\ UNCHANGED <<opening, alerts, today, checks, served>>
  BY DEF Commit
<1>3. /\ t \in Transaction /\ t.item \in DOMAIN items /\ t.mine.quantity >= 0
      /\ t.mine.status = "out_of_stock" => t.mine.quantity = 0
      /\ items[t.item] \in Item(Stored) /\ items[t.item].quantity >= 0
      /\ t.item \in Items
  BY DEF IInv, TypeOK, StockNeverNegative, StagedStock
<1>4. q \in Stored /\ q >= 0 /\ change \in Stored
  <2>1. t.mine.quantity \in Int
    BY <1>3 DEF Transaction, Item
  <2>2. change \in Stored
    BY <1>1 DEF Nearest
  <2> QED
    BY <1>1, <1>3, <2>1, <2>2, NearestNotNegative
<1> DEFINE new == MergeItem(items[t.item], t, q)
<1>5. new \in Item(Stored) /\ new.quantity >= 0
  <2>1. t.loaded \in Item(Stored) /\ t.mine \in Item(Int)
    BY <1>3 DEF Transaction
  <2>2. /\ t.mine.expiry \in Expiry
        /\ t.mine.threshold \in Stored
        /\ t.mine.status \in InventoryStatus
    BY <2>1 DEF Item
  <2>3. /\ items[t.item].quantity \in Stored
        /\ items[t.item].expiry \in Expiry
        /\ items[t.item].threshold \in Stored
        /\ items[t.item].status \in InventoryStatus
    BY <1>3 DEF Item
  <2> QED
    BY <1>3, <1>4, <2>2, <2>3 DEF MergeItem, Flushed, Item
<1>6. ASSUME t.loaded = items[t.item], new.status = "out_of_stock" PROVE new.quantity = 0
  <2>1. new.status = t.mine.status
    BY <1>6 DEF MergeItem, Flushed
  <2>2. t.mine.quantity = 0
    BY <1>3, <1>6, <2>1
  <2>3. q = 0
    BY <1>1, <2>2, NearestOfZero
  <2> QED
    BY <1>6, <2>2, <2>3 DEF MergeItem
<1>7. items' = [items EXCEPT ![t.item] = new]
  BY <1>1, <1>3 DEF IInv, TypeOK
<1> HIDE DEF new
<1>8. /\ DOMAIN items' = DOMAIN items
      /\ \A j \in DOMAIN items' : items'[j] \in Item(Stored) /\ items'[j].quantity >= 0
  BY <1>5, <1>7 DEF IInv, TypeOK, StockNeverNegative
<1>9. NewMovements(t, change) \subseteq Movement
  BY <1>3, <1>4 DEF NewMovements, Movement, Transaction
<1>10. [req |-> t.req, item |-> t.item, op |-> t.op] \in AuditRecord
  BY <1>3 DEF AuditRecord, Transaction
<1>11. \A k \in checks : IsHealthRun(k)'
  BY <1>2, <1>8 DEF IInv, TypeOK, IsHealthRun
<1>12. TypeOK'
  <2>1. items' = [j \in DOMAIN items' |-> items'[j]]
    BY <1>7
  <2>2. ledger' \subseteq Movement /\ audit' \subseteq AuditRecord
    BY <1>1, <1>2, <1>9, <1>10 DEF IInv, TypeOK
  <2>3. stale' \subseteq Items
    BY <1>2, <1>3 DEF IInv, TypeOK
  <2> QED
    BY <1>2, <1>8, <1>11, <2>1, <2>2, <2>3 DEF IInv, TypeOK
<1>13. StockNeverNegative' /\ StagedStock'
  BY <1>2, <1>8 DEF IInv, StockNeverNegative, StagedStock
<1>14. RefusedMeansEmpty'
  <2> SUFFICES ASSUME NEW j \in DOMAIN items' \ stale', items'[j].status = "out_of_stock"
               PROVE  items'[j].quantity = 0
    BY DEF RefusedMeansEmpty
  <2>1. j \in DOMAIN items /\ j \notin stale
    BY <1>2, <1>8
  <2>2. CASE j = t.item
    <3>1. t.loaded = items[t.item]
      BY <1>2, <2>2
    <3>2. items'[j] = new
      BY <1>7, <2>1, <2>2
    <3> QED
      BY <1>6, <3>1, <3>2
  <2>3. CASE j # t.item
    <3>1. items'[j] = items[j]
      BY <1>7, <2>1, <2>3
    <3> QED
      BY <2>1, <3>1 DEF IInv, RefusedMeansEmpty
  <2> QED
    BY <2>2, <2>3
<1> QED
  BY <1>12, <1>13, <1>14 DEF IInv

LEMMA HealthKeeps ==
  ASSUME IInv, NEW k \in checks, CommitHealth(k)
  PROVE  IInv'
<1> DEFINE new(i) == [items[i] EXCEPT !.status =
                         Flushed(@, k.seen[i].status, HealthStatus(k.seen[i], k.day))]
<1>1. /\ items' = [i \in DOMAIN items |-> IF i \in DOMAIN k.seen THEN new(i) ELSE items[i]]
      /\ alerts' = alerts \cup
           {[req |-> k.req, item |-> i] : i \in {j \in DOMAIN k.seen : IsLow(k.seen[j])}}
      /\ stale' = stale \cup {i \in DOMAIN k.seen : k.seen[i] # items[i]}
      /\ checks' = checks \ {k}
      /\ UNCHANGED <<opening, ledger, audit, today, open, served>>
  BY DEF CommitHealth
<1>2. IsHealthRun(k)
  BY DEF IInv, TypeOK
<1>3. \A i \in DOMAIN k.seen : new(i) \in Item(Stored) /\ new(i).quantity >= 0
  <2> SUFFICES ASSUME NEW i \in DOMAIN k.seen
               PROVE  new(i) \in Item(Stored) /\ new(i).quantity >= 0
    OBVIOUS
  <2>1. i \in DOMAIN items /\ k.seen[i] \in Item(Stored)
    BY <1>2 DEF IsHealthRun
  <2>2. items[i] \in Item(Stored) /\ items[i].quantity >= 0
    BY <2>1 DEF IInv, TypeOK, StockNeverNegative
  <2>3. HealthStatus(k.seen[i], k.day) \in InventoryStatus
    BY <2>1, StatusTyped DEF Item
  <2> QED
    BY <2>2, <2>3 DEF Item, Flushed
<1>4. ASSUME NEW i \in DOMAIN k.seen, k.seen[i] = items[i], new(i).status = "out_of_stock",
             i \notin stale
      PROVE  new(i).quantity = 0
  <2>1. i \in DOMAIN items /\ k.seen[i] \in Item(Stored)
    BY <1>2 DEF IsHealthRun
  <2>2. items[i] \in Item(Stored) /\ items[i].quantity >= 0 /\ items[i].quantity \in Int
    BY <2>1, StoredInt DEF IInv, TypeOK, StockNeverNegative, Item
  <2>3. /\ new(i).status = HealthStatus(items[i], k.day)
        /\ new(i).quantity = items[i].quantity
    BY <1>4, <2>2 DEF Item, Flushed
  <2>4. items[i].quantity = 0 \/ items[i].status = "out_of_stock"
    BY <1>4, <2>2, <2>3, StatusHonest
  <2> QED
    BY <1>4, <2>1, <2>3, <2>4 DEF IInv, RefusedMeansEmpty
<1>5. {[req |-> k.req, item |-> i] : i \in {j \in DOMAIN k.seen : IsLow(k.seen[j])}}
        \subseteq LowAlert
  BY <1>2 DEF IsHealthRun, LowAlert, IInv, TypeOK
<1> HIDE DEF new
<1>6. /\ DOMAIN items' = DOMAIN items
      /\ \A i \in DOMAIN items' : items'[i] \in Item(Stored) /\ items'[i].quantity >= 0
  BY <1>1, <1>3 DEF IInv, TypeOK, StockNeverNegative
<1>7. \A u \in checks' : IsHealthRun(u)'
  BY <1>1, <1>6 DEF IInv, TypeOK, IsHealthRun
<1>8. TypeOK'
  <2>1. items' = [i \in DOMAIN items' |-> items'[i]]
    BY <1>1
  <2>2. alerts' \subseteq LowAlert
    BY <1>1, <1>5 DEF IInv, TypeOK
  <2>3. stale' \subseteq Items
    BY <1>1, <1>2 DEF IInv, TypeOK, IsHealthRun
  <2>4. UNCHANGED <<opening, ledger, audit, today, open, served>>
    BY <1>1
  <2> QED
    BY <1>6, <1>7, <2>1, <2>2, <2>3, <2>4 DEF IInv, TypeOK
<1>9. StockNeverNegative' /\ StagedStock'
  BY <1>1, <1>6 DEF IInv, StockNeverNegative, StagedStock
<1>10. RefusedMeansEmpty'
  <2> SUFFICES ASSUME NEW i \in DOMAIN items' \ stale', items'[i].status = "out_of_stock"
               PROVE  items'[i].quantity = 0
    BY DEF RefusedMeansEmpty
  <2>1. i \in DOMAIN items /\ i \notin stale
    BY <1>1, <1>6
  <2>2. CASE i \in DOMAIN k.seen
    BY <1>1, <1>4, <2>1, <2>2
  <2>3. CASE i \notin DOMAIN k.seen
    BY <1>1, <2>1, <2>3 DEF IInv, RefusedMeansEmpty
  <2> QED
    BY <2>2, <2>3
<1> QED
  BY <1>8, <1>9, <1>10 DEF IInv

\* The start and the end without a commit of a health run, and the clock.
LEMMA ScheduleKeeps ==
  ASSUME IInv,
         \/ \E r \in Requests : CheckHealth(r)
         \/ \E k \in checks : AbandonHealth(k)
         \/ \E t \in open : Rollback(t)
         \/ NextDay
  PROVE  IInv'
<1>1. ASSUME NEW r \in Requests, CheckHealth(r) PROVE IInv'
  <2> DEFINE k == [req |-> r, day |-> today, seen |-> items]
  <2>1. /\ checks' = checks \cup {k}
        /\ served' = served \cup {r}
        /\ UNCHANGED <<items, opening, ledger, audit, alerts, today, open, stale>>
    BY <1>1 DEF CheckHealth, Begin
  <2>2. k.req = r /\ k.day = today /\ k.seen = items
    OBVIOUS
  <2> HIDE DEF k
  <2>3. \A u \in checks' : IsHealthRun(u)'
    BY <2>1, <2>2 DEF IInv, TypeOK, IsHealthRun
  <2> QED
    BY <2>1, <2>3 DEF IInv, TypeOK, StockNeverNegative, StagedStock, RefusedMeansEmpty
<1>2. ASSUME NEW k \in checks, AbandonHealth(k) PROVE IInv'
  BY <1>2 DEF AbandonHealth, IInv, TypeOK, IsHealthRun, StockNeverNegative, StagedStock, RefusedMeansEmpty
<1>3. ASSUME NEW t \in open, Rollback(t) PROVE IInv'
  BY <1>3 DEF Rollback, IInv, TypeOK, IsHealthRun, StockNeverNegative, StagedStock, RefusedMeansEmpty
<1>4. ASSUME NextDay PROVE IInv'
  <2>1. today' \in Days /\ UNCHANGED <<items, opening, ledger, audit, alerts, open, checks, served, stale>>
    BY <1>4, LastDayAssumption DEF NextDay, Days, IInv, TypeOK
  <2> QED
    BY <2>1 DEF IInv, TypeOK, IsHealthRun, StockNeverNegative, StagedStock, RefusedMeansEmpty
<1> QED
  BY <1>1, <1>2, <1>3, <1>4

-----------------------------------------------------------------------------
LEMMA NextInv == IInv /\ [Next]_vars => IInv'
<1> SUFFICES ASSUME IInv, [Next]_vars PROVE IInv'
  OBVIOUS
<1>1. CASE UNCHANGED vars
  BY <1>1 DEF vars, IInv, TypeOK, IsHealthRun, StockNeverNegative, StagedStock, RefusedMeansEmpty
<1>2. ASSUME NEW r \in Requests, Receive(r) PROVE IInv'
  <2>1. ASSUME NEW i \in Items, NEW n \in Changes, NEW h \in Thresholds, NEW x \in Expiry,
               CreateItem(r, i, n, h, x)
        PROVE  IInv'
    BY <2>1, CreateKeeps
  <2>2. ASSUME NEW i \in Items, NEW h \in Thresholds, NEW x \in Expiry, UpdateItem(r, i, h, x)
        PROVE  IInv'
    BY <2>2, UpdateKeeps
  <2>3. ASSUME NEW i \in Items, NEW n \in Changes, AdjustStock(r, i, n) PROVE IInv'
    BY <2>3, AdjustKeeps, ChangesAssumption
  <2>4. ASSUME NEW i \in Items, NEW n \in Changes, Distribute(r, i, n) PROVE IInv'
    <3>1. AdjustStock(r, i, -n) /\ -n \in Int
      BY <2>4, ChangesAssumption DEF Distribute
    <3> QED
      BY <3>1, AdjustKeeps
  <2>5. ASSUME CheckHealth(r) PROVE IInv'
    BY <2>5, ScheduleKeeps
  <2> QED
    BY <1>2, <2>1, <2>2, <2>3, <2>4, <2>5 DEF Receive
<1>3. ASSUME NEW t \in open, Commit(t) PROVE IInv'
  BY <1>3, CommitKeeps
<1>4. ASSUME NEW k \in checks, CommitHealth(k) PROVE IInv'
  BY <1>4, HealthKeeps
<1> QED
  BY <1>1, <1>2, <1>3, <1>4, ScheduleKeeps DEF Next

\* The conjunction is an invariant of the interleaved system.
THEOREM Invariance == Spec => []IInv
  BY InitInv, NextInv, PTL DEF Spec

\* Every reachable state of the inventory is well typed: a stored quantity is
\* a hundredth that the column holds, whatever amount a request names.
THEOREM TypeCorrect == Spec => []TypeOK
<1>1. IInv => TypeOK
  BY DEF IInv
<1> QED
  BY <1>1, Invariance, PTL

\* The stock is never negative, although no request locks the row between
\* the check of adjust_stock or distribute and the commit.
THEOREM NeverNegative == Spec => []StockNeverNegative
<1>1. IInv => StockNeverNegative
  BY DEF IInv
<1> QED
  BY <1>1, Invariance, PTL

\* An item that distribute refuses has no stock, until a request or a health
\* run commits what it computed from an outdated row.
THEOREM RefusedIsEmpty == Spec => []RefusedMeansEmpty
<1>1. IInv => RefusedMeansEmpty
  BY DEF IInv
<1> QED
  BY <1>1, Invariance, PTL

-----------------------------------------------------------------------------
(***************************************************************************)
(* Sums over a finite set.  Total is defined by a recursive function that  *)
(* CHOOSE picks, so that the lemmas argue by a minimal counterexample: a   *)
(* smallest subset of the finite set for which the claim is false.         *)
(***************************************************************************)

\* What Total computes with: one element is picked, and the others summed.
Picked(s) == CHOOSE x \in s : TRUE
Sums(g, D) == g = [s \in SUBSET D |->
                      IF s = {} THEN 0 ELSE Picked(s).change + g[s \ {Picked(s)}]]
SumOver(D) == CHOOSE g : Sums(g, D)

\* Total is the value of that function at the whole set.
LEMMA TotalIsSum == \A S : Total(S) = SumOver(S)[S]
  BY DEF Total, MapThenSumSet, MapThenFoldSet, SumOver, Sums, Picked

\* A nonempty family of subsets of a finite set has a minimal one.
LEMMA MinimalSubset ==
  ASSUME NEW S, NEW T, T \subseteq SUBSET S, IsFiniteSet(S), T # {}
  PROVE  \E x \in T : \A y \in T : y \subseteq x => y = x
<1>1. IsWellFoundedOn(StrictSubsetOrdering(S), FiniteSubsetsOf(S))
  BY FS_StrictSubsetOrderingWellFounded
<1>2. T \subseteq FiniteSubsetsOf(S)
  BY FS_Subset DEF FiniteSubsetsOf
<1>3. PICK x \in T : \A y \in T : ~(<<y, x>> \in StrictSubsetOrdering(S))
  BY <1>1, <1>2, WFMin
<1> QED
  BY <1>3 DEF StrictSubsetOrdering

\* The two cases of the recursion.
LEMMA SumStep ==
  ASSUME NEW g, NEW D, Sums(g, D), NEW s, s \subseteq D
  PROVE  g[s] = IF s = {} THEN 0 ELSE Picked(s).change + g[s \ {Picked(s)}]
  BY DEF Sums

\* What is picked is an element.
LEMMA PickedIn == \A s : s # {} => Picked(s) \in s
  BY DEF Picked

\* Two such functions agree on the subsets that both are defined on.
LEMMA SumsAgree ==
  ASSUME NEW D, NEW E, IsFiniteSet(E), E \subseteq D,
         NEW g, NEW h, Sums(g, D), Sums(h, E)
  PROVE  \A s \in SUBSET E : g[s] = h[s]
<1> DEFINE Bad == {s \in SUBSET E : g[s] # h[s]}
<1> SUFFICES ASSUME Bad # {} PROVE FALSE
  OBVIOUS
<1>1. PICK s \in Bad : \A y \in Bad : y \subseteq s => y = s
  <2>1. Bad \subseteq SUBSET E
    OBVIOUS
  <2> HIDE DEF Bad
  <2> QED
    BY <2>1, MinimalSubset
<1>2. g[s] = IF s = {} THEN 0 ELSE Picked(s).change + g[s \ {Picked(s)}]
  BY SumStep
<1>3. h[s] = IF s = {} THEN 0 ELSE Picked(s).change + h[s \ {Picked(s)}]
  BY SumStep
<1>4. s # {}
  BY <1>2, <1>3
<1>5. g[s \ {Picked(s)}] = h[s \ {Picked(s)}]
  <2>1. s \ {Picked(s)} # s
    BY <1>4, PickedIn
  <2> QED
    BY <1>1, <2>1
<1> QED
  BY <1>2, <1>3, <1>5

\* Such a function exists over a finite set.
LEMMA SumsExist ==
  ASSUME NEW D, IsFiniteSet(D)
  PROVE  Sums(SumOver(D), D)
<1> DEFINE Bad == {s \in SUBSET D : ~ Sums(SumOver(s), s)}
<1> SUFFICES ASSUME Bad # {} PROVE FALSE
  OBVIOUS
<1>1. PICK s \in Bad : \A y \in Bad : y \subseteq s => y = s
  <2>1. Bad \subseteq SUBSET D
    OBVIOUS
  <2> HIDE DEF Bad
  <2> QED
    BY <2>1, MinimalSubset
<1>2. \A y \in SUBSET s : y # s => Sums(SumOver(y), y)
  BY <1>1
<1>3. s \subseteq D /\ ~ Sums(SumOver(s), s)
  OBVIOUS
<1> HIDE DEF Bad
<1> DEFINE below(y) == SumOver(y \ {Picked(y)})[y \ {Picked(y)}]
           value(y) == IF y = {} THEN 0 ELSE Picked(y).change + below(y)
           g == [y \in SUBSET s |-> value(y)]
<1>4. ASSUME NEW y \in SUBSET s, y # {} PROVE g[y \ {Picked(y)}] = below(y)
  <2> DEFINE z == y \ {Picked(y)}
  <2>1. z \in SUBSET s /\ z # s /\ z \subseteq y
    BY <1>4, PickedIn
  <2> HIDE DEF z
  <2>2. Sums(SumOver(z), z) /\ IsFiniteSet(z)
    BY <1>2, <1>3, <2>1, FS_Subset
  <2>3. SumOver(z)[z] = IF z = {} THEN 0 ELSE Picked(z).change + SumOver(z)[z \ {Picked(z)}]
    BY <2>2, SumStep
  <2>4. CASE z = {}
    BY <2>1, <2>3, <2>4 DEF z
  <2>5. CASE z # {}
    <3> DEFINE w == z \ {Picked(z)}
    <3>1. w \subseteq z /\ w # s /\ w \in SUBSET s
      BY <2>1, <2>5, PickedIn
    <3> HIDE DEF w
    <3>2. Sums(SumOver(w), w) /\ IsFiniteSet(w)
      BY <1>2, <2>2, <3>1, FS_Subset
    <3>3. SumOver(z)[w] = SumOver(w)[w]
      BY <2>2, <3>1, <3>2, SumsAgree
    <3>4. g[z] = Picked(z).change + SumOver(w)[w]
      BY <2>1, <2>5 DEF w
    <3> QED
      BY <2>3, <2>5, <3>3, <3>4 DEF z, w
  <2> QED
    BY <2>4, <2>5
<1>5. Sums(g, s)
  <2>1. \A y \in SUBSET s : value(y) = IF y = {} THEN 0 ELSE Picked(y).change + g[y \ {Picked(y)}]
    BY <1>4
  <2>2. g = [y \in SUBSET s |-> IF y = {} THEN 0 ELSE Picked(y).change + g[y \ {Picked(y)}]]
    <3> DEFINE rhs(y) == IF y = {} THEN 0 ELSE Picked(y).change + g[y \ {Picked(y)}]
    <3>1. \A y \in SUBSET s : value(y) = rhs(y)
      BY <2>1
    <3> HIDE DEF value, rhs
    <3>2. [y \in SUBSET s |-> value(y)] = [y \in SUBSET s |-> rhs(y)]
      BY <3>1
    <3> QED
      BY <3>2 DEF rhs
  <2> HIDE DEF g
  <2> QED
    BY <2>2 DEF Sums
<1> HIDE DEF g
<1>6. \E h : Sums(h, s)
  BY <1>5
<1> QED
  BY <1>3, <1>6 DEF SumOver

\* The recursion, on Total itself.
LEMMA TotalStep ==
  ASSUME NEW S, IsFiniteSet(S)
  PROVE  Total(S) = IF S = {} THEN 0 ELSE Picked(S).change + Total(S \ {Picked(S)})
<1>1. Sums(SumOver(S), S)
  BY SumsExist
<1>2. SumOver(S)[S] = IF S = {} THEN 0 ELSE Picked(S).change + SumOver(S)[S \ {Picked(S)}]
  BY <1>1, SumStep
<1> DEFINE T == S \ {Picked(S)}
<1>3. IsFiniteSet(T) /\ T \subseteq S
  BY FS_Subset
<1> HIDE DEF T
<1>4. Sums(SumOver(T), T)
  BY <1>3, SumsExist
<1>5. SumOver(S)[T] = SumOver(T)[T]
  BY <1>1, <1>3, <1>4, SumsAgree
<1> QED
  BY <1>2, <1>5, TotalIsSum DEF T

\* Nothing adds up to nothing.
LEMMA TotalEmpty == Total({}) = 0
  BY TotalStep, FS_EmptySet

\* The sum of integers is an integer, whichever element is taken out first.
LEMMA TotalRemove ==
  ASSUME NEW S, IsFiniteSet(S), \A x \in S : x.change \in Int
  PROVE  /\ Total(S) \in Int
         /\ \A x \in S : Total(S) = x.change + Total(S \ {x})
<1> DEFINE Good(s) == /\ Total(s) \in Int
                      /\ \A x \in s : Total(s) = x.change + Total(s \ {x})
           Bad == {s \in SUBSET S : ~ Good(s)}
<1> SUFFICES ASSUME Bad # {} PROVE FALSE
  OBVIOUS
<1>1. PICK s \in Bad : \A y \in Bad : y \subseteq s => y = s
  <2>1. Bad \subseteq SUBSET S
    OBVIOUS
  <2> HIDE DEF Bad
  <2> QED
    BY <2>1, MinimalSubset
<1>2. s \in SUBSET S /\ ~ Good(s) /\ IsFiniteSet(s)
  BY FS_Subset
<1>3. \A y \in SUBSET s : y # s => Good(y)
  BY <1>1
<1> HIDE DEF Bad
<1>4. s # {}
  BY <1>2, TotalEmpty
<1> DEFINE p == Picked(s)
<1>5. p \in s /\ p.change \in Int /\ Total(s) = p.change + Total(s \ {p})
  BY <1>2, <1>4, PickedIn, TotalStep
<1> HIDE DEF p
<1>6. Good(s \ {p})
  BY <1>3, <1>5
<1>7. ASSUME NEW x \in s, x # p PROVE Total(s) = x.change + Total(s \ {x})
  <2>1. Good(s \ {x})
    BY <1>3
  <2>2. x \in s \ {p} /\ p \in s \ {x} /\ (s \ {x}) \ {p} = (s \ {p}) \ {x}
    BY <1>5, <1>7
  <2> DEFINE rest == (s \ {p}) \ {x}
  <2>3. Total(s \ {p}) = x.change + Total(rest)
    BY <1>6, <2>2
  <2>4. Total(s \ {x}) = p.change + Total(rest)
    BY <2>1, <2>2
  <2>5. Good(rest)
    <3>1. rest # s /\ rest \in SUBSET s
      BY <1>5
    <3> QED
      BY <1>3, <3>1
  <2>6. Total(rest) \in Int /\ x.change \in Int
    BY <1>2, <2>5
  <2> HIDE DEF rest
  <2> QED
    BY <1>5, <2>3, <2>4, <2>6
<1>8. Total(s) \in Int
  BY <1>5, <1>6
<1> QED
  BY <1>2, <1>5, <1>7, <1>8

\* A new element adds what it counts for.
LEMMA TotalAdd ==
  ASSUME NEW S, IsFiniteSet(S), \A x \in S : x.change \in Int,
         NEW m, m \notin S, m.change \in Int
  PROVE  Total(S \cup {m}) = Total(S) + m.change
<1> DEFINE T == S \cup {m}
<1>1. IsFiniteSet(T) /\ m \in T /\ T \ {m} = S /\ \A x \in T : x.change \in Int
  BY FS_AddElement
<1> HIDE DEF T
<1>2. Total(T) = m.change + Total(T \ {m}) /\ Total(S) \in Int
  BY <1>1, TotalRemove
<1> QED
  <2>1. Total(T) = m.change + Total(S)
    BY <1>1, <1>2
  <2> QED
    BY <1>2, <2>1 DEF T

-----------------------------------------------------------------------------
\* The movements of an item in a ledger, and what they add up to.
Of(L, i) == {m \in L : m.item = i}
Moved(L, i) == Total(Of(L, i))
Arrived(L, i) == Total({m \in Of(L, i) : m.change > 0})
Rounding(L, i) == Cent * Cardinality(Of(L, i))

\* The sums over a finite ledger are integers.
LEMMA SumsTyped ==
  ASSUME NEW L, IsFiniteSet(L), L \subseteq Movement, NEW i
  PROVE  /\ IsFiniteSet(Of(L, i)) /\ \A m \in Of(L, i) : m.change \in Int
         /\ Moved(L, i) \in Int /\ Arrived(L, i) \in Int /\ Rounding(L, i) \in Int
         /\ Rounding(L, i) >= 0
<1>1. \A m \in Of(L, i) : m.change \in Int
  BY StoredInt DEF Of, Movement
<1>2. IsFiniteSet(Of(L, i))
  <2>1. Of(L, i) \in SUBSET L
    BY DEF Of
  <2> QED
    BY <2>1, FS_Subset
<1> DEFINE A == {m \in Of(L, i) : m.change > 0}
<1>3. IsFiniteSet(A) /\ \A m \in A : m.change \in Int
  <2>1. A \in SUBSET Of(L, i)
    OBVIOUS
  <2> QED
    BY <1>1, <1>2, <2>1, FS_Subset
<1> HIDE DEF A
<1>4. Moved(L, i) \in Int
  BY <1>1, <1>2, TotalRemove DEF Moved
<1>5. Arrived(L, i) \in Int
  BY <1>3, TotalRemove DEF Arrived, A
<1>6. Rounding(L, i) \in Int /\ Rounding(L, i) >= 0
  <2>1. Cardinality(Of(L, i)) \in Nat /\ Cent \in Nat
    BY <1>2, FS_CardinalityType, CentAssumption
  <2>2. \A a, b \in Nat : a * b \in Int /\ a * b >= 0
    OBVIOUS
  <2> QED
    BY <2>1, <2>2 DEF Rounding
<1> QED
  BY <1>1, <1>2, <1>4, <1>5, <1>6

\* A new movement adds its amount, one rounding and, when stock arrives with
\* it, what arrives; it concerns one item only.
LEMMA LedgerGrows ==
  ASSUME NEW L, IsFiniteSet(L), L \subseteq Movement, NEW m \in Movement, m \notin L, NEW i
  PROVE  IF m.item = i
         THEN /\ Moved(L \cup {m}, i) = Moved(L, i) + m.change
              /\ Arrived(L \cup {m}, i) = Arrived(L, i) + (IF m.change > 0 THEN m.change ELSE 0)
              /\ Rounding(L \cup {m}, i) = Rounding(L, i) + Cent
         ELSE /\ Moved(L \cup {m}, i) = Moved(L, i)
              /\ Arrived(L \cup {m}, i) = Arrived(L, i)
              /\ Rounding(L \cup {m}, i) = Rounding(L, i)
<1> DEFINE K == L \cup {m}
           A == {x \in Of(L, i) : x.change > 0}
           B == {x \in Of(K, i) : x.change > 0}
<1>1. /\ IsFiniteSet(Of(L, i)) /\ \A x \in Of(L, i) : x.change \in Int
      /\ m.change \in Int
  BY SumsTyped, StoredInt DEF Movement
<1>2. CASE m.item # i
  <2>1. Of(K, i) = Of(L, i)
    BY <1>2 DEF Of
  <2> QED
    BY <1>2, <2>1 DEF Moved, Arrived, Rounding
<1>3. CASE m.item = i
  <2>1. Of(K, i) = Of(L, i) \cup {m} /\ m \notin Of(L, i)
    BY <1>3 DEF Of
  <2>2. Total(Of(K, i)) = Total(Of(L, i)) + m.change
    BY <1>1, <2>1, TotalAdd
  <2>3. Total(B) = Total(A) + (IF m.change > 0 THEN m.change ELSE 0)
    <3>1. CASE m.change > 0
      <4>1. B = A \cup {m} /\ m \notin A
        BY <2>1, <3>1
      <4>2. IsFiniteSet(A) /\ \A x \in A : x.change \in Int
        <5>1. A \in SUBSET Of(L, i)
          OBVIOUS
        <5> QED
          BY <1>1, <5>1, FS_Subset
      <4> HIDE DEF A, B
      <4>3. Total(A \cup {m}) = Total(A) + m.change
        BY <1>1, <4>1, <4>2, TotalAdd
      <4> QED
        BY <3>1, <4>1, <4>3
    <3>2. CASE ~ (m.change > 0)
      <4>1. B = A
        BY <2>1, <3>2
      <4>2. Total(A) \in Int
        BY SumsTyped DEF Arrived
      <4> HIDE DEF A, B
      <4> QED
        BY <3>2, <4>1, <4>2
    <3> QED
      BY <3>1, <3>2
  <2>4. Cent * Cardinality(Of(K, i)) = Cent * Cardinality(Of(L, i)) + Cent
    <3>1. Cardinality(Of(K, i)) = Cardinality(Of(L, i)) + 1
      BY <1>1, <2>1, FS_AddElement
    <3>2. Cardinality(Of(L, i)) \in Nat /\ Cent \in Nat
      BY <1>1, FS_CardinalityType, CentAssumption
    <3>3. \A a, b \in Nat : a * (b + 1) = a * b + a
      OBVIOUS
    <3> QED
      BY <3>1, <3>2, <3>3
  <2> QED
    BY <1>3, <2>2, <2>3, <2>4 DEF Moved, Arrived, Rounding
<1> QED
  BY <1>2, <1>3

-----------------------------------------------------------------------------
(***************************************************************************)
(* The ledger and the stock.                                               *)
(***************************************************************************)

\* What an item has received, as StockWasReceived counts it, and what the
\* ledger does not explain of its stock.
Received(i) == opening[i] + Arrived(ledger, i) + Rounding(ledger, i)
Drift(i) == items[i].quantity - opening[i] - Moved(ledger, i)

\* A request writes one movement, when it ends: a movement that is written is
\* a new row of the ledger, about an item that exists.
LedgerFresh ==
    /\ IsFiniteSet(ledger)
    /\ \A m \in ledger : m.req \in served /\ m.item \in DOMAIN items
    /\ \A t \in open :
        /\ t.req \in served
        /\ \A m \in ledger : m.req # t.req
        /\ \A u \in open : u.req = t.req => u = t
    /\ \A i \in Items \ DOMAIN items : opening[i] = 0

\* A request stages the stock it loaded with the change that its movement
\* will record, and the stock that it loaded, however old, was received.
StagedChange ==
    \A t \in open :
        /\ t.mine.quantity = t.loaded.quantity + t.change
        /\ t.op # "adjust" => t.change = 0
        /\ t.loaded.quantity <= Received(t.item)

JInv == LedgerFresh /\ StagedChange /\ StockWasReceived /\ LedgerAccounts

\* The two properties, in these terms; and the same of the next state.
LEMMA Restated ==
  /\ StockWasReceived <=> \A i \in DOMAIN items : items[i].quantity <= Received(i)
  /\ LedgerAccounts <=> \A i \in DOMAIN items \ stale :
        -Rounding(ledger, i) <= Drift(i) /\ Drift(i) <= Rounding(ledger, i)
  BY DEF StockWasReceived, LedgerAccounts, Movements, Received, Drift, Arrived, Moved, Rounding, Of

LEMMA RestatedNext ==
  /\ StockWasReceived' <=> \A i \in DOMAIN items' : items'[i].quantity <= Received(i)'
  /\ LedgerAccounts' <=> \A i \in DOMAIN items' \ stale' :
        -Rounding(ledger', i) <= Drift(i)' /\ Drift(i)' <= Rounding(ledger', i)
  BY DEF StockWasReceived, LedgerAccounts, Movements, Received, Drift, Arrived, Moved, Rounding, Of

\* The numbers that the steps below calculate with.
LEMMA LedgerTyped ==
  ASSUME IInv, LedgerFresh, NEW i \in Items
  PROVE  /\ opening[i] \in Int /\ Moved(ledger, i) \in Int /\ Arrived(ledger, i) \in Int
         /\ Rounding(ledger, i) \in Int /\ Rounding(ledger, i) >= 0
         /\ i \in DOMAIN items => items[i].quantity \in Int
<1>1. opening[i] \in Int
  BY StoredInt DEF IInv, TypeOK
<1>2. i \in DOMAIN items => items[i].quantity \in Int
  BY StoredInt DEF IInv, TypeOK, Item
<1>3. IsFiniteSet(ledger) /\ ledger \subseteq Movement
  BY DEF IInv, TypeOK, LedgerFresh
<1> QED
  BY <1>1, <1>2, <1>3, SumsTyped

\* An item that is seeded holds what it opened with, and nothing has moved.
LEMMA InitSourced == Init => JInv
<1> SUFFICES ASSUME Init PROVE JInv
  OBVIOUS
<1>1. PICK seeded \in SUBSET Items :
        /\ items \in [seeded -> SeededItem]
        /\ opening = [i \in Items |-> IF i \in seeded THEN items[i].quantity ELSE 0]
  BY DEF Init
<1>2. DOMAIN items = seeded /\ ledger = {} /\ open = {}
  BY <1>1 DEF Init
<1>3. LedgerFresh /\ StagedChange
  BY <1>1, <1>2, FS_EmptySet DEF LedgerFresh, StagedChange
<1>4. ASSUME NEW i \in DOMAIN items
      PROVE  /\ items[i].quantity = opening[i] /\ opening[i] \in Int
             /\ Moved(ledger, i) = 0 /\ Arrived(ledger, i) = 0 /\ Rounding(ledger, i) = 0
  <2>1. Of(ledger, i) = {} /\ {m \in Of(ledger, i) : m.change > 0} = {}
    BY <1>2 DEF Of
  <2>2. Moved(ledger, i) = 0 /\ Arrived(ledger, i) = 0
    BY <2>1, TotalEmpty DEF Moved, Arrived
  <2>3. Rounding(ledger, i) = 0
    BY <2>1, FS_EmptySet, CentAssumption DEF Rounding
  <2>4. IInv /\ i \in Items
    BY <1>2, InitInv
  <2>5. opening[i] \in Int
    BY <1>3, <2>4, LedgerTyped
  <2> QED
    BY <1>1, <1>2, <2>2, <2>3, <2>4, <2>5
<1>5. StockWasReceived
  BY <1>4, Restated DEF Received
<1>6. LedgerAccounts
  BY <1>4, Restated DEF Drift
<1> QED
  BY <1>3, <1>5, <1>6 DEF JInv

\* What neither moves stock nor stages a change of it.
LEMMA QuietKeeps ==
  ASSUME IInv, JInv, UNCHANGED <<opening, ledger>>, open' \subseteq open,
         served \subseteq served', stale \subseteq stale', DOMAIN items' = DOMAIN items,
         \A i \in DOMAIN items : items'[i].quantity = items[i].quantity
  PROVE  JInv'
<1>1. \A i : Received(i)' = Received(i)
  BY DEF Received, Arrived, Rounding
<1>2. \A i \in DOMAIN items : Drift(i)' = Drift(i)
  BY DEF Drift
<1>3. LedgerFresh'
  BY DEF JInv, LedgerFresh
<1>4. StagedChange'
  BY <1>1 DEF JInv, StagedChange
<1>5. StockWasReceived'
  BY <1>1, Restated, RestatedNext DEF JInv
<1>6. LedgerAccounts'
  BY <1>2, Restated, RestatedNext DEF JInv
<1> QED
  BY <1>3, <1>4, <1>5, <1>6 DEF JInv

\* A request that loads an item stages a change of the stock that it loaded.
LEMMA StageSources ==
  ASSUME IInv, JInv, NEW r \in Requests, NEW op \in Op, NEW i \in Items, NEW change \in Int,
         NEW mine \in Item(Int), mine.quantity = items[i].quantity + change,
         op # "adjust" => change = 0,
         Stage(r, op, i, mine, change)
  PROVE  JInv'
<1> DEFINE t == [req |-> r, op |-> op, item |-> i, loaded |-> items[i],
                 mine |-> WithStatus(mine), change |-> change]
<1>1. /\ r \notin served /\ i \in DOMAIN items
      /\ open' = open \cup {t} /\ served' = served \cup {r}
      /\ UNCHANGED <<items, opening, ledger, stale>>
  BY DEF Stage, Begin
<1>2. WithStatus(mine).quantity = mine.quantity
  BY DEF WithStatus, Item
<1>3. /\ t.req = r /\ t.item = i /\ t.change = change /\ t.op = op
      /\ t.loaded.quantity = items[i].quantity
      /\ t.mine.quantity = t.loaded.quantity + t.change
  BY <1>2
<1> HIDE DEF t
<1>4. \A j : Received(j)' = Received(j)
  BY <1>1 DEF Received, Arrived, Rounding
<1>5. \A j : Drift(j)' = Drift(j)
  BY <1>1 DEF Drift
<1>6. LedgerFresh'
  <2>1. \A u \in open : u.req # r
    BY <1>1 DEF JInv, LedgerFresh
  <2>2. \A m \in ledger : m.req # r
    BY <1>1 DEF JInv, LedgerFresh
  <2> QED
    BY <1>1, <1>3, <2>1, <2>2 DEF JInv, LedgerFresh
<1>7. StagedChange'
  <2>1. items[i].quantity <= Received(i)
    BY <1>1, Restated DEF JInv
  <2> QED
    BY <1>1, <1>3, <1>4, <2>1 DEF JInv, StagedChange
<1>8. StockWasReceived'
  BY <1>1, <1>4, Restated, RestatedNext DEF JInv
<1>9. LedgerAccounts'
  BY <1>1, <1>5, Restated, RestatedNext DEF JInv
<1> QED
  BY <1>6, <1>7, <1>8, <1>9 DEF JInv

LEMMA AdjustSources ==
  ASSUME IInv, JInv, NEW r \in Requests, NEW i \in Items, NEW n \in Int, AdjustStock(r, i, n)
  PROVE  JInv'
<1>1. i \in DOMAIN items /\ items[i] \in Item(Stored)
  BY DEF AdjustStock, IInv, TypeOK
<1> DEFINE mine == [items[i] EXCEPT !.quantity = @ + n]
<1>2. mine \in Item(Int) /\ mine.quantity = items[i].quantity + n
  BY <1>1, StoredInt DEF Item
<1>3. Stage(r, "adjust", i, mine, n) /\ "adjust" \in Op
  BY DEF AdjustStock, Op
<1> HIDE DEF mine
<1> QED
  BY <1>2, <1>3, StageSources

LEMMA UpdateSources ==
  ASSUME IInv, JInv, NEW r \in Requests, NEW i \in Items, NEW h \in Thresholds, NEW x \in Expiry,
         UpdateItem(r, i, h, x)
  PROVE  JInv'
<1>1. i \in DOMAIN items /\ items[i] \in Item(Stored)
  BY DEF UpdateItem, IInv, TypeOK
<1> DEFINE mine == [items[i] EXCEPT !.threshold = h, !.expiry = x]
<1>2. mine \in Item(Int) /\ mine.quantity = items[i].quantity + 0
  <2>1. items[i].quantity \in Int
    BY <1>1, StoredInt DEF Item
  <2>2. mine.quantity = items[i].quantity
    BY <1>1 DEF Item
  <2>3. mine \in Item(Int)
    BY <1>1, StoredInt DEF Item, Thresholds
  <2> HIDE DEF mine
  <2> QED
    BY <2>1, <2>2, <2>3
<1>3. Stage(r, "update", i, mine, 0) /\ "update" \in Op
  BY DEF UpdateItem, Op
<1> HIDE DEF mine
<1> QED
  BY <1>2, <1>3, StageSources

\* A step that writes one new movement, about one item, and the stock of that item.
LEMMA MovementSources ==
  ASSUME IInv, JInv, NEW m \in Movement, m \notin ledger, m.item \in DOMAIN items',
         ledger' = ledger \cup {m}, m.req \in served', served \subseteq served',
         open' \subseteq open, \A t \in open' : t.req # m.req,
         UNCHANGED opening, DOMAIN items' = DOMAIN items \cup {m.item},
         \A j \in DOMAIN items \ {m.item} : items'[j].quantity = items[j].quantity,
         items'[m.item].quantity \in Int,
         items'[m.item].quantity <= Received(m.item) + Cent + (IF m.change > 0 THEN m.change ELSE 0),
         stale \subseteq stale',
         m.item \notin stale' =>
             LET drift == items'[m.item].quantity - opening[m.item]
                            - (Moved(ledger, m.item) + m.change)
             IN  /\ -(Rounding(ledger, m.item) + Cent) <= drift
                 /\ drift <= Rounding(ledger, m.item) + Cent
  PROVE  JInv'
<1>1. /\ IsFiniteSet(ledger) /\ ledger \subseteq Movement /\ LedgerFresh /\ DOMAIN items \subseteq Items
      /\ m.change \in Int /\ Cent \in Int /\ Cent > 0 /\ m.item \in Items
  BY CentAssumption, StoredInt DEF IInv, TypeOK, JInv, LedgerFresh, Movement
<1>2. IsFiniteSet(ledger')
  BY <1>1, FS_AddElement
<1>3. LedgerFresh'
  BY <1>2 DEF JInv, LedgerFresh
<1>4. /\ Received(m.item)' = Received(m.item) + Cent + (IF m.change > 0 THEN m.change ELSE 0)
      /\ Received(m.item) \in Int
  <2>1. /\ Arrived(ledger', m.item)
             = Arrived(ledger, m.item) + (IF m.change > 0 THEN m.change ELSE 0)
        /\ Rounding(ledger', m.item) = Rounding(ledger, m.item) + Cent
    BY <1>1, LedgerGrows
  <2>2. Received(m.item)' = opening[m.item] + Arrived(ledger', m.item) + Rounding(ledger', m.item)
    BY DEF Received
  <2>3. /\ opening[m.item] \in Int /\ Arrived(ledger, m.item) \in Int
        /\ Rounding(ledger, m.item) \in Int
    BY <1>1, LedgerTyped
  <2> QED
    BY <1>1, <2>1, <2>2, <2>3 DEF Received
<1>5. ASSUME NEW j \in Items, j # m.item
      PROVE  /\ Received(j)' = Received(j)
             /\ Moved(ledger', j) = Moved(ledger, j)
             /\ Rounding(ledger', j) = Rounding(ledger, j)
  <2>1. /\ Arrived(ledger', j) = Arrived(ledger, j) /\ Moved(ledger', j) = Moved(ledger, j)
        /\ Rounding(ledger', j) = Rounding(ledger, j)
    BY <1>1, <1>5, LedgerGrows
  <2> QED
    BY <2>1 DEF Received
<1>6. \A j \in Items : Received(j) <= Received(j)'
  <2> SUFFICES ASSUME NEW j \in Items PROVE Received(j) <= Received(j)'
    OBVIOUS
  <2>1. Received(j) \in Int
    BY <1>1, LedgerTyped DEF Received
  <2>2. j = m.item => Received(j) <= Received(j)'
    BY <1>1, <1>4
  <2> QED
    BY <1>5, <2>1, <2>2
<1>7. StagedChange'
  <2> SUFFICES ASSUME NEW t \in open'
               PROVE  /\ t.mine.quantity = t.loaded.quantity + t.change
                      /\ t.op # "adjust" => t.change = 0
                      /\ t.loaded.quantity <= Received(t.item)'
    BY DEF StagedChange
  <2>1. t \in open /\ t.item \in Items /\ t.loaded.quantity \in Int
    BY StoredInt DEF IInv, TypeOK, Transaction, Item
  <2>2. /\ t.mine.quantity = t.loaded.quantity + t.change
        /\ t.op # "adjust" => t.change = 0
        /\ t.loaded.quantity <= Received(t.item)
    BY <2>1 DEF JInv, StagedChange
  <2>3. Received(t.item) <= Received(t.item)' /\ Received(t.item) \in Int
    <3>1. Received(t.item) \in Int
      BY <1>1, <2>1, LedgerTyped DEF Received
    <3>2. Received(t.item) <= Received(t.item)'
      BY <1>6, <2>1
    <3> QED
      BY <3>1, <3>2
  <2>4. Received(t.item)' \in Int
    BY <1>1, <1>4, <1>5, <2>1, <2>3
  <2> QED
    BY <2>1, <2>2, <2>3, <2>4
<1>8. StockWasReceived'
  <2> SUFFICES ASSUME NEW j \in DOMAIN items' PROVE items'[j].quantity <= Received(j)'
    BY RestatedNext
  <2>1. CASE j = m.item
    BY <1>4, <2>1
  <2>2. CASE j # m.item
    <3>1. j \in DOMAIN items /\ j \in Items
      BY <1>1, <2>2
    <3> QED
      BY <1>5, <2>2, <3>1, Restated DEF JInv
  <2> QED
    BY <2>1, <2>2
<1>9. LedgerAccounts'
  <2> SUFFICES ASSUME NEW j \in DOMAIN items' \ stale'
               PROVE  -Rounding(ledger', j) <= Drift(j)' /\ Drift(j)' <= Rounding(ledger', j)
    BY RestatedNext
  <2>1. Drift(j)' = items'[j].quantity - opening[j] - Moved(ledger', j)
    BY DEF Drift
  <2>2. CASE j = m.item
    <3>1. /\ Moved(ledger', j) = Moved(ledger, j) + m.change
          /\ Rounding(ledger', j) = Rounding(ledger, j) + Cent
      BY <1>1, <2>2, LedgerGrows
    <3> QED
      BY <2>1, <2>2, <3>1
  <2>3. CASE j # m.item
    <3>1. j \in DOMAIN items \ stale /\ j \in Items
      BY <1>1, <2>3
    <3>2. Drift(j)' = Drift(j) /\ Rounding(ledger', j) = Rounding(ledger, j)
      BY <1>5, <2>1, <2>3, <3>1 DEF Drift
    <3> QED
      BY <3>1, <3>2, Restated DEF JInv
  <2> QED
    BY <2>2, <2>3
<1> QED
  BY <1>3, <1>7, <1>8, <1>9 DEF JInv

\* A new item holds what its first movement brought, both rounded.
LEMMA CreateSources ==
  ASSUME IInv, JInv, NEW r \in Requests, NEW i \in Items, NEW n \in Changes, NEW h \in Thresholds,
         NEW x \in Expiry, CreateItem(r, i, n, h, x)
  PROVE  JInv'
<1> DEFINE row == [quantity |-> n, threshold |-> h, expiry |-> x, status |-> "available"]
           new(q) == [WithStatus(row) EXCEPT !.quantity = q]
           movement(c) == [req |-> r, item |-> i, change |-> c]
<1>1. PICK q \in Nearest(n), change \in Nearest(n) :
        /\ items' = [j \in DOMAIN items \cup {i} |-> IF j = i THEN new(q) ELSE items[j]]
        /\ ledger' = ledger \cup (IF n > 0 THEN {movement(change)} ELSE {})
  BY DEF CreateItem
<1>2. /\ r \notin served /\ served' = served \cup {r}
      /\ i \notin DOMAIN items /\ n >= 0
      /\ UNCHANGED <<opening, open, stale>>
  BY DEF CreateItem, Begin
<1>3. new(q).quantity = q
  BY DEF WithStatus
<1> HIDE DEF new
<1>4. /\ n \in Int /\ q \in Int /\ q >= 0 /\ change \in Int /\ change >= 0 /\ change \in Stored
      /\ Cent \in Int /\ Cent > 0
  <2>1. n \in Int /\ n >= 0
    BY <1>2, ChangesAssumption
  <2>2. q \in Stored /\ q >= 0
    BY <1>1, <2>1, NearestNotNegative
  <2>3. change \in Stored /\ change >= 0
    BY <1>1, <2>1, NearestNotNegative
  <2>4. Cent \in Int /\ Cent > 0
    BY CentAssumption
  <2> QED
    BY <2>1, <2>2, <2>3, <2>4, StoredInt
<1>5. /\ 2 * (q - n) <= Cent /\ 2 * (n - q) <= Cent
      /\ 2 * (change - n) <= Cent /\ 2 * (n - change) <= Cent
  BY <1>1 DEF Nearest
<1>6. /\ DOMAIN items' = DOMAIN items \cup {i} /\ items'[i].quantity = q
      /\ \A j \in DOMAIN items : items'[j].quantity = items[j].quantity
  BY <1>1, <1>2, <1>3
<1>7. /\ \A m \in ledger : m.req # r /\ m.item # i
      /\ \A t \in open : t.req # r
      /\ opening[i] = 0 /\ LedgerFresh /\ IsFiniteSet(ledger)
  BY <1>2 DEF JInv, LedgerFresh
<1>8. Moved(ledger, i) = 0 /\ Arrived(ledger, i) = 0 /\ Rounding(ledger, i) = 0
  <2>1. Of(ledger, i) = {} /\ {m \in Of(ledger, i) : m.change > 0} = {}
    BY <1>7 DEF Of
  <2>2. Cardinality(Of(ledger, i)) = 0
    BY <2>1, FS_EmptySet
  <2> QED
    BY <1>4, <2>1, <2>2, TotalEmpty DEF Moved, Arrived, Rounding
<1>9. CASE n > 0
  <2> DEFINE m == movement(change)
  <2>1. /\ m \in Movement /\ m.req = r /\ m.item = i /\ m.change = change
        /\ ledger' = ledger \cup {m}
    BY <1>1, <1>4, <1>9 DEF Movement
  <2> HIDE DEF m, movement
  <2>2. q <= change + Cent /\ -Cent <= q - change /\ q - change <= Cent
    BY <1>4, <1>5
  <2>3. q <= Received(i) + Cent + (IF change > 0 THEN change ELSE 0)
    BY <1>4, <1>7, <1>8, <2>2 DEF Received
  <2>4. LET drift == q - opening[i] - (Moved(ledger, i) + change)
        IN  -(Rounding(ledger, i) + Cent) <= drift /\ drift <= Rounding(ledger, i) + Cent
    BY <1>4, <1>7, <1>8, <2>2
  <2>5. m \notin ledger
    BY <1>7, <2>1
  <2> QED
    BY <1>2, <1>4, <1>6, <1>7, <2>1, <2>3, <2>4, <2>5, MovementSources
<1>10. CASE n = 0
  <2>1. q = 0 /\ ledger' = ledger
    BY <1>1, <1>10, NearestOfZero
  <2>2. \A j : Received(j)' = Received(j)
    BY <1>2, <2>1 DEF Received, Arrived, Rounding
  <2>3. \A j : Drift(j)' = items'[j].quantity - opening[j] - Moved(ledger, j)
    BY <1>2, <2>1 DEF Drift, Moved
  <2>4. LedgerFresh'
    BY <1>2, <1>6, <2>1 DEF JInv, LedgerFresh
  <2>5. StagedChange'
    BY <1>2, <2>2 DEF JInv, StagedChange
  <2>6. StockWasReceived'
    <3>1. items'[i].quantity <= Received(i)
      BY <1>6, <1>7, <1>8, <2>1 DEF Received
    <3> QED
      BY <1>6, <2>2, <3>1, Restated, RestatedNext DEF JInv
  <2>7. LedgerAccounts'
    <3>1. Drift(i)' = 0
      BY <1>6, <1>7, <1>8, <2>1, <2>3
    <3>2. \A j \in DOMAIN items : Drift(j)' = Drift(j)
      BY <1>6, <2>3 DEF Drift
    <3>3. -Rounding(ledger', i) <= Drift(i)' /\ Drift(i)' <= Rounding(ledger', i)
      BY <1>8, <2>1, <3>1
    <3> QED
      BY <1>2, <1>6, <2>1, <3>2, <3>3, Restated, RestatedNext DEF JInv
  <2> QED
    BY <2>4, <2>5, <2>6, <2>7 DEF JInv
<1> QED
  BY <1>2, <1>4, <1>9, <1>10

\* A commit writes the stock that it loaded with its change, which is what its
\* movement records; stock that it loaded long ago was received all the same.
LEMMA CommitSources ==
  ASSUME IInv, JInv, NEW t \in open, Commit(t)
  PROVE  JInv'
<1>1. PICK q \in Nearest(t.mine.quantity), change \in Nearest(t.change) :
        /\ items' = [items EXCEPT ![t.item] = MergeItem(@, t, q)]
        /\ ledger' = ledger \cup NewMovements(t, change)
  BY DEF Commit
<1>2. /\ stale' = IF t.loaded = items[t.item] THEN stale ELSE stale \cup {t.item}
      /\ open' = open \ {t}
      /\ UNCHANGED <<opening, served>>
  BY DEF Commit
<1> DEFINE now == items[t.item].quantity
           old == t.loaded.quantity
           mine == t.mine.quantity
           written == IF mine # old THEN q ELSE now
<1>3. /\ t.item \in DOMAIN items /\ t.item \in Items /\ t.req \in Requests
      /\ now \in Int /\ old \in Int /\ mine \in Int /\ t.change \in Int
      /\ Cent \in Int /\ Cent > 0 /\ t.op \in Op
  BY StoredInt, CentAssumption DEF IInv, TypeOK, StagedStock, Transaction, Item
<1>4. /\ q \in Int /\ change \in Int /\ change \in Stored
      /\ 2 * (q - mine) <= Cent /\ 2 * (mine - q) <= Cent
      /\ 2 * (change - t.change) <= Cent /\ 2 * (t.change - change) <= Cent
  BY <1>1, StoredInt DEF Nearest
<1>5. mine = old + t.change /\ (t.op # "adjust" => t.change = 0) /\ old <= Received(t.item)
  BY DEF JInv, StagedChange
<1>6. /\ DOMAIN items' = DOMAIN items /\ items'[t.item].quantity = written
      /\ \A j \in DOMAIN items \ {t.item} : items'[j].quantity = items[j].quantity
  BY <1>1, <1>3 DEF MergeItem
<1>7. /\ now <= Received(t.item) /\ LedgerFresh
      /\ t.item \notin stale => /\ -Rounding(ledger, t.item) <= Drift(t.item)
                               /\ Drift(t.item) <= Rounding(ledger, t.item)
  BY <1>3, Restated DEF JInv
<1>8. /\ opening[t.item] \in Int /\ Moved(ledger, t.item) \in Int /\ Received(t.item) \in Int
      /\ Rounding(ledger, t.item) \in Int /\ Drift(t.item) = now - opening[t.item] - Moved(ledger, t.item)
  BY <1>3, <1>7, LedgerTyped DEF Received, Drift
<1> HIDE DEF now, old, mine
<1>9. CASE t.op = "adjust"
  <2> DEFINE m == [req |-> t.req, item |-> t.item, change |-> change]
  <2>1. /\ m \in Movement /\ m.req = t.req /\ m.item = t.item /\ m.change = change
        /\ ledger' = ledger \cup {m}
    BY <1>1, <1>3, <1>4, <1>9 DEF Movement, NewMovements
  <2> HIDE DEF m
  <2>2. m \notin ledger /\ t.req \in served /\ \A u \in open' : u.req # t.req
    BY <1>2, <2>1 DEF JInv, LedgerFresh
  <2>3. written \in Int
    BY <1>3, <1>4
  <2>4. written <= Received(t.item) + Cent + (IF change > 0 THEN change ELSE 0)
    <3>1. q <= Received(t.item) + Cent + (IF change > 0 THEN change ELSE 0)
      <4>1. 2 * q <= 2 * Received(t.item) + 2 * t.change + Cent
        BY <1>3, <1>4, <1>5, <1>8
      <4>2. 2 * t.change <= 2 * change + Cent
        BY <1>3, <1>4
      <4> QED
        BY <1>3, <1>4, <1>8, <4>1, <4>2
    <3>2. now <= Received(t.item) + Cent + (IF change > 0 THEN change ELSE 0)
      BY <1>3, <1>4, <1>7, <1>8
    <3> QED
      BY <3>1, <3>2
  <2>5. ASSUME t.item \notin stale'
        PROVE  LET drift == written - opening[t.item] - (Moved(ledger, t.item) + change)
               IN  /\ -(Rounding(ledger, t.item) + Cent) <= drift
                   /\ drift <= Rounding(ledger, t.item) + Cent
    <3>1. old = now /\ t.item \notin stale
      BY <1>2, <2>5 DEF old, now
    <3>2. -Cent <= written - now - change /\ written - now - change <= Cent
      <4>1. CASE mine # old
        BY <1>3, <1>4, <1>5, <3>1, <4>1
      <4>2. CASE mine = old
        BY <1>3, <1>4, <1>5, <3>1, <4>2
      <4> QED
        BY <4>1, <4>2
    <3> HIDE DEF written
    <3> QED
      BY <1>3, <1>4, <1>7, <1>8, <2>3, <3>1, <3>2
  <2>6. /\ DOMAIN items' = DOMAIN items \cup {t.item} /\ stale \subseteq stale'
        /\ open' \subseteq open /\ served \subseteq served'
    BY <1>2, <1>3, <1>6
  <2> HIDE DEF written
  <2>7. opening' = opening
    BY <1>2
  <2> QED
    BY <1>3, <1>6, <2>1, <2>2, <2>3, <2>4, <2>5, <2>6, <2>7, MovementSources
<1>10. CASE t.op # "adjust"
  <2>1. ledger' = ledger
    BY <1>1, <1>10 DEF NewMovements
  <2>2. written = now
    BY <1>3, <1>5, <1>10
  <2>3. \A j \in DOMAIN items : items'[j].quantity = items[j].quantity
    BY <1>6, <2>2 DEF now
  <2> QED
    BY <1>2, <1>6, <2>1, <2>3, QuietKeeps
<1> QED
  BY <1>9, <1>10

\* Every step keeps what links the ledger and the stock.
LEMMA NextSourced == IInv /\ JInv /\ [Next]_vars => JInv'
<1> SUFFICES ASSUME IInv, JInv, [Next]_vars PROVE JInv'
  OBVIOUS
<1>1. CASE UNCHANGED vars
  BY <1>1, QuietKeeps DEF vars
<1>2. ASSUME NEW r \in Requests, Receive(r) PROVE JInv'
  <2>1. ASSUME NEW i \in Items, NEW n \in Changes, NEW h \in Thresholds, NEW x \in Expiry,
               CreateItem(r, i, n, h, x)
        PROVE  JInv'
    BY <2>1, CreateSources
  <2>2. ASSUME NEW i \in Items, NEW h \in Thresholds, NEW x \in Expiry, UpdateItem(r, i, h, x)
        PROVE  JInv'
    BY <2>2, UpdateSources
  <2>3. ASSUME NEW i \in Items, NEW n \in Changes, AdjustStock(r, i, n) PROVE JInv'
    BY <2>3, AdjustSources, ChangesAssumption
  <2>4. ASSUME NEW i \in Items, NEW n \in Changes, Distribute(r, i, n) PROVE JInv'
    <3>1. AdjustStock(r, i, -n) /\ -n \in Int
      BY <2>4, ChangesAssumption DEF Distribute
    <3> QED
      BY <3>1, AdjustSources
  <2>5. ASSUME CheckHealth(r) PROVE JInv'
    BY <2>5, QuietKeeps DEF CheckHealth, Begin
  <2> QED
    BY <1>2, <2>1, <2>2, <2>3, <2>4, <2>5 DEF Receive
<1>3. ASSUME NEW t \in open, Commit(t) PROVE JInv'
  BY <1>3, CommitSources
<1>4. ASSUME NEW t \in open, Rollback(t) PROVE JInv'
  BY <1>4, QuietKeeps DEF Rollback
<1>5. ASSUME NEW k \in checks, CommitHealth(k) PROVE JInv'
  <2>1. /\ UNCHANGED <<opening, ledger, open, served>> /\ stale \subseteq stale'
        /\ DOMAIN items' = DOMAIN items
    BY <1>5 DEF CommitHealth
  <2>2. ASSUME NEW i \in DOMAIN items PROVE items'[i].quantity = items[i].quantity
    <3>1. items[i] \in Item(Stored)
      BY DEF IInv, TypeOK
    <3>2. \A v : [items[i] EXCEPT !.status = v].quantity = items[i].quantity
      BY <3>1 DEF Item
    <3> QED
      BY <1>5, <3>2 DEF CommitHealth
  <2> QED
    BY <2>1, <2>2, QuietKeeps
<1>6. ASSUME NEW k \in checks, AbandonHealth(k) PROVE JInv'
  BY <1>6, QuietKeeps DEF AbandonHealth
<1>7. ASSUME NextDay PROVE JInv'
  BY <1>7, QuietKeeps DEF NextDay
<1> QED
  BY <1>1, <1>2, <1>3, <1>4, <1>5, <1>6, <1>7 DEF Next

\* Both conjunctions are an invariant of the interleaved system.
THEOREM LedgerInvariance == Spec => [](IInv /\ JInv)
<1>1. Init => IInv /\ JInv
  BY InitInv, InitSourced
<1>2. (IInv /\ JInv) /\ [Next]_vars => (IInv /\ JInv)'
  BY NextInv, NextSourced
<1> QED
  BY <1>1, <1>2, PTL DEF Spec

\* An item never holds more stock than was ever received, however requests
\* that loaded the same row overwrite each other's changes.
THEOREM NoStockFromNowhere == Spec => []StockWasReceived
<1>1. IInv /\ JInv => StockWasReceived
  BY DEF JInv
<1> QED
  BY <1>1, LedgerInvariance, PTL

\* Until a request commits a row that it loaded before the last change of an
\* item, the movements of that item add up to its stock, but for their rounding.
THEOREM LedgerExplainsStock == Spec => []LedgerAccounts
<1>1. IInv /\ JInv => LedgerAccounts
  BY DEF JInv
<1> QED
  BY <1>1, LedgerInvariance, PTL

=============================================================================
