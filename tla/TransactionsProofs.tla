-------------------------- MODULE TransactionsProofs --------------------------
(***************************************************************************)
(* Proofs about Transactions, for any users, orders, positions, rates and  *)
(* numbers of instances, results, attempts and faults: statement by        *)
(* statement under row locks, and with a liquidator that takes no lock     *)
(* of the user, every commit is a whole transaction of Accounts on the     *)
(* tables as they are then, placeOrder's but for closing orders it has     *)
(* counted as they were before; a funding period is run once, no           *)
(* interleaving makes money or loses it, and with fewer faults than        *)
(* attempts every order whose XADD failed is rolled back.                  *)
(***************************************************************************)
EXTENDS Transactions, OperatorProofs, SequenceTheorems

\* All that is kept about one user; to write any of it all but the liquidator lock
\* the user.
RowsOf(u) == {UserRow(u), PositionRow(u)} \cup {OrderRow(o) : o \in OrdersOf(u)}

AccountRows == {UserRow(u) : u \in User} \cup {PositionRow(u) : u \in User}

\* What a transaction has locked, and what it is going to lock.
Claims(t) == locked[t] \cup Range(rows[t])

Idle(t) == rows[t] = <<>> /\ seen[t] = <<>> /\ locked[t] = {}

TxnTypes ==
  /\ DOMAIN at = Txn /\ DOMAIN seen = Txn
  /\ rows \in [Txn -> Seq(Rows)]
  /\ locked \in [Txn -> SUBSET Rows]
  /\ settled \in Nat

EngineResult ==
  {r \in [kind : {"trade", "cancel", "not_open"}, ids : Seq(OrderId)] :
     Len(r.ids) = IF r.kind = "trade" THEN 2 ELSE 1}

ResultsOK == results \in Seq(EngineResult) /\ Len(results) <= MaxResults

\* A row is locked by one transaction.
Exclusive == \A s, t \in Txn : s # t => locked[s] \cap locked[t] = {}

\* The row of an order that the liquidator wrote over after it was read.
WrittenOver(r, v) == \E c \in Closing : r = OrderRow(c) /\ v \in Past(db[r])

\* What has been read is still so, but for orders of the liquidator, when they
\* are not locked.
StillSo(sn, lk) ==
  \A r \in DOMAIN sn :
    r \in Rows /\ (sn[r] = db[r] \/ (r \notin lk /\ WrittenOver(r, sn[r])))

Fresh == \A t \in Txn : StillSo(seen[t], locked[t])

\* An order that is not yet written has no row, and no result speaks of it.
Early(o) == o \in OrderId /\ at[o] \in {"none", "placing", "reserving", "scanned"}

\* The engine trades or ends only what has been enqueued.
AnswersQueued ==
  \A n \in DOMAIN results : results[n].kind # "not_open" =>
    \A o \in Range(results[n].ids) : at[o] = "queued"

\* Until it is enqueued nobody but the liquidator writes a closing order.
ClosingWritten ==
  \A c \in Closing : at[c] \in {"written", "dropping"} => db[OrderRow(c)] = NewClosing

Unwritten ==
  \A o \in OrderId : Early(o) =>
    /\ db[OrderRow(o)] = None
    /\ \A n \in DOMAIN results : o \notin Range(results[n].ids)

\* The API: it reads rows of one user, after it has locked the user.  The
\* liquidator: it locks no more than its order.
RequestOK(o) ==
  LET U == UserRow(OwnerOf(o))
  IN  /\ at[o] \in {"none", "placing", "reserving", "written", "queued",
                    "undoing", "rejecting", "over", "lost", "scanned", "dropping"}
      /\ at[o] \in {"none", "scanned", "written", "queued", "over", "lost"} => Idle(o)
      /\ at[o] \in {"placing", "reserving", "undoing", "rejecting"} => o \notin Closing
      /\ at[o] \in {"scanned", "dropping"} => o \in Closing
      /\ at[o] = "dropping" => \/ rows[o] = <<OrderRow(o)>> /\ locked[o] = {}
                               \/ rows[o] = <<>> /\ locked[o] = {OrderRow(o)}
      /\ at[o] \in {"placing", "reserving", "undoing", "rejecting"} => U \in Claims(o)
      /\ at[o] = "reserving" => PlaceReads(o) \subseteq DOMAIN seen[o]
      /\ at[o] = "rejecting" => /\ OrderRow(o) \in Claims(o)
                                /\ OrderRow(o) \in DOMAIN seen[o] /\ IsOpen(seen[o], o)
      /\ Claims(o) \subseteq IF at[o] = "rejecting" THEN {U, OrderRow(o)}
                            ELSE IF at[o] = "dropping" THEN {OrderRow(o)} ELSE {U}
      /\ locked[o] \subseteq DOMAIN seen[o] /\ DOMAIN seen[o] \subseteq RowsOf(OwnerOf(o))
      /\ DOMAIN seen[o] # {} => U \in locked[o] \/ DOMAIN seen[o] = locked[o]

\* The db-worker: it reads what it locks.
WorkerOK ==
  /\ at[Worker] \in {"idle", "event", "orders", "users", "positions", "done"}
  /\ at[Worker] \in {"idle", "done"} => Idle(Worker)
  /\ at[Worker] # "idle" => Current \in DOMAIN results
  /\ at[Worker] \in {"event", "orders", "users", "positions"} =>
       EventRow(Current) \in Claims(Worker)
  /\ at[Worker] \in {"orders", "users", "positions"} =>
       /\ EventRow(Current) \in locked[Worker] /\ ~seen[Worker][EventRow(Current)]
       /\ \A o \in CurrentOrders : OrderRow(o) \in Claims(Worker)
  /\ at[Worker] \in {"users", "positions"} =>
       \A o \in CurrentOrders : UserRow(OwnerOf(o)) \in Claims(Worker)
  /\ at[Worker] = "positions" /\ results[Current].kind = "trade" =>
       \A o \in CurrentOrders : PositionRow(OwnerOf(o)) \in Claims(Worker)
  /\ at[Worker] # "idle" => Claims(Worker) \subseteq
       {EventRow(Current)} \cup {OrderRow(o) : o \in CurrentOrders} \cup AccountRows
  /\ DOMAIN seen[Worker] = locked[Worker]

\* The funding service, likewise.
FunderOK(f) ==
  /\ at[f] \in {"idle", "period", "users", "positions"}
  /\ at[f] = "idle" => Idle(f)
  /\ at[f] = "period" => PeriodRow \in Claims(f)
  /\ at[f] \in {"users", "positions"} => PeriodRow \in locked[f] /\ ~seen[f][PeriodRow]
  /\ Claims(f) \subseteq {PeriodRow} \cup AccountRows
  /\ DOMAIN seen[f] = locked[f]

TxnOK(t) ==
  /\ t \in OrderId => RequestOK(t)
  /\ t = Worker => WorkerOK
  /\ t \in Funder => FunderOK(t)

TransInv ==
  /\ TxnTypes /\ ResultsOK /\ DOMAIN db = Rows
  /\ Exclusive /\ Fresh /\ Unwritten /\ AnswersQueued /\ ClosingWritten
  /\ \A t \in Txn : TxnOK(t)

-----------------------------------------------------------------------------
(* Rows and sequences of them.                                             *)

(* Rows of different kinds and of different owners are different.          *)
LEMMA RowFacts ==
  /\ \A u, v : /\ UserRow(u) = UserRow(v) => u = v
               /\ PositionRow(u) = PositionRow(v) => u = v
               /\ OrderRow(u) = OrderRow(v) => u = v
               /\ EventRow(u) = EventRow(v) => u = v
               /\ UserRow(u) # PositionRow(v) /\ UserRow(u) # OrderRow(v)
               /\ UserRow(u) # EventRow(v) /\ UserRow(u) # PeriodRow
               /\ PositionRow(u) # OrderRow(v) /\ PositionRow(u) # EventRow(v)
               /\ PositionRow(u) # PeriodRow
               /\ OrderRow(u) # EventRow(v) /\ OrderRow(u) # PeriodRow
               /\ EventRow(u) # PeriodRow
               /\ UserRow(u) # InsuranceRow /\ PositionRow(u) # InsuranceRow
               /\ OrderRow(u) # InsuranceRow /\ EventRow(u) # InsuranceRow
  /\ PeriodRow # InsuranceRow
BY DEF UserRow, PositionRow, OrderRow, EventRow, PeriodRow, InsuranceRow

LEMMA RowsIn ==
  /\ \A u \in User : UserRow(u) \in Rows /\ PositionRow(u) \in Rows
  /\ \A o \in OrderId : OrderRow(o) \in Rows
  /\ PeriodRow \in Rows /\ InsuranceRow \in Rows
  /\ \A n \in 1..MaxResults : EventRow(n) \in Rows
BY DEF Rows

LEMMA OwnerFacts ==
  \A o \in OrderId : OwnerOf(o) \in User /\ o \in OrdersOf(OwnerOf(o))
BY TransactionsAssumption DEF OwnerOf, OrdersOf

LEMMA TxnFacts ==
  /\ \A o \in OrderId : o \in Txn /\ o # Worker /\ o \notin Funder
  /\ \A f \in Funder : f \in Txn /\ f # Worker /\ f \notin OrderId
  /\ Worker \in Txn /\ Worker \notin OrderId /\ Worker \notin Funder
  /\ Txn = OrderId \cup Funder \cup {Worker}
BY TransactionsAssumption DEF Txn

LEMMA RangeFacts ==
  /\ Range(<<>>) = {}
  /\ \A r : Range(<<r>>) = {r}
BY DEF Range

LEMMA RangeSplit ==
  ASSUME NEW S, NEW s \in Seq(S), s # <<>>
  PROVE  Range(s) = {Head(s)} \cup Range(Tail(s)) /\ Tail(s) \in Seq(S) /\ Head(s) \in S
<1>1. /\ Tail(s) \in Seq(S) /\ Len(Tail(s)) = Len(s) - 1 /\ Head(s) \in S
      /\ \A i \in 1..Len(Tail(s)) : Tail(s)[i] = s[i + 1]
  BY HeadTailProperties
<1>2. Len(s) \in Nat /\ DOMAIN s = 1..Len(s) /\ DOMAIN Tail(s) = 1..Len(Tail(s))
  BY <1>1, LenProperties
<1>3. Len(s) # 0 /\ Head(s) = s[1]
  BY EmptySeq
<1>4. ASSUME NEW x \in Range(s) PROVE x = Head(s) \/ x \in Range(Tail(s))
  <2>1. PICK i \in 1..Len(s) : x = s[i]
    BY <1>2 DEF Range
  <2>2. CASE i = 1
    BY <1>3, <2>1, <2>2
  <2>3. CASE i # 1
    <3>1. i - 1 \in 1..Len(Tail(s)) /\ Tail(s)[i - 1] = s[i]
      BY <1>1, <1>2, <2>1, <2>3
    <3> QED  BY <1>2, <2>1, <3>1 DEF Range
  <2> QED  BY <2>2, <2>3
<1>5. ASSUME NEW x \in Range(Tail(s)) PROVE x \in Range(s)
  <2>1. PICK i \in 1..Len(Tail(s)) : x = Tail(s)[i]
    BY <1>2 DEF Range
  <2>2. i + 1 \in 1..Len(s) /\ x = s[i + 1]
    BY <1>1, <1>2, <2>1
  <2> QED  BY <1>2, <2>2 DEF Range
<1>6. Head(s) \in Range(s)
  <2>1. 1 \in DOMAIN s
    BY <1>2, <1>3
  <2> QED  BY <1>3, <2>1 DEF Range
<1> QED  BY <1>1, <1>4, <1>5, <1>6

(* Ids in order are all of them.                                           *)
LEMMA SortedAll ==
  ASSUME NEW S, S \subseteq Nat, IsFiniteSet(S)
  PROVE  /\ Cardinality(S) \in Nat
         /\ \A k \in 1..Cardinality(S) : Sorted(S)[k] \in S
         /\ \A a \in S : \E k \in 1..Cardinality(S) : Sorted(S)[k] = a
<1> DEFINE n == Cardinality(S)
           R == {ba \in S \X S : ba[1] < ba[2]}
           rank(a) == Cardinality({b \in S : b < a})
<1>1. n \in Nat
  BY FS_CardinalityType
<1>2. StrictOrder(R, S)
  <2>1. \A a, b \in S : <<a, b>> \in R <=> a < b
    OBVIOUS
  <2>2. \A a \in S : a \in Nat
    OBVIOUS
  <2> HIDE DEF R
  <2> QED  BY <2>1, <2>2 DEF StrictOrder
<1>3. ASSUME NEW a \in S PROVE RankIn(R, S, a) = rank(a)
  <2>1. {b \in S : <<b, a>> \in R} = {b \in S : b < a}
    OBVIOUS
  <2> QED  BY <2>1 DEF RankIn
<1>4. \A a \in S : rank(a) \in 0..(n - 1)
  <2> HIDE DEF R, rank
  <2>1. \A a \in S : RankIn(R, S, a) \in 0..(Cardinality(S) - 1)
    BY <1>2, RankBounds
  <2> QED  BY <1>3, <2>1
<1>5. \A k \in 0..(n - 1) : \E a \in S : rank(a) = k
  <2> HIDE DEF R, rank
  <2>1. \A k \in 0..(Cardinality(S) - 1) : \E a \in S : RankIn(R, S, a) = k
    BY ONLY IsFiniteSet(S), StrictOrder(R, S), RankTaken
  <2> QED  BY <1>3, <2>1
<1>6. ASSUME NEW a \in S, NEW b \in S, rank(a) = rank(b) PROVE a = b
  <2>1. <<a, b>> \in R => rank(a) < rank(b)
    BY <1>2, <1>3, RankBounds
  <2>2. <<b, a>> \in R => rank(b) < rank(a)
    BY <1>2, <1>3, RankBounds
  <2>3. rank(a) \in Int /\ rank(b) \in Int
    BY <1>4
  <2> HIDE DEF R, rank
  <2> QED  BY <1>2, <1>6, <2>1, <2>2, <2>3 DEF StrictOrder
<1>7. Sorted(S) = [k \in 1..n |-> CHOOSE a \in S : rank(a) = k - 1]
  BY DEF Sorted
<1> HIDE DEF R, rank, n
<1>8. ASSUME NEW k \in 1..n PROVE Sorted(S)[k] \in S /\ rank(Sorted(S)[k]) = k - 1
  <2>1. k - 1 \in 0..(n - 1)
    BY <1>1
  <2>2. \E a \in S : rank(a) = k - 1
    BY <1>5, <2>1
  <2> QED  BY <1>7, <2>2
<1>9. ASSUME NEW a \in S PROVE \E k \in 1..n : Sorted(S)[k] = a
  <2>1. rank(a) + 1 \in 1..n /\ (rank(a) + 1) - 1 = rank(a)
    BY <1>1, <1>4
  <2>2. Sorted(S)[rank(a) + 1] = a
    BY <1>6, <1>8, <2>1
  <2> QED  BY <2>1, <2>2
<1> QED  BY <1>1, <1>8, <1>9 DEF n

\* The items of a set of ids, in the order of the ids.
Listing(S, R) == [k \in 1..Cardinality(S) |-> R[Sorted(S)[k]]]

Items(S, R) == {R[a] : a \in S}

(* What the items of a set of ids, in order, are is what they are of.      *)
LEMMA ListOf ==
  ASSUME NEW S, S \subseteq Nat, IsFiniteSet(S), NEW R, NEW T,
         \A a \in S : R[a] \in T
  PROVE  Listing(S, R) \in Seq(T) /\ Range(Listing(S, R)) = Items(S, R)
<1> DEFINE n == Cardinality(S)
           list == Listing(S, R)
<1>1. /\ n \in Nat
      /\ \A k \in 1..n : Sorted(S)[k] \in S
      /\ \A a \in S : \E k \in 1..n : Sorted(S)[k] = a
  BY SortedAll
<1>2. list = [k \in 1..n |-> R[Sorted(S)[k]]]
  BY DEF Listing
<1> HIDE DEF n, list
<1>3. list \in [1..n -> T]
  BY <1>1, <1>2
<1>4. list \in Seq(T)
  BY <1>1, <1>3, SeqDef
<1>5. DOMAIN list = 1..n /\ \A k \in 1..n : list[k] = R[Sorted(S)[k]]
  BY <1>2
<1>6. ASSUME NEW x PROVE x \in Range(list) <=> \E a \in S : x = R[a]
  <2>1. Range(list) = {list[k] : k \in 1..n}
    BY <1>5 DEF Range
  <2>2. x \in Range(list) <=> \E k \in 1..n : x = R[Sorted(S)[k]]
    BY <1>5, <2>1
  <2> QED  BY <1>1, <2>2
<1>7. Range(list) = Items(S, R)
  BY <1>6 DEF Items
<1> QED  BY <1>4, <1>7 DEF list

(* The rows of a set of ids, in order, are sequences of just those rows.   *)
LEMMA RowLists ==
  /\ \A us \in SUBSET User :
       /\ UserRows(us) \in Seq(Rows) /\ Range(UserRows(us)) = {UserRow(u) : u \in us}
       /\ PositionRows(us) \in Seq(Rows) /\ Range(PositionRows(us)) = {PositionRow(u) : u \in us}
  /\ \A os \in SUBSET OrderId :
       OrderRows(os) \in Seq(Rows) /\ Range(OrderRows(os)) = {OrderRow(o) : o \in os}
<1>1. ASSUME NEW us \in SUBSET User
      PROVE  /\ UserRows(us) \in Seq(Rows) /\ Range(UserRows(us)) = {UserRow(u) : u \in us}
             /\ PositionRows(us) \in Seq(Rows)
             /\ Range(PositionRows(us)) = {PositionRow(u) : u \in us}
  <2> DEFINE R == [u \in User |-> UserRow(u)]
             P == [u \in User |-> PositionRow(u)]
  <2>1. us \subseteq Nat /\ IsFiniteSet(us)
    BY TransactionsAssumption, FS_Subset
  <2>2. \A k \in 1..Cardinality(us) : Sorted(us)[k] \in User
    BY <2>1, SortedAll
  <2>3. /\ UserRows(us) = Listing(us, R)
        /\ PositionRows(us) = Listing(us, P)
    BY <2>2 DEF Listing, UserRows, PositionRows
  <2>4. \A u \in us : R[u] \in Rows /\ P[u] \in Rows
    BY RowsIn
  <2>5. Items(us, R) = {UserRow(u) : u \in us} /\ Items(us, P) = {PositionRow(u) : u \in us}
    BY DEF Items
  <2> HIDE DEF R, P
  <2>6. UserRows(us) \in Seq(Rows) /\ Range(UserRows(us)) = Items(us, R)
    BY ListOf, <2>1, <2>3, <2>4
  <2>7. PositionRows(us) \in Seq(Rows) /\ Range(PositionRows(us)) = Items(us, P)
    BY ListOf, <2>1, <2>3, <2>4
  <2> QED  BY <2>5, <2>6, <2>7
<1>2. ASSUME NEW os \in SUBSET OrderId
      PROVE  OrderRows(os) \in Seq(Rows) /\ Range(OrderRows(os)) = {OrderRow(o) : o \in os}
  <2> DEFINE R == [o \in OrderId |-> OrderRow(o)]
  <2>1. os \subseteq Nat /\ IsFiniteSet(os)
    BY TransactionsAssumption, FS_Subset
  <2>2. \A k \in 1..Cardinality(os) : Sorted(os)[k] \in OrderId
    BY <2>1, SortedAll
  <2>3. OrderRows(os) = Listing(os, R)
    BY <2>2 DEF Listing, OrderRows
  <2>4. \A o \in os : R[o] \in Rows
    BY RowsIn
  <2>5. Items(os, R) = {OrderRow(o) : o \in os}
    BY DEF Items
  <2> HIDE DEF R
  <2>6. OrderRows(os) \in Seq(Rows) /\ Range(OrderRows(os)) = Items(os, R)
    BY ListOf, <2>1, <2>3, <2>4
  <2> QED  BY <2>5, <2>6
<1> QED  BY <1>1, <1>2
-----------------------------------------------------------------------------
(* A turn of one process: where it is then, what it has still to lock, what *)
(* it has read and locked; nothing happens to the others.                  *)

Untouched(s) ==
  at'[s] = at[s] /\ rows'[s] = rows[s] /\ seen'[s] = seen[s] /\ locked'[s] = locked[s]

Turn(t, stage, rs, sn, lk) ==
  /\ DOMAIN at' = Txn /\ DOMAIN seen' = Txn
  /\ rows' \in [Txn -> Seq(Rows)] /\ locked' \in [Txn -> SUBSET Rows]
  /\ at'[t] = stage /\ rows'[t] = rs /\ seen'[t] = sn /\ locked'[t] = lk
  /\ \A s \in Txn \ {t} : Untouched(s)

LEMMA TurnAdvance ==
  ASSUME TransInv, NEW t \in Txn, NEW stage, NEW rs \in Seq(Rows), Advance(t, stage, rs),
         UNCHANGED seen
  PROVE  Turn(t, stage, rs, seen[t], locked[t])
BY DEF TransInv, TxnTypes, Advance, Goto, Turn, Untouched

LEMMA TurnBegin ==
  ASSUME TransInv, NEW t \in Txn, NEW stage, NEW r \in Rows, Begin(t, stage, r)
  PROVE  Turn(t, stage, <<r>>, seen[t], locked[t])
BY DEF TransInv, TxnTypes, Begin, Goto, Turn, Untouched

\* What a transaction has read when it has read some rows again.
Reread(t, R) == Over(seen[t], [r \in R |-> db[r]])

LEMMA TurnReads ==
  ASSUME TransInv, NEW t \in Txn, NEW stage, NEW rs \in Seq(Rows), Advance(t, stage, rs),
         NEW R, Reads(t, R)
  PROVE  Turn(t, stage, rs, Reread(t, R), locked[t])
BY DEF Reread, TransInv, TxnTypes, Advance, Goto, Reads, Turn, Untouched

LEMMA TurnEnds ==
  ASSUME TransInv, NEW t \in Txn, NEW stage, Ends(t, stage)
  PROVE  Turn(t, stage, <<>>, <<>>, {})
BY DEF TransInv, TxnTypes, Ends, Unlocks, Goto, Turn, Untouched

LEMMA TurnLock ==
  ASSUME TransInv, NEW t \in Txn, Lock(t)
  PROVE  Turn(t, at[t], Tail(rows[t]), Over(seen[t], [r \in {Head(rows[t])} |-> db[r]]),
              locked[t] \cup {Head(rows[t])})
<1>1. rows[t] # <<>> /\ rows[t] \in Seq(Rows)
  BY DEF Lock, TransInv, TxnTypes
<1>2. Tail(rows[t]) \in Seq(Rows) /\ Head(rows[t]) \in Rows
  BY <1>1, RangeSplit
<1> QED  BY <1>2 DEF TransInv, TxnTypes, Lock, Reads, Turn, Untouched

(* Results speak of orders.                                                *)
LEMMA AnsweredOrders ==
  ASSUME ResultsOK, NEW n \in DOMAIN results
  PROVE  results[n] \in EngineResult /\ Range(results[n].ids) \subseteq OrderId
<1>1. results \in Seq(EngineResult)
  BY DEF ResultsOK
<1>2. results[n] \in EngineResult
  BY <1>1, LenProperties, ElementOfSeq
<1>3. results[n].ids \in Seq(OrderId)
  BY <1>2 DEF EngineResult
<1> QED  BY <1>2, <1>3, LenProperties, ElementOfSeq DEF Range

(* What is true of the others stays true.                                  *)
LEMMA OthersKept ==
  ASSUME TransInv, NEW t \in Txn, \A s \in Txn \ {t} : Untouched(s),
         results' = results, t = Worker \/ settled' = settled
  PROVE  \A s \in Txn \ {t} : TxnOK(s)'
<1> SUFFICES ASSUME NEW s \in Txn \ {t} PROVE TxnOK(s)'
  OBVIOUS
<1>1. TxnOK(s) /\ Untouched(s)
  BY DEF TransInv
<1>2. s \in OrderId => RequestOK(s)'
  BY <1>1 DEF TxnOK, Untouched, RequestOK, Idle, Claims
<1>3. s \in Funder => FunderOK(s)'
  BY <1>1 DEF TxnOK, Untouched, FunderOK, Idle, Claims
<1>4. s = Worker => WorkerOK'
  BY <1>1 DEF TxnOK, Untouched, WorkerOK, Idle, Claims, Current, CurrentOrders
<1> QED  BY <1>2, <1>3, <1>4 DEF TxnOK

LEMMA WritesIs == \A W : Writes(W) <=> db' = Written(W)
BY DEF Writes

\* Where an order may go: not back to before it is written, nowhere from the
\* stream, and to the steps of the liquidator only while its row is new.
GoesTo(t, stage) ==
  t \in OrderId =>
    /\ stage \in {"none", "placing", "reserving", "scanned"} => Early(t)
    /\ at[t] = "queued" => stage = "queued"
    /\ t \in Closing /\ stage \in {"written", "dropping"} => db[OrderRow(t)] = NewClosing

LEMMA GoesToOthers ==
  /\ \A f \in Funder : \A stage : GoesTo(f, stage)
  /\ \A stage : GoesTo(Worker, stage)
BY TransactionsAssumption DEF GoesTo

(* A turn that commits nothing.                                            *)
LEMMA QuietTurn ==
  ASSUME TransInv, NEW t \in Txn, NEW stage, NEW rs, NEW sn, NEW lk, Turn(t, stage, rs, sn, lk),
         UNCHANGED <<db, results>>, t = Worker \/ settled' = settled, settled' \in Nat,
         \A r \in lk \ locked[t] : \A s \in Txn : r \notin locked[s],
         StillSo(sn, lk), GoesTo(t, stage), TxnOK(t)'
  PROVE  TransInv'
<1>1. TxnTypes'
  BY DEF TxnTypes, Turn
<1>2. ResultsOK' /\ (DOMAIN db = Rows)'
  BY DEF TransInv, ResultsOK
<1>3. Exclusive'
  BY DEF TransInv, Exclusive, Turn, Untouched
<1>4. Fresh'
  <2> SUFFICES ASSUME NEW s \in Txn PROVE StillSo(seen[s], locked[s])'
    BY DEF Fresh
  <2>1. StillSo(seen'[s], locked'[s])
    <3>1. CASE s = t
      BY <3>1 DEF Turn
    <3>2. CASE s # t
      BY <3>2 DEF TransInv, Fresh, Turn, Untouched
    <3> QED  BY <3>1, <3>2
  <2> QED  BY <2>1 DEF StillSo, WrittenOver
<1>5. Unwritten'
  <2> SUFFICES ASSUME NEW o \in OrderId, Early(o)' PROVE Early(o)
    BY DEF TransInv, Unwritten
  <2>1. o \in Txn
    BY TxnFacts
  <2> QED  BY <2>1 DEF Early, Turn, Untouched, GoesTo
<1>6. \A s \in Txn : TxnOK(s)'
  BY OthersKept DEF Turn
<1>7. AnswersQueued'
  <2> SUFFICES ASSUME NEW n \in DOMAIN results, results[n].kind # "not_open",
                      NEW o \in Range(results[n].ids)
               PROVE  at'[o] = "queued"
    BY DEF AnswersQueued
  <2>1. o \in OrderId /\ o \in Txn /\ at[o] = "queued"
    BY AnsweredOrders, TxnFacts DEF TransInv, AnswersQueued
  <2> QED  BY <2>1 DEF GoesTo, Turn, Untouched
<1>8. ClosingWritten'
  <2> SUFFICES ASSUME NEW c \in Closing, at'[c] \in {"written", "dropping"}
               PROVE  db[OrderRow(c)] = NewClosing
    BY DEF ClosingWritten
  <2>1. c \in OrderId /\ c \in Txn
    BY TxnFacts, TransactionsAssumption
  <2>2. CASE c = t
    BY <2>1, <2>2 DEF GoesTo, Turn
  <2>3. CASE c # t
    BY <2>1, <2>3 DEF Turn, Untouched, TransInv, ClosingWritten
  <2> QED  BY <2>2, <2>3
<1> QED  BY <1>1, <1>2, <1>3, <1>4, <1>5, <1>6, <1>7, <1>8 DEF TransInv

(* Nobody has locked or is going to lock the row of an order that is not   *)
(* yet written.                                                            *)
LEMMA EarlyUnclaimed ==
  ASSUME TransInv, NEW o \in OrderId, Early(o), NEW s \in Txn
  PROVE  OrderRow(o) \notin Claims(s)
<1>1. TxnOK(s)
  BY DEF TransInv
<1>2. CASE s \in OrderId
  <2>1. RequestOK(s)
    BY <1>1, <1>2 DEF TxnOK
  <2>2. s = o => at[s] \notin {"rejecting", "dropping"}
    BY DEF Early
  <2> QED  BY <2>1, <2>2, RowFacts DEF RequestOK
<1>3. CASE s = Worker
  <2>1. WorkerOK
    BY <1>1, <1>3 DEF TxnOK
  <2>2. CASE at[Worker] = "idle"
    BY <1>3, <2>1, <2>2, RangeFacts DEF WorkerOK, Idle, Claims
  <2>3. CASE at[Worker] # "idle"
    <3>1. o \notin CurrentOrders
      BY <2>1, <2>3 DEF TransInv, Unwritten, WorkerOK, CurrentOrders
    <3> QED  BY <1>3, <2>1, <2>3, <3>1, RowFacts DEF WorkerOK, AccountRows
  <2> QED  BY <2>2, <2>3
<1>4. CASE s \in Funder
  BY <1>1, <1>4, RowFacts DEF TxnOK, FunderOK, AccountRows
<1> QED  BY <1>2, <1>3, <1>4, TxnFacts

\* A transaction of the API, the worker or the funding service may write what it
\* has locked, an order of its own that nobody knows of, and the worker the fund
\* that nobody else reads; of what is kept about a user, if it has locked the user.
Mine(t, S) ==
  /\ S \subseteq Rows
  /\ \A r \in S : \/ r \in locked[t] \/ (Early(t) /\ r = OrderRow(t))
                  \/ t = Worker /\ r = InsuranceRow
  /\ \A r \in S, u \in User : r \in RowsOf(u) => UserRow(u) \in locked[t]

(* Nobody else has read what a transaction may write.                      *)
LEMMA NobodyRead ==
  ASSUME TransInv, NEW t \in Txn, NEW S, Mine(t, S), NEW s \in Txn, s # t, NEW r \in S
  PROVE  r \notin DOMAIN seen[s]
<1>1. TxnOK(s)
  BY DEF TransInv
<1>2. r \notin locked[s]
  <2>1. CASE r \in locked[t]
    BY <2>1 DEF TransInv, Exclusive
  <2>2. CASE Early(t) /\ r = OrderRow(t)
    BY <2>2, EarlyUnclaimed DEF Early, Claims
  <2>3. CASE t = Worker /\ r = InsuranceRow
    <3>1. ASSUME s \in OrderId PROVE r \notin Claims(s)
      BY <1>1, <2>3, <3>1, RowFacts DEF TxnOK, RequestOK
    <3>2. ASSUME s \in Funder PROVE r \notin Claims(s)
      BY <1>1, <2>3, <3>2, RowFacts DEF TxnOK, FunderOK, AccountRows
    <3> QED  BY <2>3, <3>1, <3>2 DEF Claims, Txn
  <2> QED  BY <2>1, <2>2, <2>3 DEF Mine
<1>3. CASE s \in OrderId
  <2> SUFFICES ASSUME r \in DOMAIN seen[s] PROVE FALSE
    OBVIOUS
  <2>1. r \in RowsOf(OwnerOf(s)) /\ UserRow(OwnerOf(s)) \in locked[s]
    BY <1>1, <1>2, <1>3 DEF TxnOK, RequestOK
  <2>2. UserRow(OwnerOf(s)) \in locked[t]
    BY <1>3, <2>1, OwnerFacts DEF Mine
  <2> QED  BY <2>1, <2>2 DEF TransInv, Exclusive
<1>4. CASE s = Worker
  BY <1>1, <1>2, <1>4 DEF TxnOK, WorkerOK
<1>5. CASE s \in Funder
  BY <1>1, <1>2, <1>5 DEF TxnOK, FunderOK
<1> QED  BY <1>3, <1>4, <1>5, TxnFacts

\* Where a transaction may be when it has ended.
Ended(t, stage) ==
  \/ t \in OrderId /\ at[t] # "queued" /\ stage \in {"over", "lost"}
  \/ t \in OrderId \ Closing /\ at[t] # "queued" /\ stage = "written"
  \/ t \in Funder /\ stage = "idle"
  \/ t = Worker /\ stage = "idle"
  \/ t = Worker /\ stage = "done" /\ at[Worker] # "idle"

(* A turn that commits.                                                    *)
LEMMA CommitTurn ==
  ASSUME TransInv, NEW t \in Txn, NEW stage, Turn(t, stage, <<>>, <<>>, {}),
         UNCHANGED <<results, settled>>,
         NEW W, Mine(t, DOMAIN W), db' = Written(W),
         \A c \in Closing : at[c] \in {"written", "dropping"} => OrderRow(c) \notin DOMAIN W,
         Ended(t, stage), TxnOK(t)'
  PROVE  TransInv'
<1>1. /\ DOMAIN db' = Rows
      /\ \A r \in Rows : r \notin DOMAIN W => db'[r] = db[r]
  BY DEF TransInv, Mine, Written, Over
<1>2. TxnTypes' /\ ResultsOK'
  BY DEF TransInv, TxnTypes, ResultsOK, Turn
<1>3. Exclusive'
  BY DEF TransInv, Exclusive, Turn, Untouched
<1>4. Fresh'
  <2> SUFFICES ASSUME NEW s \in Txn, NEW r \in DOMAIN seen'[s]
               PROVE  /\ r \in Rows
                      /\ \/ seen'[s][r] = db'[r]
                         \/ /\ r \notin locked'[s] /\ seen'[s][r] \in Past(db'[r])
                            /\ \E c \in Closing : r = OrderRow(c)
    BY DEF Fresh, StillSo, WrittenOver
  <2>1. s # t
    BY DEF Turn
  <2>2. seen'[s] = seen[s] /\ locked'[s] = locked[s]
    BY <2>1 DEF Turn, Untouched
  <2>3. r \in Rows /\ (seen[s][r] = db[r] \/ (r \notin locked[s] /\ WrittenOver(r, seen[s][r])))
    BY <2>2 DEF TransInv, Fresh, StillSo
  <2>4. r \notin DOMAIN W
    BY <2>1, <2>2, NobodyRead
  <2>5. db'[r] = db[r]
    BY <1>1, <2>3, <2>4
  <2> QED  BY <2>2, <2>3, <2>5 DEF WrittenOver
<1>5. Unwritten'
  <2> SUFFICES ASSUME NEW o \in OrderId, Early(o)'
               PROVE  db'[OrderRow(o)] = None
                      /\ \A n \in DOMAIN results : o \notin Range(results[n].ids)
    BY DEF Unwritten
  <2>1. o \in Txn /\ o # t /\ Early(o)
    BY TxnFacts DEF Early, Ended, Turn, Untouched
  <2>2. OrderRow(o) \notin DOMAIN W
    <3>1. OrderRow(o) \notin locked[t]
      BY <2>1, EarlyUnclaimed DEF Claims
    <3> QED  BY <2>1, <3>1, RowFacts DEF Mine
  <2> QED  BY <1>1, <2>1, <2>2, RowsIn DEF TransInv, Unwritten
<1>6. \A s \in Txn : TxnOK(s)'
  BY OthersKept DEF Turn
<1>7. AnswersQueued'
  <2> SUFFICES ASSUME NEW n \in DOMAIN results, results[n].kind # "not_open",
                      NEW o \in Range(results[n].ids)
               PROVE  at'[o] = "queued"
    BY DEF AnswersQueued
  <2>1. o \in OrderId /\ o \in Txn /\ at[o] = "queued"
    BY AnsweredOrders, TxnFacts DEF TransInv, AnswersQueued
  <2>2. o # t
    BY <2>1, TxnFacts DEF Ended
  <2> QED  BY <2>1, <2>2 DEF Turn, Untouched
<1>8. ClosingWritten'
  <2> SUFFICES ASSUME NEW c \in Closing, at'[c] \in {"written", "dropping"}
               PROVE  db'[OrderRow(c)] = NewClosing
    BY DEF ClosingWritten
  <2>1. c \in OrderId /\ c \in Txn /\ OrderRow(c) \in Rows
    BY TxnFacts, RowsIn, TransactionsAssumption
  <2>2. c # t
    BY <2>1, TxnFacts DEF Turn, Ended
  <2>3. at[c] \in {"written", "dropping"}
    BY <2>1, <2>2 DEF Turn, Untouched
  <2> QED  BY <1>1, <2>1, <2>3 DEF TransInv, ClosingWritten
<1> QED  BY <1>1, <1>2, <1>3, <1>4, <1>5, <1>6, <1>7, <1>8 DEF TransInv

-----------------------------------------------------------------------------
(* The steps that all transactions take.                                   *)

\* Where it starts, or starts again, and with which row.
Starts(t, stage, r) ==
  \/ t \in OrderId \ Closing /\ stage = "placing" /\ r = UserRow(OwnerOf(t)) /\ Early(t)
  \/ /\ t \in OrderId \ Closing /\ stage = "undoing" /\ r = UserRow(OwnerOf(t))
     /\ at[t] # "queued"
  \/ t \in Closing /\ stage = "dropping" /\ r = OrderRow(t) /\ at[t] = "written"
  \/ t \in Funder /\ stage = "period" /\ r = PeriodRow
  \/ t = Worker /\ stage = "event" /\ r = EventRow(Current) /\ Current \in DOMAIN results

LEMMA CurrentRow ==
  ASSUME TransInv, Current \in DOMAIN results
  PROVE  /\ EventRow(Current) \in Rows
         /\ results[Current] \in EngineResult
         /\ CurrentOrders \in SUBSET OrderId
<1>1. results \in Seq(EngineResult) /\ Len(results) <= MaxResults
  BY DEF TransInv, ResultsOK
<1>2. DOMAIN results = 1..Len(results) /\ Len(results) \in Nat
  BY <1>1, LenProperties
<1>3. Current \in 1..MaxResults
  BY <1>1, <1>2, TransactionsAssumption
<1>4. results[Current] \in EngineResult
  BY <1>1, ElementOfSeq, <1>2
<1>5. results[Current].ids \in Seq(OrderId)
  BY <1>4 DEF EngineResult
<1>6. \A i \in DOMAIN results[Current].ids : results[Current].ids[i] \in OrderId
  BY <1>5, ElementOfSeq, LenProperties
<1> QED  BY <1>3, <1>4, <1>6, RowsIn DEF CurrentOrders, Range

LEMMA EndedOK ==
  ASSUME TransInv, NEW t \in Txn, NEW stage, Turn(t, stage, <<>>, <<>>, {}), Ended(t, stage),
         UNCHANGED <<results, settled>>
  PROVE  TxnOK(t)'
<1>1. at'[t] = stage /\ rows'[t] = <<>> /\ seen'[t] = <<>> /\ locked'[t] = {}
  BY DEF Turn
<1>2. DOMAIN seen'[t] = {} /\ Claims(t)' = {}
  BY <1>1, RangeFacts DEF Claims
<1>3. Idle(t)'
  BY <1>1, <1>2 DEF Idle
<1>4. t \in OrderId => RequestOK(t)'
  BY <1>1, <1>2, <1>3, TxnFacts DEF Ended, RequestOK
<1>5. t \in Funder => FunderOK(t)'
  BY <1>1, <1>2, <1>3, TxnFacts DEF Ended, FunderOK
<1>6. t = Worker => WorkerOK'
  <2> SUFFICES ASSUME t = Worker PROVE WorkerOK'
    OBVIOUS
  <2>1. stage \in {"idle", "done"} /\ (stage = "done" => Current' \in DOMAIN results')
    <3>1. WorkerOK
      BY DEF TransInv, TxnOK
    <3> QED  BY <3>1, TxnFacts DEF Ended, WorkerOK, Current
  <2> QED  BY <1>1, <1>2, <1>3, <2>1 DEF WorkerOK
<1> QED  BY <1>4, <1>5, <1>6, TxnFacts DEF TxnOK, Ended

LEMMA EndsKeeps ==
  ASSUME TransInv, NEW t \in Txn, NEW stage, Ends(t, stage), Ended(t, stage),
         UNCHANGED <<db, results, settled>>
  PROVE  TransInv'
<1>1. Turn(t, stage, <<>>, <<>>, {})
  BY TurnEnds
<1>2. TxnOK(t)' /\ GoesTo(t, stage)
  BY <1>1, EndedOK, TxnFacts DEF Ended, GoesTo
<1>3. settled' \in Nat /\ StillSo(<<>>, {})
  BY DEF TransInv, TxnTypes, StillSo
<1> QED  BY <1>1, <1>2, <1>3, QuietTurn

LEMMA StartsOK ==
  ASSUME TransInv, NEW t \in Txn, NEW stage, NEW r, NEW sn, DOMAIN sn = {},
         Turn(t, stage, <<r>>, sn, {}), Starts(t, stage, r), UNCHANGED <<results, settled>>
  PROVE  TxnOK(t)'
<1>1. at'[t] = stage /\ rows'[t] = <<r>> /\ DOMAIN seen'[t] = {} /\ locked'[t] = {}
  BY DEF Turn
<1>2. Claims(t)' = {r}
  BY <1>1, RangeFacts DEF Claims
<1>3. t \in OrderId => RequestOK(t)'
  BY <1>1, <1>2, TxnFacts DEF Starts, RequestOK
<1>4. t \in Funder => FunderOK(t)'
  BY <1>1, <1>2, TxnFacts, TransactionsAssumption DEF Starts, FunderOK
<1>5. t = Worker => WorkerOK'
  BY <1>1, <1>2, TxnFacts, TransactionsAssumption DEF Starts, WorkerOK, Current
<1> QED  BY <1>3, <1>4, <1>5 DEF TxnOK

LEMMA StartsRow ==
  ASSUME TransInv, NEW t \in Txn, NEW stage, NEW r, Starts(t, stage, r)
  PROVE  r \in Rows
<1>1. CASE t \in OrderId
  <2>1. UserRow(OwnerOf(t)) \in Rows /\ OrderRow(t) \in Rows
    BY <1>1, RowsIn, OwnerFacts
  <2> QED  BY <1>1, <2>1, TxnFacts DEF Starts
<1>2. CASE t = Worker
  BY <1>2, CurrentRow, TxnFacts, TransactionsAssumption DEF Starts
<1>3. CASE t \in Funder
  BY <1>3, RowsIn, TxnFacts, TransactionsAssumption DEF Starts
<1> QED  BY <1>1, <1>2, <1>3 DEF Txn

LEMMA StartsGoes ==
  ASSUME TransInv, NEW t \in Txn, NEW stage, NEW r, Starts(t, stage, r)
  PROVE  GoesTo(t, stage)
BY TxnFacts DEF Starts, GoesTo, Early, TransInv, ClosingWritten

LEMMA BeginKeeps ==
  ASSUME TransInv, NEW t \in Txn, NEW stage, NEW r, Begin(t, stage, r), Starts(t, stage, r),
         Idle(t), UNCHANGED <<db, results, settled>>
  PROVE  TransInv'
<1>0. locked[t] = {} /\ seen[t] = <<>> /\ DOMAIN <<>> = {}
  BY DEF Idle
<1>1. Turn(t, stage, <<r>>, seen[t], {}) /\ DOMAIN seen[t] = {}
  BY <1>0, TurnBegin, StartsRow
<1>2. TxnOK(t)'
  BY <1>1, StartsOK
<1>3. settled' \in Nat /\ GoesTo(t, stage) /\ StillSo(seen[t], {})
  BY <1>1, StartsGoes DEF TransInv, TxnTypes, StillSo
<1> QED  BY <1>1, <1>2, <1>3, QuietTurn

(* A row is locked and read.                                               *)
LEMMA LockKeeps ==
  ASSUME TransInv, NEW t \in Txn, Lock(t)
  PROVE  TransInv'
<1> DEFINE r == Head(rows[t])
           sn == Over(seen[t], [x \in {r} |-> db[x]])
<1>1. Turn(t, at[t], Tail(rows[t]), sn, locked[t] \cup {r})
  BY TurnLock
<1>2. UNCHANGED <<db, results, settled>> /\ rows[t] # <<>>
  BY DEF Lock
<1>3. \A s \in Txn : r \notin locked[s]
  BY DEF Lock, Free
<1>4. r \in Rows /\ Range(rows[t]) = {r} \cup Range(Tail(rows[t]))
  BY <1>2, RangeSplit DEF TransInv, TxnTypes
<1>5. StillSo(seen[t], locked[t])
  BY DEF TransInv, Fresh
<1>6. /\ DOMAIN sn = DOMAIN seen[t] \cup {r}
      /\ r \notin DOMAIN seen[t] => sn[r] = db[r]
      /\ \A x \in DOMAIN seen[t] : sn[x] = seen[t][x]
  BY DEF Over
<1> HIDE DEF r, sn
<1>7. /\ at'[t] = at[t] /\ seen'[t] = sn /\ locked'[t] = locked[t] \cup {r}
      /\ Claims(t)' = Claims(t) /\ r \in Claims(t)
  BY <1>1, <1>4 DEF Turn, Claims
<1>8. TxnOK(t)'
  <2>0. TxnOK(t) /\ ~Idle(t)
    BY <1>2 DEF TransInv, Idle
  <2>1. ASSUME t \in OrderId PROVE RequestOK(t)'
    <3>0. CASE at[t] = "dropping"
      <4>1. RequestOK(t) /\ rows[t] = <<OrderRow(t)>> /\ locked[t] = {}
        BY <1>2, <2>0, <2>1, <3>0 DEF TxnOK, RequestOK
      <4>2. /\ r = OrderRow(t) /\ rows'[t] = <<>>
            /\ OrderRow(t) \in RowsOf(OwnerOf(t)) /\ UserRow(OwnerOf(t)) # OrderRow(t)
        <5>1. Head(<<OrderRow(t)>>) = OrderRow(t) /\ Tail(<<OrderRow(t)>>) = <<>>
          OBVIOUS
        <5>2. r = OrderRow(t)
          BY <4>1, <5>1 DEF r
        <5> QED  BY <1>1, <2>1, <4>1, <5>1, <5>2, OwnerFacts, RowFacts DEF Turn, RowsOf
      <4>3. DOMAIN sn = {r}
        BY <1>6, <4>1, <4>2 DEF RequestOK
      <4> QED  BY <1>7, <3>0, <4>1, <4>2, <4>3 DEF RequestOK
    <3> SUFFICES ASSUME at[t] # "dropping" PROVE RequestOK(t)'
      BY <3>0
    <3>1. RequestOK(t) /\ at[t] \in {"placing", "reserving", "undoing", "rejecting"}
      BY <2>0, <2>1 DEF TxnOK, RequestOK
    <3>2. /\ UserRow(OwnerOf(t)) \in RowsOf(OwnerOf(t))
          /\ OrderRow(t) \in RowsOf(OwnerOf(t))
      BY <2>1, OwnerFacts DEF RowsOf
    <3>3. r \in RowsOf(OwnerOf(t))
      BY <1>7, <3>1, <3>2 DEF RequestOK
    <3>4. r = UserRow(OwnerOf(t)) \/ UserRow(OwnerOf(t)) \in locked[t]
      BY <1>3, <1>7, <3>1 DEF RequestOK
    <3>5. at[t] = "rejecting" => IsOpen(sn, t)
      BY <1>6, <3>1 DEF RequestOK, IsOpen
    <3> QED  BY <1>6, <1>7, <3>1, <3>3, <3>4, <3>5 DEF RequestOK
  <2>2. ASSUME t \in Funder PROVE FunderOK(t)'
    BY <1>6, <1>7, <2>0, <2>2 DEF TxnOK, FunderOK
  <2>3. ASSUME t = Worker PROVE WorkerOK'
    <3>1. WorkerOK /\ at[Worker] \notin {"idle", "done"}
      BY <2>0, <2>3 DEF TxnOK, WorkerOK
    <3>2. /\ Claims(Worker)' = Claims(Worker) /\ at'[Worker] = at[Worker]
          /\ seen'[Worker] = sn /\ locked'[Worker] = locked[Worker] \cup {r}
          /\ DOMAIN sn = DOMAIN seen[Worker] \cup {r}
          /\ \A x \in DOMAIN seen[Worker] : sn[x] = seen[Worker][x]
          /\ Current' = Current /\ CurrentOrders' = CurrentOrders /\ results' = results
      BY <1>2, <1>6, <1>7, <2>3 DEF Current, CurrentOrders
    <3> QED  BY <3>1, <3>2 DEF WorkerOK
  <2> QED  BY <2>1, <2>2, <2>3 DEF TxnOK
<1>9. settled' \in Nat
  BY <1>2 DEF TransInv, TxnTypes
<1>10. GoesTo(t, at[t])
  BY DEF Early, GoesTo, TransInv, ClosingWritten
<1>11. StillSo(sn, locked[t] \cup {r})
  <2>1. ASSUME r \in DOMAIN seen[t] PROVE seen[t][r] = db[r]
    <3>1. TxnOK(t)
      BY DEF TransInv
    <3>2. CASE t \in OrderId
      <4>1. RequestOK(t) /\ \A c \in Closing : c = t \/ r # OrderRow(c)
        BY <1>7, <3>1, <3>2, RowFacts DEF TxnOK, RequestOK
      <4>2. r # OrderRow(t) \/ t \notin Closing
        <5> SUFFICES ASSUME r = OrderRow(t), t \in Closing PROVE FALSE
          OBVIOUS
        <5>1. at[t] = "dropping" \/ at[t] = "rejecting"
          BY <1>7, <4>1, RowFacts DEF RequestOK
        <5>2. locked[t] = {}
          BY <1>2, <4>1, <5>1 DEF RequestOK
        <5> QED  BY <2>1, <4>1, <5>1, <5>2, RowFacts DEF RequestOK
      <4> QED  BY <1>5, <2>1, <4>1, <4>2 DEF StillSo, WrittenOver
    <3>3. CASE t \notin OrderId
      BY <1>3, <2>1, <3>1, <3>3, TxnFacts DEF TxnOK, WorkerOK, FunderOK, Txn
    <3> QED  BY <3>2, <3>3
  <2> QED  BY <1>4, <1>5, <1>6, <2>1 DEF StillSo
<1> QED  BY <1>1, <1>2, <1>3, <1>8, <1>9, <1>10, <1>11, QuietTurn

(* A transaction is aborted; it starts again or is given up.               *)
LEMMA AbortKeeps ==
  ASSUME TransInv, NEW t \in Txn, DeadlockAbort(t)
  PROVE  TransInv'
<1>0. PICK S \in SUBSET Range(waiting) : t \in S /\ Deadlocked(S)
  BY DEF DeadlockAbort
<1>1. /\ UNCHANGED <<db, results, settled>> /\ rows[t] # <<>> /\ TxnOK(t)
      /\ locked[t] # {}
  BY <1>0 DEF DeadlockAbort, Deadlocked, TransInv
<1>2. CASE GivesUp(t)
  <2>1. t \in OrderId => at[t] # "queued"
    BY <1>1 DEF TxnOK, RequestOK, Idle
  <2>2. PICK stage : Ends(t, stage) /\ Ended(t, stage)
    BY <1>2, <2>1, TxnFacts DEF GivesUp, Ended, Txn
  <2> QED  BY <1>1, <2>2, EndsKeeps
<1>3. CASE Restarted(t)
  <2>1. ~Idle(t)
    BY <1>1 DEF Idle
  <2>2. PICK stage, r : /\ Goto(t, stage) /\ rows' = [rows EXCEPT ![t] = <<r>>]
                        /\ Starts(t, stage, r)
    <3>1. CASE t \in OrderId
      <4>1. at[t] \in {"placing", "reserving", "undoing", "rejecting"} => t \notin Closing
        BY <1>1, <3>1 DEF TxnOK, RequestOK
      <4> QED  BY <1>3, <3>1, <4>1, TxnFacts DEF Restarted, Starts, Early
    <3>2. CASE t = Worker
      <4>1. Current \in DOMAIN results
        BY <1>1, <2>1, <3>2 DEF TxnOK, WorkerOK
      <4>2. at[t] \notin {"placing", "reserving", "undoing", "rejecting"}
        BY <1>1, <3>2 DEF TxnOK, WorkerOK
      <4> QED  BY <1>3, <3>2, <4>1, <4>2, TxnFacts DEF Restarted, Starts
    <3>3. CASE t \in Funder
      <4>1. at[t] \notin {"placing", "reserving", "undoing", "rejecting"}
        BY <1>1, <3>3 DEF TxnOK, FunderOK
      <4> QED  BY <1>3, <3>3, <4>1, TxnFacts DEF Restarted, Starts
    <3> QED  BY <3>1, <3>2, <3>3, TxnFacts DEF Txn
  <2>3. r \in Rows
    BY <2>2, StartsRow
  <2>4. Turn(t, stage, <<r>>, <<>>, {})
    BY <1>3, <2>2, <2>3 DEF Restarted, Unlocks, Goto, TransInv, TxnTypes, Turn, Untouched
  <2>5. DOMAIN <<>> = {}
    OBVIOUS
  <2>6. TxnOK(t)'
    BY <1>1, <2>2, <2>4, <2>5, StartsOK
  <2>7. settled' \in Nat
    BY <1>1 DEF TransInv, TxnTypes
  <2>8. GoesTo(t, stage) /\ StillSo(<<>>, {})
    BY <2>2, StartsGoes DEF StillSo
  <2> QED  BY <1>1, <2>4, <2>5, <2>6, <2>7, <2>8, QuietTurn
<1> QED  BY <1>2, <1>3 DEF DeadlockAbort, Aborted

LEMMA DiesKeeps ==
  ASSUME TransInv, NEW t \in Txn, Dies(t)
  PROVE  TransInv'
<1>1. t \in OrderId => at[t] # "queued"
  <2> SUFFICES ASSUME t \in OrderId, at[t] = "queued" PROVE FALSE
    OBVIOUS
  <2>1. RequestOK(t)
    BY DEF TransInv, TxnOK
  <2> QED  BY <2>1 DEF RequestOK, Idle, Dies, InTransaction
<1>2. PICK stage : Ends(t, stage) /\ Ended(t, stage)
  BY <1>1, TxnFacts DEF Dies, Ended, Txn
<1>3. UNCHANGED <<db, results, settled>>
  BY DEF Dies
<1> QED  BY <1>2, <1>3, EndsKeeps

-----------------------------------------------------------------------------
(* The API.                                                                *)

LEMMA ReadyClaims ==
  ASSUME NEW t \in Txn, NEW stage, Ready(t, stage)
  PROVE  Claims(t) = locked[t] /\ at[t] = stage
BY RangeFacts DEF Ready, Claims

LEMMA PlaceBeginsKeeps ==
  ASSUME TransInv, NEW o \in OrderId, PlaceBegins(o)
  PROVE  TransInv'
<1>1. RequestOK(o) /\ o \in Txn
  BY TxnFacts DEF TransInv, TxnOK
<1>2. Idle(o) /\ Starts(o, "placing", UserRow(OwnerOf(o)))
  BY <1>1 DEF PlaceBegins, RequestOK, Early, Starts
<1>3. Begin(o, "placing", UserRow(OwnerOf(o))) /\ UNCHANGED <<db, results, settled>>
  BY DEF PlaceBegins
<1> QED  BY <1>1, <1>2, <1>3, BeginKeeps

LEMMA EnqueueFailsKeeps ==
  ASSUME TransInv, NEW o \in OrderId, EnqueueFails(o)
  PROVE  TransInv'
<1>1. RequestOK(o) /\ o \in Txn
  BY TxnFacts DEF TransInv, TxnOK
<1>2. Idle(o) /\ Starts(o, "undoing", UserRow(OwnerOf(o)))
  BY <1>1 DEF EnqueueFails, RequestOK, Starts
<1>3. Begin(o, "undoing", UserRow(OwnerOf(o))) /\ UNCHANGED <<db, results, settled>>
  BY DEF EnqueueFails
<1> QED  BY <1>1, <1>2, <1>3, BeginKeeps

LEMMA EnqueueKeeps ==
  ASSUME TransInv, NEW o \in OrderId, Enqueue(o)
  PROVE  TransInv'
<1>1. RequestOK(o) /\ o \in Txn
  BY TxnFacts DEF TransInv, TxnOK
<1>2. Idle(o) /\ at[o] = "written" /\ UNCHANGED <<db, results, settled, rows, seen, locked>>
  BY <1>1 DEF Enqueue, RequestOK
<1>3. Turn(o, "queued", rows[o], seen[o], {})
  BY <1>1, <1>2 DEF Enqueue, Goto, Idle, TransInv, TxnTypes, Turn, Untouched
<1>4. TxnOK(o)'
  <2>1. Claims(o)' = Claims(o) /\ Idle(o)' /\ at'[o] = "queued"
    BY <1>2, <1>3 DEF Claims, Idle, Turn
  <2> QED  BY <1>1, <1>2, <2>1, TxnFacts DEF TxnOK, RequestOK
<1>5. StillSo(seen[o], {})
  BY <1>2 DEF Idle, StillSo
<1>6. settled' \in Nat /\ GoesTo(o, "queued")
  BY <1>2 DEF TransInv, TxnTypes, GoesTo
<1> QED  BY <1>1, <1>2, <1>3, <1>4, <1>5, <1>6, QuietTurn

LEMMA PlaceReadsRowsKeeps ==
  ASSUME TransInv, NEW o \in OrderId, PlaceReadsRows(o)
  PROVE  TransInv'
<1> DEFINE sn == Reread(o, PlaceReads(o))
<1>1. RequestOK(o) /\ o \in Txn
  BY TxnFacts DEF TransInv, TxnOK
<1>2. UNCHANGED <<db, results, settled>> /\ Claims(o) = locked[o] /\ at[o] = "placing"
  BY <1>1, ReadyClaims DEF PlaceReadsRows
<1>3. Turn(o, "reserving", <<>>, sn, locked[o])
  <2>1. Reads(o, PlaceReads(o)) /\ Advance(o, "reserving", <<>>) /\ <<>> \in Seq(Rows)
    BY DEF PlaceReadsRows
  <2> QED  BY <1>1, <2>1, TurnReads
<1>4. PlaceReads(o) \subseteq RowsOf(OwnerOf(o)) /\ PlaceReads(o) \subseteq Rows
  BY OwnerFacts, RowsIn DEF PlaceReads, RowsOf, OrdersOf
<1>5. StillSo(seen[o], locked[o])
  BY <1>1 DEF TransInv, Fresh
<1>6. DOMAIN sn = DOMAIN seen[o] \cup PlaceReads(o) /\ StillSo(sn, locked[o])
  BY <1>4, <1>5 DEF Over, Reread, StillSo
<1> HIDE DEF sn
<1>7. TxnOK(o)'
  <2>1. /\ at'[o] = "reserving" /\ seen'[o] = sn /\ locked'[o] = locked[o]
        /\ Claims(o)' = Claims(o)
    BY <1>2, <1>3, RangeFacts DEF Turn, Claims
  <2> QED  BY <1>1, <1>2, <1>4, <1>6, <2>1, TxnFacts DEF TxnOK, RequestOK
<1>8. settled' \in Nat /\ GoesTo(o, "reserving")
  BY <1>2 DEF TransInv, TxnTypes, Early, GoesTo
<1> QED  BY <1>1, <1>2, <1>3, <1>6, <1>7, <1>8, QuietTurn

\* What placing reads.
LEMMA PlaceReadsAll ==
  ASSUME NEW o \in OrderId, NEW D, NEW E, \A r \in PlaceReads(o) : D[r] = E[r]
  PROVE  /\ Affordable(D, o) <=> Affordable(E, o)
         /\ PlaceWrites(D, o) = PlaceWrites(E, o)
         /\ DOMAIN PlaceWrites(D, o) = {OrderRow(o), UserRow(OwnerOf(o))}
<1>1. /\ D[UserRow(OwnerOf(o))] = E[UserRow(OwnerOf(o))]
      /\ D[PositionRow(OwnerOf(o))] = E[PositionRow(OwnerOf(o))]
      /\ \A i \in OrdersOf(OwnerOf(o)) : D[OrderRow(i)] = E[OrderRow(i)]
  BY DEF PlaceReads
<1>2. Opening(D, o) = Opening(E, o)
  <2>1. {i \in OrdersOf(OwnerOf(o)) : Direction(i) = Direction(o) /\ IsOpen(D, i)}
          = {i \in OrdersOf(OwnerOf(o)) : Direction(i) = Direction(o) /\ IsOpen(E, i)}
    BY <1>1 DEF IsOpen
  <2> QED  BY <1>1, <2>1 DEF Opening
<1>3. ReserveOf(D, o) = ReserveOf(E, o)
  BY <1>2 DEF ReserveOf
<1> QED  BY <1>1, <1>3 DEF Affordable, PlaceWrites, OrderAndUser

\* A user and an order of theirs.
LEMMA OrderAndUserMine ==
  ASSUME TransInv, NEW o \in OrderId, UserRow(OwnerOf(o)) \in locked[o],
         Early(o) \/ OrderRow(o) \in locked[o]
  PROVE  Mine(o, {OrderRow(o), UserRow(OwnerOf(o))})
<1>1. ASSUME NEW r \in {OrderRow(o), UserRow(OwnerOf(o))}, NEW u \in User, r \in RowsOf(u)
      PROVE  u = OwnerOf(o)
  BY <1>1, RowFacts DEF RowsOf, OrdersOf
<1> QED  BY <1>1, OwnerFacts, RowsIn DEF Mine

(* A placed order is written as if it had been read and written at once.   *)
LEMMA PlaceEndsKeeps ==
  ASSUME TransInv, NEW o \in OrderId, PlaceEnds(o)
  PROVE  TransInv' /\ (db' # db => PlaceOne(o)) /\ o \notin Closing
<1>1. RequestOK(o) /\ o \in Txn
  BY TxnFacts DEF TransInv, TxnOK
<1>2. UNCHANGED <<results, settled>> /\ Claims(o) = locked[o] /\ at[o] = "reserving"
  BY <1>1, ReadyClaims DEF PlaceEnds
<1>3. Early(o) /\ o \notin Closing
  BY <1>1, <1>2 DEF Early, RequestOK
<1> DEFINE stale == {c \in Closing : OrderRow(c) \in DOMAIN seen[o]
                                     /\ seen[o][OrderRow(c)] # db[OrderRow(c)]}
           was == [c \in stale |-> seen[o][OrderRow(c)]]
           D == Over([r \in {OrderRow(c) : c \in stale} |-> was[r[2]]], db)
<1>4. \A r \in PlaceReads(o) : seen[o][r] = D[r]
  <2> SUFFICES ASSUME NEW r \in PlaceReads(o) PROVE seen[o][r] = D[r]
    OBVIOUS
  <2>1. /\ StillSo(seen[o], locked[o]) /\ r \in DOMAIN seen[o] /\ r \in Rows
        /\ seen[o][r] = db[r] \/ WrittenOver(r, seen[o][r])
    BY <1>1, <1>2 DEF TransInv, Fresh, StillSo, RequestOK
  <2>2. CASE \E c \in stale : r = OrderRow(c)
    <3>1. PICK c \in stale : r = OrderRow(c)
      BY <2>2
    <3>2. r[2] = c /\ was[c] = seen[o][r]
      BY <3>1 DEF OrderRow
    <3> QED  BY <3>1, <3>2 DEF Over
  <2>3. CASE ~\E c \in stale : r = OrderRow(c)
    <3>1. seen[o][r] = db[r]
      BY <2>1, <2>3 DEF WrittenOver
    <3>2. r \in DOMAIN db
      BY <2>1 DEF TransInv
    <3> QED  BY <2>3, <3>1, <3>2 DEF Over
  <2> QED  BY <2>2, <2>3
<1>5. CASE Affordable(seen[o], o)
  <2>1. Ends(o, "written") /\ db' = Written(PlaceWrites(seen[o], o))
    BY <1>5, WritesIs DEF PlaceEnds, Commits
  <2> HIDE DEF D
  <2>2. /\ Affordable(D, o)
        /\ db' = Written(PlaceWrites(D, o))
        /\ DOMAIN PlaceWrites(D, o) = {OrderRow(o), UserRow(OwnerOf(o))}
    BY <1>4, <1>5, <2>1, PlaceReadsAll
  <2>3. /\ Turn(o, "written", <<>>, <<>>, {}) /\ Ended(o, "written")
        /\ \A c \in Closing : OrderRow(c) \notin DOMAIN PlaceWrites(D, o)
    BY <1>1, <1>2, <2>1, <2>2, TurnEnds, RowFacts DEF Ended, RequestOK
  <2>4. TxnOK(o)'
    BY <1>1, <1>2, <2>3, EndedOK
  <2>5. UserRow(OwnerOf(o)) \in locked[o]
    BY <1>1, <1>2 DEF RequestOK
  <2>6. Mine(o, DOMAIN PlaceWrites(D, o))
    BY <1>3, <2>2, <2>5, OrderAndUserMine
  <2>7. TransInv'
    BY <1>1, <1>2, <2>2, <2>3, <2>4, <2>6, CommitTurn
  <2>8. db[OrderRow(o)] = None
    BY <1>3 DEF TransInv, Unwritten
  <2>9. stale \in SUBSET Closing /\ was \in [stale -> {None, NewClosing}]
        /\ \A c \in stale : was[c] \in Past(db[OrderRow(c)])
    <3>1. StillSo(seen[o], locked[o])
      BY <1>1 DEF TransInv, Fresh
    <3>2. \A c \in stale : was[c] \in Past(db[OrderRow(c)])
      BY <3>1, RowFacts DEF StillSo, WrittenOver
    <3>3. \A order : Past(order) \subseteq {None, NewClosing}
      BY DEF Past
    <3> QED  BY <3>2, <3>3
  <2>10. Writes(PlaceWrites(D, o))
    BY <2>2, WritesIs
  <2> HIDE DEF was, stale
  <2> QED  BY <1>3, <2>2, <2>7, <2>8, <2>9, <2>10 DEF PlaceOne, D
<1>6. CASE ~Affordable(seen[o], o)
  <2>1. Ends(o, "over") /\ db' = db /\ Ended(o, "over")
    BY <1>2, <1>6 DEF PlaceEnds, Ended
  <2> QED  BY <1>1, <1>2, <1>3, <2>1, EndsKeeps
<1> QED  BY <1>5, <1>6

LEMMA UndoReadsKeeps ==
  ASSUME TransInv, NEW o \in OrderId, UndoReads(o)
  PROVE  TransInv'
<1> DEFINE sn == Reread(o, {OrderRow(o)})
<1>1. RequestOK(o) /\ o \in Txn /\ OrderRow(o) \in Rows
  BY TxnFacts, RowsIn DEF TransInv, TxnOK
<1>2. UNCHANGED <<db, results, settled>> /\ Claims(o) = locked[o] /\ at[o] = "undoing"
  BY <1>1, ReadyClaims DEF UndoReads
<1>3. CASE IsOpen(db, o)
  <2>1. Reads(o, {OrderRow(o)}) /\ Advance(o, "rejecting", <<OrderRow(o)>>)
    BY <1>3 DEF UndoReads
  <2>2. <<OrderRow(o)>> \in Seq(Rows)
    BY <1>1
  <2>3. Turn(o, "rejecting", <<OrderRow(o)>>, sn, locked[o])
    BY <1>1, <2>1, <2>2, TurnReads
  <2>4. StillSo(seen[o], locked[o])
    BY <1>1 DEF TransInv, Fresh
  <2>5. /\ DOMAIN sn = DOMAIN seen[o] \cup {OrderRow(o)} /\ StillSo(sn, locked[o])
        /\ sn[OrderRow(o)] = db[OrderRow(o)]
    <3>1. OrderRow(o) \in DOMAIN seen[o] => seen[o][OrderRow(o)] = db[OrderRow(o)]
      BY <1>1, <1>2, <2>4, RowFacts DEF StillSo, WrittenOver, RequestOK
    <3> QED  BY <1>1, <2>4, <3>1 DEF Over, Reread, StillSo
  <2> HIDE DEF sn
  <2>6. TxnOK(o)'
    <3>1. /\ at'[o] = "rejecting" /\ seen'[o] = sn /\ locked'[o] = locked[o]
          /\ Claims(o)' = Claims(o) \cup {OrderRow(o)}
      BY <1>2, <2>3, RangeFacts DEF Turn, Claims
    <3>2. IsOpen(sn, o)
      BY <1>3, <2>5 DEF IsOpen
    <3>3. OrderRow(o) \in RowsOf(OwnerOf(o))
      BY OwnerFacts DEF RowsOf
    <3> QED  BY <1>1, <1>2, <2>5, <3>1, <3>2, <3>3, TxnFacts DEF TxnOK, RequestOK
  <2>7. settled' \in Nat /\ GoesTo(o, "rejecting")
    BY <1>2 DEF TransInv, TxnTypes, GoesTo
  <2> QED  BY <1>1, <1>2, <2>3, <2>5, <2>6, <2>7, QuietTurn
<1>4. CASE ~IsOpen(db, o)
  <2>1. Ends(o, "over") /\ Ended(o, "over")
    BY <1>2, <1>4 DEF UndoReads, Ended
  <2> QED  BY <1>1, <1>2, <2>1, EndsKeeps
<1> QED  BY <1>3, <1>4

(* So is the rollback of one.                                              *)
LEMMA UndoEndsKeeps ==
  ASSUME TransInv, NEW o \in OrderId, UndoEnds(o)
  PROVE  TransInv' /\ UndoOne(o) /\ o \notin Closing
<1>1. RequestOK(o) /\ o \in Txn
  BY TxnFacts DEF TransInv, TxnOK
<1>2. /\ UNCHANGED <<results, settled>> /\ Claims(o) = locked[o] /\ at[o] = "rejecting"
      /\ Ends(o, "over") /\ db' = Written(UndoWrites(seen[o], o)) /\ o \notin Closing
  BY <1>1, ReadyClaims, WritesIs DEF UndoEnds, Commits, RequestOK
<1>3. /\ UserRow(OwnerOf(o)) \in locked[o] /\ OrderRow(o) \in locked[o]
      /\ IsOpen(seen[o], o)
      /\ seen[o][UserRow(OwnerOf(o))] = db[UserRow(OwnerOf(o))]
      /\ seen[o][OrderRow(o)] = db[OrderRow(o)]
  BY <1>1, <1>2, RowFacts DEF TransInv, Fresh, StillSo, WrittenOver, RequestOK
<1>4. /\ IsOpen(db, o) /\ UndoWrites(seen[o], o) = UndoWrites(db, o)
      /\ DOMAIN UndoWrites(db, o) = {OrderRow(o), UserRow(OwnerOf(o))}
  BY <1>3 DEF IsOpen, UndoWrites, OrderAndUser
<1>5. /\ Turn(o, "over", <<>>, <<>>, {}) /\ Ended(o, "over")
      /\ \A c \in Closing : OrderRow(c) \notin DOMAIN UndoWrites(db, o)
  BY <1>1, <1>2, <1>4, TurnEnds, RowFacts DEF Ended
<1>6. TxnOK(o)'
  BY <1>1, <1>2, <1>5, EndedOK
<1>7. Mine(o, DOMAIN UndoWrites(db, o))
  BY <1>3, <1>4, OrderAndUserMine
<1>8. db' = Written(UndoWrites(db, o))
  BY <1>2, <1>4
<1>9. TransInv'
  BY <1>1, <1>2, <1>5, <1>6, <1>7, <1>8, CommitTurn
<1> QED  BY <1>2, <1>4, <1>8, <1>9, WritesIs DEF UndoOne

-----------------------------------------------------------------------------
(* The liquidator.                                                         *)

(* Its statements write one row, which who has not locked it may have read *)
(* before.                                                                 *)
LEMMA ClosingTurn ==
  ASSUME TransInv, NEW o \in Closing, NEW stage, NEW sn, Turn(o, stage, <<>>, sn, {}),
         DOMAIN sn = {}, UNCHANGED <<results, settled>>, TxnOK(o)',
         NEW order, db' = Written([r \in {OrderRow(o)} |-> order]),
         db[OrderRow(o)] \in Past(order), Past(db[OrderRow(o)]) \subseteq Past(order),
         \A s \in Txn : s # o => OrderRow(o) \notin locked[s],
         at[o] # "queued", stage \in {"written", "over"},
         stage = "written" => order = NewClosing
  PROVE  TransInv'
<1>1. o \in OrderId /\ o \in Txn /\ OrderRow(o) \in Rows
  BY TransactionsAssumption, TxnFacts, RowsIn
<1>2. /\ DOMAIN db' = Rows /\ db'[OrderRow(o)] = order
      /\ \A r \in Rows : r # OrderRow(o) => db'[r] = db[r]
  BY <1>1 DEF TransInv, Written, Over
<1>3. TxnTypes' /\ ResultsOK' /\ Exclusive'
  BY DEF TransInv, TxnTypes, ResultsOK, Exclusive, Turn, Untouched
<1>4. Fresh'
  <2> SUFFICES ASSUME NEW s \in Txn, NEW r \in DOMAIN seen'[s]
               PROVE  /\ r \in Rows
                      /\ \/ seen'[s][r] = db'[r]
                         \/ /\ r \notin locked'[s] /\ seen'[s][r] \in Past(db'[r])
                            /\ \E c \in Closing : r = OrderRow(c)
    BY DEF Fresh, StillSo, WrittenOver
  <2>1. s # o
    BY DEF Turn
  <2>2. seen'[s] = seen[s] /\ locked'[s] = locked[s]
    BY <2>1 DEF Turn, Untouched
  <2>3. /\ r \in Rows
        /\ \/ seen[s][r] = db[r]
           \/ /\ r \notin locked[s] /\ seen[s][r] \in Past(db[r])
              /\ \E c \in Closing : r = OrderRow(c)
    BY <2>2 DEF TransInv, Fresh, StillSo, WrittenOver
  <2>4. CASE r = OrderRow(o)
    <3>1. r \notin locked'[s] /\ seen'[s][r] \in Past(db'[r])
      BY <1>2, <2>1, <2>2, <2>3, <2>4
    <3> QED  BY <2>3, <2>4, <3>1
  <2>5. CASE r # OrderRow(o)
    BY <1>2, <2>2, <2>3, <2>5
  <2> QED  BY <2>4, <2>5
<1>5. Unwritten'
  <2> SUFFICES ASSUME NEW c \in OrderId, Early(c)'
               PROVE  db'[OrderRow(c)] = None
                      /\ \A n \in DOMAIN results : c \notin Range(results[n].ids)
    BY DEF Unwritten
  <2>1. c \in Txn /\ c # o /\ Early(c)
    BY TxnFacts DEF Early, Turn, Untouched
  <2> QED  BY <1>2, <2>1, RowsIn, RowFacts DEF TransInv, Unwritten
<1>6. \A s \in Txn : TxnOK(s)'
  BY <1>1, OthersKept DEF Turn
<1>7. AnswersQueued'
  <2> SUFFICES ASSUME NEW n \in DOMAIN results, results[n].kind # "not_open",
                      NEW c \in Range(results[n].ids)
               PROVE  at'[c] = "queued"
    BY DEF AnswersQueued
  <2>1. c \in Txn /\ at[c] = "queued"
    BY AnsweredOrders, TxnFacts DEF TransInv, AnswersQueued
  <2> QED  BY <2>1 DEF Turn, Untouched
<1>8. ClosingWritten'
  <2> SUFFICES ASSUME NEW c \in Closing, at'[c] \in {"written", "dropping"}
               PROVE  db'[OrderRow(c)] = NewClosing
    BY DEF ClosingWritten
  <2>1. c \in Txn /\ OrderRow(c) \in Rows
    BY TransactionsAssumption, TxnFacts, RowsIn
  <2>2. CASE c = o
    BY <1>2, <2>2 DEF Turn
  <2>3. CASE c # o
    <3>1. db[OrderRow(c)] = NewClosing
      BY <2>1, <2>3 DEF Turn, Untouched, TransInv, ClosingWritten
    <3> QED  BY <1>2, <2>1, <2>3, <3>1, RowFacts
  <2> QED  BY <2>2, <2>3
<1> QED  BY <1>2, <1>3, <1>4, <1>5, <1>6, <1>7, <1>8 DEF TransInv

\* Where it is between two statements it has no lock.
LEMMA IdleTurn ==
  ASSUME TransInv, NEW o \in Closing, NEW stage \in {"scanned", "written"}, Idle(o), Goto(o, stage),
         UNCHANGED <<results, rows, seen, locked, settled>>
  PROVE  Turn(o, stage, <<>>, <<>>, {}) /\ TxnOK(o)'
<1>1. o \in OrderId /\ o \in Txn /\ o # Worker /\ o \notin Funder /\ DOMAIN <<>> = {}
  BY TransactionsAssumption, TxnFacts
<1>2. Turn(o, stage, <<>>, <<>>, {})
  BY <1>1 DEF Idle, Goto, TransInv, TxnTypes, Turn, Untouched
<1>3. Idle(o)' /\ Claims(o)' = {} /\ at'[o] = stage
  BY <1>1, <1>2, RangeFacts DEF Idle, Claims, Turn
<1>4. RequestOK(o)'
  BY <1>1, <1>3 DEF RequestOK, Idle, Claims
<1> QED  BY <1>1, <1>2, <1>4 DEF TxnOK

LEMMA LiquidatorScansKeeps ==
  ASSUME TransInv, NEW o \in OrderId, LiquidatorScans(o)
  PROVE  TransInv'
<1>1. /\ o \in Closing /\ at[o] = "none" /\ Goto(o, "scanned") /\ o \in Txn
      /\ UNCHANGED <<db, results, rows, seen, locked, settled>>
  BY TxnFacts DEF LiquidatorScans
<1>2. Idle(o)
  BY <1>1 DEF TransInv, TxnOK, RequestOK
<1>3. Turn(o, "scanned", <<>>, <<>>, {}) /\ TxnOK(o)'
  BY <1>1, <1>2, IdleTurn
<1>4. settled' \in Nat /\ StillSo(<<>>, {}) /\ GoesTo(o, "scanned")
  BY <1>1 DEF TransInv, TxnTypes, StillSo, GoesTo, Early
<1> QED  BY <1>1, <1>3, <1>4, QuietTurn

LEMMA LiquidatorOpensKeeps ==
  ASSUME TransInv, NEW o \in OrderId, LiquidatorOpens(o)
  PROVE  TransInv' /\ o \in Closing /\ OpenOne(o)
<1>1. /\ at[o] = "scanned" /\ Goto(o, "written") /\ o \in Txn
      /\ UNCHANGED <<results, rows, seen, locked, settled>>
      /\ db' = Written([r \in {OrderRow(o)} |-> NewClosing])
  BY TxnFacts, WritesIs DEF LiquidatorOpens
<1>2. Idle(o) /\ o \in Closing
  BY <1>1 DEF TransInv, TxnOK, RequestOK
<1>3. Early(o)
  BY <1>1 DEF Early
<1>4. db[OrderRow(o)] = None /\ \A s \in Txn : OrderRow(o) \notin locked[s]
  BY <1>3, EarlyUnclaimed DEF TransInv, Unwritten, Claims
<1>5. Turn(o, "written", <<>>, <<>>, {}) /\ TxnOK(o)' /\ DOMAIN <<>> = {}
  BY <1>1, <1>2, IdleTurn
<1>6. None \in Past(NewClosing) /\ Past(None) = {}
  BY AccountsAssumption DEF Past, NewClosing, DroppedClosing, OrderValue
<1>7. TransInv'
  BY <1>1, <1>2, <1>4, <1>5, <1>6, ClosingTurn
<1> QED  BY <1>1, <1>2, <1>4, <1>7, WritesIs DEF OpenOne

LEMMA LiquidatorFailsKeeps ==
  ASSUME TransInv, NEW o \in OrderId, LiquidatorFails(o)
  PROVE  TransInv'
<1>1. RequestOK(o) /\ o \in Txn
  BY TxnFacts DEF TransInv, TxnOK
<1>2. Idle(o) /\ Starts(o, "dropping", OrderRow(o))
  BY <1>1 DEF LiquidatorFails, RequestOK, Starts
<1>3. Begin(o, "dropping", OrderRow(o)) /\ UNCHANGED <<db, results, settled>>
  BY DEF LiquidatorFails
<1> QED  BY <1>1, <1>2, <1>3, BeginKeeps

(* The row is as it was inserted when it is rejected.                      *)
LEMMA LiquidatorDropsKeeps ==
  ASSUME TransInv, NEW o \in OrderId, LiquidatorDrops(o)
  PROVE  TransInv' /\ o \in Closing /\ DropOne(o)
<1>1. /\ RequestOK(o) /\ o \in Txn /\ at[o] = "dropping" /\ rows[o] = <<>> /\ Ends(o, "over")
      /\ UNCHANGED <<results, settled>>
      /\ db' = Written([r \in {OrderRow(o)} |-> [seen[o][r] EXCEPT !.status = "rejected"]])
  BY TxnFacts, WritesIs DEF LiquidatorDrops, Ready, Commits, TransInv, TxnOK
<1>2. o \in Closing /\ locked[o] = {OrderRow(o)} /\ OrderRow(o) \in DOMAIN seen[o]
  BY <1>1 DEF RequestOK
<1>3. db[OrderRow(o)] = NewClosing /\ seen[o][OrderRow(o)] = NewClosing
  BY <1>1, <1>2 DEF TransInv, ClosingWritten, Fresh, StillSo
<1>4. [r \in {OrderRow(o)} |-> [seen[o][r] EXCEPT !.status = "rejected"]]
        = [r \in {OrderRow(o)} |-> DroppedClosing]
  <2>1. [NewClosing EXCEPT !.status = "rejected"] = DroppedClosing
    BY DEF NewClosing, DroppedClosing
  <2> QED  BY <1>3, <2>1
<1>5. Turn(o, "over", <<>>, <<>>, {}) /\ Ended(o, "over") /\ DOMAIN <<>> = {}
  BY <1>1, TurnEnds DEF Ended
<1>6. TxnOK(o)'
  BY <1>1, <1>5, EndedOK
<1>7. \A s \in Txn : s # o => OrderRow(o) \notin locked[s]
  BY <1>1, <1>2 DEF TransInv, Exclusive
<1>8. NewClosing \in Past(DroppedClosing) /\ Past(NewClosing) \subseteq Past(DroppedClosing)
  BY DEF Past, NewClosing, DroppedClosing
<1>9. db' = Written([r \in {OrderRow(o)} |-> DroppedClosing])
  BY <1>1, <1>4
<1>10. TransInv'
  BY <1>1, <1>2, <1>3, <1>5, <1>6, <1>7, <1>8, <1>9, ClosingTurn
<1> QED  BY <1>2, <1>3, <1>9, <1>10, WritesIs DEF DropOne

-----------------------------------------------------------------------------
(* The engine.                                                             *)

(* It only answers requests that have been written.                        *)
LEMMA PublishKeeps ==
  ASSUME TransInv, NEW kind, NEW ids, [kind |-> kind, ids |-> ids] \in EngineResult,
         \A o \in Range(ids) : ~Early(o) /\ (kind = "not_open" \/ at[o] = "queued"),
         Publish(kind, ids)
  PROVE  TransInv'
<1>1. /\ results \in Seq(EngineResult) /\ Len(results) \in Nat
      /\ results' = Append(results, [kind |-> kind, ids |-> ids])
      /\ Len(results) < MaxResults
      /\ UNCHANGED <<db, at, rows, seen, locked, settled>>
  BY LenProperties DEF TransInv, ResultsOK, Publish, txVars
<1>2. /\ results' \in Seq(EngineResult) /\ Len(results') = Len(results) + 1
      /\ \A n \in 1..Len(results) : results'[n] = results[n]
      /\ results'[Len(results) + 1] = [kind |-> kind, ids |-> ids]
  BY <1>1, AppendProperties
<1>3. /\ DOMAIN results = 1..Len(results) /\ DOMAIN results' = 1..(Len(results) + 1)
      /\ \A n \in DOMAIN results : n \in DOMAIN results' /\ results'[n] = results[n]
  BY <1>1, <1>2, LenProperties
<1>4. ResultsOK'
  BY <1>1, <1>2, TransactionsAssumption DEF ResultsOK
<1>5. /\ TxnTypes' /\ (DOMAIN db = Rows)' /\ Exclusive' /\ Fresh' /\ ClosingWritten'
  BY <1>1 DEF TransInv, TxnTypes, Exclusive, Fresh, StillSo, WrittenOver, ClosingWritten
<1>6. Unwritten'
  <2> SUFFICES ASSUME NEW o \in OrderId, Early(o)
               PROVE  db[OrderRow(o)] = None
                      /\ \A n \in DOMAIN results' : o \notin Range(results'[n].ids)
    BY <1>1 DEF Unwritten, Early
  <2>1. db[OrderRow(o)] = None /\ \A n \in DOMAIN results : o \notin Range(results[n].ids)
    BY DEF TransInv, Unwritten
  <2>2. o \notin Range(ids)
    OBVIOUS
  <2>3. \A n \in DOMAIN results' : n \in DOMAIN results \/ n = Len(results) + 1
    BY <1>1, <1>3
  <2> QED  BY <1>2, <1>3, <2>1, <2>2, <2>3
<1>7. ASSUME NEW t \in Txn PROVE TxnOK(t)'
  <2>1. TxnOK(t)
    BY DEF TransInv
  <2>2. t \in OrderId => RequestOK(t)'
    BY <1>1, <2>1 DEF TxnOK, RequestOK, Idle, Claims
  <2>3. t \in Funder => FunderOK(t)'
    BY <1>1, <2>1 DEF TxnOK, FunderOK, Idle, Claims
  <2>4. t = Worker => WorkerOK'
    <3> SUFFICES ASSUME t = Worker PROVE WorkerOK'
      OBVIOUS
    <3>1. WorkerOK /\ Current' = Current
      BY <1>1, <2>1 DEF TxnOK, Current
    <3>2. at[Worker] # "idle" =>
            /\ Current \in DOMAIN results' /\ results'[Current] = results[Current]
            /\ CurrentOrders' = CurrentOrders
      BY <1>3, <3>1 DEF WorkerOK, CurrentOrders
    <3>3. Claims(Worker)' = Claims(Worker) /\ (Idle(Worker) => Idle(Worker)')
      BY <1>1 DEF Claims, Idle
    <3> QED  BY <1>1, <3>1, <3>2, <3>3 DEF WorkerOK
  <2> QED  BY <2>2, <2>3, <2>4 DEF TxnOK
<1>8. AnswersQueued'
  <2> SUFFICES ASSUME NEW n \in DOMAIN results', results'[n].kind # "not_open",
                      NEW o \in Range(results'[n].ids)
               PROVE  at[o] = "queued"
    BY <1>1 DEF AnswersQueued
  <2>1. CASE n \in DOMAIN results
    BY <1>3, <2>1 DEF TransInv, AnswersQueued
  <2>2. CASE n \notin DOMAIN results
    <3>1. results'[n] = [kind |-> kind, ids |-> ids]
      BY <1>1, <1>2, <1>3, <2>2
    <3> QED  BY <3>1
  <2> QED  BY <2>1, <2>2
<1> QED  BY <1>4, <1>5, <1>6, <1>7, <1>8 DEF TransInv

LEMMA TradeKeeps ==
  ASSUME TransInv, NEW b \in OrderId, NEW s \in OrderId, Trade(b, s)
  PROVE  TransInv'
<1>1. [kind |-> "trade", ids |-> <<b, s>>] \in EngineResult
  BY DEF EngineResult
<1>2. Range(<<b, s>>) = {b, s}
  BY DEF Range
<1>3. \A o \in Range(<<b, s>>) : ~Early(o) /\ at[o] = "queued"
  BY <1>2 DEF Trade, Tradable, Early
<1> QED  BY <1>1, <1>3, PublishKeeps DEF Trade

LEMMA CancelKeeps ==
  ASSUME TransInv, NEW o \in OrderId, Cancel(o) \/ NoLiquidity(o)
  PROVE  TransInv'
<1>1. PICK kind \in {"cancel", "not_open"} :
        Publish(kind, <<o>>) /\ (kind = "not_open" \/ at[o] = "queued")
  BY DEF Cancel, NoLiquidity, Tradable
<1>2. [kind |-> kind, ids |-> <<o>>] \in EngineResult
  <2>1. <<o>> \in Seq(OrderId) /\ Len(<<o>>) = 1
    OBVIOUS
  <2> DEFINE ids == <<o>>
  <2>2. ids \in Seq(OrderId) /\ Len(ids) = 1
    BY <2>1
  <2> HIDE DEF ids
  <2>3. [kind |-> kind, ids |-> ids] \in EngineResult
    BY <2>2 DEF EngineResult
  <2> QED  BY <2>3 DEF ids
<1>3. ~Early(o)
  BY DEF Cancel, IsOpen, TransInv, Unwritten, NoLiquidity, Tradable, Early
<1> QED  BY <1>1, <1>2, <1>3, RangeFacts, PublishKeeps

-----------------------------------------------------------------------------
(* The db-worker.                                                          *)

LEMMA WorkerKept ==
  ASSUME TransInv
  PROVE  /\ WorkerOK /\ Worker \in Txn
         /\ \A x \in DOMAIN seen[Worker] : x \in Rows /\ seen[Worker][x] = db[x]
         /\ StillSo(seen[Worker], locked[Worker]) /\ settled \in Nat
BY TxnFacts DEF TransInv, TxnTypes, TxnOK, Fresh, StillSo, WorkerOK

LEMMA SettleBeginsKeeps ==
  ASSUME TransInv, SettleBegins
  PROVE  TransInv'
<1>1. Idle(Worker) /\ Worker \in Txn
  BY WorkerKept DEF SettleBegins, WorkerOK
<1>2. Current \in DOMAIN results
  <2>1. Len(results) \in Nat /\ DOMAIN results = 1..Len(results) /\ settled \in Nat
    BY LenProperties DEF TransInv, ResultsOK, TxnTypes
  <2> QED  BY <2>1 DEF SettleBegins, Current
<1>3. Starts(Worker, "event", EventRow(Current))
  BY <1>2 DEF Starts
<1>4. Begin(Worker, "event", EventRow(Current)) /\ UNCHANGED <<db, results, settled>>
  BY DEF SettleBegins
<1> QED  BY <1>1, <1>3, <1>4, BeginKeeps, TxnFacts

(* The worker goes on and locks more.                                      *)
LEMMA WorkerAdvances ==
  ASSUME TransInv, NEW stage \in {"orders", "users", "positions"}, NEW rs \in Seq(Rows),
         Advance(Worker, stage, rs), UNCHANGED <<seen, db, results, settled>>,
         rows[Worker] = <<>>, at[Worker] \notin {"idle", "done"},
         EventRow(Current) \in locked[Worker], ~seen[Worker][EventRow(Current)],
         Range(rs) \subseteq {OrderRow(o) : o \in CurrentOrders} \cup AccountRows,
         \A o \in CurrentOrders : OrderRow(o) \in locked[Worker] \cup Range(rs),
         stage \in {"users", "positions"} =>
           \A o \in CurrentOrders : UserRow(OwnerOf(o)) \in locked[Worker] \cup Range(rs),
         stage = "positions" /\ results[Current].kind = "trade" =>
           \A o \in CurrentOrders : PositionRow(OwnerOf(o)) \in locked[Worker] \cup Range(rs)
  PROVE  TransInv'
<1>1. Turn(Worker, stage, rs, seen[Worker], locked[Worker])
  BY WorkerKept, TurnAdvance
<1>2. Claims(Worker) = locked[Worker]
  BY RangeFacts DEF Claims
<1>3. WorkerOK'
  <2>1. /\ at'[Worker] = stage /\ seen'[Worker] = seen[Worker] /\ locked'[Worker] = locked[Worker]
        /\ Claims(Worker)' = locked[Worker] \cup Range(rs)
        /\ Current' = Current /\ CurrentOrders' = CurrentOrders
    BY <1>1 DEF Turn, Claims, Current, CurrentOrders
  <2>2. WorkerOK
    BY WorkerKept
  <2> QED  BY <1>2, <2>1, <2>2 DEF WorkerOK
<1>4. TxnOK(Worker)'
  BY <1>3, TxnFacts DEF TxnOK
<1>5. settled' \in Nat /\ StillSo(seen[Worker], locked[Worker]) /\ GoesTo(Worker, stage)
  BY WorkerKept, GoesToOthers
<1> QED  BY <1>1, <1>4, <1>5, TxnFacts, QuietTurn

LEMMA SettleInsertsKeeps ==
  ASSUME TransInv, SettleInserts
  PROVE  TransInv'
<1>1. /\ WorkerOK /\ Worker \in Txn /\ UNCHANGED <<db, results, settled>>
      /\ Claims(Worker) = locked[Worker] /\ at[Worker] = "event" /\ rows[Worker] = <<>>
  BY WorkerKept, ReadyClaims DEF SettleInserts, Ready
<1>2. CASE seen[Worker][EventRow(Current)]
  <2>1. Ends(Worker, "done") /\ Ended(Worker, "done")
    BY <1>1, <1>2 DEF SettleInserts, Ended
  <2> QED  BY <1>1, <2>1, EndsKeeps
<1>3. CASE ~seen[Worker][EventRow(Current)]
  <2>1. Advance(Worker, "orders", OrderRows(CurrentOrders)) /\ UNCHANGED seen
    BY <1>3 DEF SettleInserts
  <2>2. /\ OrderRows(CurrentOrders) \in Seq(Rows)
        /\ Range(OrderRows(CurrentOrders)) = {OrderRow(o) : o \in CurrentOrders}
    BY <1>1, CurrentRow, RowLists DEF WorkerOK
  <2>3. EventRow(Current) \in locked[Worker]
    BY <1>1 DEF WorkerOK
  <2> QED  BY <1>1, <1>3, <2>1, <2>2, <2>3, WorkerAdvances
<1> QED  BY <1>2, <1>3

LEMMA SettleLocksUsersKeeps ==
  ASSUME TransInv, SettleLocksUsers
  PROVE  TransInv'
<1> DEFINE us == {OwnerOf(o) : o \in CurrentOrders}
<1>1. /\ WorkerOK /\ UNCHANGED <<db, results, settled, seen>>
      /\ Claims(Worker) = locked[Worker] /\ at[Worker] = "orders" /\ rows[Worker] = <<>>
  BY WorkerKept, ReadyClaims DEF SettleLocksUsers, Ready
<1>2. us \in SUBSET User
  BY <1>1, CurrentRow, OwnerFacts DEF WorkerOK
<1>3. UserRows(us) \in Seq(Rows) /\ Range(UserRows(us)) = {UserRow(u) : u \in us}
  BY <1>2, RowLists
<1>4. \A o \in CurrentOrders : UserRow(OwnerOf(o)) \in Range(UserRows(us))
  BY <1>3
<1>5. Range(UserRows(us)) \subseteq AccountRows
  BY <1>2, <1>3 DEF AccountRows
<1>6. Advance(Worker, "users", UserRows(us))
  BY DEF SettleLocksUsers
<1> HIDE DEF us
<1>7. /\ EventRow(Current) \in locked[Worker] /\ ~seen[Worker][EventRow(Current)]
      /\ \A o \in CurrentOrders : OrderRow(o) \in locked[Worker]
  BY <1>1 DEF WorkerOK
<1> QED  BY <1>1, <1>3, <1>4, <1>5, <1>6, <1>7, WorkerAdvances

LEMMA SettleLocksPositionsKeeps ==
  ASSUME TransInv, SettleLocksPositions
  PROVE  TransInv'
<1> DEFINE ids == results[Current].ids
           list == [k \in 1..2 |-> PositionRow(OwnerOf(ids[k]))]
<1>1. /\ WorkerOK /\ UNCHANGED <<db, results, settled, seen>>
      /\ Claims(Worker) = locked[Worker] /\ at[Worker] = "users" /\ rows[Worker] = <<>>
  BY WorkerKept, ReadyClaims DEF SettleLocksPositions, Ready
<1>2. /\ EventRow(Current) \in locked[Worker] /\ ~seen[Worker][EventRow(Current)]
      /\ \A o \in CurrentOrders : OrderRow(o) \in locked[Worker]
      /\ \A o \in CurrentOrders : UserRow(OwnerOf(o)) \in locked[Worker]
      /\ results[Current] \in EngineResult /\ CurrentOrders \in SUBSET OrderId
  BY <1>1, CurrentRow DEF WorkerOK
<1>3. CASE results[Current].kind # "trade"
  <2>1. Advance(Worker, "positions", <<>>) /\ <<>> \in Seq(Rows)
    BY <1>3 DEF SettleLocksPositions
  <2> QED  BY <1>1, <1>2, <1>3, <2>1, RangeFacts, WorkerAdvances
<1>4. CASE results[Current].kind = "trade"
  <2>1. ids \in Seq(OrderId) /\ Len(ids) = 2
    BY <1>2, <1>4 DEF EngineResult
  <2>2. DOMAIN ids = 1..2 /\ \A k \in 1..2 : ids[k] \in OrderId
    BY <2>1, LenProperties, ElementOfSeq
  <2>3. CurrentOrders = {ids[k] : k \in 1..2}
    BY <2>2 DEF CurrentOrders, Range
  <2>4. \A k \in 1..2 : PositionRow(OwnerOf(ids[k])) \in Rows \cap AccountRows
    BY <2>2, OwnerFacts, RowsIn DEF AccountRows
  <2>5. Advance(Worker, "positions", list)
    BY <1>4 DEF SettleLocksPositions
  <2>6. list \in Seq(Rows)
    BY <2>4, SeqDef
  <2>7. Range(list) = {PositionRow(OwnerOf(ids[k])) : k \in 1..2}
    BY DEF Range
  <2>8. Range(list) \subseteq AccountRows
    BY <2>4, <2>7
  <2>9. \A o \in CurrentOrders : PositionRow(OwnerOf(o)) \in Range(list)
    BY <2>3, <2>7
  <2> HIDE DEF list
  <2> QED  BY <1>1, <1>2, <2>5, <2>6, <2>8, <2>9, WorkerAdvances
<1> QED  BY <1>3, <1>4

\* What settlement reads: of the orders of the result, and only of a trade the
\* positions.
SettleReads(n) ==
  {OrderRow(o) : o \in Range(results[n].ids)}
    \cup {UserRow(OwnerOf(o)) : o \in Range(results[n].ids)}
    \cup (IF results[n].kind = "trade"
          THEN {InsuranceRow} \cup {PositionRow(OwnerOf(o)) : o \in Range(results[n].ids)}
          ELSE {})

LEMMA CancelReadsAll ==
  ASSUME NEW o \in OrderId, NEW D, NEW E,
         D[OrderRow(o)] = E[OrderRow(o)], D[UserRow(OwnerOf(o))] = E[UserRow(OwnerOf(o))]
  PROVE  /\ CancelWrites(D, o) = CancelWrites(E, o)
         /\ DOMAIN CancelWrites(D, o) \subseteq {OrderRow(o), UserRow(OwnerOf(o))}
<1>1. IsOpen(D, o) = IsOpen(E, o)
  BY DEF IsOpen
<1>2. CASE IsOpen(D, o)
  BY <1>1, <1>2 DEF CancelWrites, OrderAndUser
<1>3. CASE ~IsOpen(D, o)
  BY <1>1, <1>3 DEF CancelWrites
<1> QED  BY <1>2, <1>3

LEMMA FillReadsAll ==
  ASSUME NEW orders \in SUBSET OrderId, NEW D, NEW E,
         \A o \in orders : \A r \in FilledRows(o) : D[r] = E[r],
         D[InsuranceRow] = E[InsuranceRow]
  PROVE  /\ FillWrites(D, orders) = FillWrites(E, orders)
         /\ DOMAIN FillWrites(D, orders)
              = {InsuranceRow} \cup UNION {FilledRows(o) : o \in orders}
<1> DEFINE after(F) == [o \in orders |-> Filled(F, o)]
           flushed(a) == SumFunction([o \in orders |-> a[o].insurance])
           value(a, r) ==
      LET o == CHOOSE i \in orders : r \in FilledRows(i)
          x == a[o]
      IN  CASE r = OrderRow(o)             -> [status |-> "filled", pool |-> x.pool]
            [] r = UserRow(OwnerOf(o))     -> [balance |-> x.balance, locked |-> x.locked]
            [] r = PositionRow(OwnerOf(o)) -> x.position
           filled(F, a) ==
      [r \in {InsuranceRow} \cup UNION {FilledRows(o) : o \in orders} |->
         IF r = InsuranceRow THEN F[r] + flushed(a) ELSE value(a, r)]
<1>1. \A o \in orders : AccountOf(D, o) = AccountOf(E, o)
  BY DEF FilledRows, AccountOf
<1>2. after(D) = after(E)
  BY <1>1 DEF Filled
<1>3. /\ FillWrites(D, orders) = filled(D, after(D))
      /\ FillWrites(E, orders) = filled(E, after(E))
  BY Zenon DEF FillWrites
<1> HIDE DEF after, flushed, value
<1>4. \A a : /\ filled(D, a) = filled(E, a)
             /\ DOMAIN filled(D, a) = {InsuranceRow} \cup UNION {FilledRows(o) : o \in orders}
  OBVIOUS
<1> HIDE DEF filled
<1> QED  BY <1>2, <1>3, <1>4

LEMMA SettleReadsAll ==
  ASSUME NEW n, results[n] \in EngineResult, NEW D, NEW E,
         \A r \in SettleReads(n) : D[r] = E[r]
  PROVE  /\ SettleWrites(D, n) = SettleWrites(E, n)
         /\ DOMAIN SettleWrites(D, n) \subseteq {EventRow(n)} \cup SettleReads(n)
         /\ results[n].kind = "not_open" => DOMAIN SettleWrites(D, n) = {EventRow(n)}
<1> DEFINE ids == results[n].ids
           kind == results[n].kind
           event == [r \in {EventRow(n)} |-> TRUE]
           work(F) == CASE kind = "cancel"   -> CancelWrites(F, ids[1])
                        [] kind = "trade"    -> FillWrites(F, Range(ids))
                        [] kind = "not_open" -> <<>>
<1>1. /\ ids \in Seq(OrderId) /\ kind \in {"trade", "cancel", "not_open"}
      /\ kind # "trade" => Len(ids) = 1
  BY DEF EngineResult
<1>2. DOMAIN ids = 1..Len(ids) /\ Range(ids) \in SUBSET OrderId
  BY <1>1, LenProperties, ElementOfSeq DEF Range
<1>3. \A F : SettleWrites(F, n) = Over(event, work(F))
  BY DEF SettleWrites
<1>4. /\ work(D) = work(E) /\ DOMAIN work(D) \subseteq SettleReads(n)
      /\ kind = "not_open" => DOMAIN work(D) = {}
  <2>1. CASE kind = "cancel"
    <3>1. ids[1] \in Range(ids) /\ ids[1] \in OrderId
      BY <1>1, <1>2, <2>1 DEF Range
    <3>2. /\ OrderRow(ids[1]) \in SettleReads(n)
          /\ UserRow(OwnerOf(ids[1])) \in SettleReads(n)
      BY <3>1 DEF SettleReads
    <3>3. /\ CancelWrites(D, ids[1]) = CancelWrites(E, ids[1])
          /\ DOMAIN CancelWrites(D, ids[1]) \subseteq SettleReads(n)
      BY <3>1, <3>2, CancelReadsAll
    <3>4. \A F : work(F) = CancelWrites(F, ids[1])
      BY <2>1
    <3> HIDE DEF work, ids
    <3> QED  BY <2>1, <3>3, <3>4
  <2>2. CASE kind = "trade"
    <3>1. {InsuranceRow} \cup UNION {FilledRows(o) : o \in Range(ids)} \subseteq SettleReads(n)
      BY <2>2 DEF SettleReads, FilledRows
    <3>2. /\ \A o \in Range(ids) : \A r \in FilledRows(o) : D[r] = E[r]
          /\ D[InsuranceRow] = E[InsuranceRow]
      BY <3>1
    <3>3. /\ FillWrites(D, Range(ids)) = FillWrites(E, Range(ids))
          /\ DOMAIN FillWrites(D, Range(ids))
               = {InsuranceRow} \cup UNION {FilledRows(o) : o \in Range(ids)}
      BY <1>2, <3>2, FillReadsAll
    <3>4. \A F : work(F) = FillWrites(F, Range(ids))
      BY <2>2
    <3> HIDE DEF work, ids
    <3> QED  BY <2>2, <3>1, <3>3, <3>4
  <2>3. CASE kind = "not_open"
    BY <2>3
  <2> QED  BY <1>1, <2>1, <2>2, <2>3
<1>5. DOMAIN event = {EventRow(n)}
  OBVIOUS
<1> HIDE DEF work, event
<1>6. SettleWrites(D, n) = Over(event, work(D)) /\ SettleWrites(E, n) = Over(event, work(E))
  BY <1>3
<1>7. \A w : DOMAIN Over(event, w) = {EventRow(n)} \cup DOMAIN w
  BY <1>5 DEF Over
<1> QED  BY <1>4, <1>6, <1>7

(* A result is settled as if its rows had been read and written at once.   *)
LEMMA SettleEndsKeeps ==
  ASSUME TransInv, SettleEnds
  PROVE  TransInv' /\ SettleOne(Current) /\ Current \in DOMAIN results
<1>1. /\ WorkerOK /\ Worker \in Txn /\ UNCHANGED <<results, settled>>
      /\ locked[Worker] = DOMAIN seen[Worker] /\ Claims(Worker) = locked[Worker]
      /\ at[Worker] = "positions"
      /\ \A x \in DOMAIN seen[Worker] : x \in Rows /\ seen[Worker][x] = db[x]
  BY WorkerKept, ReadyClaims DEF SettleEnds, WorkerOK
<1> DEFINE D == Over(seen[Worker], [r \in {InsuranceRow} |-> db[r]])
<1>0. Ends(Worker, "done") /\ db' = Written(SettleWrites(D, Current))
  BY WritesIs DEF SettleEnds, Commits
<1>2. /\ Current \in DOMAIN results /\ results[Current] \in EngineResult
      /\ CurrentOrders \in SUBSET OrderId
  BY <1>1, CurrentRow DEF WorkerOK
<1>3. EventRow(Current) \in locked[Worker] /\ ~db[EventRow(Current)]
  BY <1>1 DEF WorkerOK
<1>4. SettleReads(Current) \subseteq locked[Worker] \cup {InsuranceRow}
  BY <1>1 DEF WorkerOK, SettleReads, CurrentOrders
<1>5. /\ SettleWrites(D, Current) = SettleWrites(db, Current)
      /\ DOMAIN SettleWrites(db, Current) \subseteq {EventRow(Current)} \cup SettleReads(Current)
      /\ results[Current].kind = "not_open" =>
           DOMAIN SettleWrites(db, Current) = {EventRow(Current)}
  <2>1. \A r \in SettleReads(Current) : D[r] = db[r]
    BY <1>1, <1>4 DEF Over
  <2> HIDE DEF D
  <2> QED  BY <1>2, <2>1, SettleReadsAll
<1>6. db' = Written(SettleWrites(db, Current))
  BY <1>0, <1>5
<1>7. Mine(Worker, DOMAIN SettleWrites(db, Current))
  <2>1. /\ DOMAIN SettleWrites(db, Current) \subseteq locked[Worker] \cup {InsuranceRow}
        /\ locked[Worker] \cup {InsuranceRow} \subseteq Rows
    BY <1>1, <1>3, <1>4, <1>5, RowsIn
  <2>2. ASSUME NEW r \in DOMAIN SettleWrites(db, Current), NEW u \in User, r \in RowsOf(u)
        PROVE  UserRow(u) \in locked[Worker]
    <3>1. r \in SettleReads(Current)
      BY <1>5, <2>2, RowFacts DEF RowsOf
    <3>0. r # InsuranceRow
      BY <2>2, RowFacts DEF RowsOf
    <3>2. PICK o \in CurrentOrders : r \in FilledRows(o)
      BY <3>0, <3>1 DEF SettleReads, FilledRows, CurrentOrders
    <3>3. u = OwnerOf(o)
      BY <2>2, <3>2, RowFacts DEF RowsOf, FilledRows, OrdersOf
    <3> QED  BY <1>1, <3>2, <3>3 DEF WorkerOK
  <2> QED  BY <1>1, <2>1, <2>2 DEF Mine
<1>8. Turn(Worker, "done", <<>>, <<>>, {}) /\ Ended(Worker, "done")
  BY <1>0, <1>1, TurnEnds DEF Ended
<1>9. TxnOK(Worker)'
  BY <1>1, <1>8, EndedOK
<1>11. ASSUME NEW c \in Closing, at[c] \in {"written", "dropping"}
       PROVE  OrderRow(c) \notin DOMAIN SettleWrites(db, Current)
  <2>1. CASE results[Current].kind = "not_open"
    BY <1>5, <2>1, RowFacts
  <2>2. CASE results[Current].kind # "not_open"
    <3>1. c \notin CurrentOrders
      BY <1>2, <1>11, <2>2 DEF TransInv, AnswersQueued, CurrentOrders
    <3> QED  BY <1>5, <3>1, RowFacts DEF SettleReads, CurrentOrders
  <2> QED  BY <2>1, <2>2
<1>10. TransInv'
  BY <1>1, <1>6, <1>7, <1>8, <1>9, <1>11, CommitTurn
<1> QED  BY <1>2, <1>3, <1>6, <1>10, WritesIs DEF SettleOne

LEMMA AcknowledgeKeeps ==
  ASSUME TransInv, Acknowledge
  PROVE  TransInv'
<1>1. /\ WorkerOK /\ Worker \in Txn /\ Idle(Worker) /\ settled \in Nat
      /\ UNCHANGED <<db, results, rows, seen, locked>> /\ settled' = settled + 1
  BY WorkerKept DEF Acknowledge, WorkerOK, Current, TransInv, TxnTypes
<1>2. Turn(Worker, "idle", rows[Worker], seen[Worker], {})
  BY <1>1 DEF Acknowledge, Goto, Idle, TransInv, TxnTypes, Turn, Untouched
<1>3. TxnOK(Worker)'
  <2>1. Claims(Worker)' = {} /\ Idle(Worker)' /\ at'[Worker] = "idle"
    BY <1>1, <1>2, RangeFacts DEF Claims, Idle, Turn
  <2>2. WorkerOK'
    BY <2>1 DEF WorkerOK, Idle
  <2> QED  BY <2>2, TxnFacts DEF TxnOK
<1>4. StillSo(seen[Worker], {}) /\ GoesTo(Worker, "idle")
  BY <1>1, GoesToOthers DEF Idle, StillSo
<1> QED  BY <1>1, <1>2, <1>3, <1>4, TxnFacts, QuietTurn

-----------------------------------------------------------------------------
(* The funding service.                                                    *)

LEMMA FunderKept ==
  ASSUME TransInv, NEW f \in Funder
  PROVE  /\ FunderOK(f) /\ f \in Txn
         /\ \A x \in DOMAIN seen[f] : x \in Rows /\ seen[f][x] = db[x]
         /\ StillSo(seen[f], locked[f]) /\ settled \in Nat
BY TxnFacts DEF TransInv, TxnTypes, TxnOK, Fresh, StillSo, FunderOK

LEMMA FundBeginsKeeps ==
  ASSUME TransInv, NEW f \in Funder, FundBegins(f)
  PROVE  TransInv'
<1>1. Idle(f) /\ f \in Txn /\ Starts(f, "period", PeriodRow)
  BY FunderKept DEF FundBegins, FunderOK, Starts
<1>2. Begin(f, "period", PeriodRow) /\ UNCHANGED <<db, results, settled>>
  BY DEF FundBegins
<1> QED  BY <1>1, <1>2, BeginKeeps

LEMMA FunderAdvances ==
  ASSUME TransInv, NEW f \in Funder, NEW stage \in {"users", "positions"}, NEW rs \in Seq(Rows),
         Advance(f, stage, rs), UNCHANGED <<seen, db, results, settled>>,
         rows[f] = <<>>, PeriodRow \in locked[f], ~seen[f][PeriodRow],
         Range(rs) \subseteq AccountRows
  PROVE  TransInv'
<1>1. Turn(f, stage, rs, seen[f], locked[f])
  BY FunderKept, TurnAdvance
<1>2. Claims(f) = locked[f]
  BY RangeFacts DEF Claims
<1>3. FunderOK(f)'
  <2>1. /\ at'[f] = stage /\ seen'[f] = seen[f] /\ locked'[f] = locked[f]
        /\ Claims(f)' = locked[f] \cup Range(rs)
    BY <1>1 DEF Turn, Claims
  <2>2. FunderOK(f)
    BY FunderKept
  <2> QED  BY <1>2, <2>1, <2>2 DEF FunderOK
<1>4. TxnOK(f)'
  BY <1>3, TxnFacts DEF TxnOK
<1>5. settled' \in Nat /\ StillSo(seen[f], locked[f]) /\ GoesTo(f, stage)
  BY FunderKept, GoesToOthers
<1> QED  BY <1>1, <1>4, <1>5, FunderKept, TxnFacts, QuietTurn

LEMMA FundInsertsKeeps ==
  ASSUME TransInv, NEW f \in Funder, FundInserts(f)
  PROVE  TransInv'
<1>1. /\ FunderOK(f) /\ f \in Txn /\ UNCHANGED <<db, results, settled>>
      /\ Claims(f) = locked[f] /\ at[f] = "period" /\ rows[f] = <<>>
  BY FunderKept, ReadyClaims DEF FundInserts, Ready
<1>2. CASE seen[f][PeriodRow]
  <2>1. Ends(f, "idle") /\ Ended(f, "idle")
    BY <1>2 DEF FundInserts, Ended
  <2> QED  BY <1>1, <2>1, EndsKeeps
<1>3. CASE ~seen[f][PeriodRow]
  <2>1. Advance(f, "users", UserRows(Holders)) /\ UNCHANGED seen
    BY <1>3 DEF FundInserts
  <2>2. Holders \in SUBSET User
    BY DEF Holders
  <2>3. UserRows(Holders) \in Seq(Rows) /\ Range(UserRows(Holders)) \subseteq AccountRows
    BY <2>2, RowLists DEF AccountRows
  <2>4. PeriodRow \in locked[f]
    BY <1>1 DEF FunderOK
  <2> QED  BY <1>1, <1>3, <2>1, <2>3, <2>4, FunderAdvances
<1> QED  BY <1>2, <1>3

LEMMA FundLocksPositionsKeeps ==
  ASSUME TransInv, NEW f \in Funder, FundLocksPositions(f)
  PROVE  TransInv'
<1>1. /\ FunderOK(f) /\ UNCHANGED <<db, results, settled, seen>> /\ at[f] = "users" /\ rows[f] = <<>>
      /\ Advance(f, "positions", PositionRows(Holders))
  BY FunderKept DEF FundLocksPositions, Ready
<1>2. Holders \in SUBSET User
  BY DEF Holders
<1>3. PositionRows(Holders) \in Seq(Rows) /\ Range(PositionRows(Holders)) \subseteq AccountRows
  BY <1>2, RowLists DEF AccountRows
<1>4. PeriodRow \in locked[f] /\ ~seen[f][PeriodRow]
  BY <1>1 DEF FunderOK
<1> QED  BY <1>1, <1>3, <1>4, FunderAdvances

\* What the funding of a period reads, and what it writes.
FundRows(users, holders) ==
  {PeriodRow} \cup {UserRow(u) : u \in users} \cup {PositionRow(u) : u \in holders}

LEMMA FundReadsAll ==
  ASSUME NEW users \in SUBSET User, NEW holders \in SUBSET users, NEW num, NEW last, NEW D, NEW E,
         \A u \in users : D[UserRow(u)] = E[UserRow(u)],
         \A u \in holders : D[PositionRow(u)] = E[PositionRow(u)]
  PROVE  /\ IsLast(D, holders, num, last) <=> IsLast(E, holders, num, last)
         /\ FundWrites(D, users, holders, num, last) = FundWrites(E, users, holders, num, last)
         /\ PeriodRow \in DOMAIN FundWrites(D, users, holders, num, last)
         /\ FundWrites(D, users, holders, num, last)[PeriodRow] = TRUE
         /\ DOMAIN FundWrites(D, users, holders, num, last) \subseteq FundRows(users, holders)
<1> DEFINE period == [r \in {PeriodRow} |-> TRUE]
           money(F) == [u \in users |-> F[UserRow(u)]]
           work(ps, us) ==
             LET payers == Payers(ps, holders, num)
                 after  == Funded(us, ps, holders, Price, num, last)
             IN  IF payers = {} \/ payers = holders THEN <<>>
                 ELSE [r \in {UserRow(u) : u \in users} \cup {PositionRow(u) : u \in holders} |->
                         IF r[1] = "user" THEN after.users[r[2]] ELSE after.positions[r[2]]]
<1>1. PositionsOf(D, holders) = PositionsOf(E, holders) /\ money(D) = money(E)
  BY DEF PositionsOf
<1>2. IsLast(D, holders, num, last) <=> IsLast(E, holders, num, last)
  BY <1>1 DEF IsLast
<1>3. \A F : FundWrites(F, users, holders, num, last)
              = Over(period, work(PositionsOf(F, holders), money(F)))
  BY DEF FundWrites
<1>4. \A ps, us : DOMAIN work(ps, us) \subseteq
                   {UserRow(u) : u \in users} \cup {PositionRow(u) : u \in holders}
  OBVIOUS
<1>5. \A w : /\ DOMAIN Over(period, w) = {PeriodRow} \cup DOMAIN w
             /\ Over(period, w)[PeriodRow] = TRUE
  BY DEF Over
<1> HIDE DEF period, money, work
<1>6. /\ FundWrites(D, users, holders, num, last)
           = Over(period, work(PositionsOf(D, holders), money(D)))
      /\ FundWrites(E, users, holders, num, last)
           = Over(period, work(PositionsOf(E, holders), money(E)))
  BY <1>3
<1> QED  BY <1>1, <1>2, <1>4, <1>5, <1>6 DEF FundRows

(* A period is funded as if everything had been read and written at once,  *)
(* and only while it has no row.                                           *)
LEMMA FundEndsKeeps ==
  ASSUME TransInv, NEW f \in Funder, FundEnds(f)
  PROVE  TransInv' /\ FundOne /\ db'[PeriodRow] = TRUE
<1> DEFINE D == seen[f]
           users == {u \in User : UserRow(u) \in DOMAIN D}
           holders == {u \in users : PositionRow(u) \in DOMAIN D /\ D[PositionRow(u)] # None}
<1>1. /\ FunderOK(f) /\ f \in Txn /\ UNCHANGED <<results, settled>>
      /\ DOMAIN D = locked[f] /\ at[f] = "positions"
      /\ \A x \in DOMAIN D : x \in Rows /\ D[x] = db[x]
  BY FunderKept DEF FundEnds, Ready, FunderOK
<1>2. PeriodRow \in locked[f] /\ ~db[PeriodRow]
  BY <1>1 DEF FunderOK
<1>3. PICK num \in Rates, last \in User :
        /\ IsLast(D, holders, num, last)
        /\ Ends(f, "idle") /\ db' = Written(FundWrites(D, users, holders, num, last))
  BY WritesIs DEF FundEnds, Commits
<1>4. /\ users \in SUBSET User /\ holders \in SUBSET users
      /\ \A u \in users : UserRow(u) \in locked[f] /\ D[UserRow(u)] = db[UserRow(u)]
      /\ \A u \in holders : /\ PositionRow(u) \in locked[f] /\ D[PositionRow(u)] = db[PositionRow(u)]
                            /\ db[PositionRow(u)] # None
  BY <1>1
<1> DEFINE W == FundWrites(db, users, holders, num, last)
<1> HIDE DEF D, users, holders
<1>5. /\ IsLast(db, holders, num, last) /\ db' = Written(W)
      /\ PeriodRow \in DOMAIN W /\ W[PeriodRow] = TRUE
      /\ DOMAIN W \subseteq FundRows(users, holders)
  <2>1. /\ \A u \in users : D[UserRow(u)] = db[UserRow(u)]
        /\ \A u \in holders : D[PositionRow(u)] = db[PositionRow(u)]
    BY <1>4
  <2> HIDE DEF W
  <2>2. /\ IsLast(D, holders, num, last) <=> IsLast(db, holders, num, last)
        /\ FundWrites(D, users, holders, num, last) = W
        /\ PeriodRow \in DOMAIN FundWrites(D, users, holders, num, last)
        /\ FundWrites(D, users, holders, num, last)[PeriodRow] = TRUE
        /\ DOMAIN FundWrites(D, users, holders, num, last) \subseteq FundRows(users, holders)
    BY <1>4, <2>1, FundReadsAll DEF W
  <2> QED  BY <1>3, <2>2
<1>6. FundOne
  BY <1>2, <1>4, <1>5, WritesIs DEF FundOne
<1> HIDE DEF W
<1>7. Mine(f, DOMAIN W)
  <2>1. DOMAIN W \subseteq locked[f]
    BY <1>2, <1>4, <1>5 DEF FundRows
  <2>2. ASSUME NEW r \in DOMAIN W, NEW u \in User, r \in RowsOf(u)
        PROVE  UserRow(u) \in locked[f]
    <3>1. PICK v \in users : r = UserRow(v) \/ r = PositionRow(v)
      BY <1>4, <1>5, <2>2, RowFacts DEF RowsOf, FundRows
    <3>2. u = v
      BY <2>2, <3>1, RowFacts DEF RowsOf
    <3> QED  BY <1>4, <3>1, <3>2
  <2> QED  BY <1>1, <2>1, <2>2 DEF Mine
<1>8. Turn(f, "idle", <<>>, <<>>, {}) /\ Ended(f, "idle")
  BY <1>1, <1>3, TurnEnds DEF Ended
<1>9. TxnOK(f)'
  BY <1>1, <1>8, EndedOK
<1>12. \A c \in Closing : OrderRow(c) \notin DOMAIN W
  BY <1>4, <1>5, RowFacts DEF FundRows
<1>10. TransInv'
  BY <1>1, <1>5, <1>7, <1>8, <1>9, <1>12, CommitTurn
<1>11. db'[PeriodRow] = TRUE
  BY <1>5, RowsIn DEF Written, Over
<1> QED  BY <1>6, <1>10, <1>11

-----------------------------------------------------------------------------
(* All steps.                                                              *)

LEMMA TransInit ==
  ASSUME Init
  PROVE  TransInv
<1>1. TxnTypes
  <2>1. <<>> \in Seq(Rows)
    OBVIOUS
  <2> QED  BY <2>1 DEF Init, TxnTypes
<1>2. ResultsOK /\ DOMAIN db = Rows /\ results = <<>>
  <2>1. results = <<>> /\ DOMAIN db = Rows
    BY DEF Init, AccountsInit
  <2>2. <<>> \in Seq(EngineResult) /\ Len(<<>>) = 0
    OBVIOUS
  <2> QED  BY <2>1, <2>2, TransactionsAssumption DEF ResultsOK
<1>3. Exclusive /\ Fresh
  BY DEF Init, Exclusive, Fresh, StillSo
<1>6. AnswersQueued /\ ClosingWritten
  BY <1>2, TransactionsAssumption, TxnFacts DEF AnswersQueued, ClosingWritten, Init
<1>4. Unwritten
  <2> SUFFICES ASSUME NEW o \in OrderId, Early(o)
               PROVE  db[OrderRow(o)] = None /\ \A n \in DOMAIN results : o \notin Range(results[n].ids)
    BY DEF Unwritten
  <2>1. o \notin Resting
    BY TxnFacts DEF Init, Early
  <2>2. OrderRow(o) \in Rows /\ OrderRow(o)[1] = "order" /\ OrderRow(o)[2] = o
    BY RowsIn DEF OrderRow
  <2>3. db[OrderRow(o)] = None
    BY <2>1, <2>2 DEF Init, AccountsInit
  <2> QED  BY <1>2, <2>3
<1>5. ASSUME NEW t \in Txn PROVE TxnOK(t)
  <2>1. Idle(t) /\ Claims(t) = {} /\ DOMAIN seen[t] = {}
    BY RangeFacts DEF Init, Idle, Claims
  <2>2. t \in OrderId => at[t] \in {"queued", "none"}
    BY DEF Init
  <2>3. t \notin OrderId => at[t] = "idle"
    BY TransactionsAssumption DEF Init
  <2>4. t \in OrderId => RequestOK(t)
    BY <2>1, <2>2 DEF RequestOK, Idle
  <2>5. t \in Funder => FunderOK(t)
    BY <2>1, <2>3, TxnFacts DEF FunderOK, Idle
  <2>6. t = Worker => WorkerOK
    BY <2>1, <2>3, TxnFacts DEF WorkerOK, Idle
  <2> QED  BY <2>4, <2>5, <2>6 DEF TxnOK
<1> QED  BY <1>1, <1>2, <1>3, <1>4, <1>5, <1>6 DEF TransInv

(* Every step keeps the invariant; one that changes the tables is a whole  *)
(* transaction; the row of a funding period comes with its money, once.    *)
LEMMA TransStep ==
  ASSUME TransInv, Next
  PROVE  TransInv' /\ (db' # db => OneTransaction)
<1>1. ASSUME NEW t \in Txn, Lock(t) PROVE TransInv' /\ db' = db
  BY <1>1, LockKeeps DEF Lock
<1>2. ASSUME NEW t \in Txn, Wait(t) PROVE TransInv' /\ db' = db
  BY <1>2 DEF Wait, TransInv, TxnTypes, ResultsOK, Exclusive, Fresh, StillSo, WrittenOver,
              Unwritten, AnswersQueued, ClosingWritten, Early, TxnOK, RequestOK, WorkerOK, FunderOK, Idle, Claims, Current, CurrentOrders
<1>3. ASSUME NEW t \in Txn, DeadlockAbort(t) PROVE TransInv' /\ db' = db
  BY <1>3, AbortKeeps DEF DeadlockAbort
<1>4. ASSUME NEW t \in Txn, Dies(t) PROVE TransInv' /\ db' = db
  BY <1>4, DiesKeeps DEF Dies
<1>5. ASSUME NEW o \in OrderId,
             PlaceBegins(o) \/ PlaceReadsRows(o) \/ Enqueue(o) \/ EnqueueFails(o) \/ UndoReads(o)
      PROVE  TransInv' /\ db' = db
  BY <1>5, PlaceBeginsKeeps, PlaceReadsRowsKeeps, EnqueueKeeps, EnqueueFailsKeeps, UndoReadsKeeps
     DEF PlaceBegins, PlaceReadsRows, Enqueue, EnqueueFails, UndoReads
<1>6. ASSUME NEW o \in OrderId, PlaceEnds(o) \/ UndoEnds(o)
      PROVE  TransInv' /\ (db' # db => OneTransaction)
  BY <1>6, PlaceEndsKeeps, UndoEndsKeeps DEF OneTransaction, PlaceEnds, Ready, UndoEnds
<1>7. ASSUME NEW b \in OrderId, NEW s \in OrderId, Trade(b, s) PROVE TransInv' /\ db' = db
  BY <1>7, TradeKeeps DEF Trade, Publish
<1>8. ASSUME NEW o \in OrderId, Cancel(o) \/ NoLiquidity(o) PROVE TransInv' /\ db' = db
  BY <1>8, CancelKeeps DEF Cancel, NoLiquidity, Publish
<1>13. ASSUME NEW o \in OrderId, LiquidatorScans(o) \/ LiquidatorFails(o)
       PROVE  TransInv' /\ db' = db
  BY <1>13, LiquidatorScansKeeps, LiquidatorFailsKeeps DEF LiquidatorScans, LiquidatorFails
<1>14. ASSUME NEW o \in OrderId, LiquidatorOpens(o) \/ LiquidatorDrops(o)
       PROVE  TransInv' /\ OneTransaction
  BY <1>14, LiquidatorOpensKeeps, LiquidatorDropsKeeps DEF OneTransaction
<1>9. CASE SettleBegins \/ SettleInserts \/ SettleLocksUsers \/ SettleLocksPositions \/ Acknowledge
  <2>1. TransInv'
    BY <1>9, SettleBeginsKeeps, SettleInsertsKeeps, SettleLocksUsersKeeps,
       SettleLocksPositionsKeeps, AcknowledgeKeeps
  <2>2. db' = db
    BY <1>9 DEF SettleBegins, SettleInserts, SettleLocksUsers, SettleLocksPositions, Acknowledge
  <2> QED  BY <2>1, <2>2
<1>10. CASE SettleEnds
  BY <1>10, SettleEndsKeeps DEF OneTransaction
<1>11. ASSUME NEW f \in Funder, FundBegins(f) \/ FundInserts(f) \/ FundLocksPositions(f)
       PROVE  TransInv' /\ db' = db
  BY <1>11, FundBeginsKeeps, FundInsertsKeeps, FundLocksPositionsKeeps
     DEF FundBegins, FundInserts, FundLocksPositions
<1>12. ASSUME NEW f \in Funder, FundEnds(f) PROVE TransInv' /\ OneTransaction
  BY <1>12, FundEndsKeeps DEF OneTransaction
<1> QED
  BY <1>1, <1>2, <1>3, <1>4, <1>5, <1>6, <1>7, <1>8, <1>9, <1>10, <1>11, <1>12, <1>13, <1>14
  DEF Next, Work

LEMMA TransStutters ==
  ASSUME TransInv, UNCHANGED vars
  PROVE  TransInv'
BY DEF vars, TransInv, TxnTypes, ResultsOK, Exclusive, Fresh, StillSo, WrittenOver,
       Unwritten, AnswersQueued, ClosingWritten, Early, TxnOK, RequestOK, WorkerOK, FunderOK, Idle, Claims, Current, CurrentOrders

(* What a transaction has read stays true until it ends, whether it has    *)
(* locked the row or only its user, but for closing orders read without a  *)
(* lock: those are as they are, or as they were before the liquidator, who *)
(* locks no user, last wrote them (triggerLiquidation).  And each row is   *)
(* locked by at most one.  For any users, orders and instances.            *)
THEOREM TransactionsInvariant == Spec => []TransInv
<1>1. Init => TransInv
  BY TransInit
<1>2. TransInv /\ [Next]_vars => TransInv'
  BY TransStep, TransStutters
<1> QED  BY <1>1, <1>2, PTL DEF Spec

(* Every commit is a whole transaction of Accounts on the tables as they   *)
(* are then, beside the liquidator's single statements too: the SELECT ... *)
(* FOR UPDATEs of settlement, funding and rollback lose no interleaving,   *)
(* and placeOrder, which reads orders without locks, none but that it may  *)
(* count closing orders of the liquidator as they were before its last     *)
(* write (PlaceOne).                                                       *)
THEOREM CommitsAreAtomic == Spec => ActsAtomically
<1>1. TransInv /\ [Next]_vars => (db' # db => OneTransaction) \/ UNCHANGED vars
  BY TransStep
<1> QED  BY <1>1, TransactionsInvariant, PTL DEF Spec, ActsAtomically

LEMMA PeriodStays ==
  ASSUME TransInv, OneTransaction, db[PeriodRow]
  PROVE  db'[PeriodRow]
<1>1. ASSUME NEW W, db' = Written(W), PeriodRow \notin DOMAIN W PROVE db'[PeriodRow]
  BY <1>1, RowsIn DEF Written, Over, TransInv
<1>2. ASSUME NEW o \in OrderId, PlaceOne(o) PROVE db'[PeriodRow]
  <2>1. PICK D : db' = Written(PlaceWrites(D, o))
    BY <1>2, WritesIs DEF PlaceOne
  <2>2. PeriodRow \notin DOMAIN PlaceWrites(D, o)
    BY RowFacts DEF PlaceWrites, OrderAndUser
  <2> QED  BY <1>1, <2>1, <2>2
<1>6. ASSUME NEW o \in Closing, OpenOne(o) \/ DropOne(o) PROVE db'[PeriodRow]
  <2>1. PICK order : db' = Written([r \in {OrderRow(o)} |-> order])
    BY <1>6, WritesIs DEF OpenOne, DropOne
  <2>2. PeriodRow \notin DOMAIN [r \in {OrderRow(o)} |-> order]
    BY RowFacts
  <2> QED  BY <1>1, <2>1, <2>2
<1>3. ASSUME NEW o \in OrderId, UndoOne(o) PROVE db'[PeriodRow]
  <2>1. PeriodRow \notin DOMAIN UndoWrites(db, o)
    BY RowFacts DEF UndoWrites, OrderAndUser
  <2> QED  BY <1>1, <1>3, <2>1, WritesIs DEF UndoOne
<1>4. ASSUME NEW n \in DOMAIN results, SettleOne(n) PROVE db'[PeriodRow]
  <2>1. results[n] \in EngineResult
    BY LenProperties, ElementOfSeq DEF TransInv, ResultsOK
  <2>2. DOMAIN SettleWrites(db, n) \subseteq {EventRow(n)} \cup SettleReads(n)
    BY <2>1, SettleReadsAll
  <2>3. PeriodRow \notin {EventRow(n)} \cup SettleReads(n)
    BY RowFacts DEF SettleReads
  <2> QED  BY <1>1, <1>4, <2>2, <2>3, WritesIs DEF SettleOne
<1>5. ~FundOne
  BY DEF FundOne
<1> QED  BY <1>2, <1>3, <1>4, <1>5, <1>6 DEF OneTransaction

(* A funding period moves money at most once: a transaction that is about  *)
(* to move it has locked the period's row and found none, and no           *)
(* transaction takes the row away (@@unique([market, period])).            *)
THEOREM PeriodFundedOnce == Spec => PeriodOnce
<1>1. ASSUME TransInv, [Next]_vars, db[PeriodRow]
      PROVE  /\ db'[PeriodRow]
             /\ \A f \in Funder : Ready(f, "positions") /\ at'[f] # at[f] => db' = db
  <2>1. db'[PeriodRow]
    <3>1. CASE db' = db
      BY <1>1, <3>1
    <3>2. CASE db' # db
      BY <1>1, <3>2, TransStep, PeriodStays DEF vars
    <3> QED  BY <3>1, <3>2
  <2>2. ASSUME NEW f \in Funder PROVE at[f] # "positions"
    BY <1>1, FunderKept DEF FunderOK
  <2> QED  BY <2>1, <2>2 DEF Ready
<1>2. TransInv /\ [Next]_vars =>
        [db[PeriodRow] => /\ db'[PeriodRow]
                          /\ \A f \in Funder : Ready(f, "positions") /\ at'[f] # at[f] => db' = db]_vars
  BY <1>1
<1> QED  BY <1>2, TransactionsInvariant, PTL DEF Spec, PeriodOnce

-----------------------------------------------------------------------------
(* Money.                                                                  *)

\* What is left of the reserve of an order.
PoolOf(D, o) == IF D[OrderRow(o)] = None THEN 0 ELSE D[OrderRow(o)].pool

Reserved(D, u) == SumFunctionOnSet([o \in OrderId |-> PoolOf(D, o)], OrdersOf(u))

Worth(D, u) == D[UserRow(u)].balance + D[UserRow(u)].locked

TotalWorth(D) == SumFunctionOnSet([u \in User |-> Worth(D, u)], User)

\* All the money there is: what the users own and what the insurance fund has.
AllMoney(D) == TotalWorth(D) + D[InsuranceRow]

\* What is locked is the margin of the position and the reserves of the orders.
UserOK(D, u) ==
  /\ D[UserRow(u)] \in [balance : Nat, locked : Nat]
  /\ D[PositionRow(u)] \in Position \cup {None}
  /\ EnteredAt(D[PositionRow(u)], Price)
  /\ D[UserRow(u)].locked = MarginOf(D[PositionRow(u)]) + Reserved(D, u)

TablesOK(D) ==
  /\ \A u \in User : UserOK(D, u)
  /\ \A o \in OrderId : D[OrderRow(o)] \in OrderValue \cup {None}
  /\ D[InsuranceRow] \in Int

HasRow(o) == db[OrderRow(o)] # None

\* Results speak of orders that have rows, trades of those of two users.
ResultsHaveRows ==
  \A n \in DOMAIN results :
    /\ \A o \in Range(results[n].ids) : HasRow(o)
    /\ results[n].kind = "trade" => OwnerOf(results[n].ids[1]) # OwnerOf(results[n].ids[2])

EnqueuedHaveRows == \A o \in OrderId : at[o] \in {"written", "queued"} => HasRow(o)

MoneyInv ==
  /\ TablesOK(db) /\ ResultsHaveRows /\ EnqueuedHaveRows
  /\ AllMoney(db) = SumFunction([u \in User |-> Deposits[u] + MarginOf(Holdings[u]) + RestingOf(u)])

(* Reserves are natural numbers, and none is more than all of the user's.  *)
LEMMA PoolFacts ==
  ASSUME NEW D, TablesOK(D)
  PROVE  /\ \A o \in OrderId : PoolOf(D, o) \in Nat
         /\ \A u \in User : /\ OrdersOf(u) \in SUBSET OrderId /\ IsFiniteSet(OrdersOf(u))
                            /\ Reserved(D, u) \in Nat /\ MarginOf(D[PositionRow(u)]) \in Nat
         /\ \A o \in OrderId : PoolOf(D, o) <= Reserved(D, OwnerOf(o))
<1> DEFINE f == [o \in OrderId |-> PoolOf(D, o)]
<1>1. \A o \in OrderId : PoolOf(D, o) \in Nat
  BY DEF TablesOK, PoolOf, OrderValue
<1>2. \A o \in OrderId : f[o] \in Nat /\ f[o] = PoolOf(D, o)
  BY <1>1
<1> HIDE DEF f
<1>3. ASSUME NEW u \in User
      PROVE  /\ OrdersOf(u) \in SUBSET OrderId /\ IsFiniteSet(OrdersOf(u))
             /\ Reserved(D, u) \in Nat /\ MarginOf(D[PositionRow(u)]) \in Nat
             /\ \A o \in OrdersOf(u) : PoolOf(D, o) <= Reserved(D, u)
  <2>1. OrdersOf(u) \in SUBSET OrderId /\ IsFiniteSet(OrdersOf(u))
    <3>1. OrdersOf(u) \in SUBSET OrderId
      BY DEF OrdersOf
    <3> QED  BY <3>1, FS_Subset, TransactionsAssumption
  <2>2. Reserved(D, u) = SumFunctionOnSet(f, OrdersOf(u))
    BY DEF Reserved, f
  <2>3. \A o \in OrdersOf(u) : f[o] \in Nat /\ f[o] \in Int
    BY <1>2, <2>1
  <2>4. Reserved(D, u) \in Nat
    BY <2>1, <2>2, <2>3, SumNat
  <2>5. ASSUME NEW o \in OrdersOf(u) PROVE PoolOf(D, o) <= Reserved(D, u)
    <3>1. SumFunctionOnSet(f, OrdersOf(u)) = f[o] + SumFunctionOnSet(f, OrdersOf(u) \ {o})
      BY <2>1, <2>3, SumElement
    <3>2. SumFunctionOnSet(f, OrdersOf(u) \ {o}) \in Nat
      <4>1. IsFiniteSet(OrdersOf(u) \ {o})
        BY <2>1, FS_RemoveElement
      <4>2. \A i \in OrdersOf(u) \ {o} : f[i] \in Nat
        BY <2>3
      <4> QED  BY <4>1, <4>2, SumNat
    <3>3. f[o] \in Nat /\ f[o] = PoolOf(D, o)
      BY <1>2, <2>1
    <3> QED  BY <2>2, <3>1, <3>2, <3>3
  <2>6. MarginOf(D[PositionRow(u)]) \in Nat
    <3>1. D[PositionRow(u)] \in Position \cup {None}
      BY DEF TablesOK, UserOK
    <3> QED  BY <3>1 DEF MarginOf, Position
  <2> QED  BY <2>1, <2>4, <2>5, <2>6
<1> QED  BY <1>1, <1>3, OwnerFacts

\* What one order may change: its row, the balances and the position of its user, and
\* the insurance fund.  Nothing is won or lost, and what is locked stays backed.
Moves(D, E, o) ==
  LET u == OwnerOf(o)
  IN  /\ \A v \in User \ {u} : E[UserRow(v)] = D[UserRow(v)] /\ E[PositionRow(v)] = D[PositionRow(v)]
      /\ \A i \in OrderId \ {o} : E[OrderRow(i)] = D[OrderRow(i)]
      /\ E[OrderRow(o)] \in OrderValue
      /\ E[UserRow(u)] \in [balance : Nat, locked : Int]
      /\ E[PositionRow(u)] \in Position \cup {None} /\ EnteredAt(E[PositionRow(u)], Price)
      /\ E[UserRow(u)].locked - MarginOf(E[PositionRow(u)]) - PoolOf(E, o)
           = D[UserRow(u)].locked - MarginOf(D[PositionRow(u)]) - PoolOf(D, o)
      /\ E[InsuranceRow] \in Int
      /\ Worth(E, u) + E[InsuranceRow] = Worth(D, u) + D[InsuranceRow]

\* From the tables D to the tables E money is kept, and orders keep their rows.
KeepsMoney(D, E) ==
  /\ TablesOK(E)
  /\ AllMoney(E) = AllMoney(D)
  /\ \A o \in OrderId : D[OrderRow(o)] # None => E[OrderRow(o)] # None

LEMMA MovesKeepMoney ==
  ASSUME NEW D, TablesOK(D), NEW E, NEW o \in OrderId, Moves(D, E, o)
  PROVE  KeepsMoney(D, E) /\ E[OrderRow(o)] # None
<1> DEFINE u == OwnerOf(o)
           f == [i \in OrderId |-> PoolOf(D, i)]
           g == [i \in OrderId |-> PoolOf(E, i)]
<1>1. u \in User /\ o \in OrdersOf(u)
  BY OwnerFacts
<1> HIDE DEF u
<1>2. /\ \A v \in User \ {u} : E[UserRow(v)] = D[UserRow(v)] /\ E[PositionRow(v)] = D[PositionRow(v)]
      /\ \A i \in OrderId \ {o} : E[OrderRow(i)] = D[OrderRow(i)]
      /\ E[OrderRow(o)] \in OrderValue
      /\ E[UserRow(u)] \in [balance : Nat, locked : Int]
      /\ E[PositionRow(u)] \in Position \cup {None} /\ EnteredAt(E[PositionRow(u)], Price)
      /\ E[UserRow(u)].locked - MarginOf(E[PositionRow(u)]) - PoolOf(E, o)
           = D[UserRow(u)].locked - MarginOf(D[PositionRow(u)]) - PoolOf(D, o)
      /\ E[InsuranceRow] \in Int
      /\ Worth(E, u) + E[InsuranceRow] = Worth(D, u) + D[InsuranceRow]
  BY DEF Moves, u
<1>3. \A i \in OrderId : D[OrderRow(i)] \in OrderValue \cup {None}
  BY DEF TablesOK
<1>4. /\ \A i \in OrderId : E[OrderRow(i)] \in OrderValue \cup {None}
      /\ E[OrderRow(o)] # None
      /\ \A i \in OrderId : D[OrderRow(i)] # None => E[OrderRow(i)] # None
  BY <1>2, <1>3, AccountsAssumption
<1>5. \A i \in OrderId : /\ f[i] \in Int /\ g[i] \in Int /\ PoolOf(E, i) \in Nat
                         /\ i # o => f[i] = g[i]
  <2>1. \A i \in OrderId : PoolOf(E, i) \in Nat /\ PoolOf(D, i) \in Nat
    BY <1>3, <1>4 DEF PoolOf, OrderValue
  <2>2. \A i \in OrderId \ {o} : PoolOf(E, i) = PoolOf(D, i)
    BY <1>2 DEF PoolOf
  <2> QED  BY <2>1, <2>2
<1>6. f[o] = PoolOf(D, o) /\ g[o] = PoolOf(E, o)
  OBVIOUS
<1>7. \A v : Reserved(D, v) = SumFunctionOnSet(f, OrdersOf(v))
             /\ Reserved(E, v) = SumFunctionOnSet(g, OrdersOf(v))
  BY DEF Reserved
<1> HIDE DEF f, g
<1>8. ASSUME NEW v \in User PROVE OrdersOf(v) \in SUBSET OrderId /\ IsFiniteSet(OrdersOf(v))
  BY PoolFacts
<1>9. ASSUME NEW v \in User, v # u PROVE UserOK(E, v)
  <2>1. o \notin OrdersOf(v)
    BY <1>9 DEF OrdersOf, u
  <2>2. \A i \in OrdersOf(v) : f[i] = g[i]
    BY <1>5, <1>8, <2>1
  <2>3. Reserved(E, v) = Reserved(D, v)
    <3>1. SumFunctionOnSet(f, OrdersOf(v)) = SumFunctionOnSet(g, OrdersOf(v))
      BY <1>8, <2>2, SumSame
    <3> QED  BY <1>7, <3>1
  <2>4. UserOK(D, v)
    BY DEF TablesOK
  <2> QED  BY <1>2, <1>9, <2>3, <2>4 DEF UserOK
<1>10. UserOK(E, u)
  <2>1. Reserved(E, u) = Reserved(D, u) + PoolOf(E, o) - PoolOf(D, o)
    <3>1. /\ \A i \in OrdersOf(u) : f[i] \in Int /\ g[i] \in Int
          /\ \A i \in OrdersOf(u) \ {o} : f[i] = g[i]
          /\ IsFiniteSet(OrdersOf(u))
      BY <1>1, <1>5, <1>8
    <3>2. SumFunctionOnSet(g, OrdersOf(u)) = SumFunctionOnSet(f, OrdersOf(u)) + g[o] - f[o]
      BY <1>1, <3>1, SumChange
    <3> QED  BY <1>6, <1>7, <3>2
  <2>2. /\ D[UserRow(u)].locked = MarginOf(D[PositionRow(u)]) + Reserved(D, u)
        /\ D[UserRow(u)].locked \in Nat
    BY <1>1 DEF TablesOK, UserOK
  <2>3. Reserved(D, u) \in Nat /\ MarginOf(D[PositionRow(u)]) \in Nat /\ PoolOf(D, o) \in Nat
    BY <1>1, PoolFacts
  <2>4. MarginOf(E[PositionRow(u)]) \in Nat /\ PoolOf(E, o) \in Nat
    BY <1>2, <1>5 DEF MarginOf, Position
  <2>5. E[UserRow(u)].locked \in Int /\ E[UserRow(u)].balance \in Nat
    BY <1>2
  <2>6. E[UserRow(u)].locked = MarginOf(E[PositionRow(u)]) + Reserved(E, u)
    BY <1>2, <2>1, <2>2, <2>3, <2>4, <2>5
  <2>7. Reserved(E, u) \in Nat
    <3>1. \A i \in OrdersOf(u) : g[i] \in Nat
      <4>1. \A i \in OrderId : g[i] = PoolOf(E, i)
        BY DEF g
      <4> QED  BY <1>1, <1>5, <1>8, <4>1
    <3> QED  BY <1>1, <1>7, <1>8, <3>1, SumNat
  <2>8. E[UserRow(u)] \in [balance : Nat, locked : Nat]
    BY <1>2, <2>4, <2>6, <2>7
  <2> QED  BY <1>2, <2>6, <2>8 DEF UserOK
<1>11. AllMoney(E) = AllMoney(D)
  <2> DEFINE d == [v \in User |-> Worth(D, v)]
             e == [v \in User |-> Worth(E, v)]
  <2>1. \A v \in User \ {u} : d[v] = e[v]
    BY <1>2 DEF Worth
  <2>2. TotalWorth(E) = SumFunctionOnSet(e, User) /\ TotalWorth(D) = SumFunctionOnSet(d, User)
    BY DEF TotalWorth
  <2>3. ASSUME NEW v \in User PROVE d[v] \in Int /\ e[v] \in Int
    <3>1. UserOK(D, v) /\ UserOK(E, v)
      BY <1>9, <1>10 DEF TablesOK
    <3> QED  BY <3>1 DEF UserOK, Worth
  <2>4. e[u] + E[InsuranceRow] = d[u] + D[InsuranceRow]
    BY <1>1, <1>2
  <2>5. E[InsuranceRow] \in Int /\ D[InsuranceRow] \in Int
    BY <1>2 DEF TablesOK
  <2> HIDE DEF d, e
  <2>6. IsFiniteSet(User)
    BY TransactionsAssumption
  <2>7. SumFunctionOnSet(e, User) = SumFunctionOnSet(d, User) + e[u] - d[u]
    BY <1>1, <2>1, <2>3, <2>6, SumChange
  <2>8. SumFunctionOnSet(d, User) \in Int
    BY <2>3, <2>6, SumInt
  <2> QED  BY <1>1, <2>2, <2>3, <2>4, <2>5, <2>7, <2>8 DEF AllMoney
<1>12. TablesOK(E)
  BY <1>2, <1>4, <1>9, <1>10 DEF TablesOK
<1> QED  BY <1>4, <1>11, <1>12 DEF KeepsMoney

(* Tables that agree on users, positions, orders and the insurance fund     *)
(* hold the same money.                                                    *)
LEMMA SameKeepsMoney ==
  ASSUME NEW D, TablesOK(D), NEW E, E[InsuranceRow] = D[InsuranceRow],
         \A u \in User : E[UserRow(u)] = D[UserRow(u)] /\ E[PositionRow(u)] = D[PositionRow(u)],
         \A o \in OrderId : E[OrderRow(o)] = D[OrderRow(o)]
  PROVE  KeepsMoney(D, E)
<1>1. \A o \in OrderId : PoolOf(E, o) = PoolOf(D, o)
  BY DEF PoolOf
<1>2. [o \in OrderId |-> PoolOf(E, o)] = [o \in OrderId |-> PoolOf(D, o)]
  BY <1>1
<1>3. \A u : Reserved(E, u) = Reserved(D, u)
  BY <1>2 DEF Reserved
<1>4. [u \in User |-> Worth(E, u)] = [u \in User |-> Worth(D, u)]
  BY DEF Worth
<1>5. TotalWorth(E) = TotalWorth(D)
  BY <1>4 DEF TotalWorth
<1> QED  BY <1>3, <1>5 DEF KeepsMoney, TablesOK, UserOK, AllMoney

LEMMA WrittenAt ==
  ASSUME DOMAIN db = Rows, NEW W, db' = Written(W), NEW r \in Rows
  PROVE  db'[r] = IF r \in DOMAIN W THEN W[r] ELSE db[r]
BY DEF Written, Over

LEMMA ReserveNat ==
  /\ FullReserve \in Nat
  /\ \A D, o : ReserveOf(D, o) \in Nat
<1>1. FullReserve \in Nat
  BY RoundNat, AccountsAssumption DEF FullReserve
<1>2. ASSUME NEW D, NEW o PROVE ReserveOf(D, o) \in Nat
  <2>1. Opening(D, o) \in {0, 1}
    BY DEF Opening
  <2> QED  BY <1>1, <2>1 DEF ReserveOf
<1> QED  BY <1>1, <1>2

(* An order and the balances of its user are written.                      *)
LEMMA OrderAndUserMoves ==
  ASSUME TablesOK(db), DOMAIN db = Rows, NEW o \in OrderId,
         NEW order \in OrderValue, NEW user \in [balance : Nat, locked : Int],
         db' = Written(OrderAndUser(o, order, user))
         \/ \E n, v : db' = Written(Over([r \in {EventRow(n)} |-> v], OrderAndUser(o, order, user))),
         user.balance + user.locked = Worth(db, OwnerOf(o)),
         user.locked - order.pool = db[UserRow(OwnerOf(o))].locked - PoolOf(db, o)
  PROVE  KeepsMoney(db, db') /\ db'[OrderRow(o)] # None
<1> DEFINE u == OwnerOf(o)
           W == OrderAndUser(o, order, user)
<1>1. u \in User /\ UserRow(u) # OrderRow(o)
  BY OwnerFacts, RowFacts
<1>2. /\ DOMAIN W = {OrderRow(o), UserRow(u)}
      /\ W[OrderRow(o)] = order /\ W[UserRow(u)] = user
  BY <1>1 DEF OrderAndUser
<1> HIDE DEF W
<1>3. PICK V : /\ db' = Written(V)
               /\ \A r : r \in DOMAIN W => r \in DOMAIN V
               /\ \A r : r \in DOMAIN V /\ (\A n : r # EventRow(n)) => r \in DOMAIN W
               /\ \A r : r \in DOMAIN V /\ (\A n : r # EventRow(n)) => V[r] = W[r]
  <2>1. CASE db' = Written(W)
    BY <2>1
  <2>2. ASSUME NEW n, NEW v, db' = Written(Over([r \in {EventRow(n)} |-> v], W))
        PROVE  \E V : /\ db' = Written(V)
                      /\ \A r : r \in DOMAIN W => r \in DOMAIN V
                      /\ \A r : r \in DOMAIN V /\ (\A k : r # EventRow(k)) => r \in DOMAIN W
                      /\ \A r : r \in DOMAIN V /\ (\A k : r # EventRow(k)) => V[r] = W[r]
    <3> DEFINE V == Over([r \in {EventRow(n)} |-> v], W)
    <3>1. /\ DOMAIN V = {EventRow(n)} \cup DOMAIN W
          /\ \A r \in DOMAIN W : r # EventRow(n) => V[r] = W[r]
      BY DEF Over
    <3> HIDE DEF V
    <3>2. /\ \A r : r \in DOMAIN W => r \in DOMAIN V
          /\ \A r : r \in DOMAIN V /\ (\A k : r # EventRow(k)) => r \in DOMAIN W
          /\ \A r : r \in DOMAIN V /\ (\A k : r # EventRow(k)) => V[r] = W[r]
      BY <3>1
    <3>3. db' = Written(V)
      BY <2>2 DEF V
    <3> QED  BY <3>2, <3>3
  <2> QED  BY <2>1, <2>2 DEF W
<1>4. ASSUME NEW r \in Rows, \A n : r # EventRow(n)
      PROVE  db'[r] = IF r \in {OrderRow(o), UserRow(u)} THEN W[r] ELSE db[r]
  BY <1>2, <1>3, <1>4, WrittenAt
<1>5. /\ \A v \in User : v # u => db'[UserRow(v)] = db[UserRow(v)]
      /\ \A v \in User : db'[PositionRow(v)] = db[PositionRow(v)]
      /\ \A i \in OrderId : i # o => db'[OrderRow(i)] = db[OrderRow(i)]
      /\ db'[OrderRow(o)] = order /\ db'[UserRow(u)] = user
      /\ db'[InsuranceRow] = db[InsuranceRow]
  <2>1. ASSUME NEW v \in User PROVE /\ v # u => db'[UserRow(v)] = db[UserRow(v)]
                                    /\ db'[PositionRow(v)] = db[PositionRow(v)]
    <3>1. UserRow(v) \in Rows /\ \A n : UserRow(v) # EventRow(n)
      BY RowsIn, RowFacts
    <3>2. PositionRow(v) \in Rows /\ \A n : PositionRow(v) # EventRow(n)
      BY RowsIn, RowFacts
    <3>3. PositionRow(v) \notin {OrderRow(o), UserRow(u)}
          /\ (v # u => UserRow(v) \notin {OrderRow(o), UserRow(u)})
      BY RowFacts
    <3> QED  BY <1>4, <3>1, <3>2, <3>3
  <2>2. ASSUME NEW i \in OrderId PROVE i # o => db'[OrderRow(i)] = db[OrderRow(i)]
    <3>1. OrderRow(i) \in Rows /\ \A n : OrderRow(i) # EventRow(n)
      BY RowsIn, RowFacts
    <3>2. i # o => OrderRow(i) \notin {OrderRow(o), UserRow(u)}
      BY RowFacts
    <3> QED  BY <1>4, <3>1, <3>2
  <2>3. db'[OrderRow(o)] = order
    <3>1. OrderRow(o) \in Rows /\ \A n : OrderRow(o) # EventRow(n)
      BY RowsIn, RowFacts
    <3> QED  BY <1>2, <1>4, <3>1
  <2>4. db'[UserRow(u)] = user
    <3>1. UserRow(u) \in Rows /\ \A n : UserRow(u) # EventRow(n)
      BY <1>1, RowsIn, RowFacts
    <3> QED  BY <1>2, <1>4, <3>1
  <2>5. db'[InsuranceRow] = db[InsuranceRow]
    <3>1. InsuranceRow \in Rows /\ \A n : InsuranceRow # EventRow(n)
      BY RowsIn, RowFacts
    <3>2. InsuranceRow \notin {OrderRow(o), UserRow(u)}
      BY RowFacts
    <3> QED  BY <1>4, <3>1, <3>2
  <2> QED  BY <2>1, <2>2, <2>3, <2>4, <2>5
<1>6. /\ db[PositionRow(u)] \in Position \cup {None} /\ EnteredAt(db[PositionRow(u)], Price)
      /\ db[UserRow(u)] \in [balance : Nat, locked : Nat]
  BY <1>1 DEF TablesOK, UserOK
<1>7. PoolOf(db', o) = order.pool /\ order.pool \in Nat
  BY <1>5, AccountsAssumption DEF PoolOf, OrderValue
<1>8. /\ Worth(db', u) + db'[InsuranceRow] = Worth(db, u) + db[InsuranceRow]
      /\ db'[InsuranceRow] \in Int
  BY <1>5 DEF Worth, TablesOK
<1>9. db'[UserRow(u)].locked - MarginOf(db'[PositionRow(u)]) - PoolOf(db', o)
        = db[UserRow(u)].locked - MarginOf(db[PositionRow(u)]) - PoolOf(db, o)
  <2>1. MarginOf(db[PositionRow(u)]) \in Int /\ PoolOf(db, o) \in Int
    BY <1>1, PoolFacts
  <2>2. user.locked \in Int /\ db[UserRow(u)].locked \in Int
    BY <1>6
  <2>3. db'[PositionRow(u)] = db[PositionRow(u)] /\ db'[UserRow(u)].locked = user.locked
    BY <1>1, <1>5
  <2> QED  BY <1>7, <2>1, <2>2, <2>3
<1>10. Moves(db, db', o)
  BY <1>1, <1>5, <1>6, <1>8, <1>9 DEF Moves
<1> QED  BY <1>10, MovesKeepMoney

LEMMA PlaceKeepsMoney ==
  ASSUME TablesOK(db), DOMAIN db = Rows, NEW o \in OrderId \ Closing, PlaceOne(o)
  PROVE  KeepsMoney(db, db') /\ db'[OrderRow(o)] # None
<1>0. PICK D : /\ D[UserRow(OwnerOf(o))] = db[UserRow(OwnerOf(o))]
               /\ db[OrderRow(o)] = None /\ Affordable(D, o)
               /\ db' = Written(PlaceWrites(D, o))
  <2>1. PICK stale \in SUBSET Closing : \E was \in [stale -> {None, NewClosing}] :
          LET D == Over([r \in {OrderRow(c) : c \in stale} |-> was[r[2]]], db)
          IN  /\ db[OrderRow(o)] = None /\ Affordable(D, o)
              /\ Writes(PlaceWrites(D, o))
    BY DEF PlaceOne
  <2>2. PICK was \in [stale -> {None, NewClosing}] :
          LET D == Over([r \in {OrderRow(c) : c \in stale} |-> was[r[2]]], db)
          IN  /\ db[OrderRow(o)] = None /\ Affordable(D, o)
              /\ Writes(PlaceWrites(D, o))
    BY <2>1
  <2> DEFINE D == Over([r \in {OrderRow(c) : c \in stale} |-> was[r[2]]], db)
             row == UserRow(OwnerOf(o))
  <2>3. row \in DOMAIN db /\ row \notin {OrderRow(c) : c \in stale}
    BY OwnerFacts, RowsIn, RowFacts
  <2>4. D[row] = db[row]
    BY <2>3 DEF Over
  <2>5. db[OrderRow(o)] = None /\ Affordable(D, o) /\ db' = Written(PlaceWrites(D, o))
    BY <2>2, WritesIs
  <2> HIDE DEF D
  <2> QED  BY <2>4, <2>5
<1> DEFINE u == OwnerOf(o)
           reserve == ReserveOf(D, o)
           order == [status |-> "open", pool |-> reserve]
           user == [balance |-> db[UserRow(u)].balance - reserve,
                    locked |-> db[UserRow(u)].locked + reserve]
<1>1. /\ db[UserRow(u)].balance \in Nat /\ db[UserRow(u)].locked \in Nat
  BY OwnerFacts DEF TablesOK, UserOK
<1>2. reserve \in Nat /\ reserve <= db[UserRow(u)].balance
  BY <1>0, ReserveNat DEF Affordable
<1>3. PoolOf(db, o) = 0
  BY <1>0 DEF PoolOf
<1>4. db' = Written(OrderAndUser(o, order, user))
  BY <1>0 DEF PlaceWrites
<1> HIDE DEF reserve
<1>5. order \in OrderValue /\ order.pool = reserve
  BY <1>2 DEF OrderValue
<1>6. /\ user \in [balance : Nat, locked : Int]
      /\ user.balance + user.locked = Worth(db, u)
      /\ user.locked - order.pool = db[UserRow(u)].locked - PoolOf(db, o)
  BY <1>1, <1>2, <1>3, <1>5 DEF Worth
<1> HIDE DEF order, user
<1> QED  BY <1>4, <1>5, <1>6, OrderAndUserMoves

(* What the rollback of an order gives back was reserved for it.           *)
LEMMA UndoKeepsMoney ==
  ASSUME TablesOK(db), DOMAIN db = Rows, NEW o \in OrderId, UndoOne(o)
  PROVE  KeepsMoney(db, db')
<1> DEFINE u == OwnerOf(o)
           pool == db[OrderRow(o)].pool
           order == [status |-> "rejected", pool |-> 0]
           user == [balance |-> db[UserRow(u)].balance + pool,
                    locked |-> Positive(db[UserRow(u)].locked - pool)]
<1>1. /\ db[UserRow(u)].balance \in Nat /\ db[UserRow(u)].locked \in Nat
      /\ db[UserRow(u)].locked = MarginOf(db[PositionRow(u)]) + Reserved(db, u)
  BY OwnerFacts DEF TablesOK, UserOK
<1>2. pool = PoolOf(db, o)
  BY DEF UndoOne, IsOpen, PoolOf
<1>3. pool \in Nat /\ pool <= db[UserRow(u)].locked
  BY <1>1, <1>2, OwnerFacts, PoolFacts
<1>4. db' = Written(OrderAndUser(o, order, user))
  BY WritesIs DEF UndoOne, UndoWrites
<1> HIDE DEF pool
<1>5. order \in OrderValue /\ order.pool = 0
  BY DEF OrderValue
<1>6. /\ user \in [balance : Nat, locked : Int]
      /\ user.balance + user.locked = Worth(db, u)
      /\ user.locked - order.pool = db[UserRow(u)].locked - PoolOf(db, o)
  BY <1>1, <1>2, <1>3, <1>5 DEF Worth, Positive
<1> HIDE DEF order, user
<1> QED  BY <1>4, <1>5, <1>6, OrderAndUserMoves

LEMMA CancelKeepsMoney ==
  ASSUME TablesOK(db), DOMAIN db = Rows, NEW o \in OrderId, IsOpen(db, o), NEW n,
         db' = Written(Over([r \in {EventRow(n)} |-> TRUE], CancelWrites(db, o)))
  PROVE  KeepsMoney(db, db')
<1> DEFINE u == OwnerOf(o)
           pool == db[OrderRow(o)].pool
           order == [status |-> IF o \in Closing THEN "rejected" ELSE "cancelled", pool |-> 0]
           user == [balance |-> db[UserRow(u)].balance + pool,
                    locked |-> db[UserRow(u)].locked - pool]
<1>1. /\ db[UserRow(u)].balance \in Nat /\ db[UserRow(u)].locked \in Nat
  BY OwnerFacts DEF TablesOK, UserOK
<1>2. pool = PoolOf(db, o)
  BY DEF IsOpen, PoolOf
<1>3. pool \in Nat
  BY <1>2, PoolFacts
<1>4. CancelWrites(db, o) = OrderAndUser(o, order, user)
  BY DEF CancelWrites
<1> HIDE DEF pool
<1>5. order \in OrderValue /\ order.pool = 0
  BY DEF OrderValue
<1>6. /\ user \in [balance : Nat, locked : Int]
      /\ user.balance + user.locked = Worth(db, u)
      /\ user.locked - order.pool = db[UserRow(u)].locked - PoolOf(db, o)
  BY <1>1, <1>2, <1>3, <1>5 DEF Worth
<1> HIDE DEF order, user
<1> QED  BY <1>4, <1>5, <1>6, OrderAndUserMoves

(* One row of an order that reserves nothing is written, by the liquidator. *)
LEMMA ClosingMoves ==
  ASSUME TablesOK(db), DOMAIN db = Rows, NEW o \in OrderId, PoolOf(db, o) = 0,
         NEW order \in OrderValue, order.pool = 0,
         Writes([r \in {OrderRow(o)} |-> order])
  PROVE  KeepsMoney(db, db') /\ db'[OrderRow(o)] # None
<1> DEFINE u == OwnerOf(o)
<1>1. ASSUME NEW r \in Rows PROVE db'[r] = IF r = OrderRow(o) THEN order ELSE db[r]
  <2> DEFINE W == [e \in {OrderRow(o)} |-> order]
  <2>1. r \in DOMAIN W <=> r = OrderRow(o)
    OBVIOUS
  <2>2. r = OrderRow(o) => W[r] = order
    OBVIOUS
  <2>3. db' = Written(W)
    BY WritesIs
  <2> HIDE DEF W
  <2> QED  BY <2>1, <2>2, <2>3, WrittenAt
<1>2. /\ \A v \in User : db'[UserRow(v)] = db[UserRow(v)] /\ db'[PositionRow(v)] = db[PositionRow(v)]
      /\ \A i \in OrderId \ {o} : db'[OrderRow(i)] = db[OrderRow(i)]
      /\ db'[OrderRow(o)] = order /\ db'[InsuranceRow] = db[InsuranceRow]
  BY <1>1, RowsIn, RowFacts
<1>3. PoolOf(db', o) = 0
  BY <1>2, AccountsAssumption DEF PoolOf
<1>4. UserOK(db, u) /\ u \in User
  BY OwnerFacts DEF TablesOK
<1>5. Worth(db', u) = Worth(db, u)
  BY <1>2, <1>4 DEF Worth
<1>6. Moves(db, db', o)
  BY <1>2, <1>3, <1>4, <1>5 DEF Moves, UserOK, TablesOK
<1> QED  BY <1>6, MovesKeepMoney

(* The liquidator's orders reserve nothing: opening and dropping one moves  *)
(* no money.                                                               *)
LEMMA LiquidatorKeepsMoney ==
  ASSUME TablesOK(db), DOMAIN db = Rows, NEW o \in OrderId, OpenOne(o) \/ DropOne(o)
  PROVE  KeepsMoney(db, db') /\ db'[OrderRow(o)] # None
<1>1. /\ NewClosing \in OrderValue /\ NewClosing.pool = 0
      /\ DroppedClosing \in OrderValue /\ DroppedClosing.pool = 0
  BY DEF NewClosing, DroppedClosing, OrderValue
<1>2. PoolOf(db, o) = 0
  BY <1>1 DEF OpenOne, DropOne, PoolOf
<1> QED  BY <1>1, <1>2, ClosingMoves DEF OpenOne, DropOne

(* An account settled at the price of its position: what is locked stays   *)
(* backed, nothing is reserved any more, and what the user loses is the    *)
(* insurance fund's.                                                       *)
LEMMA SettledAccount ==
  ASSUME TablesOK(db), NEW o \in OrderId, HasRow(o)
  PROVE  LET a == AccountOf(db, o)
             b == Filled(db, o)
         IN  /\ b \in Account /\ b.pool = 0
             /\ EnteredAt(b.position, Price)
             /\ b.balance + b.locked + b.insurance = a.balance + a.locked
             /\ b.locked - b.pool - MarginOf(b.position) = a.locked - a.pool - MarginOf(a.position)
<1> DEFINE u == OwnerOf(o)
           a == AccountOf(db, o)
           closing == (o \in Closing)
           b == SettleSide(a, Price, 1, Lev, closing, Direction(o))
<1>1. UserOK(db, u) /\ db[OrderRow(o)] \in OrderValue
  BY OwnerFacts DEF TablesOK, HasRow
<1>2. a \in Account /\ EnteredAt(a.position, Price)
  BY <1>1 DEF AccountOf, Account, UserOK, OrderValue
<1>3. a.fees = 0 /\ a.insurance = 0
  BY DEF AccountOf
<1>4. /\ Price \in Nat /\ Lev \in Nat \ {0} /\ FeeNum = 0 /\ 1 \in Nat \ {0} /\ closing \in BOOLEAN
      /\ Direction(o) \in {1, -1}
  BY AccountsAssumption DEF Direction
<1> HIDE DEF a, closing
<1>5. /\ Profit(a.position, Price, 1, Direction(o)) = 0
      /\ b.fees = a.fees /\ EnteredAt(b.position, Price)
  <2> DEFINE dir == Direction(o)
  <2>1. dir \in {1, -1}
    BY <1>4
  <2> HIDE DEF dir
  <2>2. /\ Profit(a.position, Price, 1, dir) = 0
        /\ SettleSide(a, Price, 1, Lev, closing, dir).fees = a.fees
        /\ EnteredAt(SettleSide(a, Price, 1, Lev, closing, dir).position, Price)
    BY <1>2, <1>4, <2>1, SideAtEntry
  <2> QED  BY <2>2 DEF dir
<1>6. Moved(a, b, Profit(a.position, Price, 1, Direction(o)), Direction(o) * 1)
  BY <1>2, <1>4, SettleSideMovesMoney
<1> HIDE DEF b
<1>7. b \in Account /\ Money(b) = Money(a) + 0 /\ Unbacked(b) = Unbacked(a)
  BY <1>5, <1>6 DEF Moved
<1> DEFINE c == Refunded(b)
<1>8. Moved(b, c, 0, 0) /\ c.pool = 0
  BY <1>7, RefundMovesMoney
<1>9. c.fees = b.fees /\ c.insurance = b.insurance /\ c.position = b.position
  BY <1>7 DEF Refunded, Account
<1> HIDE DEF c
<1>10. c \in Account /\ Money(c) = Money(b) + 0 /\ Unbacked(c) = Unbacked(b)
  BY <1>8 DEF Moved
<1>11. /\ a.balance \in Int /\ a.locked \in Int /\ b.balance \in Int /\ b.locked \in Int
       /\ c.balance \in Int /\ c.locked \in Int /\ c.insurance \in Int
  BY <1>2, <1>7, <1>10 DEF Account
<1>12. c.balance + c.locked + c.insurance = a.balance + a.locked
  BY <1>3, <1>5, <1>7, <1>9, <1>10, <1>11 DEF Money
<1>13. c.locked - c.pool - MarginOf(c.position) = a.locked - a.pool - MarginOf(a.position)
  BY <1>7, <1>10 DEF Unbacked
<1>14. EnteredAt(c.position, Price)
  BY <1>5, <1>9
<1>15. Filled(db, o) = c
  BY DEF Filled, b, c, a, closing
<1> QED  BY <1>8, <1>10, <1>12, <1>13, <1>14, <1>15 DEF a

(* A trade settles its two orders, of two users, one after the other.      *)
LEMMA FillKeepsMoney ==
  ASSUME TablesOK(db), DOMAIN db = Rows, NEW b \in OrderId, NEW s \in OrderId,
         OwnerOf(b) # OwnerOf(s), HasRow(b), HasRow(s), NEW n,
         db' = Written(Over([r \in {EventRow(n)} |-> TRUE], FillWrites(db, {b, s})))
  PROVE  KeepsMoney(db, db')
<1> DEFINE F == FillWrites(db, {b, s})
<1>1. \A r : ~(r \in FilledRows(b) /\ r \in FilledRows(s))
  BY RowFacts DEF FilledRows
<1>0. /\ InsuranceRow \notin FilledRows(b) \cup FilledRows(s)
      /\ b # s
  BY RowFacts DEF FilledRows
<1>2. /\ DOMAIN F = {InsuranceRow} \cup FilledRows(b) \cup FilledRows(s)
      /\ F[InsuranceRow] = db[InsuranceRow] + SumFunction([o \in {b, s} |-> Filled(db, o).insurance])
      /\ \A o \in {b, s} : /\ F[OrderRow(o)] = [status |-> "filled", pool |-> Filled(db, o).pool]
                           /\ F[UserRow(OwnerOf(o))]
                                = [balance |-> Filled(db, o).balance, locked |-> Filled(db, o).locked]
                           /\ F[PositionRow(OwnerOf(o))] = Filled(db, o).position
  <2> DEFINE value(r, o) ==
               CASE r = OrderRow(o)             -> [status |-> "filled", pool |-> Filled(db, o).pool]
                 [] r = UserRow(OwnerOf(o))     -> [balance |-> Filled(db, o).balance,
                                                    locked |-> Filled(db, o).locked]
                 [] r = PositionRow(OwnerOf(o)) -> Filled(db, o).position
             who(r) == CHOOSE i \in {b, s} : r \in FilledRows(i)
             after == [o \in {b, s} |-> Filled(db, o)]
  <2>0. [o \in {b, s} |-> after[o].insurance] = [o \in {b, s} |-> Filled(db, o).insurance]
    OBVIOUS
  <2>1. /\ DOMAIN F = {InsuranceRow} \cup UNION {FilledRows(o) : o \in {b, s}}
        /\ F[InsuranceRow] = db[InsuranceRow] + SumFunction([o \in {b, s} |-> after[o].insurance])
    BY DEF FillWrites
  <2>2. UNION {FilledRows(o) : o \in {b, s}} = FilledRows(b) \cup FilledRows(s)
    OBVIOUS
  <2>3. ASSUME NEW r \in FilledRows(b) \cup FilledRows(s)
        PROVE  F[r] = value(r, who(r))
    <3>1. who(r) \in {b, s}
      OBVIOUS
    <3>2. F[r] = CASE r = OrderRow(who(r)) -> [status |-> "filled", pool |-> after[who(r)].pool]
                   [] r = UserRow(OwnerOf(who(r))) -> [balance |-> after[who(r)].balance,
                                                       locked |-> after[who(r)].locked]
                   [] r = PositionRow(OwnerOf(who(r))) -> after[who(r)].position
      BY <1>0, <2>2 DEF FillWrites
    <3>3. after[who(r)] = Filled(db, who(r))
      BY <3>1
    <3> HIDE DEF after, who
    <3> QED  BY <3>2, <3>3
  <2>4. ASSUME NEW o \in {b, s}, NEW r \in FilledRows(o)
        PROVE  r \in FilledRows(b) \cup FilledRows(s) /\ who(r) = o
    BY <1>1
  <2> HIDE DEF F, who
  <2>5. ASSUME NEW o \in {b, s}, NEW r \in FilledRows(o) PROVE F[r] = value(r, o)
    BY <2>3, <2>4
  <2>6. ASSUME NEW o \in {b, s}
        PROVE  /\ F[OrderRow(o)] = [status |-> "filled", pool |-> Filled(db, o).pool]
               /\ F[UserRow(OwnerOf(o))]
                    = [balance |-> Filled(db, o).balance, locked |-> Filled(db, o).locked]
               /\ F[PositionRow(OwnerOf(o))] = Filled(db, o).position
    <3>1. /\ OrderRow(o) \in FilledRows(o) /\ UserRow(OwnerOf(o)) \in FilledRows(o)
          /\ PositionRow(OwnerOf(o)) \in FilledRows(o)
      BY DEF FilledRows
    <3>2. /\ OrderRow(o) # UserRow(OwnerOf(o)) /\ OrderRow(o) # PositionRow(OwnerOf(o))
          /\ UserRow(OwnerOf(o)) # PositionRow(OwnerOf(o))
      BY RowFacts
    <3>3. /\ value(OrderRow(o), o) = [status |-> "filled", pool |-> Filled(db, o).pool]
          /\ value(UserRow(OwnerOf(o)), o)
               = [balance |-> Filled(db, o).balance, locked |-> Filled(db, o).locked]
          /\ value(PositionRow(OwnerOf(o)), o) = Filled(db, o).position
      BY <3>2
    <3> HIDE DEF value
    <3> QED  BY <2>5, <3>1, <3>3
  <2> QED  BY <2>0, <2>1, <2>2, <2>6
<1> HIDE DEF F
<1>3. ASSUME NEW r \in Rows, \A k : r # EventRow(k)
      PROVE  db'[r] = IF r \in {InsuranceRow} \cup FilledRows(b) \cup FilledRows(s)
                      THEN F[r] ELSE db[r]
  <2> DEFINE V == Over([e \in {EventRow(n)} |-> TRUE], F)
  <2>1. /\ r \in DOMAIN V <=> r \in DOMAIN F
        /\ r \in DOMAIN F => V[r] = F[r]
    BY <1>3 DEF Over
  <2>2. db' = Written(V)
    BY DEF F
  <2> HIDE DEF V
  <2> QED  BY <1>2, <2>1, <2>2, WrittenAt
<1> DEFINE gain(o) == Filled(db, o).insurance
           D == [r \in Rows |-> IF r = InsuranceRow THEN db[r] + gain(b)
                                ELSE IF r \in FilledRows(b) THEN F[r] ELSE db[r]]
<1>31. ASSUME NEW o \in {b, s} PROVE gain(o) \in Int
  BY SettledAccount DEF Account
<1>32. F[InsuranceRow] = db[InsuranceRow] + (gain(b) + gain(s))
  <2> DEFINE f == [o \in {b, s} |-> Filled(db, o).insurance]
  <2>1. f[b] = gain(b) /\ f[s] = gain(s) /\ \A o \in {b, s} : f[o] \in Int
    BY <1>31
  <2>3. F[InsuranceRow] = db[InsuranceRow] + SumFunction(f) /\ DOMAIN f = {b, s}
    BY <1>2
  <2> HIDE DEF f, gain
  <2>2. SumFunction(f) = SumFunctionOnSet(f, {b, s})
    BY <2>3 DEF SumFunction
  <2>4. IsFiniteSet({b, s}) /\ {b, s} \ {b} = {s}
    <3>1. IsFiniteSet({b})
      BY FS_Singleton
    <3>2. IsFiniteSet({b} \cup {s})
      BY <3>1, FS_AddElement
    <3>3. {b, s} = {b} \cup {s} /\ {b, s} \ {b} = {s}
      BY <1>0
    <3> QED  BY <3>2, <3>3
  <2>5. SumFunctionOnSet(f, {b, s}) = f[b] + SumFunctionOnSet(f, {s})
    <3>1. b \in {b, s} /\ \A x \in {b, s} : f[x] \in Int
      BY <2>1
    <3>2. SumFunctionOnSet(f, {b, s}) = f[b] + SumFunctionOnSet(f, {b, s} \ {b})
      BY ONLY <2>4, <3>1, SumElement
    <3> QED  BY <2>4, <3>2
  <2>6. SumFunctionOnSet(f, {s}) = f[s]
    <3>1. /\ IsFiniteSet({s}) /\ s \in {s} /\ {s} \ {s} = {}
          /\ \A x \in {s} : f[x] \in Int
      BY <2>1, FS_Singleton
    <3>2. SumFunctionOnSet(f, {s}) = f[s] + SumFunctionOnSet(f, {s} \ {s})
      BY ONLY <3>1, SumElement
    <3>3. SumFunctionOnSet(f, {}) = 0 /\ f[s] \in Int
      BY <3>1, SumEmpty
    <3> QED  BY <3>1, <3>2, <3>3
  <2> QED  BY <2>1, <2>2, <2>3, <2>5, <2>6
<1> HIDE DEF gain
<1>4. /\ \A v \in User : /\ v # OwnerOf(b) => D[UserRow(v)] = db[UserRow(v)]
                                              /\ D[PositionRow(v)] = db[PositionRow(v)]
      /\ \A i \in OrderId : i # b => D[OrderRow(i)] = db[OrderRow(i)]
      /\ D[UserRow(OwnerOf(b))] = F[UserRow(OwnerOf(b))]
      /\ D[PositionRow(OwnerOf(b))] = F[PositionRow(OwnerOf(b))]
      /\ D[OrderRow(b)] = F[OrderRow(b)]
      /\ D[InsuranceRow] = db[InsuranceRow] + gain(b)
  <2>1. /\ \A v \in User : v # OwnerOf(b) => UserRow(v) \notin FilledRows(b)
                                              /\ PositionRow(v) \notin FilledRows(b)
        /\ \A i \in OrderId : i # b => OrderRow(i) \notin FilledRows(b)
        /\ UserRow(OwnerOf(b)) \in FilledRows(b) /\ PositionRow(OwnerOf(b)) \in FilledRows(b)
        /\ OrderRow(b) \in FilledRows(b)
    BY RowFacts DEF FilledRows
  <2>2. /\ \A v \in User : UserRow(v) # InsuranceRow /\ PositionRow(v) # InsuranceRow
        /\ \A i \in OrderId : OrderRow(i) # InsuranceRow
    BY RowFacts
  <2> QED  BY <2>1, <2>2, RowsIn, OwnerFacts
<1>5. /\ \A v \in User : /\ v # OwnerOf(s) => db'[UserRow(v)] = D[UserRow(v)]
                                              /\ db'[PositionRow(v)] = D[PositionRow(v)]
      /\ \A i \in OrderId : i # s => db'[OrderRow(i)] = D[OrderRow(i)]
      /\ db'[UserRow(OwnerOf(s))] = F[UserRow(OwnerOf(s))]
      /\ db'[PositionRow(OwnerOf(s))] = F[PositionRow(OwnerOf(s))]
      /\ db'[OrderRow(s)] = F[OrderRow(s)]
      /\ db'[InsuranceRow] = F[InsuranceRow]
  <2>1. /\ \A v \in User : v # OwnerOf(s) => UserRow(v) \notin FilledRows(s)
                                              /\ PositionRow(v) \notin FilledRows(s)
        /\ \A i \in OrderId : i # s => OrderRow(i) \notin FilledRows(s)
        /\ UserRow(OwnerOf(s)) \in FilledRows(s) /\ PositionRow(OwnerOf(s)) \in FilledRows(s)
        /\ OrderRow(s) \in FilledRows(s)
    BY RowFacts DEF FilledRows
  <2>2. ASSUME NEW r \in Rows, \A k : r # EventRow(k), r # InsuranceRow
        PROVE  db'[r] = IF r \in FilledRows(s) THEN F[r] ELSE D[r]
    BY <1>3, <2>2
  <2>5. db'[InsuranceRow] = F[InsuranceRow]
    BY <1>3, RowsIn, RowFacts
  <2>6. /\ \A v \in User : UserRow(v) # InsuranceRow /\ PositionRow(v) # InsuranceRow
        /\ \A i \in OrderId : OrderRow(i) # InsuranceRow
    BY RowFacts
  <2>3. \A v \in User : /\ UserRow(v) \in Rows /\ \A k : UserRow(v) # EventRow(k)
                        /\ PositionRow(v) \in Rows /\ \A k : PositionRow(v) # EventRow(k)
    BY RowsIn, RowFacts
  <2>4. \A i \in OrderId : OrderRow(i) \in Rows /\ \A k : OrderRow(i) # EventRow(k)
    BY RowsIn, RowFacts
  <2> HIDE DEF D
  <2> QED  BY <2>1, <2>2, <2>3, <2>4, <2>5, <2>6, OwnerFacts
<1> HIDE DEF D
<1>6. ASSUME NEW o \in {b, s}
      PROVE  /\ F[OrderRow(o)] \in OrderValue /\ F[OrderRow(o)] # None /\ F[OrderRow(o)].pool = 0
             /\ F[UserRow(OwnerOf(o))] \in [balance : Nat, locked : Int]
             /\ F[PositionRow(OwnerOf(o))] \in Position \cup {None}
             /\ EnteredAt(F[PositionRow(OwnerOf(o))], Price)
             /\ F[UserRow(OwnerOf(o))].locked - MarginOf(F[PositionRow(OwnerOf(o))]) - 0
                  = db[UserRow(OwnerOf(o))].locked - MarginOf(db[PositionRow(OwnerOf(o))])
                      - PoolOf(db, o)
             /\ F[UserRow(OwnerOf(o))].balance + F[UserRow(OwnerOf(o))].locked + gain(o)
                  = Worth(db, OwnerOf(o))
  <2> DEFINE a == AccountOf(db, o)
             c == Filled(db, o)
             u == OwnerOf(o)
  <2>1. /\ c \in Account /\ c.pool = 0
        /\ EnteredAt(c.position, Price)
        /\ c.balance + c.locked + c.insurance = a.balance + a.locked
        /\ c.locked - c.pool - MarginOf(c.position) = a.locked - a.pool - MarginOf(a.position)
    BY SettledAccount
  <2>2. /\ a.balance = db[UserRow(u)].balance /\ a.locked = db[UserRow(u)].locked
        /\ a.position = db[PositionRow(u)] /\ a.pool = PoolOf(db, o)
    BY DEF AccountOf, PoolOf, HasRow
  <2>3. /\ F[OrderRow(o)] = [status |-> "filled", pool |-> 0]
        /\ F[UserRow(u)] = [balance |-> c.balance, locked |-> c.locked]
        /\ F[PositionRow(u)] = c.position
    BY <1>2, <2>1
  <2>4. /\ MarginOf(db[PositionRow(u)]) \in Int /\ PoolOf(db, o) \in Int
        /\ db[UserRow(u)].locked \in Int
    BY OwnerFacts, PoolFacts DEF TablesOK, UserOK
  <2> HIDE DEF a, c, u
  <2>5. c.balance \in Nat /\ c.locked \in Int /\ c.position \in Position \cup {None}
        /\ MarginOf(c.position) \in Int
    BY <2>1 DEF Account, MarginOf, Position
  <2>6. F[OrderRow(o)] \in OrderValue /\ F[OrderRow(o)].pool = 0
    BY <2>3 DEF OrderValue
  <2>7. /\ F[UserRow(u)] \in [balance : Nat, locked : Int]
        /\ F[UserRow(u)].balance = c.balance /\ F[UserRow(u)].locked = c.locked
    BY <2>3, <2>5
  <2>8. c.locked - MarginOf(c.position) - 0
          = db[UserRow(u)].locked - MarginOf(db[PositionRow(u)]) - PoolOf(db, o)
    BY <2>1, <2>2, <2>4, <2>5
  <2>9. c.balance + c.locked + gain(o) = Worth(db, u)
    BY <2>1, <2>2 DEF Worth, gain, c
  <2> QED  BY <2>1, <2>3, <2>5, <2>6, <2>7, <2>8, <2>9, AccountsAssumption DEF u
<1>7. Moves(db, D, b)
  <2> DEFINE u == OwnerOf(b)
  <2>1. PoolOf(D, b) = 0
    BY <1>4, <1>6 DEF PoolOf
  <2>2. /\ Worth(D, u) + D[InsuranceRow] = Worth(db, u) + db[InsuranceRow]
        /\ D[InsuranceRow] \in Int
    <3>1. /\ D[UserRow(u)] = F[UserRow(u)] /\ gain(b) \in Int
          /\ F[UserRow(u)].balance \in Int /\ F[UserRow(u)].locked \in Int
          /\ F[UserRow(u)].balance + F[UserRow(u)].locked + gain(b) = Worth(db, u)
      BY <1>4, <1>6, <1>31
    <3>2. D[InsuranceRow] = db[InsuranceRow] + gain(b) /\ db[InsuranceRow] \in Int
      BY <1>4 DEF TablesOK
    <3> HIDE DEF u
    <3> QED  BY <3>1, <3>2 DEF Worth
  <2>3. D[UserRow(u)].locked - MarginOf(D[PositionRow(u)]) - PoolOf(D, b)
          = db[UserRow(u)].locked - MarginOf(db[PositionRow(u)]) - PoolOf(db, b)
    BY <1>4, <1>6, <2>1
  <2> QED  BY <1>4, <1>6, <2>2, <2>3 DEF Moves
<1>8. Moves(D, db', s)
  <2> DEFINE u == OwnerOf(s)
  <2>1. /\ D[UserRow(u)] = db[UserRow(u)] /\ D[PositionRow(u)] = db[PositionRow(u)]
        /\ D[OrderRow(s)] = db[OrderRow(s)]
    BY <1>4, OwnerFacts
  <2>2. PoolOf(db', s) = 0 /\ PoolOf(D, s) = PoolOf(db, s)
    BY <1>5, <1>6, <2>1 DEF PoolOf
  <2>3. /\ Worth(db', u) + db'[InsuranceRow] = Worth(D, u) + D[InsuranceRow]
        /\ db'[InsuranceRow] \in Int
    <3>1. /\ db'[UserRow(u)] = F[UserRow(u)] /\ gain(s) \in Int /\ gain(b) \in Int
          /\ F[UserRow(u)].balance \in Int /\ F[UserRow(u)].locked \in Int
          /\ F[UserRow(u)].balance + F[UserRow(u)].locked + gain(s) = Worth(db, u)
      BY <1>5, <1>6, <1>31
    <3>2. /\ D[InsuranceRow] = db[InsuranceRow] + gain(b) /\ db[InsuranceRow] \in Int
          /\ db'[InsuranceRow] = db[InsuranceRow] + (gain(b) + gain(s))
      BY <1>4, <1>5, <1>32 DEF TablesOK
    <3>3. Worth(D, u) = Worth(db, u)
      BY <2>1 DEF Worth
    <3> HIDE DEF u
    <3> QED  BY <3>1, <3>2, <3>3 DEF Worth
  <2>4. db'[UserRow(u)].locked - MarginOf(db'[PositionRow(u)]) - PoolOf(db', s)
          = D[UserRow(u)].locked - MarginOf(D[PositionRow(u)]) - PoolOf(D, s)
    BY <1>5, <1>6, <2>1, <2>2
  <2> QED  BY <1>5, <1>6, <2>3, <2>4 DEF Moves
<1>9. KeepsMoney(db, D)
  BY <1>7, MovesKeepMoney
<1>10. KeepsMoney(D, db')
  <2>1. TablesOK(D)
    BY <1>9 DEF KeepsMoney
  <2> QED  BY <1>8, <2>1, MovesKeepMoney
<1> QED  BY <1>9, <1>10 DEF KeepsMoney

(* Settling a result keeps the money.                                      *)
LEMMA SettleKeepsMoney ==
  ASSUME TransInv, TablesOK(db), ResultsHaveRows, NEW n \in DOMAIN results, SettleOne(n)
  PROVE  KeepsMoney(db, db')
<1> DEFINE res == results[n]
           mark == [r \in {EventRow(n)} |-> TRUE]
<1>1. res \in EngineResult /\ DOMAIN db = Rows
  BY LenProperties, ElementOfSeq DEF TransInv, ResultsOK
<1>2. db' = Written(SettleWrites(db, n))
  BY WritesIs DEF SettleOne
<1>3. \A o \in Range(res.ids) : HasRow(o)
  BY DEF ResultsHaveRows
<1>4. \A k \in DOMAIN res.ids : res.ids[k] \in OrderId /\ res.ids[k] \in Range(res.ids)
  <2>1. res.ids \in Seq(OrderId)
    BY <1>1 DEF EngineResult
  <2> QED  BY <2>1, LenProperties, ElementOfSeq DEF Range
<1>5. ASSUME SettleWrites(db, n) = Over(mark, <<>>) PROVE KeepsMoney(db, db')
  <2>1. DOMAIN Over(mark, <<>>) = {EventRow(n)}
    BY DEF Over
  <2>2. ASSUME NEW r \in Rows, r # EventRow(n) PROVE db'[r] = db[r]
    BY <1>1, <1>2, <1>5, <2>1, <2>2, WrittenAt
  <2>3. \A u \in User : db'[UserRow(u)] = db[UserRow(u)] /\ db'[PositionRow(u)] = db[PositionRow(u)]
    BY <2>2, RowsIn, RowFacts
  <2>4. /\ \A o \in OrderId : db'[OrderRow(o)] = db[OrderRow(o)]
        /\ db'[InsuranceRow] = db[InsuranceRow]
    BY <2>2, RowsIn, RowFacts
  <2> QED  BY <2>3, <2>4, SameKeepsMoney
<1>6. CASE res.kind = "not_open"
  <2>1. SettleWrites(db, n) = Over(mark, <<>>)
    BY <1>6 DEF SettleWrites
  <2> QED  BY <1>5, <2>1
<1>7. CASE res.kind = "cancel"
  <2>1. SettleWrites(db, n) = Over(mark, CancelWrites(db, res.ids[1]))
    BY <1>7 DEF SettleWrites
  <2>2. res.ids[1] \in OrderId
    <3>1. Len(res.ids) = 1 /\ res.ids \in Seq(OrderId)
      BY <1>1, <1>7 DEF EngineResult
    <3> QED  BY <3>1, LenProperties, ElementOfSeq
  <2>3. CASE IsOpen(db, res.ids[1])
    BY <1>1, <1>2, <2>1, <2>2, <2>3, CancelKeepsMoney
  <2>4. CASE ~IsOpen(db, res.ids[1])
    <3>1. CancelWrites(db, res.ids[1]) = <<>>
      BY <2>4 DEF CancelWrites
    <3> QED  BY <1>5, <2>1, <3>1
  <2> QED  BY <2>3, <2>4
<1>8. CASE res.kind = "trade"
  <2> DEFINE b == res.ids[1]
             s == res.ids[2]
  <2>1. Len(res.ids) = 2 /\ DOMAIN res.ids = 1..2
    <3>1. Len(res.ids) = 2 /\ res.ids \in Seq(OrderId)
      BY <1>1, <1>8 DEF EngineResult
    <3> QED  BY <3>1, LenProperties
  <2>2. Range(res.ids) = {b, s}
    BY <2>1 DEF Range
  <2>3. b \in OrderId /\ s \in OrderId /\ HasRow(b) /\ HasRow(s)
    BY <1>3, <1>4, <2>1
  <2>4. OwnerOf(b) # OwnerOf(s)
    BY <1>8 DEF ResultsHaveRows
  <2>5. SettleWrites(db, n) = Over(mark, FillWrites(db, {b, s}))
    BY <1>8, <2>2 DEF SettleWrites
  <2> HIDE DEF b, s
  <2>6. db' = Written(Over([r \in {EventRow(n)} |-> TRUE], FillWrites(db, {b, s})))
    BY <1>2, <2>5
  <2> QED  BY <1>1, <2>3, <2>4, <2>6, FillKeepsMoney
<1>9. res.kind \in {"trade", "cancel", "not_open"}
  BY <1>1 DEF EngineResult
<1> QED  BY <1>6, <1>7, <1>8, <1>9

(* A funding period keeps the money, whoever is locked or holds anything.  *)
LEMMA FundKeepsMoney ==
  ASSUME TablesOK(db), DOMAIN db = Rows, FundOne
  PROVE  KeepsMoney(db, db')
<1>1. PICK users \in SUBSET User : \E holders \in SUBSET users, num \in Rates, last \in User :
        /\ \A u \in holders : db[PositionRow(u)] # None
        /\ IsLast(db, holders, num, last)
        /\ db' = Written(FundWrites(db, users, holders, num, last))
  BY WritesIs DEF FundOne
<1>2. PICK holders \in SUBSET users, num \in Rates, last \in User :
        /\ \A u \in holders : db[PositionRow(u)] # None
        /\ IsLast(db, holders, num, last)
        /\ db' = Written(FundWrites(db, users, holders, num, last))
  BY <1>1
<1> DEFINE positions == PositionsOf(db, holders)
           before == [u \in users |-> db[UserRow(u)]]
           payers == Payers(positions, holders, num)
           after == Funded(before, positions, holders, Price, num, last)
           mark == [r \in {PeriodRow} |-> TRUE]
           W == [r \in {UserRow(u) : u \in users} \cup {PositionRow(u) : u \in holders} |->
                   IF r[1] = "user" THEN after.users[r[2]] ELSE after.positions[r[2]]]
<1>3. FundWrites(db, users, holders, num, last)
        = Over(mark, IF payers = {} \/ payers = holders THEN <<>> ELSE W)
  BY DEF FundWrites
<1>4. CASE payers = {} \/ payers = holders
  <2>1. db' = Written(Over(mark, <<>>))
    BY <1>2, <1>3, <1>4
  <2>2. DOMAIN Over(mark, <<>>) = {PeriodRow}
    BY DEF Over
  <2>3. ASSUME NEW r \in Rows, r # PeriodRow PROVE db'[r] = db[r]
    BY <2>1, <2>2, <2>3, WrittenAt
  <2>4. \A u \in User : db'[UserRow(u)] = db[UserRow(u)] /\ db'[PositionRow(u)] = db[PositionRow(u)]
    BY <2>3, RowsIn, RowFacts
  <2>5. /\ \A o \in OrderId : db'[OrderRow(o)] = db[OrderRow(o)]
        /\ db'[InsuranceRow] = db[InsuranceRow]
    BY <2>3, RowsIn, RowFacts
  <2> QED  BY <2>4, <2>5, SameKeepsMoney
<1>5. CASE ~(payers = {} \/ payers = holders)
  <2>1. db' = Written(Over(mark, W))
    BY <1>2, <1>3, <1>5
  <2>2. /\ \A u \in User : UserOK(db, u)
        /\ \A u \in users : u \in User
        /\ \A u \in holders : u \in users
    BY DEF TablesOK
  <2>3. /\ DOMAIN positions = holders
        /\ \A u \in holders : positions[u] = db[PositionRow(u)] /\ db[PositionRow(u)] \in Position
    BY <1>2, <2>2 DEF PositionsOf, UserOK
  <2>4. \A u \in users : before[u] = db[UserRow(u)]
    OBVIOUS
  <2>5. Shifted(users, before, positions, holders, after)
    <3>1. IsFiniteSet(users)
      BY FS_Subset, TransactionsAssumption
    <3>2. before \in [users -> [balance : Nat, locked : Nat]]
      BY <2>2 DEF UserOK
    <3>3. ASSUME NEW u \in holders
          PROVE  positions[u] \in Position /\ positions[u].margin <= before[u].locked
      <4>1. u \in User /\ UserOK(db, u) /\ db[PositionRow(u)] \in Position
        BY <2>2, <2>3
      <4>2. MarginOf(db[PositionRow(u)]) = db[PositionRow(u)].margin
        BY <4>1, SettlementAssumption DEF MarginOf
      <4>3. Reserved(db, u) \in Nat /\ db[PositionRow(u)].margin \in Nat
        BY <4>1, PoolFacts DEF Position
      <4>4. db[PositionRow(u)].margin <= db[UserRow(u)].locked
        BY <4>1, <4>2, <4>3 DEF UserOK
      <4> QED  BY <2>2, <2>3, <2>4, <4>1, <4>4
    <3>4. holders \in SUBSET users /\ holders \subseteq DOMAIN positions
      BY <2>3
    <3>5. last \in holders \ Payers(positions, holders, num)
      BY <1>2, <1>5 DEF IsLast
    <3>6. Price \in Nat /\ num \in Int
      BY AccountsAssumption
    <3> HIDE DEF positions, before, payers
    <3> QED  BY <3>1, <3>2, <3>3, <3>4, <3>5, <3>6, FundedMoves
  <2> HIDE DEF after, positions, before, payers
  <2>6. /\ \A u \in users : after.users[u] \in [balance : Nat, locked : Nat]
        /\ \A u \in users : u \notin holders => after.users[u] = before[u]
        /\ \A u \in holders : Lessened(positions[u], after.positions[u],
                                       before[u].locked - after.users[u].locked)
    BY <2>5 DEF Shifted
  <2>7. PICK e : /\ SumFunctionOnSet(e, users) = 0
                 /\ \A u \in users : /\ e[u] \in Int
                                     /\ after.users[u].balance + after.users[u].locked
                                          = before[u].balance + before[u].locked + e[u]
    BY <2>5 DEF Shifted
  <2>8. /\ DOMAIN W = {UserRow(u) : u \in users} \cup {PositionRow(u) : u \in holders}
        /\ \A u \in users : W[UserRow(u)] = after.users[u]
        /\ \A u \in holders : W[PositionRow(u)] = after.positions[u]
    BY DEF UserRow, PositionRow
  <2> HIDE DEF W
  <2>9. ASSUME NEW r \in Rows, r # PeriodRow PROVE db'[r] = IF r \in DOMAIN W THEN W[r] ELSE db[r]
    <3>1. /\ r \in DOMAIN Over(mark, W) <=> r \in DOMAIN W
          /\ r \in DOMAIN W => Over(mark, W)[r] = W[r]
      BY <2>9 DEF Over
    <3> HIDE DEF mark
    <3> QED  BY <2>1, <3>1, WrittenAt
  <2>10. ASSUME NEW u \in User
         PROVE  /\ db'[UserRow(u)] = IF u \in users THEN after.users[u] ELSE db[UserRow(u)]
                /\ db'[PositionRow(u)] = IF u \in holders THEN after.positions[u]
                                         ELSE db[PositionRow(u)]
    <3>1. /\ UserRow(u) \in Rows /\ UserRow(u) # PeriodRow
          /\ PositionRow(u) \in Rows /\ PositionRow(u) # PeriodRow
      BY RowsIn, RowFacts
    <3>2. /\ UserRow(u) \in DOMAIN W <=> u \in users
          /\ PositionRow(u) \in DOMAIN W <=> u \in holders
      BY <2>8, RowFacts
    <3> QED  BY <2>8, <2>9, <3>1, <3>2
  <2>11. ASSUME NEW o \in OrderId PROVE db'[OrderRow(o)] = db[OrderRow(o)]
    <3>1. OrderRow(o) \in Rows /\ OrderRow(o) # PeriodRow /\ OrderRow(o) \notin DOMAIN W
      BY <2>8, RowsIn, RowFacts
    <3> QED  BY <2>9, <3>1
  <2>16. db'[InsuranceRow] = db[InsuranceRow] /\ db'[InsuranceRow] \in Int
    <3>1. InsuranceRow \in Rows /\ InsuranceRow # PeriodRow /\ InsuranceRow \notin DOMAIN W
      BY <2>8, RowsIn, RowFacts
    <3>2. db[InsuranceRow] \in Int
      BY DEF TablesOK
    <3> QED  BY <2>9, <3>1, <3>2
  <2>12. \A u : Reserved(db', u) = Reserved(db, u)
    <3>1. \A o \in OrderId : PoolOf(db', o) = PoolOf(db, o)
      BY <2>11 DEF PoolOf
    <3>2. [o \in OrderId |-> PoolOf(db', o)] = [o \in OrderId |-> PoolOf(db, o)]
      BY <3>1
    <3> QED  BY <3>2 DEF Reserved
  <2>13. ASSUME NEW u \in User PROVE UserOK(db', u)
    <3>1. UserOK(db, u)
      BY <2>2
    <3>2. CASE u \in holders
      <4> DEFINE pos == db[PositionRow(u)]
                 left == after.positions[u]
                 was == db[UserRow(u)].locked
                 is == after.users[u].locked
      <4>1. /\ pos \in Position /\ Lessened(pos, left, was - is)
            /\ u \in users /\ after.users[u] \in [balance : Nat, locked : Nat]
            /\ db'[UserRow(u)] = after.users[u] /\ db'[PositionRow(u)] = left
        BY <2>2, <2>3, <2>4, <2>6, <2>10, <3>2
      <4>2. was \in Nat /\ is \in Nat /\ Reserved(db, u) \in Nat
        BY <3>1, <4>1, PoolFacts DEF UserOK
      <4>3. /\ left \in Position /\ left.margin = pos.margin - (was - is) /\ left.entry = pos.entry
            /\ left # None /\ pos # None /\ pos.margin \in Nat
        BY <4>1, SettlementAssumption DEF Lessened, Position
      <4>4. was = pos.margin + Reserved(db, u)
        BY <3>1, <4>3 DEF UserOK, MarginOf
      <4>5. is = MarginOf(left) + Reserved(db, u)
        <5>1. MarginOf(left) = left.margin
          BY <4>3 DEF MarginOf
        <5> HIDE DEF was, is, left, pos
        <5> QED  BY <4>2, <4>3, <4>4, <5>1
      <4>6. EnteredAt(left, Price)
        BY <3>1, <4>3 DEF UserOK, EnteredAt
      <4> QED  BY <2>12, <4>1, <4>3, <4>5, <4>6 DEF UserOK
    <3>3. CASE u \notin holders
      <4>1. db'[UserRow(u)] = db[UserRow(u)] /\ db'[PositionRow(u)] = db[PositionRow(u)]
        BY <2>4, <2>6, <2>10, <3>3
      <4> QED  BY <2>12, <3>1, <4>1 DEF UserOK
    <3> QED  BY <3>2, <3>3
  <2>14. TotalWorth(db') = TotalWorth(db)
    <3> DEFINE f == [u \in User |-> Worth(db, u)]
               g == [u \in User |-> Worth(db', u)]
               d == [u \in User |-> IF u \in users THEN e[u] ELSE 0]
    <3>1. ASSUME NEW u \in User PROVE f[u] \in Int /\ d[u] \in Int /\ g[u] = f[u] + d[u]
      <4>1. /\ db[UserRow(u)].balance \in Int /\ db[UserRow(u)].locked \in Int
            /\ f[u] = db[UserRow(u)].balance + db[UserRow(u)].locked
            /\ g[u] = db'[UserRow(u)].balance + db'[UserRow(u)].locked
        BY <2>2 DEF UserOK, Worth
      <4>2. CASE u \in users
        <5>1. d[u] = e[u] /\ e[u] \in Int
          BY <2>7, <4>2
        <5>2. db'[UserRow(u)] = after.users[u] /\ before[u] = db[UserRow(u)]
          BY <2>4, <2>10, <4>2
        <5> HIDE DEF f, g, d
        <5> QED  BY <2>7, <4>1, <4>2, <5>1, <5>2
      <4>3. CASE u \notin users
        <5>1. d[u] = 0 /\ db'[UserRow(u)] = db[UserRow(u)]
          BY <2>10, <4>3
        <5> HIDE DEF f, g, d
        <5> QED  BY <4>1, <5>1
      <4> QED  BY <4>2, <4>3
    <3>2. TotalWorth(db) = SumFunctionOnSet(f, User) /\ TotalWorth(db') = SumFunctionOnSet(g, User)
      BY DEF TotalWorth
    <3>3. /\ \A u \in users : d[u] = e[u]
          /\ \A u \in User : u \notin users => d[u] = 0
      BY <2>2
    <3> HIDE DEF f, g, d
    <3>4. IsFiniteSet(User) /\ IsFiniteSet(users) /\ users \in SUBSET User
      BY FS_Subset, TransactionsAssumption
    <3>5. SumFunctionOnSet(d, users) = 0
      BY <2>7, <3>3, <3>4, SumSame
    <3>6. SumFunctionOnSet(d, users) = SumFunctionOnSet(d, User)
      BY <3>1, <3>3, <3>4, SumRest
    <3>7. SumFunctionOnSet(g, User) = SumFunctionOnSet(f, User) + SumFunctionOnSet(d, User)
      BY <3>1, <3>4, SumPlus
    <3>8. SumFunctionOnSet(f, User) \in Int
      BY <3>1, <3>4, SumInt
    <3> QED  BY <3>2, <3>5, <3>6, <3>7, <3>8
  <2>15. TablesOK(db')
    BY <2>11, <2>13, <2>16 DEF TablesOK
  <2> QED  BY <2>11, <2>14, <2>15, <2>16 DEF KeepsMoney, AllMoney
<1> QED  BY <1>4, <1>5

LEMMA OneTransactionKeepsMoney ==
  ASSUME TransInv, TablesOK(db), ResultsHaveRows, OneTransaction
  PROVE  KeepsMoney(db, db')
<1>1. DOMAIN db = Rows
  BY DEF TransInv
<1>2. Closing \subseteq OrderId
  BY TransactionsAssumption
<1> QED
  BY <1>1, <1>2, PlaceKeepsMoney, UndoKeepsMoney, LiquidatorKeepsMoney, SettleKeepsMoney, FundKeepsMoney
  DEF OneTransaction

-----------------------------------------------------------------------------
(* Money over all steps.                                                   *)

(* A resting order has its reserve, and nothing else is reserved.          *)
LEMMA RestingReserved ==
  ASSUME Init, NEW u \in User
  PROVE  /\ Reserved(db, u) = RestingOf(u)
         /\ \A o \in OrderId : db[OrderRow(o)] =
              IF o \in Resting THEN [status |-> "open", pool |-> FullReserve] ELSE None
<1> DEFINE f == [o \in OrderId |-> PoolOf(db, o)]
           S == OrdersOf(u)
           T == S \cap Resting
<1>1. ASSUME NEW o \in OrderId
      PROVE  db[OrderRow(o)] =
               IF o \in Resting THEN [status |-> "open", pool |-> FullReserve] ELSE None
  <2>1. OrderRow(o) \in Rows /\ OrderRow(o)[1] = "order" /\ OrderRow(o)[2] = o
    BY RowsIn DEF OrderRow
  <2> QED  BY <2>1 DEF Init, AccountsInit
<1>2. [status |-> "open", pool |-> FullReserve] \in OrderValue
  BY ReserveNat DEF OrderValue
<1>3. \A o \in OrderId : f[o] = IF o \in Resting THEN FullReserve ELSE 0
  BY <1>1, <1>2, AccountsAssumption DEF PoolOf
<1>4. S \subseteq OrderId /\ IsFiniteSet(S) /\ T \in SUBSET S /\ IsFiniteSet(T)
  <2>1. S \subseteq OrderId /\ T \subseteq OrderId
    BY DEF OrdersOf
  <2> QED  BY <2>1, FS_Subset, TransactionsAssumption
<1>5. Reserved(db, u) = SumFunctionOnSet(f, S) /\ RestingOf(u) = FullReserve * Cardinality(T)
  BY DEF Reserved, RestingOf
<1>6. /\ \A o \in S : f[o] \in Int /\ (o \notin T => f[o] = 0)
      /\ \A o \in T : f[o] = FullReserve
      /\ FullReserve \in Int
  BY <1>3, <1>4, ReserveNat
<1> HIDE DEF f, S, T
<1>7. SumFunctionOnSet(f, T) = SumFunctionOnSet(f, S)
  BY <1>4, <1>6, SumRest
<1>8. SumFunctionOnSet(f, T) = FullReserve * Cardinality(T)
  BY <1>4, <1>6, SumConstant
<1> QED  BY <1>1, <1>5, <1>7, <1>8

LEMMA MoneyInit ==
  ASSUME Init
  PROVE  MoneyInv
<1> DEFINE initial == [u \in User |-> Deposits[u] + MarginOf(Holdings[u]) + RestingOf(u)]
           worth == [u \in User |-> Worth(db, u)]
<1>1. ASSUME NEW u \in User
      PROVE  /\ db[UserRow(u)] = [balance |-> Deposits[u],
                                  locked |-> MarginOf(Holdings[u]) + RestingOf(u)]
             /\ db[PositionRow(u)] = Holdings[u]
             /\ RestingOf(u) \in Nat /\ MarginOf(Holdings[u]) \in Nat /\ Deposits[u] \in Nat
             /\ Holdings[u] \in Position \cup {None} /\ EnteredAt(Holdings[u], Price)
  <2>1. /\ UserRow(u) \in Rows /\ UserRow(u)[1] = "user" /\ UserRow(u)[2] = u
        /\ PositionRow(u) \in Rows /\ PositionRow(u)[1] = "position" /\ PositionRow(u)[2] = u
    BY RowsIn DEF UserRow, PositionRow
  <2>2. /\ db[UserRow(u)] = [balance |-> Deposits[u],
                             locked |-> MarginOf(Holdings[u]) + RestingOf(u)]
        /\ db[PositionRow(u)] = Holdings[u]
    BY <2>1 DEF Init, AccountsInit
  <2>3. /\ Deposits[u] \in Nat /\ Holdings[u] \in Position \cup {None}
        /\ EnteredAt(Holdings[u], Price)
    BY AccountsAssumption DEF EnteredAt
  <2>4. MarginOf(Holdings[u]) \in Nat
    BY <2>3 DEF MarginOf, Position
  <2>5. RestingOf(u) \in Nat
    <3>1. IsFiniteSet(OrdersOf(u) \cap Resting)
      <4>1. OrdersOf(u) \cap Resting \subseteq OrderId
        BY DEF OrdersOf
      <4> QED  BY <4>1, FS_Subset, TransactionsAssumption
    <3>2. Cardinality(OrdersOf(u) \cap Resting) \in Nat
      BY <3>1, FS_CardinalityType
    <3> QED  BY <3>2, ReserveNat DEF RestingOf
  <2> QED  BY <2>2, <2>3, <2>4, <2>5
<1>2. ASSUME NEW u \in User
      PROVE  UserOK(db, u) /\ worth[u] = initial[u]
  <2> DEFINE margin == MarginOf(Holdings[u])
  <2>1. /\ db[UserRow(u)] = [balance |-> Deposits[u], locked |-> margin + RestingOf(u)]
        /\ db[PositionRow(u)] = Holdings[u]
        /\ RestingOf(u) \in Nat /\ margin \in Nat /\ Deposits[u] \in Nat
        /\ Holdings[u] \in Position \cup {None} /\ EnteredAt(Holdings[u], Price)
    BY <1>1
  <2>2. Reserved(db, u) = RestingOf(u)
    BY RestingReserved
  <2>3. MarginOf(db[PositionRow(u)]) = margin
    BY <2>1
  <2> HIDE DEF margin
  <2>4. /\ db[UserRow(u)].balance = Deposits[u]
        /\ db[UserRow(u)].locked = margin + RestingOf(u)
        /\ db[UserRow(u)] \in [balance : Nat, locked : Nat]
    BY <2>1
  <2>5. UserOK(db, u)
    BY <2>1, <2>2, <2>3, <2>4 DEF UserOK
  <2>6. worth[u] = db[UserRow(u)].balance + db[UserRow(u)].locked
    BY DEF Worth
  <2>7. initial[u] = Deposits[u] + margin + RestingOf(u)
    BY DEF margin
  <2>8. worth[u] = initial[u]
    BY <2>1, <2>4, <2>6, <2>7
  <2> QED  BY <2>5, <2>8
<1>3. ASSUME NEW o \in OrderId
      PROVE  /\ db[OrderRow(o)] \in OrderValue \cup {None}
             /\ at[o] \in {"written", "queued"} => HasRow(o)
  <2>1. db[OrderRow(o)] =
          IF o \in Resting THEN [status |-> "open", pool |-> FullReserve] ELSE None
    BY OwnerFacts, RestingReserved
  <2>2. [status |-> "open", pool |-> FullReserve] \in OrderValue
    BY ReserveNat DEF OrderValue
  <2>3. at[o] \in {"written", "queued"} => o \in Resting
    BY TxnFacts DEF Init
  <2> QED  BY <2>1, <2>2, <2>3, AccountsAssumption DEF HasRow
<1>4. ResultsHaveRows
  <2>1. DOMAIN results = {}
    BY DEF Init, AccountsInit
  <2> QED  BY <2>1 DEF ResultsHaveRows
<1>7. db[InsuranceRow] = 0
  <2>1. InsuranceRow \in Rows /\ InsuranceRow[1] = "insurance"
    BY RowsIn DEF InsuranceRow
  <2> QED  BY <2>1 DEF Init, AccountsInit
<1>5. AllMoney(db) = SumFunction(initial)
  <2>1. \A u \in User : worth[u] = initial[u]
    BY <1>2
  <2>2. TotalWorth(db) = SumFunctionOnSet(worth, User)
    BY DEF TotalWorth
  <2>3. SumFunction(initial) = SumFunctionOnSet(initial, User)
    BY DEF SumFunction
  <2>4. \A u \in User : worth[u] \in Int
    BY <1>2 DEF UserOK, Worth
  <2> HIDE DEF worth, initial
  <2>5. SumFunctionOnSet(worth, User) \in Int
    BY <2>4, SumInt, TransactionsAssumption
  <2>6. SumFunctionOnSet(worth, User) = SumFunctionOnSet(initial, User)
    BY <2>1, SumSame, TransactionsAssumption
  <2> QED  BY <1>7, <2>2, <2>3, <2>5, <2>6 DEF AllMoney
<1>6. TablesOK(db)
  BY <1>2, <1>3, <1>7 DEF TablesOK
<1> QED  BY <1>3, <1>4, <1>5, <1>6 DEF MoneyInv, EnqueuedHaveRows

LEMMA PublishedHaveRows ==
  ASSUME TransInv, MoneyInv, NEW kind, NEW ids, Publish(kind, ids),
         \A o \in Range(ids) : HasRow(o),
         kind = "trade" => OwnerOf(ids[1]) # OwnerOf(ids[2])
  PROVE  ResultsHaveRows'
<1>1. /\ results \in Seq(EngineResult) /\ Len(results) \in Nat
      /\ results' = Append(results, [kind |-> kind, ids |-> ids]) /\ db' = db
  BY LenProperties DEF TransInv, ResultsOK, Publish
<1>2. /\ DOMAIN results = 1..Len(results) /\ DOMAIN results' = 1..(Len(results) + 1)
      /\ \A n \in 1..Len(results) : results'[n] = results[n]
      /\ results'[Len(results) + 1] = [kind |-> kind, ids |-> ids]
  BY <1>1
<1>3. ASSUME NEW n \in DOMAIN results'
      PROVE  /\ \A o \in Range(results'[n].ids) : db'[OrderRow(o)] # None
             /\ results'[n].kind = "trade" =>
                  OwnerOf(results'[n].ids[1]) # OwnerOf(results'[n].ids[2])
  <2>1. CASE n \in DOMAIN results
    BY <1>1, <1>2, <2>1 DEF MoneyInv, ResultsHaveRows, HasRow
  <2>2. CASE n = Len(results) + 1
    BY <1>1, <1>2, <2>2 DEF HasRow
  <2> QED  BY <1>1, <1>2, <2>1, <2>2
<1> QED  BY <1>3 DEF ResultsHaveRows, HasRow

(* The engine answers requests that are in its stream, or can be seen.     *)
LEMMA ResultsStayBacked ==
  ASSUME TransInv, MoneyInv, Next, KeepsMoney(db, db')
  PROVE  ResultsHaveRows'
<1>1. CASE results' = results
  <2>1. ASSUME NEW n \in DOMAIN results
        PROVE  /\ \A o \in Range(results[n].ids) : db'[OrderRow(o)] # None
               /\ results[n].kind = "trade" =>
                    OwnerOf(results[n].ids[1]) # OwnerOf(results[n].ids[2])
    <3>1. /\ \A o \in Range(results[n].ids) : db[OrderRow(o)] # None
          /\ results[n].kind = "trade" =>
               OwnerOf(results[n].ids[1]) # OwnerOf(results[n].ids[2])
      BY DEF MoneyInv, ResultsHaveRows, HasRow
    <3>2. Range(results[n].ids) \subseteq OrderId
      <4>1. results[n] \in EngineResult
        BY LenProperties, ElementOfSeq DEF TransInv, ResultsOK
      <4>2. results[n].ids \in Seq(OrderId)
        BY <4>1 DEF EngineResult
      <4> QED  BY <4>2, LenProperties, ElementOfSeq DEF Range
    <3> QED  BY <3>1, <3>2 DEF KeepsMoney
  <2> QED  BY <1>1, <2>1 DEF ResultsHaveRows, HasRow
<1>2. ASSUME NEW b \in OrderId, NEW s \in OrderId, Trade(b, s) PROVE ResultsHaveRows'
  <2> DEFINE ids == <<b, s>>
  <2>1. Range(ids) = {b, s} /\ ids[1] = b /\ ids[2] = s
    BY DEF Range
  <2>2. HasRow(b) /\ HasRow(s) /\ OwnerOf(b) # OwnerOf(s) /\ Publish("trade", ids)
    BY <1>2 DEF Trade, Tradable, MoneyInv, EnqueuedHaveRows
  <2> HIDE DEF ids
  <2>3. \A o \in Range(ids) : HasRow(o)
    BY <2>1, <2>2
  <2> QED  BY <2>1, <2>2, <2>3, PublishedHaveRows
<1>3. ASSUME NEW o \in OrderId, Cancel(o) PROVE ResultsHaveRows'
  <2> DEFINE ids == <<o>>
             kind == IF Tradable(o) /\ o \notin Closing THEN "cancel" ELSE "not_open"
  <2>1. Range(ids) = {o} /\ kind # "trade"
    BY RangeFacts
  <2>2. HasRow(o) /\ Publish(kind, ids)
    BY <1>3 DEF Cancel, IsOpen, HasRow
  <2> HIDE DEF ids, kind
  <2>3. \A i \in Range(ids) : HasRow(i)
    BY <2>1, <2>2
  <2> QED  BY <2>1, <2>2, <2>3, PublishedHaveRows
<1>5. ASSUME NEW o \in OrderId, NoLiquidity(o) PROVE ResultsHaveRows'
  <2> DEFINE ids == <<o>>
  <2>1. Range(ids) = {o}
    BY RangeFacts
  <2>2. HasRow(o) /\ Publish("cancel", ids)
    BY <1>5 DEF NoLiquidity, Tradable, MoneyInv, EnqueuedHaveRows
  <2> HIDE DEF ids
  <2>3. \A i \in Range(ids) : HasRow(i)
    BY <2>1, <2>2
  <2> QED  BY <2>2, <2>3, PublishedHaveRows
<1>4. \/ results' = results
      \/ \E b, s \in OrderId : Trade(b, s)
      \/ \E o \in OrderId : Cancel(o) \/ NoLiquidity(o)
  BY DEF Next, Work, Lock, Wait, DeadlockAbort, Dies, PlaceBegins, PlaceReadsRows, PlaceEnds,
         Enqueue, EnqueueFails, UndoReads, UndoEnds, SettleBegins, SettleInserts,
         SettleLocksUsers, SettleLocksPositions, SettleEnds, Acknowledge, FundBegins,
         FundInserts, FundLocksPositions, FundEnds, LiquidatorScans, LiquidatorOpens,
         LiquidatorFails, LiquidatorDrops
<1> QED  BY <1>1, <1>2, <1>3, <1>4, <1>5

(* A request is written by the commit of its order, or the INSERT of the    *)
(* liquidator, and then enqueued.                                          *)
LEMMA WrittenByPlacing ==
  ASSUME TransInv, Next, NEW o \in OrderId, at'[o] \in {"written", "queued"}
  PROVE  \/ at[o] \in {"written", "queued"}
         \/ PlaceEnds(o) /\ Affordable(seen[o], o)
         \/ LiquidatorOpens(o)
<1>1. /\ o \in Txn /\ o # Worker /\ o \notin Funder /\ DOMAIN at = Txn
      /\ \A t \in Txn : t # Worker /\ t \notin Funder => t \in OrderId
  BY TxnFacts DEF TransInv, TxnTypes
<1>2. \A t, stage : Goto(t, stage) => at'[o] = IF t = o THEN stage ELSE at[o]
  BY <1>1 DEF Goto
<1>3. \A t, stage : Ends(t, stage) => at'[o] = IF t = o THEN stage ELSE at[o]
  BY <1>2 DEF Ends
<1>4. ASSUME NEW t \in Txn, Lock(t) \/ Wait(t) PROVE at'[o] = at[o]
  BY <1>4 DEF Lock, Wait
<1>5. ASSUME NEW t \in Txn, DeadlockAbort(t) \/ Dies(t)
      PROVE  at'[o] = at[o] \/ at'[o] \notin {"written", "queued"}
  <2>1. CASE Dies(t)
    BY <1>3, <2>1 DEF Dies
  <2>2. CASE Restarted(t)
    BY <1>2, <2>2 DEF Restarted
  <2>3. CASE GivesUp(t)
    BY <1>3, <2>3 DEF GivesUp
  <2> QED  BY <1>5, <2>1, <2>2, <2>3 DEF DeadlockAbort, Aborted
<1>6. ASSUME NEW i \in OrderId,
             \/ PlaceBegins(i) \/ PlaceReadsRows(i) \/ EnqueueFails(i) \/ UndoReads(i)
             \/ LiquidatorScans(i) \/ LiquidatorFails(i) \/ LiquidatorDrops(i)
      PROVE  at'[o] = at[o] \/ at'[o] \notin {"written", "queued"}
  BY <1>2, <1>3, <1>6 DEF PlaceBegins, PlaceReadsRows, EnqueueFails, UndoReads, Begin, Advance,
     LiquidatorScans, LiquidatorFails, LiquidatorDrops, Commits
<1>12. ASSUME NEW i \in OrderId, LiquidatorOpens(i)
       PROVE  at'[o] = at[o] \/ i = o
  BY <1>2, <1>12 DEF LiquidatorOpens
<1>7. ASSUME NEW i \in OrderId, Enqueue(i) \/ UndoEnds(i)
      PROVE  at'[o] \notin {"written", "queued"} \/ at[o] \in {"written", "queued"}
  BY <1>2, <1>3, <1>7 DEF Enqueue, UndoEnds, Commits
<1>8. ASSUME NEW i \in OrderId, PlaceEnds(i)
      PROVE  \/ at'[o] = at[o] \/ at'[o] \notin {"written", "queued"}
             \/ i = o /\ Affordable(seen[o], o)
  BY <1>3, <1>8 DEF PlaceEnds, Commits
<1>9. ASSUME \/ \E b, s \in OrderId : Trade(b, s)
             \/ \E i \in OrderId : Cancel(i) \/ NoLiquidity(i)
      PROVE  at'[o] = at[o]
  BY <1>9 DEF Trade, Cancel, NoLiquidity, Publish, txVars
<1>10. ASSUME SettleBegins \/ SettleInserts \/ SettleLocksUsers \/ SettleLocksPositions
              \/ SettleEnds \/ Acknowledge
       PROVE  at'[o] = at[o]
  BY <1>1, <1>2, <1>3, <1>10 DEF SettleBegins, SettleInserts, SettleLocksUsers,
     SettleLocksPositions, SettleEnds, Acknowledge, Begin, Advance, Commits
<1>11. ASSUME NEW f \in Funder,
              FundBegins(f) \/ FundInserts(f) \/ FundLocksPositions(f) \/ FundEnds(f)
       PROVE  at'[o] = at[o]
  BY <1>1, <1>2, <1>3, <1>11 DEF FundBegins, FundInserts, FundLocksPositions, FundEnds,
     Begin, Advance, Commits
<1> QED
  BY <1>4, <1>5, <1>6, <1>7, <1>8, <1>9, <1>10, <1>11, <1>12 DEF Next, Work

LEMMA EnqueuedStayBacked ==
  ASSUME TransInv, MoneyInv, Next, KeepsMoney(db, db')
  PROVE  EnqueuedHaveRows'
<1>1. ASSUME NEW o \in OrderId, at[o] \in {"written", "queued"} PROVE db'[OrderRow(o)] # None
  BY <1>1 DEF MoneyInv, EnqueuedHaveRows, HasRow, KeepsMoney
<1>2. ASSUME NEW o \in OrderId, PlaceEnds(o), Affordable(seen[o], o)
      PROVE  db'[OrderRow(o)] # None
  <2> DEFINE W == PlaceWrites(seen[o], o)
             order == [status |-> "open", pool |-> ReserveOf(seen[o], o)]
  <2>1. db' = Written(W)
    BY <1>2, WritesIs DEF PlaceEnds, Commits
  <2>2. OrderRow(o) \in DOMAIN W /\ W[OrderRow(o)] = order
    BY DEF PlaceWrites, OrderAndUser
  <2>3. DOMAIN db = Rows /\ OrderRow(o) \in Rows
    BY RowsIn DEF TransInv
  <2>4. order \in OrderValue
    BY ReserveNat DEF OrderValue
  <2> HIDE DEF W, order
  <2>5. db'[OrderRow(o)] = order
    BY <2>1, <2>2, <2>3, WrittenAt
  <2> QED  BY <2>4, <2>5, AccountsAssumption
<1>3. ASSUME NEW o \in OrderId, LiquidatorOpens(o) PROVE db'[OrderRow(o)] # None
  <2>1. o \in Closing /\ OpenOne(o)
    BY <1>3, LiquidatorOpensKeeps
  <2>2. TablesOK(db) /\ DOMAIN db = Rows
    BY DEF MoneyInv, TransInv
  <2> QED  BY <2>1, <2>2, LiquidatorKeepsMoney
<1> QED  BY <1>1, <1>2, <1>3, WrittenByPlacing DEF EnqueuedHaveRows, HasRow

(* Whoever commits, what users own together stays the same.                *)
LEMMA MoneyStep ==
  ASSUME TransInv, MoneyInv, Next
  PROVE  MoneyInv'
<1>1. KeepsMoney(db, db')
  <2>1. CASE db' = db
    BY <2>1 DEF MoneyInv, KeepsMoney
  <2>2. CASE OneTransaction
    BY <2>2, OneTransactionKeepsMoney DEF MoneyInv
  <2> QED  BY <2>1, <2>2, TransStep
<1>2. TablesOK(db)' /\ AllMoney(db') = AllMoney(db)
  BY <1>1 DEF KeepsMoney
<1>3. ResultsHaveRows' /\ EnqueuedHaveRows'
  BY <1>1, ResultsStayBacked, EnqueuedStayBacked
<1> QED  BY <1>2, <1>3 DEF MoneyInv

LEMMA MoneyStutters ==
  ASSUME MoneyInv, UNCHANGED vars
  PROVE  MoneyInv'
BY DEF vars, MoneyInv, TablesOK, ResultsHaveRows, EnqueuedHaveRows, HasRow

(* The books balance after every step of every process: what is locked of  *)
(* a user is the margin of the position and the reserves of the orders.    *)
THEOREM MoneyInvariant == Spec => []MoneyInv
<1>1. Init => MoneyInv
  BY MoneyInit
<1>2. TransInv /\ MoneyInv /\ [Next]_vars => MoneyInv'
  BY MoneyStep, MoneyStutters
<1> QED  BY <1>1, <1>2, TransactionsInvariant, PTL DEF Spec

(* No interleaving of placing, rolling back, settling, funding and         *)
(* liquidating, with aborts, retries and deaths of the processes, makes    *)
(* money or loses it.                                                      *)
THEOREM MoneyKept == Spec => []MoneyConserved
<1>1. ASSUME MoneyInv PROVE MoneyConserved
  <2> DEFINE worth == [u \in User |-> Worth(db, u)]
  <2>1. worth = [u \in User |-> db[UserRow(u)].balance + db[UserRow(u)].locked]
    BY DEF Worth
  <2>2. TotalWorth(db) = SumFunction(worth)
    BY DEF TotalWorth, SumFunction
  <2>3. \A u \in User : worth[u] \in Int
    BY <1>1 DEF MoneyInv, TablesOK, UserOK, Worth
  <2>4. SumFunction(worth) \in Int /\ db[InsuranceRow] \in Int
    <3>1. SumFunction(worth) = SumFunctionOnSet(worth, User)
      BY DEF SumFunction
    <3> HIDE DEF worth
    <3>2. SumFunctionOnSet(worth, User) \in Int
      BY <2>3, SumInt, TransactionsAssumption
    <3> QED  BY <1>1, <3>1, <3>2 DEF MoneyInv, TablesOK
  <2>5. AllMoney(db) = db[InsuranceRow] + SumFunction(worth)
    <3> HIDE DEF worth
    <3> QED  BY <2>2, <2>4 DEF AllMoney
  <2> QED  BY <1>1, <2>1, <2>5 DEF MoneyInv, MoneyConserved
<1>2. MoneyInv => MoneyConserved
  BY <1>1
<1> QED  BY <1>2, MoneyInvariant, PTL

-----------------------------------------------------------------------------
(* The end of an order whose XADD failed.                                  *)

\* Its rollback is going on.
Undoing(o) == at[o] \in {"undoing", "rejecting"}

WaitingOK ==
  /\ waiting \in Seq(Txn)
  /\ \A i, j \in DOMAIN waiting : waiting[i] = waiting[j] => i = j

\* An order of the API is cancelled once.
AnswersOK ==
  \A m, n \in DOMAIN results :
    (/\ results[m].kind # "trade" /\ results[n].kind # "trade"
     /\ (Range(results[m].ids) \cap Range(results[n].ids)) \ Closing # {})
    => m = n

\* A request has nothing read between its transactions, and asks for its rows one
\* after the other.
RollbackOK(o) ==
  LET U == UserRow(OwnerOf(o))
  IN  /\ at[o] \in {"written", "queued"} => seen[o] = <<>>
      /\ at[o] \in {"none", "scanned", "written"} => tries[o] = 0
      /\ at[o] = "undoing" => rows[o] = <<>> \/ (rows[o] = <<U>> /\ locked[o] = {})
      /\ at[o] = "rejecting" =>
           rows[o] = <<>> \/ (rows[o] = <<OrderRow(o)>> /\ OrderRow(o) \notin locked[o])
      /\ at[o] = "over" => ~IsOpen(db, o)

\* So does the worker, with the answer to a cancel of an order o that is not in the
\* book: it locks the event, the order and the user.
AnsweringOK(o) ==
  LET E == {EventRow(Current)}
      U == UserRow(OwnerOf(o))
  IN  /\ at[Worker] = "event" => Claims(Worker) \subseteq E
      /\ at[Worker] = "orders" =>
           \/ rows[Worker] = <<>> /\ locked[Worker] \subseteq E \cup {OrderRow(o)}
           \/ rows[Worker] = <<OrderRow(o)>> /\ locked[Worker] \subseteq E
      /\ at[Worker] = "users" =>
           rows[Worker] = <<>>
             \/ (rows[Worker] = <<U>> /\ locked[Worker] \subseteq E \cup {OrderRow(o)})
      /\ at[Worker] = "positions" => rows[Worker] = <<>>

Answering(o) ==
  at[Worker] \notin {"idle", "done"} /\ results[Current].kind = "not_open" /\ o \in CurrentOrders

\* The worker waits for a row that o has not asked for before it.
InFront(o) ==
  \E i \in DOMAIN waiting : waiting[i] = Worker /\ \A j \in DOMAIN waiting : waiting[j] = o => i < j

\* The worker has locked the order, and has the user's row or gets it before o does.
Leads(o) ==
  LET U == UserRow(OwnerOf(o))
  IN  /\ OrderRow(o) \in locked[Worker]
      /\ \/ U \in locked[Worker]
         \/ rows[Worker] = <<U>> /\ at[o] = "undoing" /\ locked[o] = {} /\ InFront(o)

\* The answer to the cancel is settled.
IsSettled(o) == \E n \in DOMAIN results : o \in Range(results[n].ids) /\ db[EventRow(n)]

Passed(o) == IsSettled(o) \/ Leads(o)

\* A rollback is aborted only by the worker that settles the cancel of its order, which
\* then goes first: once, and once more for each death of the worker.
TriesOK(o) == Undoing(o) => tries[o] + 1 <= faults + (IF Passed(o) THEN 1 ELSE 0)

CountersOK == tries \in [Txn -> Nat] /\ faults \in Nat /\ faults <= MaxFaults

AttemptsInv ==
  /\ CountersOK /\ WaitingOK /\ AnswersOK
  /\ \A o \in OrderId : RollbackOK(o) /\ TriesOK(o) /\ (Answering(o) => AnsweringOK(o))

\* The steps of one process.
StepOf(t) ==
  \/ Lock(t) \/ Wait(t) \/ DeadlockAbort(t) \/ Dies(t)
  \/ /\ t \in OrderId
     /\ \/ PlaceBegins(t) \/ PlaceReadsRows(t) \/ PlaceEnds(t) \/ Enqueue(t)
        \/ EnqueueFails(t) \/ UndoReads(t) \/ UndoEnds(t)
        \/ LiquidatorScans(t) \/ LiquidatorOpens(t) \/ LiquidatorFails(t) \/ LiquidatorDrops(t)
  \/ /\ t = Worker
     /\ \/ SettleBegins \/ SettleInserts \/ SettleLocksUsers \/ SettleLocksPositions
        \/ SettleEnds \/ Acknowledge
  \/ /\ t \in Funder
     /\ FundBegins(t) \/ FundInserts(t) \/ FundLocksPositions(t) \/ FundEnds(t)

LEMMA StepsOf ==
  ASSUME Next
  PROVE  \/ \E t \in Txn : StepOf(t)
         \/ \E b, s \in OrderId : Trade(b, s)
         \/ \E o \in OrderId : Cancel(o) \/ NoLiquidity(o)
BY Zenon, TxnFacts DEF Next, Work, StepOf

\* It leaves the others alone.
LeavesOthers(t) ==
  /\ \A s \in Txn \ {t} : Untouched(s) /\ tries'[s] = tries[s]
  /\ results' = results
  /\ t # Worker => settled' = settled
  /\ \/ waiting' = waiting \/ waiting' = Left(t)
     \/ waiting' = Append(waiting, t) /\ ~Waits(t)
  /\ CountersOK' /\ faults <= faults'

LEMMA MovesEnds ==
  ASSUME TransInv, CountersOK, NEW t \in Txn, NEW stage, Ends(t, stage)
  PROVE  /\ \A s \in Txn \ {t} : Untouched(s) /\ tries'[s] = tries[s]
         /\ waiting' = Left(t) /\ tries' \in [Txn -> Nat]
         /\ at'[t] = stage /\ rows'[t] = <<>> /\ seen'[t] = <<>> /\ locked'[t] = {} /\ tries'[t] = 0
BY DEF TransInv, TxnTypes, CountersOK, Ends, Unlocks, Goto, Untouched

LEMMA MovesAdvance ==
  ASSUME TransInv, CountersOK, NEW t \in Txn, NEW stage, NEW rs, Advance(t, stage, rs)
  PROVE  /\ \A s \in Txn \ {t} : at'[s] = at[s] /\ rows'[s] = rows[s] /\ locked'[s] = locked[s]
         /\ tries' = tries /\ waiting' = waiting
         /\ at'[t] = stage /\ rows'[t] = rs /\ locked'[t] = locked[t]
BY DEF TransInv, TxnTypes, CountersOK, Advance, Goto

LEMMA MovesReads ==
  ASSUME TransInv, NEW t \in Txn, NEW R, Reads(t, R) \/ seen' = seen
  PROVE  \A s \in Txn \ {t} : seen'[s] = seen[s]
BY DEF TransInv, TxnTypes, Reads

LEMMA MovesBegin ==
  ASSUME TransInv, CountersOK, NEW t \in Txn, NEW stage, NEW r, Begin(t, stage, r)
  PROVE  /\ \A s \in Txn \ {t} : Untouched(s)
         /\ tries' = tries /\ waiting' = waiting
         /\ at'[t] = stage /\ rows'[t] = <<r>> /\ locked'[t] = locked[t] /\ seen'[t] = seen[t]
BY DEF TransInv, TxnTypes, CountersOK, Begin, Goto, Untouched

LEMMA FaultCounts ==
  ASSUME CountersOK, Fault \/ faults' = faults
  PROVE  faults' \in Nat /\ faults' <= MaxFaults /\ faults <= faults' /\ (Fault => faults' = faults + 1)
BY TransactionsAssumption DEF CountersOK, Fault

LEMMA MovesRestarted ==
  ASSUME TransInv, CountersOK, NEW t \in Txn, Restarted(t)
  PROVE  /\ \A s \in Txn \ {t} : Untouched(s) /\ tries'[s] = tries[s]
         /\ waiting' = Left(t) /\ tries' \in [Txn -> Nat]
         /\ seen'[t] = <<>> /\ locked'[t] = {} /\ tries'[t] = tries[t] + 1
         /\ \E stage, r : /\ at'[t] = stage /\ rows'[t] = <<r>>
                          /\ t \in OrderId => r = UserRow(OwnerOf(t)) /\ stage \in {"placing", "undoing"}
                          /\ t \in OrderId /\ stage = "undoing" => Undoing(t)
                          /\ t = Worker => stage = "event" /\ r = EventRow(Current)
<1>1. /\ \A s \in Txn \ {t} : seen'[s] = seen[s] /\ locked'[s] = locked[s] /\ tries'[s] = tries[s]
      /\ waiting' = Left(t) /\ tries' \in [Txn -> Nat]
      /\ seen'[t] = <<>> /\ locked'[t] = {} /\ tries'[t] = tries[t] + 1
  BY DEF TransInv, TxnTypes, CountersOK, Restarted, Unlocks
<1>2. PICK stage, r : /\ Goto(t, stage) /\ rows' = [rows EXCEPT ![t] = <<r>>]
                      /\ t \in OrderId => r = UserRow(OwnerOf(t)) /\ stage \in {"placing", "undoing"}
                      /\ t \in OrderId /\ stage = "undoing" => Undoing(t)
                      /\ t = Worker => stage = "event" /\ r = EventRow(Current)
  <2>1. WorkerOK /\ (t \in Funder => t # Worker /\ t \notin OrderId)
    BY TxnFacts DEF TransInv, TxnOK
  <2>2. CASE t \in OrderId
    BY <2>2, TxnFacts DEF Restarted, Undoing
  <2>3. CASE t = Worker
    BY <2>1, <2>3, TxnFacts DEF Restarted, WorkerOK
  <2>4. CASE t \in Funder
    BY <2>1, <2>4, TxnFacts DEF Restarted
  <2> QED  BY <2>2, <2>3, <2>4, TxnFacts
<1>3. /\ at'[t] = stage /\ rows'[t] = <<r>>
      /\ \A s \in Txn \ {t} : at'[s] = at[s] /\ rows'[s] = rows[s]
  BY <1>2 DEF Goto, TransInv, TxnTypes
<1> QED  BY <1>1, <1>2, <1>3 DEF Untouched

LEMMA StepLeavesOthers ==
  ASSUME TransInv, CountersOK, NEW t \in Txn, StepOf(t)
  PROVE  LeavesOthers(t)
<1>1. CASE Lock(t)
  <2>1. /\ \A s \in Txn \ {t} : at'[s] = at[s] /\ rows'[s] = rows[s] /\ locked'[s] = locked[s]
        /\ Reads(t, {Head(rows[t])})
        /\ tries' = tries /\ waiting' = Left(t) /\ results' = results /\ settled' = settled
        /\ faults' = faults
    BY <1>1 DEF Lock, TransInv, TxnTypes
  <2>2. \A s \in Txn \ {t} : seen'[s] = seen[s]
    BY <2>1, MovesReads
  <2> QED  BY <2>1, <2>2, FaultCounts DEF LeavesOthers, Untouched, CountersOK
<1>2. CASE Wait(t)
  BY <1>2, FaultCounts DEF Wait, LeavesOthers, Untouched, CountersOK
<1>3. CASE DeadlockAbort(t)
  <2>1. UNCHANGED <<results, settled, faults>> /\ (Restarted(t) \/ \E stage : Ends(t, stage))
    BY <1>3 DEF DeadlockAbort, Aborted, GivesUp
  <2> QED  BY <2>1, MovesRestarted, MovesEnds, FaultCounts DEF LeavesOthers, CountersOK
<1>4. CASE Dies(t)
  <2>1. UNCHANGED <<results, settled>> /\ Fault /\ \E stage : Ends(t, stage)
    BY <1>4 DEF Dies
  <2> QED  BY <2>1, MovesEnds, FaultCounts DEF LeavesOthers, CountersOK
<1>5. ASSUME NEW stage, Ends(t, stage), UNCHANGED <<results, settled, faults>>
      PROVE  LeavesOthers(t)
  BY <1>5, MovesEnds, FaultCounts DEF LeavesOthers, CountersOK
<1>6. ASSUME NEW stage, NEW rs, Advance(t, stage, rs), seen' = seen \/ \E R : Reads(t, R),
             UNCHANGED <<results, settled, faults>>
      PROVE  LeavesOthers(t)
  <2>1. \A s \in Txn \ {t} : seen'[s] = seen[s]
    BY <1>6, MovesReads
  <2> QED  BY <1>6, <2>1, MovesAdvance, FaultCounts DEF LeavesOthers, Untouched, CountersOK
<1>7. ASSUME NEW stage, NEW r, Begin(t, stage, r), UNCHANGED <<results, settled>>,
             Fault \/ faults' = faults
      PROVE  LeavesOthers(t)
  BY <1>7, MovesBegin, FaultCounts DEF LeavesOthers, Untouched, CountersOK
<1>8. CASE t \in OrderId /\ (PlaceBegins(t) \/ EnqueueFails(t))
  BY <1>7, <1>8 DEF PlaceBegins, EnqueueFails
<1>16. CASE t \in OrderId /\ LiquidatorFails(t)
  BY <1>7, <1>16 DEF LiquidatorFails
<1>17. CASE t \in OrderId /\ LiquidatorDrops(t)
  BY <1>5, <1>17 DEF LiquidatorDrops, Commits
<1>18. CASE t \in OrderId /\ (LiquidatorScans(t) \/ LiquidatorOpens(t))
  <2>1. \A s \in Txn \ {t} : at'[s] = at[s]
    BY <1>18 DEF LiquidatorScans, LiquidatorOpens, Goto, TransInv, TxnTypes
  <2> QED
    BY <1>18, <2>1, FaultCounts
    DEF LiquidatorScans, LiquidatorOpens, LeavesOthers, Untouched, CountersOK
<1>9. CASE t \in OrderId /\ (PlaceReadsRows(t) \/ UndoReads(t))
  <2>1. CASE PlaceReadsRows(t)
    BY <1>6, <2>1 DEF PlaceReadsRows
  <2>2. CASE UndoReads(t)
    BY <1>5, <1>6, <2>2 DEF UndoReads
  <2> QED  BY <1>9, <2>1, <2>2
<1>10. CASE t \in OrderId /\ (PlaceEnds(t) \/ UndoEnds(t))
  BY <1>5, <1>10 DEF PlaceEnds, UndoEnds, Commits
<1>11. CASE t \in OrderId /\ Enqueue(t)
  <2>1. \A s \in Txn \ {t} : at'[s] = at[s]
    BY <1>11 DEF Enqueue, Goto, TransInv, TxnTypes
  <2> QED  BY <1>11, <2>1, FaultCounts DEF Enqueue, LeavesOthers, Untouched, CountersOK
<1>12. CASE t = Worker /\ (SettleBegins \/ SettleInserts \/ SettleLocksUsers \/ SettleLocksPositions)
  <2>1. CASE SettleBegins
    BY <1>7, <1>12, <2>1 DEF SettleBegins
  <2>2. CASE SettleInserts
    BY <1>5, <1>6, <1>12, <2>2 DEF SettleInserts
  <2>3. CASE SettleLocksUsers
    BY <1>6, <1>12, <2>3 DEF SettleLocksUsers
  <2>4. CASE SettleLocksPositions
    BY <1>6, <1>12, <2>4 DEF SettleLocksPositions
  <2> QED  BY <1>12, <2>1, <2>2, <2>3, <2>4
<1>13. CASE t = Worker /\ SettleEnds
  BY <1>5, <1>13 DEF SettleEnds, Commits
<1>14. CASE t = Worker /\ Acknowledge
  <2>1. \A s \in Txn \ {t} : at'[s] = at[s]
    BY <1>14 DEF Acknowledge, Goto, TransInv, TxnTypes
  <2> QED  BY <1>14, <2>1, FaultCounts DEF Acknowledge, LeavesOthers, Untouched, CountersOK
<1>15. CASE t \in Funder /\ (FundBegins(t) \/ FundInserts(t) \/ FundLocksPositions(t) \/ FundEnds(t))
  <2>1. CASE FundBegins(t)
    BY <1>7, <2>1 DEF FundBegins
  <2>2. CASE FundInserts(t)
    BY <1>5, <1>6, <2>2 DEF FundInserts
  <2>3. CASE FundLocksPositions(t)
    BY <1>6, <2>3 DEF FundLocksPositions
  <2>4. CASE FundEnds(t)
    BY <1>5, <2>4 DEF FundEnds, Commits
  <2> QED  BY <1>15, <2>1, <2>2, <2>3, <2>4
<1> QED
  BY Zenon, <1>1, <1>2, <1>3, <1>4, <1>8, <1>9, <1>10, <1>11, <1>12, <1>13, <1>14, <1>15,
     <1>16, <1>17, <1>18 DEF StepOf

-----------------------------------------------------------------------------
(* The queue of those who wait.                                            *)

(* One leaves it.                                                          *)
LEMMA LeftIs ==
  ASSUME WaitingOK, NEW t
  PROVE  \/ ~Waits(t) /\ Left(t) = waiting
         \/ \E c \in 1..Len(waiting) :
              /\ waiting[c] = t
              /\ Left(t) \in Seq(Txn) /\ Len(Left(t)) = Len(waiting) - 1
              /\ \A k \in 1..(Len(waiting) - 1) :
                   Left(t)[k] = IF k < c THEN waiting[k] ELSE waiting[k + 1]
<1>1. waiting \in Seq(Txn) /\ DOMAIN waiting = 1..Len(waiting)
  BY LenProperties DEF WaitingOK
<1>2. CASE ~Waits(t)
  BY <1>2 DEF Left
<1>3. CASE Waits(t)
  <2>1. PICK c : c = CHOOSE i \in DOMAIN waiting : waiting[i] = t
    OBVIOUS
  <2>2. c \in 1..Len(waiting) /\ waiting[c] = t
    BY <1>1, <1>3, <2>1 DEF Waits
  <2>3. Left(t) = RemoveAt(waiting, c)
    BY Zenon, <1>3, <2>1 DEF Left
  <2>4. PICK w, T : w = waiting /\ T = Txn
    OBVIOUS
  <2>5. w \in Seq(T) /\ c \in 1..Len(w)
    BY ONLY <1>1, <2>2, <2>4
  <2>6. /\ RemoveAt(w, c) \in Seq(T) /\ Len(RemoveAt(w, c)) = Len(w) - 1
        /\ \A k \in 1..(Len(w) - 1) : RemoveAt(w, c)[k] = IF k < c THEN w[k] ELSE w[k + 1]
    BY ONLY <2>5, RemovedAt
  <2>7. /\ Left(t) \in Seq(Txn) /\ Len(Left(t)) = Len(waiting) - 1
        /\ \A k \in 1..(Len(waiting) - 1) :
             Left(t)[k] = IF k < c THEN waiting[k] ELSE waiting[k + 1]
    BY ONLY <2>3, <2>4, <2>6
  <2> QED  BY ONLY <2>2, <2>7
<1> QED  BY <1>2, <1>3

LEMMA LeftOK ==
  ASSUME WaitingOK, NEW t
  PROVE  /\ Left(t) \in Seq(Txn)
         /\ \A i, j \in DOMAIN Left(t) : Left(t)[i] = Left(t)[j] => i = j
         /\ \A i \in DOMAIN Left(t) : Left(t)[i] # t
<1>1. /\ waiting \in Seq(Txn) /\ DOMAIN waiting = 1..Len(waiting) /\ Len(waiting) \in Nat
      /\ \A i, j \in 1..Len(waiting) : waiting[i] = waiting[j] => i = j
  BY LenProperties DEF WaitingOK
<1>2. CASE ~Waits(t) /\ Left(t) = waiting
  BY <1>1, <1>2 DEF Waits
<1>3. ASSUME NEW c \in 1..Len(waiting), waiting[c] = t,
             Left(t) \in Seq(Txn), Len(Left(t)) = Len(waiting) - 1,
             \A k \in 1..(Len(waiting) - 1) :
               Left(t)[k] = IF k < c THEN waiting[k] ELSE waiting[k + 1]
      PROVE  /\ Left(t) \in Seq(Txn)
             /\ \A i, j \in DOMAIN Left(t) : Left(t)[i] = Left(t)[j] => i = j
             /\ \A i \in DOMAIN Left(t) : Left(t)[i] # t
  <2>1. DOMAIN Left(t) = 1..(Len(waiting) - 1)
    BY <1>3, LenProperties
  <2>2. PICK w, L, n : w = waiting /\ L = Left(t) /\ n = Len(waiting)
    OBVIOUS
  <2>3. ASSUME NEW i \in 1..(n - 1), NEW j \in 1..(n - 1), L[i] = L[j] PROVE i = j
    <3>1. /\ n \in Nat /\ \A a, b \in 1..n : w[a] = w[b] => a = b
          /\ L[i] = (IF i < c THEN w[i] ELSE w[i + 1])
          /\ L[j] = (IF j < c THEN w[j] ELSE w[j + 1])
          /\ c \in 1..n
      BY ONLY <1>1, <1>3, <2>2, i \in 1..(n - 1), j \in 1..(n - 1)
    <3> QED  BY ONLY <3>1, i \in 1..(n - 1), j \in 1..(n - 1), <2>3
  <2>4. ASSUME NEW i \in 1..(n - 1) PROVE L[i] # t
    <3>1. /\ n \in Nat /\ \A a, b \in 1..n : w[a] = w[b] => a = b
          /\ L[i] = (IF i < c THEN w[i] ELSE w[i + 1])
          /\ c \in 1..n /\ w[c] = t
      BY ONLY <1>1, <1>3, <2>2, i \in 1..(n - 1)
    <3> QED  BY ONLY <3>1, i \in 1..(n - 1)
  <2> QED  BY ONLY <1>3, <2>1, <2>2, <2>3, <2>4
<1> QED  BY <1>2, <1>3, LeftIs

LEMMA QueueKept ==
  ASSUME WaitingOK, NEW t \in Txn, LeavesOthers(t)
  PROVE  WaitingOK'
<1>1. CASE waiting' = waiting
  BY <1>1 DEF WaitingOK
<1>2. CASE waiting' = Left(t)
  BY <1>2, LeftOK DEF WaitingOK
<1>3. CASE waiting' = Append(waiting, t) /\ ~Waits(t)
  <2>1. /\ waiting \in Seq(Txn) /\ DOMAIN waiting = 1..Len(waiting) /\ Len(waiting) \in Nat
        /\ \A i, j \in 1..Len(waiting) : waiting[i] = waiting[j] => i = j
        /\ \A i \in 1..Len(waiting) : waiting[i] # t
    BY <1>3, LenProperties DEF WaitingOK, Waits
  <2>2. /\ waiting' \in Seq(Txn) /\ Len(waiting') = Len(waiting) + 1
        /\ \A i \in 1..Len(waiting) : waiting'[i] = waiting[i]
        /\ waiting'[Len(waiting) + 1] = t
    BY <1>3, <2>1, AppendProperties
  <2>3. DOMAIN waiting' = 1..(Len(waiting) + 1)
    BY <2>2, LenProperties
  <2> QED  BY ONLY <2>1, <2>2, <2>3 DEF WaitingOK
<1> QED  BY <1>1, <1>2, <1>3 DEF LeavesOthers

(* The worker stays in front while others come and go.                     *)
LEMMA FrontKept ==
  ASSUME WaitingOK, NEW t \in Txn, t # Worker, LeavesOthers(t), NEW o, InFront(o)
  PROVE  InFront(o)'
<1>1. /\ waiting \in Seq(Txn) /\ DOMAIN waiting = 1..Len(waiting) /\ Len(waiting) \in Nat
  BY LenProperties DEF WaitingOK
<1>2. PICK i \in 1..Len(waiting) :
        waiting[i] = Worker /\ \A j \in 1..Len(waiting) : waiting[j] = o => i < j
  BY <1>1 DEF InFront
<1>3. CASE waiting' = waiting
  BY <1>3 DEF InFront
<1>4. CASE waiting' = Append(waiting, t)
  <2>1. /\ waiting' \in Seq(Txn) /\ Len(waiting') = Len(waiting) + 1
        /\ \A k \in 1..Len(waiting) : waiting'[k] = waiting[k]
    BY <1>1, <1>4, AppendProperties
  <2>2. DOMAIN waiting' = 1..(Len(waiting) + 1)
    BY <2>1, LenProperties
  <2>3. i \in DOMAIN waiting' /\ waiting'[i] = Worker
    BY <1>1, <1>2, <2>1, <2>2
  <2>4. ASSUME NEW j \in DOMAIN waiting', waiting'[j] = o PROVE i < j
    <3>1. CASE j \in 1..Len(waiting)
      BY <1>2, <2>1, <2>4, <3>1
    <3>2. CASE j = Len(waiting) + 1
      BY <1>1, <1>2, <3>2
    <3> QED  BY <1>1, <2>2, <3>1, <3>2
  <2> QED  BY <2>3, <2>4 DEF InFront
<1>5. CASE waiting' = Left(t)
  <2>1. CASE Left(t) = waiting
    BY <1>5, <2>1 DEF InFront
  <2>2. ASSUME NEW c \in 1..Len(waiting), waiting[c] = t,
               Left(t) \in Seq(Txn), Len(Left(t)) = Len(waiting) - 1,
               \A k \in 1..(Len(waiting) - 1) :
                 Left(t)[k] = IF k < c THEN waiting[k] ELSE waiting[k + 1]
        PROVE  InFront(o)'
    <3>1. DOMAIN waiting' = 1..(Len(waiting) - 1)
      BY <1>5, <2>2, LenProperties
    <3>2. PICK w, L, n : w = waiting /\ L = waiting' /\ n = Len(waiting)
      OBVIOUS
    <3>3. /\ n \in Nat /\ i \in 1..n /\ c \in 1..n /\ w[i] = Worker /\ w[c] = t /\ t # Worker
          /\ \A j \in 1..n : w[j] = o => i < j
          /\ \A k \in 1..(n - 1) : L[k] = IF k < c THEN w[k] ELSE w[k + 1]
      BY ONLY <1>1, <1>2, <1>5, <2>2, <3>2, t # Worker
    <3>4. i # c
      BY ONLY <3>3
    <3>5. PICK k : k = IF i < c THEN i ELSE i - 1
      OBVIOUS
    <3>6. k \in 1..(n - 1) /\ L[k] = Worker
      BY ONLY <3>3, <3>4, <3>5
    <3>7. ASSUME NEW j \in 1..(n - 1), L[j] = o PROVE k < j
      BY ONLY <3>3, <3>4, <3>5, <3>7, j \in 1..(n - 1)
    <3>8. k \in DOMAIN waiting' /\ waiting'[k] = Worker /\ \A j \in DOMAIN waiting' : waiting'[j] = o => k < j
      BY ONLY <3>1, <3>2, <3>6, <3>7
    <3> QED  BY Zenon, <3>8 DEF InFront
  <2> QED  BY <2>1, <2>2, LeftIs
<1> QED  BY <1>3, <1>4, <1>5 DEF LeavesOthers

(* Nobody is behind one who has left.                                      *)
LEMMA FrontLeft ==
  ASSUME WaitingOK, NEW o, o # Worker, Waits(Worker), waiting' = Left(o)
  PROVE  InFront(o)'
<1>1. /\ waiting \in Seq(Txn) /\ DOMAIN waiting = 1..Len(waiting) /\ Len(waiting) \in Nat
  BY LenProperties DEF WaitingOK
<1>2. PICK i \in 1..Len(waiting) : waiting[i] = Worker
  BY <1>1 DEF Waits
<1>3. \E k \in DOMAIN Left(o) : Left(o)[k] = Worker
  <2>1. CASE Left(o) = waiting
    BY <1>1, <1>2, <2>1
  <2>2. ASSUME NEW c \in 1..Len(waiting), waiting[c] = o,
               Left(o) \in Seq(Txn), Len(Left(o)) = Len(waiting) - 1,
               \A k \in 1..(Len(waiting) - 1) :
                 Left(o)[k] = IF k < c THEN waiting[k] ELSE waiting[k + 1]
        PROVE  \E k \in DOMAIN Left(o) : Left(o)[k] = Worker
    <3>1. DOMAIN Left(o) = 1..(Len(waiting) - 1)
      BY <2>2, LenProperties
    <3>2. i # c
      BY <1>2, <2>2
    <3>3. PICK k : k = IF i < c THEN i ELSE i - 1
      OBVIOUS
    <3>4. k \in 1..(Len(waiting) - 1) /\ Left(o)[k] = Worker
      BY <1>1, <1>2, <2>2, <3>2, <3>3
    <3> QED  BY <3>1, <3>4
  <2> QED  BY <2>1, <2>2, LeftIs
<1> QED  BY <1>3, LeftOK DEF InFront

-----------------------------------------------------------------------------
(* The tables.                                                             *)

(* A trade fills its orders.                                               *)
LEMMA FilledIs ==
  ASSUME NEW D, NEW orders \in SUBSET OrderId, NEW o,
         OrderRow(o) \in DOMAIN FillWrites(D, orders)
  PROVE  FillWrites(D, orders)[OrderRow(o)].status = "filled"
<1> DEFINE after == [i \in orders |-> Filled(D, i)]
           flushed(a) == SumFunction([i \in orders |-> a[i].insurance])
           pick(r) == CHOOSE i \in orders : r \in FilledRows(i)
           value(a, r) ==
      LET i == CHOOSE k \in orders : r \in FilledRows(k)
          x == a[i]
      IN  CASE r = OrderRow(i)             -> [status |-> "filled", pool |-> x.pool]
            [] r = UserRow(OwnerOf(i))     -> [balance |-> x.balance, locked |-> x.locked]
            [] r = PositionRow(OwnerOf(i)) -> x.position
           filled(a) ==
      [r \in {InsuranceRow} \cup UNION {FilledRows(i) : i \in orders} |->
         IF r = InsuranceRow THEN D[r] + flushed(a) ELSE value(a, r)]
<1>1. FillWrites(D, orders) = filled(after)
  BY Zenon DEF FillWrites
<1>2. OrderRow(o) \in UNION {FilledRows(i) : i \in orders} /\ OrderRow(o) # InsuranceRow
  <2> HIDE DEF after, flushed, value
  <2>1. OrderRow(o) \in {InsuranceRow} \cup UNION {FilledRows(i) : i \in orders}
    BY <1>1
  <2> QED  BY <2>1, RowFacts
<1>3. PICK i \in orders : OrderRow(o) \in FilledRows(i)
  BY <1>2
<1>4. pick(OrderRow(o)) \in orders /\ OrderRow(o) \in FilledRows(pick(OrderRow(o)))
  BY <1>3
<1>5. pick(OrderRow(o)) = o
  BY <1>4, RowFacts DEF FilledRows
<1>6. value(after, OrderRow(o)) = [status |-> "filled", pool |-> after[o].pool]
  BY <1>5, RowFacts
<1>7. filled(after)[OrderRow(o)] = value(after, OrderRow(o))
  <2> HIDE DEF after, flushed, value
  <2> QED  BY <1>2
<1> HIDE DEF filled, value
<1> QED  BY <1>1, <1>6, <1>7

(* What is not written stays, and so does what is not opened.              *)
LEMMA NotReopened ==
  ASSUME DOMAIN db = Rows, NEW o \in OrderId, ~IsOpen(db, o), NEW W, db' = Written(W),
         OrderRow(o) \in DOMAIN W => W[OrderRow(o)].status # "open"
  PROVE  ~IsOpen(db', o)
BY WrittenAt, RowsIn DEF IsOpen

LEMMA EventStays ==
  ASSUME DOMAIN db = Rows, NEW n, EventRow(n) \in Rows, db[EventRow(n)], NEW W, db' = Written(W),
         EventRow(n) \in DOMAIN W => W[EventRow(n)] = TRUE
  PROVE  db'[EventRow(n)]
BY WrittenAt

(* A result is settled: its row is there, and no order is opened.          *)
LEMMA SettleShows ==
  ASSUME NEW n, results[n] \in EngineResult, NEW D
  PROVE  /\ EventRow(n) \in DOMAIN SettleWrites(D, n) /\ SettleWrites(D, n)[EventRow(n)] = TRUE
         /\ \A m : EventRow(m) \in DOMAIN SettleWrites(D, n) => m = n
         /\ \A o : OrderRow(o) \in DOMAIN SettleWrites(D, n) =>
              SettleWrites(D, n)[OrderRow(o)].status # "open"
<1> DEFINE ids == results[n].ids
           kind == results[n].kind
           event == [r \in {EventRow(n)} |-> TRUE]
           work == CASE kind = "cancel"   -> CancelWrites(D, ids[1])
                     [] kind = "trade"    -> FillWrites(D, Range(ids))
                     [] kind = "not_open" -> <<>>
<1>1. SettleWrites(D, n) = Over(event, work)
  BY DEF SettleWrites
<1>2. kind \in {"trade", "cancel", "not_open"} /\ Range(ids) \in SUBSET OrderId
  <2>1. ids \in Seq(OrderId) /\ kind \in {"trade", "cancel", "not_open"}
    BY DEF EngineResult
  <2> QED  BY <2>1, LenProperties, ElementOfSeq DEF Range
<1>3. ASSUME NEW o, OrderRow(o) \in DOMAIN work PROVE work[OrderRow(o)].status # "open"
  <2>1. CASE kind = "cancel"
    <3>1. work = CancelWrites(D, ids[1])
      BY <2>1
    <3> HIDE DEF work, ids, kind
    <3>2. CASE IsOpen(D, ids[1])
      BY <1>3, <3>1, <3>2, RowFacts DEF CancelWrites, OrderAndUser
    <3>3. CASE ~IsOpen(D, ids[1])
      BY <1>3, <3>1, <3>3 DEF CancelWrites
    <3> QED  BY <3>2, <3>3
  <2>2. CASE kind = "trade"
    <3>1. work = FillWrites(D, Range(ids))
      BY <2>2
    <3> HIDE DEF work, ids, kind
    <3> QED  BY <1>2, <1>3, <3>1, FilledIs
  <2>3. CASE kind = "not_open"
    BY <1>3, <2>3
  <2> QED  BY <1>2, <2>1, <2>2, <2>3
<1>4. \A m : EventRow(m) \in DOMAIN SettleWrites(D, n) => m = n
  <2>1. DOMAIN SettleWrites(D, n) \subseteq {EventRow(n)} \cup SettleReads(n)
    BY SettleReadsAll
  <2> QED  BY <2>1, RowFacts DEF SettleReads
<1> HIDE DEF work
<1>5. /\ DOMAIN SettleWrites(D, n) = {EventRow(n)} \cup DOMAIN work
      /\ \A r : r \in DOMAIN SettleWrites(D, n) =>
           SettleWrites(D, n)[r] = IF r = EventRow(n) THEN TRUE ELSE work[r]
  BY <1>1 DEF Over
<1> QED  BY <1>3, <1>4, <1>5, RowFacts

LEMMA ResultRows ==
  ASSUME TransInv
  PROVE  \A n \in DOMAIN results :
           /\ EventRow(n) \in Rows /\ results[n] \in EngineResult
           /\ Range(results[n].ids) \subseteq OrderId
<1>1. results \in Seq(EngineResult) /\ Len(results) <= MaxResults
  BY DEF TransInv, ResultsOK
<1>2. \A n \in DOMAIN results : n \in 1..MaxResults /\ results[n] \in EngineResult
  BY <1>1, LenProperties, ElementOfSeq, TransactionsAssumption
<1>3. \A n \in DOMAIN results : results[n].ids \in Seq(OrderId)
  BY <1>2 DEF EngineResult
<1> QED  BY <1>2, <1>3, RowsIn, LenProperties, ElementOfSeq DEF Range

\* The step that opens an order.
Opens(t, o) == t = o /\ (PlaceEnds(o) \/ LiquidatorOpens(o))

(* What a step may do to the tables.                                       *)
LEMMA TablesStep ==
  ASSUME TransInv, NEW t \in Txn, StepOf(t)
  PROVE  /\ \A n \in DOMAIN results : db[EventRow(n)] => db'[EventRow(n)]
         /\ \A o \in OrderId : ~IsOpen(db, o) /\ ~Opens(t, o) => ~IsOpen(db', o)
<1> DEFINE Goal == /\ \A n \in DOMAIN results : db[EventRow(n)] => db'[EventRow(n)]
                   /\ \A o \in OrderId : ~IsOpen(db, o) /\ ~Opens(t, o) => ~IsOpen(db', o)
<1>1. ASSUME NEW W, db' = Written(W),
             \A n \in DOMAIN results : EventRow(n) \in DOMAIN W => W[EventRow(n)] = TRUE,
             \A o \in OrderId : OrderRow(o) \in DOMAIN W /\ ~Opens(t, o) =>
               W[OrderRow(o)].status # "open"
      PROVE  Goal
  <2>1. DOMAIN db = Rows
    BY DEF TransInv
  <2>2. ASSUME NEW n \in DOMAIN results, db[EventRow(n)] PROVE db'[EventRow(n)]
    BY <1>1, <2>1, <2>2, EventStays, ResultRows
  <2>3. ASSUME NEW o \in OrderId, ~IsOpen(db, o), ~Opens(t, o) PROVE ~IsOpen(db', o)
    BY <1>1, <2>1, <2>3, NotReopened
  <2> QED  BY <2>2, <2>3
<1>2. CASE db' = db
  BY <1>2 DEF IsOpen
<1>3. CASE t \in OrderId /\ PlaceEnds(t) /\ db' # db
  <2>1. db' = Written(PlaceWrites(seen[t], t))
    BY <1>3, WritesIs DEF PlaceEnds, Commits
  <2>2. DOMAIN PlaceWrites(seen[t], t) = {OrderRow(t), UserRow(OwnerOf(t))}
    BY DEF PlaceWrites, OrderAndUser
  <2> QED  BY <1>1, <1>3, <2>1, <2>2, RowFacts DEF Opens
<1>9. CASE t \in OrderId /\ LiquidatorOpens(t)
  <2> DEFINE W == [r \in {OrderRow(t)} |-> NewClosing]
  <2>1. db' = Written(W)
    BY <1>9, WritesIs DEF LiquidatorOpens
  <2>2. DOMAIN W = {OrderRow(t)}
    OBVIOUS
  <2> HIDE DEF W
  <2> QED  BY <1>1, <1>9, <2>1, <2>2, RowFacts DEF Opens
<1>10. CASE t \in OrderId /\ LiquidatorDrops(t)
  <2> DEFINE W == [r \in {OrderRow(t)} |-> DroppedClosing]
  <2>1. db' = Written(W)
    BY <1>10, LiquidatorDropsKeeps, WritesIs DEF DropOne
  <2>2. DOMAIN W = {OrderRow(t)} /\ W[OrderRow(t)].status = "rejected"
    BY DEF DroppedClosing
  <2> HIDE DEF W
  <2> QED  BY <1>1, <1>10, <2>1, <2>2, RowFacts
<1>4. CASE t \in OrderId /\ UndoEnds(t)
  <2>1. db' = Written(UndoWrites(db, t))
    BY <1>4, UndoEndsKeeps, WritesIs DEF UndoOne
  <2>2. /\ DOMAIN UndoWrites(db, t) = {OrderRow(t), UserRow(OwnerOf(t))}
        /\ UndoWrites(db, t)[OrderRow(t)].status = "rejected"
    BY DEF UndoWrites, OrderAndUser
  <2> QED  BY <1>1, <2>1, <2>2, RowFacts
<1>5. CASE SettleEnds
  <2>1. db' = Written(SettleWrites(db, Current)) /\ Current \in DOMAIN results
    BY <1>5, SettleEndsKeeps, WritesIs DEF SettleOne
  <2>2. results[Current] \in EngineResult
    BY <2>1, ResultRows
  <2>3. /\ SettleWrites(db, Current)[EventRow(Current)] = TRUE
        /\ \A m : EventRow(m) \in DOMAIN SettleWrites(db, Current) => m = Current
        /\ \A o : OrderRow(o) \in DOMAIN SettleWrites(db, Current) =>
             SettleWrites(db, Current)[OrderRow(o)].status # "open"
    BY ONLY <2>2, SettleShows
  <2> QED  BY <1>1, <2>1, <2>3
<1>6. CASE t \in Funder /\ FundEnds(t)
  <2>1. FundOne
    BY <1>6, FundEndsKeeps
  <2>0. PICK users \in SUBSET User :
          \E holders \in SUBSET users, num \in Rates, last \in User :
            db' = Written(FundWrites(db, users, holders, num, last))
    BY <2>1, WritesIs DEF FundOne
  <2>2. PICK holders \in SUBSET users, num \in Rates, last \in User :
          db' = Written(FundWrites(db, users, holders, num, last))
    BY <2>0
  <2>3. DOMAIN FundWrites(db, users, holders, num, last) \subseteq FundRows(users, holders)
    BY FundReadsAll
  <2>4. \A n, o : /\ EventRow(n) \notin FundRows(users, holders)
                  /\ OrderRow(o) \notin FundRows(users, holders)
    BY RowFacts DEF FundRows
  <2> QED  BY <1>1, <2>2, <2>3, <2>4
<1>7. \/ db' = db
      \/ t \in OrderId /\ PlaceEnds(t) /\ db' # db
      \/ t \in OrderId /\ UndoEnds(t)
      \/ t \in OrderId /\ (LiquidatorOpens(t) \/ LiquidatorDrops(t))
      \/ SettleEnds
      \/ t \in Funder /\ FundEnds(t)
  BY DEF StepOf, LiquidatorScans, LiquidatorFails, Lock, Wait, DeadlockAbort, Dies, PlaceBegins, PlaceReadsRows, Enqueue,
     EnqueueFails, UndoReads, SettleBegins, SettleInserts, SettleLocksUsers,
     SettleLocksPositions, Acknowledge, FundBegins, FundInserts, FundLocksPositions
<1> HIDE DEF Goal
<1>8. Goal
  BY <1>2, <1>3, <1>4, <1>5, <1>6, <1>7, <1>9, <1>10 DEF Goal
<1> QED  BY <1>8 DEF Goal

-----------------------------------------------------------------------------
(* Answers.                                                                *)

(* One id is one row.                                                      *)
LEMMA OneRow ==
  /\ \A o \in OrderId : OrderRows({o}) = <<OrderRow(o)>>
  /\ \A u \in User : UserRows({u}) = <<UserRow(u)>>
<1>1. \A x : Cardinality({x}) = 1
  BY FS_Singleton
<1>2. ASSUME NEW a \in Nat PROVE Sorted({a})[1] = a
  <2>1. IsFiniteSet({a}) /\ {a} \subseteq Nat
    BY FS_Singleton
  <2> QED  BY <1>1, <2>1, SortedAll
<1>3. ASSUME NEW o \in OrderId PROVE OrderRows({o}) = <<OrderRow(o)>>
  <2>1. Cardinality({o}) = 1 /\ Sorted({o})[1] = o
    BY <1>1, <1>2, TransactionsAssumption
  <2>2. OrderRows({o}) = [k \in 1..1 |-> OrderRow(Sorted({o})[k])]
    BY <2>1 DEF OrderRows
  <2> QED  BY ONLY <2>1, <2>2
<1>4. ASSUME NEW u \in User PROVE UserRows({u}) = <<UserRow(u)>>
  <2>1. Cardinality({u}) = 1 /\ Sorted({u})[1] = u
    BY <1>1, <1>2, TransactionsAssumption
  <2>2. UserRows({u}) = [k \in 1..1 |-> UserRow(Sorted({u})[k])]
    BY <2>1 DEF UserRows
  <2> QED  BY ONLY <2>1, <2>2
<1> QED  BY <1>3, <1>4

(* The answer speaks of one order.                                         *)
LEMMA AnswerFacts ==
  ASSUME TransInv, NEW o \in OrderId, Answering(o)
  PROVE  Current \in DOMAIN results /\ CurrentOrders = {o}
<1>1. Current \in DOMAIN results
  BY WorkerKept DEF Answering, WorkerOK
<1>2. /\ results[Current].ids \in Seq(OrderId) /\ Len(results[Current].ids) = 1
      /\ o \in CurrentOrders
  BY <1>1, ResultRows DEF Answering, EngineResult
<1>3. DOMAIN results[Current].ids = 1..1
  BY <1>2, LenProperties
<1> QED  BY <1>1, <1>2, <1>3 DEF CurrentOrders, Range

LEMMA AnsweringStays ==
  ASSUME TransInv, AttemptsInv, NEW t \in Txn, StepOf(t), NEW o \in OrderId, Answering(o)'
  PROVE  AnsweringOK(o)'
<1> DEFINE E == {EventRow(Current)}
           U == UserRow(OwnerOf(o))
<1>1. LeavesOthers(t) /\ results' = results
  BY StepLeavesOthers DEF AttemptsInv, LeavesOthers
<1>2. CASE t # Worker
  <2>1. Untouched(Worker) /\ settled' = settled
    BY <1>1, <1>2, TxnFacts DEF LeavesOthers
  <2>2. Current' = Current /\ CurrentOrders' = CurrentOrders
    BY <1>1, <2>1 DEF Current, CurrentOrders
  <2>3. Answering(o)
    BY <1>1, <2>1, <2>2 DEF Answering, Untouched
  <2>4. AnsweringOK(o)
    BY <2>3 DEF AttemptsInv
  <2> QED  BY <2>1, <2>2, <2>4 DEF AnsweringOK, Untouched, Claims
<1>3. CASE t = Worker
  <2>0. /\ WorkerOK /\ Worker \in Txn /\ Worker \notin OrderId /\ Worker \notin Funder
        /\ CountersOK
    BY WorkerKept, TxnFacts DEF AttemptsInv
  <2>1. ASSUME settled' = settled
        PROVE  /\ Current' = Current /\ CurrentOrders' = CurrentOrders
               /\ at[Worker] \notin {"idle", "done"} => Answering(o) /\ AnsweringOK(o)
    BY <1>1, <2>1 DEF Current, CurrentOrders, Answering, AttemptsInv
  <2>2. CASE Lock(Worker)
    <3>1. /\ at'[Worker] = at[Worker] /\ rows'[Worker] = Tail(rows[Worker])
          /\ locked'[Worker] = locked[Worker] \cup {Head(rows[Worker])}
      BY <2>0, <2>2, TurnLock DEF Turn
    <3>2. /\ rows[Worker] # <<>>
          /\ Range(rows[Worker]) = {Head(rows[Worker])} \cup Range(Tail(rows[Worker]))
      BY <2>0, <2>2, RangeSplit DEF Lock, TransInv, TxnTypes
    <3>3. Current' = Current /\ AnsweringOK(o)
      BY <2>1, <2>2, <3>1 DEF Lock, Answering
    <3>4. \A r : Head(<<r>>) = r /\ Tail(<<r>>) = <<>>
      OBVIOUS
    <3>5. at[Worker] = "event" => Claims(Worker)' \subseteq E
      BY <3>1, <3>2, <3>3 DEF Claims, AnsweringOK
    <3> QED  BY <3>1, <3>2, <3>3, <3>4, <3>5 DEF AnsweringOK
  <2>3. CASE Wait(Worker)
    BY <2>1, <2>3 DEF Wait, AnsweringOK, Claims, Answering
  <2>4. ASSUME NEW stage, NEW r, rows'[Worker] = <<r>>, locked'[Worker] = {},
               stage = "event", r = EventRow(Current), at'[Worker] = stage, settled' = settled
        PROVE  AnsweringOK(o)'
    BY <2>1, <2>4, RangeFacts DEF AnsweringOK, Claims
  <2>5. CASE DeadlockAbort(Worker)
    <3>1. CASE Restarted(Worker)
      <4>1. settled' = settled
        BY <2>5 DEF DeadlockAbort
      <4> QED  BY <2>0, <2>4, <3>1, <4>1, MovesRestarted
    <3>2. CASE GivesUp(Worker)
      BY <2>0, <3>2, MovesEnds DEF GivesUp, Answering
    <3> QED  BY <2>5, <3>1, <3>2 DEF DeadlockAbort, Aborted
  <2>6. CASE Dies(Worker)
    BY <2>0, <2>6, MovesEnds DEF Dies, Answering
  <2>7. CASE SettleBegins
    <3>1. locked[Worker] = {}
      BY <2>0, <2>7 DEF SettleBegins, WorkerOK, Idle
    <3>2. Begin(Worker, "event", EventRow(Current)) /\ settled' = settled
      BY <2>7 DEF SettleBegins
    <3> QED  BY <2>0, <2>4, <3>1, <3>2, MovesBegin
  <2>8. ASSUME NEW stage, NEW rs, Advance(Worker, stage, rs), settled' = settled,
               rows[Worker] = <<>>, at[Worker] \notin {"idle", "done"}
        PROVE  /\ at'[Worker] = stage /\ rows'[Worker] = rs /\ locked'[Worker] = locked[Worker]
               /\ Current' = Current /\ CurrentOrders = {o} /\ results[Current].kind = "not_open"
               /\ AnsweringOK(o) /\ Claims(Worker) = locked[Worker]
    BY <2>0, <2>1, <2>8, MovesAdvance, AnswerFacts, RangeFacts DEF Answering, Claims
  <2>9. CASE SettleInserts
    <3>1. CASE Ends(Worker, "done")
      BY <2>0, <3>1, MovesEnds DEF Answering
    <3>2. CASE Advance(Worker, "orders", OrderRows(CurrentOrders))
      <4>1. rows[Worker] = <<>> /\ at[Worker] = "event" /\ settled' = settled
        BY <2>9 DEF SettleInserts, Ready
      <4>2. /\ at'[Worker] = "orders" /\ rows'[Worker] = OrderRows({o})
            /\ locked'[Worker] = locked[Worker] /\ Current' = Current
            /\ AnsweringOK(o) /\ Claims(Worker) = locked[Worker]
        BY <2>8, <3>2, <4>1
      <4> QED  BY <4>1, <4>2, OneRow DEF AnsweringOK
    <3> QED  BY <2>9, <3>1, <3>2 DEF SettleInserts
  <2>10. CASE SettleLocksUsers
    <3>1. /\ rows[Worker] = <<>> /\ at[Worker] = "orders" /\ settled' = settled
          /\ Advance(Worker, "users", UserRows({OwnerOf(i) : i \in CurrentOrders}))
      BY <2>10 DEF SettleLocksUsers, Ready
    <3>2. /\ at'[Worker] = "users" /\ rows'[Worker] = UserRows({OwnerOf(i) : i \in CurrentOrders})
          /\ locked'[Worker] = locked[Worker] /\ Current' = Current
          /\ CurrentOrders = {o} /\ AnsweringOK(o)
      BY <2>8, <3>1
    <3>3. {OwnerOf(i) : i \in CurrentOrders} = {OwnerOf(o)} /\ OwnerOf(o) \in User
      BY <3>2, OwnerFacts
    <3>4. rows'[Worker] = <<U>>
      BY <3>2, <3>3, OneRow
    <3> QED  BY <3>1, <3>2, <3>4 DEF AnsweringOK
  <2>11. CASE SettleLocksPositions
    <3>1. /\ rows[Worker] = <<>> /\ at[Worker] = "users" /\ settled' = settled
          /\ \E rs : Advance(Worker, "positions", rs)
      BY <2>11 DEF SettleLocksPositions, Ready
    <3>2. results[Current].kind = "not_open"
      BY <2>8, <3>1
    <3>3. Advance(Worker, "positions", <<>>)
      BY <2>11, <3>2 DEF SettleLocksPositions
    <3> QED  BY <2>8, <3>1, <3>3 DEF AnsweringOK
  <2>12. CASE SettleEnds
    BY <2>0, <2>12, MovesEnds DEF SettleEnds, Commits, Answering
  <2>13. CASE Acknowledge
    BY <2>13 DEF Acknowledge, Goto, Answering, TransInv, TxnTypes
  <2> QED  BY <1>3, <2>0, <2>2, <2>3, <2>5, <2>6, <2>7, <2>9, <2>10, <2>11, <2>12, <2>13
           DEF StepOf
<1> QED  BY <1>2, <1>3

-----------------------------------------------------------------------------
(* Attempts.                                                               *)

(* Whoever has locked the order of a rollback, and is not the rollback, is *)
(* the worker that settles the answer to a cancel of it.                   *)
LEMMA WhoHolds ==
  ASSUME TransInv, NEW o \in OrderId, NEW s \in Txn, s # o, OrderRow(o) \in Claims(s)
  PROVE  s = Worker
<1>1. TxnOK(s)
  BY DEF TransInv
<1>2. s \notin OrderId
  BY <1>1, RowFacts DEF TxnOK, RequestOK
<1>3. s \notin Funder
  BY <1>1, RowFacts DEF TxnOK, FunderOK, AccountRows
<1> QED  BY <1>2, <1>3, TxnFacts

LEMMA WorkerHolds ==
  ASSUME TransInv, AttemptsInv, NEW o \in OrderId, Undoing(o), OrderRow(o) \in locked[Worker]
  PROVE  /\ Answering(o) /\ AnsweringOK(o) /\ Current \in DOMAIN results
         /\ at[Worker] \in {"orders", "users", "positions"}
         /\ rows[Worker] # <<>> =>
              /\ at[Worker] = "users" /\ rows[Worker] = <<UserRow(OwnerOf(o))>>
              /\ locked[Worker] \subseteq {EventRow(Current), OrderRow(o)}
         /\ ~IsSettled(o)
<1>1. WorkerOK /\ OrderRow(o) \in Claims(Worker) /\ at[Worker] \notin {"idle", "done"}
  BY WorkerKept DEF WorkerOK, Idle, Claims
<1>2. Current \in DOMAIN results /\ o \in CurrentOrders
  BY <1>1, RowFacts DEF WorkerOK, AccountRows
<1>3. results[Current].kind = "not_open"
  BY <1>2 DEF TransInv, AnswersQueued, Undoing, CurrentOrders
<1>4. Answering(o) /\ AnsweringOK(o)
  BY <1>1, <1>2, <1>3 DEF Answering, AttemptsInv
<1>5. at[Worker] # "event"
  BY <1>1, <1>4, RowFacts DEF AnsweringOK
<1>6. at[Worker] \in {"orders", "users", "positions"}
  BY <1>1, <1>5 DEF WorkerOK
<1>7. rows[Worker] # <<>> =>
        /\ at[Worker] = "users" /\ rows[Worker] = <<UserRow(OwnerOf(o))>>
        /\ locked[Worker] \subseteq {EventRow(Current), OrderRow(o)}
  BY <1>4, <1>6, RowFacts DEF AnsweringOK
<1>9. o \notin Closing
  BY TxnFacts DEF TransInv, TxnOK, RequestOK, Undoing
<1>8. ~IsSettled(o)
  <2> SUFFICES ASSUME NEW n \in DOMAIN results, o \in Range(results[n].ids), db[EventRow(n)]
               PROVE  FALSE
    BY DEF IsSettled
  <2>1. results[n].kind \in {"cancel", "not_open"}
    BY ResultRows DEF TransInv, AnswersQueued, Undoing, EngineResult
  <2>2. n = Current
    BY <1>2, <1>3, <1>9, <2>1 DEF AttemptsInv, AnswersOK, CurrentOrders
  <2>3. ~db[EventRow(Current)]
    <3>1. /\ EventRow(Current) \in DOMAIN seen[Worker]
          /\ ~seen[Worker][EventRow(Current)]
      BY <1>1, <1>6 DEF WorkerOK
    <3>2. seen[Worker][EventRow(Current)] = db[EventRow(Current)]
      BY <3>1, WorkerKept
    <3> QED  BY ONLY Zenon, <3>1, <3>2
  <2> QED  BY <2>2, <2>3
<1> QED  BY <1>2, <1>4, <1>6, <1>7, <1>8

(* Once it has the order in front of the rollback, nobody waits for it in  *)
(* a circle.                                                               *)
LEMMA LeaderGoesOn ==
  ASSUME TransInv, AttemptsInv, NEW o \in OrderId, Undoing(o), Leads(o)
  PROVE  ~DeadlockAbort(Worker)
<1> DEFINE U == UserRow(OwnerOf(o))
<1>1. OrderRow(o) \in locked[Worker] /\ Worker \in Txn
  BY TxnFacts DEF Leads
<1>2. /\ Current \in DOMAIN results
      /\ rows[Worker] # <<>> =>
           /\ rows[Worker] = <<U>> /\ locked[Worker] \subseteq {EventRow(Current), OrderRow(o)}
  BY <1>1, WorkerHolds
<1> SUFFICES ASSUME NEW S \in SUBSET Range(waiting), Worker \in S, Deadlocked(S)
             PROVE  FALSE
  BY DEF DeadlockAbort
<1>3. /\ rows[Worker] = <<U>> /\ locked[Worker] \subseteq {EventRow(Current), OrderRow(o)}
  BY <1>2 DEF Deadlocked
<1>4. U \notin locked[Worker]
  BY <1>3, RowFacts
<1>5. at[o] = "undoing"
  BY <1>4 DEF Leads
<1>6. PICK s \in S : rows[s] # <<>> /\ Head(rows[s]) \in locked[Worker]
  BY DEF Deadlocked
<1>7. s \in Txn
  BY DEF AttemptsInv, WaitingOK, Range
<1>8. Head(rows[s]) \in Claims(s)
  BY <1>6, <1>7, RangeSplit DEF TransInv, TxnTypes, Claims
<1>9. TxnOK(s)
  BY <1>7 DEF TransInv
<1>10. s # Worker
  BY <1>3, <1>4, <1>6
<1>11. Head(rows[s]) = EventRow(Current) \/ Head(rows[s]) = OrderRow(o)
  BY <1>3, <1>6
<1>12. CASE Head(rows[s]) = OrderRow(o)
  <2>1. s = o
    BY <1>7, <1>8, <1>10, <1>12, WhoHolds
  <2>2. rows[o] = <<U>>
    BY <1>5, <1>6, <2>1 DEF AttemptsInv, RollbackOK
  <2> QED  BY <1>12, <2>1, <2>2, RowFacts
<1>13. CASE Head(rows[s]) = EventRow(Current)
  <2>1. s \notin OrderId
    BY <1>8, <1>9, <1>13, RowFacts DEF TxnOK, RequestOK
  <2>2. s \notin Funder
    BY <1>8, <1>9, <1>13, RowFacts DEF TxnOK, FunderOK, AccountRows
  <2> QED  BY <1>7, <1>10, <2>1, <2>2, TxnFacts
<1> QED  BY <1>11, <1>12, <1>13

(* A result that is settled stays so.                                      *)
LEMMA SettledStays ==
  ASSUME TransInv, AttemptsInv, NEW t \in Txn, StepOf(t), NEW o, IsSettled(o)
  PROVE  IsSettled(o)'
<1>1. results' = results
  BY StepLeavesOthers DEF AttemptsInv, LeavesOthers
<1> QED  BY <1>1, TablesStep DEF IsSettled

(* While the worker goes first, it settles the answer unless it dies.      *)
LEMMA WorkerPasses ==
  ASSUME TransInv, AttemptsInv, StepOf(Worker), NEW o \in OrderId, Undoing(o), Leads(o)
  PROVE  Passed(o)' \/ faults' = faults + 1
<1> DEFINE U == UserRow(OwnerOf(o))
<1>1. /\ OrderRow(o) \in locked[Worker]
      /\ U \in locked[Worker] \/ (rows[Worker] = <<U>> /\ InFront(o))
      /\ Worker \in Txn /\ Worker \notin OrderId /\ Worker \notin Funder /\ CountersOK
  BY TxnFacts DEF Leads, AttemptsInv
<1>2. /\ Answering(o) /\ Current \in DOMAIN results /\ AnsweringOK(o)
      /\ at[Worker] \in {"orders", "users", "positions"}
  BY <1>1, WorkerHolds
<1>3. ASSUME OrderRow(o) \in locked'[Worker], U \in locked'[Worker] PROVE Passed(o)'
  BY <1>3 DEF Passed, Leads
<1>4. CASE Lock(Worker)
  <2>1. locked'[Worker] = locked[Worker] \cup {Head(rows[Worker])}
    BY <1>1, <1>4, TurnLock DEF Turn
  <2> QED  BY <1>1, <1>3, <2>1
<1>5. CASE Wait(Worker)
  <2>1. locked' = locked /\ ~Waits(Worker)
    BY <1>5 DEF Wait
  <2>2. U \in locked[Worker]
    BY <1>1, <2>1 DEF InFront, Waits
  <2> QED  BY <1>1, <1>3, <2>1, <2>2
<1>6. ~DeadlockAbort(Worker)
  BY LeaderGoesOn
<1>7. CASE Dies(Worker)
  BY <1>7 DEF Dies, Fault
<1>8. ~SettleBegins /\ ~SettleInserts /\ ~Acknowledge
  BY <1>2 DEF SettleBegins, SettleInserts, Acknowledge, Ready
<1>9. CASE SettleLocksUsers \/ SettleLocksPositions
  <2>1. rows[Worker] = <<>> /\ locked' = locked
    BY <1>9 DEF SettleLocksUsers, SettleLocksPositions, Ready, Advance
  <2> QED  BY <1>1, <1>3, <2>1
<1>10. CASE SettleEnds
  <2>1. results' = results /\ db' = Written(SettleWrites(db, Current))
    BY <1>10, SettleEndsKeeps, WritesIs DEF SettleOne, SettleEnds
  <2>2. /\ EventRow(Current) \in DOMAIN SettleWrites(db, Current)
        /\ SettleWrites(db, Current)[EventRow(Current)] = TRUE
    BY <1>2, ResultRows, SettleShows
  <2>3. db'[EventRow(Current)] = TRUE
    BY <1>2, <2>1, <2>2, ResultRows, WrittenAt DEF TransInv
  <2>4. o \in Range(results'[Current].ids) /\ Current \in DOMAIN results'
    BY <1>2, <2>1 DEF Answering, CurrentOrders
  <2> QED  BY <2>3, <2>4 DEF IsSettled, Passed
<1> QED  BY <1>1, <1>4, <1>5, <1>6, <1>7, <1>8, <1>9, <1>10 DEF StepOf

(* Another abort follows only if the worker died in between.               *)
LEMMA AbortedOnce ==
  ASSUME TransInv, AttemptsInv, MaxFaults < MaxAttempts,
         NEW o \in OrderId, Undoing(o), DeadlockAbort(o)
  PROVE  Restarted(o) /\ at'[o] = "undoing" /\ TriesOK(o)'
<1> DEFINE U == UserRow(OwnerOf(o))
<1>1. PICK S \in SUBSET Range(waiting) : o \in S /\ Deadlocked(S)
  BY DEF DeadlockAbort
<1>2. /\ rows[o] # <<>>
      /\ \E s \in S : Head(rows[o]) \in locked[s]
      /\ \E s \in S : Head(rows[s]) \in locked[o]
  BY <1>1 DEF Deadlocked
<1>3. at[o] = "rejecting" /\ rows[o] = <<OrderRow(o)>> /\ OrderRow(o) \notin locked[o]
  BY <1>2 DEF AttemptsInv, RollbackOK, Undoing
<1>4. PICK s \in S : OrderRow(o) \in locked[s]
  BY <1>2, <1>3
<1>5. s \in Txn /\ s # o
  BY <1>3, <1>4 DEF AttemptsInv, WaitingOK, Range
<1>6. s = Worker
  BY <1>4, <1>5, WhoHolds DEF Claims
<1>7. Waits(Worker) /\ rows[Worker] # <<>> /\ OrderRow(o) \in locked[Worker]
  BY <1>1, <1>4, <1>6 DEF Deadlocked
<1>8. /\ rows[Worker] = <<U>> /\ locked[Worker] \subseteq {EventRow(Current), OrderRow(o)}
      /\ ~IsSettled(o)
  BY <1>7, WorkerHolds
<1>9. ~Passed(o)
  BY <1>3, <1>8, RowFacts DEF Passed, Leads
<1>10. /\ tries[o] + 1 <= faults /\ tries[o] \in Nat /\ o \in Txn /\ CountersOK
       /\ o # Worker /\ o \notin Funder
  BY <1>9, TxnFacts DEF AttemptsInv, TriesOK, CountersOK
<1>11. Restarted(o)
  BY <1>10, TransactionsAssumption DEF DeadlockAbort, Aborted, CountersOK
<1>12. /\ Untouched(Worker) /\ waiting' = Left(o) /\ locked'[o] = {} /\ tries'[o] = tries[o] + 1
  BY <1>10, <1>11, MovesRestarted, TxnFacts
<1>13. at'[o] = "undoing"
  BY <1>3, <1>10, <1>11 DEF Restarted, Goto, TransInv, TxnTypes
<1>14. InFront(o)'
  BY <1>7, <1>10, <1>12, FrontLeft DEF AttemptsInv
<1>15. Leads(o)'
  BY <1>7, <1>8, <1>12, <1>13, <1>14 DEF Leads, Untouched
<1>16. faults' = faults
  BY DEF DeadlockAbort
<1>17. tries'[o] + 1 <= faults' + 1
  BY ONLY <1>10, <1>12, <1>16 DEF CountersOK
<1> QED  BY <1>11, <1>13, <1>15, <1>17 DEF TriesOK, Passed

(* What others do.                                                         *)
LEMMA OthersRollback ==
  ASSUME TransInv, AttemptsInv, NEW t \in Txn, StepOf(t), NEW o \in OrderId, t # o
  PROVE  RollbackOK(o)' /\ TriesOK(o)'
<1>1. /\ LeavesOthers(t) /\ CountersOK /\ o \in Txn /\ RollbackOK(o) /\ TriesOK(o)
  BY StepLeavesOthers, TxnFacts DEF AttemptsInv
<1>2. /\ Untouched(o) /\ tries'[o] = tries[o] /\ results' = results
      /\ CountersOK' /\ faults <= faults' /\ WaitingOK
  BY <1>1 DEF LeavesOthers, AttemptsInv
<1>3. at[o] = "over" => ~IsOpen(db', o)
  <2>1. ~Opens(t, o)
    BY DEF Opens
  <2> QED  BY <1>1, <2>1, TablesStep DEF RollbackOK
<1>4. RollbackOK(o)'
  BY <1>1, <1>2, <1>3 DEF RollbackOK, Untouched, IsOpen
<1>5. ASSUME Undoing(o), Passed(o) PROVE Passed(o)' \/ faults' = faults + 1
  <2>1. CASE IsSettled(o)
    BY <2>1, SettledStays DEF Passed
  <2>2. CASE Leads(o) /\ t # Worker
    <3>1. Untouched(Worker)
      BY <1>1, <2>2, TxnFacts DEF LeavesOthers
    <3>2. InFront(o) => InFront(o)'
      BY <1>1, <1>2, <2>2, FrontKept
    <3> QED  BY <1>2, <2>2, <3>1, <3>2 DEF Passed, Leads, Untouched
  <2>3. CASE Leads(o) /\ t = Worker
    BY <1>5, <2>3, WorkerPasses
  <2> QED  BY <1>5, <2>1, <2>2, <2>3 DEF Passed
<1>6. ASSUME Undoing(o) PROVE tries'[o] + 1 <= faults' + (IF Passed(o)' THEN 1 ELSE 0)
  <2>1. PICK n, f, g : n = tries[o] /\ f = faults /\ g = faults'
    OBVIOUS
  <2>2. n \in Nat /\ f \in Nat /\ g \in Nat /\ f <= g /\ n = tries'[o] /\ g = faults'
    BY <1>1, <1>2, <2>1 DEF CountersOK
  <2>3. n + 1 <= f + (IF Passed(o) THEN 1 ELSE 0)
    BY <1>1, <1>6, <2>1 DEF TriesOK
  <2>4. Passed(o) => Passed(o)' \/ g = f + 1
    BY <1>5, <1>6, <2>1
  <2>5. n + 1 <= g + (IF Passed(o)' THEN 1 ELSE 0)
    BY ONLY <2>2, <2>3, <2>4
  <2> QED  BY ONLY <2>2, <2>5
<1>7. Undoing(o)' => Undoing(o)
  BY <1>2 DEF Undoing, Untouched
<1> QED  BY <1>4, <1>6, <1>7 DEF TriesOK

(* What the rollback itself does: the worker that goes first still does.   *)
LEMMA LeadsStays ==
  ASSUME TransInv, AttemptsInv, NEW o \in OrderId, StepOf(o), Leads(o),
         Lock(o) \/ Wait(o) \/ UndoReads(o)
  PROVE  Leads(o)'
<1> DEFINE U == UserRow(OwnerOf(o))
<1>1. /\ LeavesOthers(o) /\ o \in Txn /\ o # Worker /\ Worker \in Txn /\ RequestOK(o)
      /\ RollbackOK(o) /\ WaitingOK
  BY StepLeavesOthers, TxnFacts DEF AttemptsInv, TransInv, TxnOK
<1>2. Untouched(Worker)
  BY <1>1 DEF LeavesOthers
<1>3. OrderRow(o) \in locked'[Worker]
  BY <1>2 DEF Leads, Untouched
<1>4. CASE U \in locked[Worker]
  BY <1>2, <1>3, <1>4 DEF Leads, Untouched
<1>5. CASE rows[Worker] = <<U>> /\ at[o] = "undoing" /\ locked[o] = {} /\ InFront(o)
  <2>1. ~Lock(o)
    <3> SUFFICES ASSUME Lock(o) PROVE FALSE
      OBVIOUS
    <3>1. rows[o] = <<U>> /\ Free(o, U)
      BY <1>1, <1>5 DEF Lock, RollbackOK
    <3>2. PICK i \in DOMAIN waiting :
            waiting[i] = Worker /\ \A j \in DOMAIN waiting : waiting[j] = o => i < j
      BY <1>5 DEF InFront
    <3>3. \E j \in 1..i : waiting[j] = o
      BY <1>5, <3>1, <3>2 DEF Free
    <3>4. DOMAIN waiting = 1..Len(waiting) /\ Len(waiting) \in Nat
      BY <1>1, LenProperties DEF WaitingOK
    <3> QED  BY <3>2, <3>3, <3>4
  <2>2. ~UndoReads(o)
    <3>1. U \in locked[o] \/ rows[o] # <<>>
      BY <1>1, <1>5, RangeFacts DEF RequestOK, Claims
    <3> QED  BY <1>5, <3>1 DEF UndoReads, Ready
  <2>3. Wait(o)
    BY <2>1, <2>2
  <2>4. InFront(o)'
    BY <1>1, <1>5, FrontKept
  <2>5. at'[o] = at[o] /\ locked'[o] = locked[o]
    BY <2>3 DEF Wait
  <2> QED  BY <1>2, <1>3, <1>5, <2>4, <2>5 DEF Leads, Untouched
<1> QED  BY <1>4, <1>5 DEF Leads

LEMMA TriesKept ==
  ASSUME TransInv, AttemptsInv, NEW o \in OrderId, StepOf(o),
         Lock(o) \/ Wait(o) \/ UndoReads(o), Undoing(o)' => Undoing(o)
  PROVE  TriesOK(o)'
<1> SUFFICES ASSUME Undoing(o)'
             PROVE  tries'[o] + 1 <= faults' + (IF Passed(o)' THEN 1 ELSE 0)
  BY DEF TriesOK
<1>1. faults' = faults
  BY DEF Lock, Wait, UndoReads
<1>2. tries' = tries \/ ~Undoing(o)'
  <2>1. CASE Lock(o) \/ Wait(o)
    BY <2>1 DEF Lock, Wait
  <2>2. CASE UndoReads(o)
    <3>1. CASE Ends(o, "over")
      BY <3>1, MovesEnds, TxnFacts DEF AttemptsInv, Undoing
    <3> QED  BY <2>2, <3>1 DEF UndoReads, Advance
  <2> QED  BY <2>1, <2>2
<1>3. Passed(o) => Passed(o)'
  BY LeadsStays, SettledStays, TxnFacts DEF Passed
<1>4. TriesOK(o) /\ CountersOK /\ tries[o] \in Nat
  BY TxnFacts DEF AttemptsInv, CountersOK
<1> QED  BY <1>1, <1>2, <1>3, <1>4 DEF TriesOK, CountersOK

LEMMA OwnRollback ==
  ASSUME TransInv, AttemptsInv, MaxFaults < MaxAttempts, NEW o \in OrderId, StepOf(o)
  PROVE  RollbackOK(o)' /\ TriesOK(o)'
<1> DEFINE U == UserRow(OwnerOf(o))
<1>1. /\ CountersOK /\ o \in Txn /\ o # Worker /\ o \notin Funder
      /\ RollbackOK(o) /\ RequestOK(o)
  BY TxnFacts DEF AttemptsInv, TransInv, TxnOK
<1>2. Early(o) => ~IsOpen(db, o)
  BY DEF TransInv, Unwritten, IsOpen
<1>3. ASSUME at'[o] \in {"placing", "reserving", "lost", "dropping"} PROVE RollbackOK(o)' /\ TriesOK(o)'
  BY <1>3 DEF RollbackOK, TriesOK, Undoing
<1>4. ASSUME Ends(o, "over"), ~IsOpen(db', o) PROVE RollbackOK(o)' /\ TriesOK(o)'
  <2>1. at'[o] = "over"
    BY <1>1, <1>4, MovesEnds
  <2> QED  BY <1>4, <2>1 DEF RollbackOK, TriesOK, Undoing, IsOpen
<1>5. CASE Lock(o) \/ Wait(o)
  <2>1. at' = at
    BY <1>5 DEF Lock, Wait
  <2>2. rows[o] # <<>>
    BY <1>5 DEF Lock, Wait
  <2>3. at[o] \in {"placing", "reserving", "undoing", "rejecting", "dropping"}
    BY <1>1, <2>2 DEF RequestOK, Idle
  <2>4. rows'[o] = Tail(rows[o]) \/ (rows' = rows /\ locked' = locked)
    BY <1>1, <1>5 DEF Lock, Wait, TransInv, TxnTypes
  <2>5. \A r : Tail(<<r>>) = <<>>
    OBVIOUS
  <2>6. RollbackOK(o)'
    BY <1>1, <2>1, <2>2, <2>3, <2>4, <2>5 DEF RollbackOK
  <2>7. Undoing(o)' => Undoing(o)
    BY <2>1 DEF Undoing
  <2> QED  BY <1>5, <2>6, <2>7, TriesKept
<1>6. CASE DeadlockAbort(o)
  <2>1. CASE Undoing(o)
    <3>1. Restarted(o) /\ at'[o] = "undoing" /\ TriesOK(o)'
      BY <1>6, <2>1, AbortedOnce
    <3>2. rows'[o] = <<U>> /\ locked'[o] = {}
      BY <1>1, <3>1, MovesRestarted
    <3> QED  BY <3>1, <3>2 DEF RollbackOK
  <2>2. CASE ~Undoing(o) /\ Restarted(o)
    <3>1. at'[o] \in {"placing", "undoing"} /\ (at'[o] = "undoing" => Undoing(o))
      BY <1>1, <2>2, MovesRestarted
    <3> QED  BY <1>3, <2>2, <3>1
  <2>3. CASE ~Undoing(o) /\ GivesUp(o)
    <3>1. Ends(o, "over") /\ db' = db
      BY <1>6, <2>3 DEF GivesUp, DeadlockAbort
    <3>2. rows[o] # <<>>
      BY <1>6 DEF DeadlockAbort, Deadlocked
    <3>3. at[o] # "dropping"
      BY <1>1, <1>6, RangeFacts DEF DeadlockAbort, Deadlocked, RequestOK
    <3>4. Early(o)
      BY <1>1, <2>3, <3>2, <3>3 DEF RequestOK, Idle, Undoing, Early
    <3> QED  BY <1>2, <1>4, <3>1, <3>4
  <2> QED  BY <1>6, <2>1, <2>2, <2>3 DEF DeadlockAbort, Aborted
<1>7. CASE Dies(o)
  <2>1. at'[o] = "lost"
    BY <1>1, <1>7, MovesEnds DEF Dies
  <2> QED  BY <1>3, <2>1
<1>8. CASE PlaceBegins(o) \/ PlaceReadsRows(o)
  <2>1. at'[o] \in {"placing", "reserving"}
    BY <1>1, <1>8, MovesBegin, MovesAdvance DEF PlaceBegins, PlaceReadsRows
  <2> QED  BY <1>3, <2>1
<1>9. CASE PlaceEnds(o)
  <2>1. CASE Ends(o, "over") /\ db' = db
    <3>1. Early(o)
      BY <1>9 DEF PlaceEnds, Ready, Early
    <3> QED  BY <1>2, <1>4, <2>1, <3>1
  <2>2. CASE Ends(o, "written")
    <3>1. at'[o] = "written" /\ seen'[o] = <<>> /\ tries'[o] = 0
      BY <1>1, <2>2, MovesEnds
    <3> QED  BY <3>1 DEF RollbackOK, TriesOK, Undoing
  <2> QED  BY <1>9, <2>1, <2>2 DEF PlaceEnds, Commits
<1>10. CASE Enqueue(o)
  <2>1. at[o] = "written" /\ at'[o] = "queued" /\ seen' = seen
    BY <1>1, <1>10 DEF Enqueue, Goto, TransInv, TxnTypes
  <2> QED  BY <1>1, <2>1 DEF RollbackOK, TriesOK, Undoing
<1>11. CASE EnqueueFails(o)
  <2>1. /\ at[o] = "written" /\ Begin(o, "undoing", U) /\ Fault
    BY <1>11 DEF EnqueueFails
  <2>2. /\ at'[o] = "undoing" /\ rows'[o] = <<U>> /\ locked'[o] = locked[o] /\ tries' = tries
    BY <1>1, <2>1, MovesBegin
  <2>3. locked[o] = {} /\ tries[o] = 0
    BY <1>1, <2>1 DEF RequestOK, Idle, RollbackOK
  <2>4. faults' = faults + 1 /\ faults \in Nat
    BY <1>1, <2>1 DEF Fault, CountersOK
  <2>5. tries'[o] + 1 <= faults'
    BY ONLY <2>2, <2>3, <2>4
  <2>6. faults' + 0 = faults' /\ tries'[o] + 1 <= faults' + 1
    BY ONLY <2>2, <2>3, <2>4
  <2>7. TriesOK(o)'
    BY <2>5, <2>6 DEF TriesOK
  <2> QED  BY <2>2, <2>3, <2>7 DEF RollbackOK
<1>12. CASE UndoReads(o)
  <2>1. at[o] = "undoing" /\ rows[o] = <<>> /\ db' = db
    BY <1>12 DEF UndoReads, Ready
  <2>2. CASE ~IsOpen(db, o)
    BY <1>4, <1>12, <2>1, <2>2 DEF UndoReads
  <2>3. CASE IsOpen(db, o)
    <3>1. at'[o] = "rejecting" /\ rows'[o] = <<OrderRow(o)>> /\ locked'[o] = locked[o]
      BY <1>1, <1>12, <2>3, MovesAdvance DEF UndoReads
    <3>2. OrderRow(o) \notin locked[o]
      BY <1>1, <2>1, RowFacts DEF RequestOK, Claims
    <3>3. RollbackOK(o)'
      BY <3>1, <3>2 DEF RollbackOK
    <3>4. TriesOK(o)'
      BY <1>12, <2>1, TriesKept DEF Undoing
    <3> QED  BY <3>3, <3>4
  <2> QED  BY <2>2, <2>3
<1>13. CASE UndoEnds(o)
  <2>1. Ends(o, "over")
    BY <1>13 DEF UndoEnds, Commits
  <2>2. db' = Written(UndoWrites(db, o))
    BY <1>13, UndoEndsKeeps, WritesIs DEF UndoOne
  <2>3. /\ OrderRow(o) \in DOMAIN UndoWrites(db, o)
        /\ UndoWrites(db, o)[OrderRow(o)].status = "rejected"
    BY RowFacts DEF UndoWrites, OrderAndUser
  <2>4. db'[OrderRow(o)].status = "rejected"
    BY <2>2, <2>3, WrittenAt, RowsIn DEF TransInv
  <2> QED  BY <1>4, <2>1, <2>4 DEF IsOpen
<1>14. CASE LiquidatorScans(o) \/ LiquidatorFails(o)
  <2>1. CASE LiquidatorScans(o)
    <3>1. at[o] = "none" /\ at'[o] = "scanned" /\ tries' = tries
      BY <1>1, <2>1 DEF LiquidatorScans, Goto, TransInv, TxnTypes
    <3> QED  BY <1>1, <3>1 DEF RollbackOK, TriesOK, Undoing
  <2>2. CASE LiquidatorFails(o)
    <3>1. at'[o] = "dropping"
      BY <1>1, <2>2, MovesBegin DEF LiquidatorFails
    <3> QED  BY <1>3, <3>1
  <2> QED  BY <1>14, <2>1, <2>2
<1>15. CASE LiquidatorOpens(o)
  <2>1. at[o] = "scanned" /\ at'[o] = "written" /\ seen' = seen /\ tries' = tries
    BY <1>1, <1>15 DEF LiquidatorOpens, Goto, TransInv, TxnTypes
  <2>2. seen[o] = <<>> /\ tries[o] = 0
    BY <1>1, <2>1 DEF RequestOK, Idle, RollbackOK
  <2> QED  BY <2>1, <2>2 DEF RollbackOK, TriesOK, Undoing
<1>16. CASE LiquidatorDrops(o)
  <2>1. Ends(o, "over")
    BY <1>16 DEF LiquidatorDrops, Commits
  <2>2. DropOne(o) /\ DOMAIN db = Rows /\ OrderRow(o) \in Rows
    BY <1>16, LiquidatorDropsKeeps, RowsIn DEF TransInv
  <2> DEFINE W == [r \in {OrderRow(o)} |-> DroppedClosing]
  <2>3. db' = Written(W) /\ OrderRow(o) \in DOMAIN W /\ W[OrderRow(o)].status = "rejected"
    BY <2>2, WritesIs DEF DropOne, DroppedClosing
  <2> HIDE DEF W
  <2>4. db'[OrderRow(o)].status = "rejected"
    BY <2>2, <2>3, WrittenAt
  <2> QED  BY <1>4, <2>1, <2>4 DEF IsOpen
<1> QED
  BY <1>1, <1>5, <1>6, <1>7, <1>8, <1>9, <1>10, <1>11, <1>12, <1>13, <1>14, <1>15, <1>16 DEF StepOf

(* A step of a process keeps the invariant.                                *)
LEMMA AttemptsStep ==
  ASSUME TransInv, AttemptsInv, MaxFaults < MaxAttempts, NEW t \in Txn, StepOf(t)
  PROVE  AttemptsInv'
<1>1. LeavesOthers(t)
  BY StepLeavesOthers DEF AttemptsInv
<1>2. CountersOK' /\ WaitingOK' /\ AnswersOK'
  BY <1>1, QueueKept DEF LeavesOthers, AttemptsInv, AnswersOK
<1>3. ASSUME NEW o \in OrderId
      PROVE  RollbackOK(o)' /\ TriesOK(o)' /\ (Answering(o)' => AnsweringOK(o)')
  BY <1>3, OthersRollback, OwnRollback, AnsweringStays
<1> QED  BY <1>2, <1>3 DEF AttemptsInv

(* The engine publishes: nothing that is going on is disturbed.            *)
LEMMA PublishedKeeps ==
  ASSUME TransInv, AttemptsInv, NEW kind, NEW ids, Publish(kind, ids),
         kind # "trade" => \A o \in Range(ids) \ Closing : \A n \in DOMAIN results :
           results[n].kind # "trade" => o \notin Range(results[n].ids)
  PROVE  AttemptsInv'
<1> DEFINE answer == [kind |-> kind, ids |-> ids]
           last == Len(results) + 1
<1>1. /\ results \in Seq(EngineResult) /\ Len(results) \in Nat
      /\ results' = Append(results, answer)
      /\ UNCHANGED <<db, at, rows, seen, tries, locked, waiting, settled, faults>>
  BY LenProperties DEF TransInv, ResultsOK, Publish, txVars
<1>2. /\ DOMAIN results = 1..Len(results) /\ DOMAIN results' = 1..last
      /\ \A n \in 1..Len(results) : results'[n] = results[n]
      /\ results'[last] = answer
  <2>1. \A n \in 1..Len(results) : Append(results, answer)[n] = results[n]
    BY <1>1
  <2>2. Append(results, answer)[last] = answer /\ DOMAIN Append(results, answer) = 1..last
    BY <1>1
  <2> QED  BY <1>1, <2>1, <2>2, LenProperties
<1>3. \A n \in DOMAIN results' : n \in DOMAIN results \/ n = last
  BY <1>1, <1>2
<1>4. /\ \A n \in DOMAIN results : n \in DOMAIN results' /\ results'[n] = results[n]
      /\ last \in DOMAIN results' /\ results'[last].kind = kind /\ results'[last].ids = ids
  BY <1>1, <1>2
<1> HIDE DEF answer, last
<1>5. AnswersOK'
  <2>2. ASSUME NEW m \in DOMAIN results', NEW n \in DOMAIN results',
               results'[m].kind # "trade", results'[n].kind # "trade",
               (Range(results'[m].ids) \cap Range(results'[n].ids)) \ Closing # {}
        PROVE  m = n
    <3>1. CASE m \in DOMAIN results /\ n \in DOMAIN results
      BY <1>4, <2>2, <3>1 DEF AttemptsInv, AnswersOK
    <3>2. CASE m \in DOMAIN results /\ n = last
      BY <1>4, <2>2, <3>2
    <3>3. CASE m = last /\ n \in DOMAIN results
      BY <1>4, <2>2, <3>3
    <3> QED  BY <1>3, <3>1, <3>2, <3>3
  <2> QED  BY <2>2 DEF AnswersOK
<1>6. ASSUME NEW o \in OrderId PROVE RollbackOK(o)' /\ TriesOK(o)'
  <2>1. RollbackOK(o)'
    BY <1>1 DEF AttemptsInv, RollbackOK, IsOpen
  <2>2. IsSettled(o) => IsSettled(o)'
    BY <1>1, <1>4 DEF IsSettled
  <2>3. Leads(o) => Leads(o)'
    BY <1>1 DEF Leads, InFront
  <2>4. Passed(o) => Passed(o)'
    BY <2>2, <2>3 DEF Passed
  <2>5. TriesOK(o) /\ CountersOK /\ o \in Txn
    BY TxnFacts DEF AttemptsInv
  <2>6. tries[o] \in Nat /\ faults \in Nat
    BY <2>5 DEF CountersOK
  <2>7. TriesOK(o)'
    BY <1>1, <2>4, <2>5, <2>6 DEF TriesOK, Undoing
  <2> QED  BY <2>1, <2>7
<1>7. ASSUME NEW o \in OrderId, Answering(o)' PROVE AnsweringOK(o)'
  <2>1. Current \in DOMAIN results /\ Current' = Current
    BY <1>1, <1>7, WorkerKept DEF Answering, WorkerOK, Current
  <2>2. results'[Current] = results[Current]
    BY <1>4, <2>1
  <2>3. Answering(o)
    BY <1>1, <1>7, <2>1, <2>2 DEF Answering, CurrentOrders
  <2> QED  BY <1>1, <2>1, <2>3 DEF AttemptsInv, AnsweringOK, Claims
<1>8. CountersOK' /\ WaitingOK'
  BY <1>1 DEF AttemptsInv, CountersOK, WaitingOK
<1> QED  BY <1>5, <1>6, <1>7, <1>8 DEF AttemptsInv

LEMMA EngineKeeps ==
  ASSUME TransInv, AttemptsInv,
         \/ \E b, s \in OrderId : Trade(b, s)
         \/ \E o \in OrderId : Cancel(o) \/ NoLiquidity(o)
  PROVE  AttemptsInv'
<1>1. ASSUME NEW b \in OrderId, NEW s \in OrderId, Trade(b, s) PROVE AttemptsInv'
  BY <1>1, PublishedKeeps DEF Trade
<1>2. ASSUME NEW o \in OrderId, Cancel(o) PROVE AttemptsInv'
  <2>1. PICK kind : Publish(kind, <<o>>) /\ kind \in {"cancel", "not_open"}
    BY <1>2 DEF Cancel
  <2>2. \A n \in DOMAIN results :
          results[n].kind \in {"cancel", "not_open"} => o \notin Range(results[n].ids)
    BY <1>2 DEF Cancel, Answered
  <2>3. \A n \in DOMAIN results : results[n].kind \in {"trade", "cancel", "not_open"}
    BY ResultRows DEF EngineResult
  <2> QED  BY <2>1, <2>2, <2>3, RangeFacts, PublishedKeeps
<1>3. ASSUME NEW o \in OrderId, NoLiquidity(o) PROVE AttemptsInv'
  <2>1. Publish("cancel", <<o>>) /\ o \in Closing
    BY <1>3 DEF NoLiquidity
  <2>2. Range(<<o>>) \ Closing = {}
    BY <2>1, RangeFacts
  <2> QED  BY <2>1, <2>2, PublishedKeeps
<1> QED  BY <1>1, <1>2, <1>3

LEMMA AttemptsInit ==
  ASSUME Init
  PROVE  AttemptsInv
<1>1. CountersOK
  BY TransactionsAssumption DEF Init, CountersOK
<1>2. WaitingOK
  <2>1. <<>> \in Seq(Txn) /\ DOMAIN <<>> = {}
    OBVIOUS
  <2> QED  BY <2>1 DEF Init, WaitingOK
<1>3. AnswersOK
  <2>1. results = <<>>
    BY DEF Init, AccountsInit
  <2> QED  BY <2>1 DEF AnswersOK
<1>4. ASSUME NEW o \in OrderId PROVE RollbackOK(o) /\ TriesOK(o)
  <2>1. /\ o \in Txn /\ at[o] \in {"queued", "none"} /\ seen[o] = <<>> /\ tries[o] = 0
    BY TxnFacts DEF Init
  <2> QED  BY <2>1 DEF RollbackOK, TriesOK, Undoing
<1>5. ASSUME NEW o \in OrderId PROVE ~Answering(o)
  <2>1. at[Worker] = "idle"
    BY TransactionsAssumption, TxnFacts DEF Init
  <2> QED  BY <2>1 DEF Answering
<1> QED  BY <1>1, <1>2, <1>3, <1>4, <1>5 DEF AttemptsInv

LEMMA AttemptsStutter ==
  ASSUME AttemptsInv, UNCHANGED vars
  PROVE  AttemptsInv'
BY DEF vars, AttemptsInv, CountersOK, WaitingOK, AnswersOK, RollbackOK, TriesOK, Undoing, Passed,
       IsSettled, Leads, InFront, Answering, AnsweringOK, Claims, Current, CurrentOrders, IsOpen

(* With fewer faults than attempts, withTransaction never gives up the     *)
(* rollback of an order whose XADD failed: it is aborted only by the       *)
(* worker that settles the answer to a cancel of the order, once, and once *)
(* more for each death of the worker, whoever else runs.                   *)
THEOREM FailedOrdersEnd == MaxFaults < MaxAttempts => (Spec => []FailedOrderEnds)
<1> SUFFICES ASSUME MaxFaults < MaxAttempts PROVE Spec => []FailedOrderEnds
  OBVIOUS
<1>1. Init => AttemptsInv
  BY AttemptsInit
<1>2. TransInv /\ AttemptsInv /\ [Next]_vars => AttemptsInv'
  BY StepsOf, AttemptsStep, EngineKeeps, AttemptsStutter
<1>3. AttemptsInv => FailedOrderEnds
  BY DEF AttemptsInv, RollbackOK, FailedOrderEnds
<1> QED  BY <1>1, <1>2, <1>3, TransactionsInvariant, PTL DEF Spec

=============================================================================
