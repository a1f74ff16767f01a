---------------------------- MODULE Transactions ----------------------------
(***************************************************************************)
(* The transactions of Accounts statement by statement, as PostgreSQL runs *)
(* them at READ COMMITTED: a row is locked when it is its turn in the      *)
(* row's queue, what others commit is seen at once, what a transaction     *)
(* writes when it commits, and of transactions that wait for each other    *)
(* one is aborted and tried again (withTransaction).  Processes may die at *)
(* any point; their transactions are then aborted.                         *)
(*                                                                         *)
(* Source: apps/api/src/lib/orders.ts, apps/db-worker/src/settlement.ts,   *)
(* apps/funding-service/src/index.ts, apps/liquidator/src/index.ts,        *)
(* packages/db/src/index.ts.                                               *)
(***************************************************************************)
EXTENDS Accounts

CONSTANTS
  Worker,       \* the db-worker
  Funder,       \* instances of the funding service
  MaxAttempts,  \* attempts of withTransaction
  MaxFaults     \* bound: failed XADDs and deaths

ASSUME TransactionsAssumption ==
  /\ User \subseteq Nat /\ IsFiniteSet(User)
  /\ OrderId \subseteq Nat /\ IsFiniteSet(OrderId)
  /\ Asks \in [OrderId -> [user : User, side : {"buy", "sell"}]]
  /\ Resting \subseteq OrderId /\ Closing \subseteq OrderId \ Resting
  /\ Worker \notin Funder \cup OrderId /\ Funder \cap OrderId = {}
  /\ MaxResults \in Nat /\ MaxAttempts \in Nat /\ MaxFaults \in Nat

\* A request to place an order, and what the liquidator does of one, by the order.
Txn == OrderId \cup Funder \cup {Worker}

VARIABLES
  at,       \* where each process is
  rows,     \* the rows it has still to lock before its next step, in order
  seen,     \* what its transaction has read
  tries,    \* attempts of its transaction that failed
  locked,   \* the rows it has locked
  waiting,  \* the transactions that wait for a lock, in the order they asked
  settled,  \* results the worker has acknowledged
  faults

vars == <<db, results, at, rows, seen, tries, locked, waiting, settled, faults>>

txVars == <<at, rows, seen, tries, locked, waiting>>

Init ==
  /\ AccountsInit
  /\ at = [t \in Txn |-> IF t \in Resting THEN "queued" ELSE IF t \in OrderId THEN "none" ELSE "idle"]
  /\ rows = [t \in Txn |-> <<>>]
  /\ seen = [t \in Txn |-> <<>>]
  /\ tries = [t \in Txn |-> 0]
  /\ locked = [t \in Txn |-> {}]
  /\ waiting = <<>>
  /\ settled = 0
  /\ faults = 0

Fault == faults < MaxFaults /\ faults' = faults + 1

-----------------------------------------------------------------------------
(* PostgreSQL.                                                             *)

\* Ready for its next step: all rows it asked for are locked.
Ready(t, stage) == at[t] = stage /\ rows[t] = <<>>

Goto(t, stage) == at' = [at EXCEPT ![t] = stage]

\* Reads rows, locked or not; what was read before stays as it was.
Reads(t, rs) == seen' = [seen EXCEPT ![t] = Over(@, [r \in rs |-> db[r]])]

\* A transaction that starts by locking one row.
Begin(t, stage, r) ==
  /\ Goto(t, stage)
  /\ rows' = [rows EXCEPT ![t] = <<r>>]
  /\ UNCHANGED <<seen, tries, locked, waiting>>

\* The statements up to the next locks.
Advance(t, stage, rs) ==
  /\ Goto(t, stage)
  /\ rows' = [rows EXCEPT ![t] = rs]
  /\ UNCHANGED <<tries, locked, waiting>>

\* Nobody has locked the row or asked for it before.
Free(t, r) ==
  /\ \A s \in Txn : r \notin locked[s]
  /\ \A i \in DOMAIN waiting : Head(rows[waiting[i]]) = r =>
       \E j \in 1..i : waiting[j] = t

Waits(t) == \E i \in DOMAIN waiting : waiting[i] = t

\* The others that wait.
Left(t) ==
  IF Waits(t) THEN RemoveAt(waiting, CHOOSE i \in DOMAIN waiting : waiting[i] = t) ELSE waiting

\* SELECT ... FOR UPDATE of one row, or INSERT of a unique one.
Lock(t) ==
  /\ rows[t] # <<>>
  /\ LET r == Head(rows[t])
     IN  /\ Free(t, r)
         /\ locked' = [locked EXCEPT ![t] = @ \cup {r}]
         /\ Reads(t, {r})
  /\ waiting' = Left(t)
  /\ rows' = [rows EXCEPT ![t] = Tail(@)]
  /\ UNCHANGED <<db, results, at, tries, settled, faults>>

Wait(t) ==
  /\ rows[t] # <<>>
  /\ ~Free(t, Head(rows[t])) /\ ~Waits(t)
  /\ waiting' = Append(waiting, t)
  /\ UNCHANGED <<db, results, at, rows, seen, tries, locked, settled, faults>>

\* A transaction gives up all its locks and its place among the waiting.
Unlocks(t) ==
  /\ locked' = [locked EXCEPT ![t] = {}]
  /\ waiting' = Left(t)
  /\ seen' = [seen EXCEPT ![t] = <<>>]

\* The transaction ends, for the last time.
Ends(t, stage) ==
  /\ Unlocks(t)
  /\ Goto(t, stage)
  /\ rows' = [rows EXCEPT ![t] = <<>>]
  /\ tries' = [tries EXCEPT ![t] = 0]

\* What it writes is there for all at once.
Commits(t, stage, W) == Ends(t, stage) /\ Writes(W)

-----------------------------------------------------------------------------
(* The API: placeOrder.                                                    *)

\* Broken: the user is read without FOR UPDATE.
PlaceBegins_Unlocked(o) ==
  /\ at[o] = "none" /\ o \notin Closing
  /\ Goto(o, "placing")
  /\ UNCHANGED <<db, results, rows, seen, tries, locked, waiting, settled, faults>>

PlaceBegins(o) ==
  /\ at[o] = "none" /\ o \notin Closing
  /\ Begin(o, "placing", UserRow(OwnerOf(o)))
  /\ UNCHANGED <<db, results, settled, faults>>

\* Position and open orders are read without locks.
PlaceReadsRows(o) ==
  /\ Ready(o, "placing")
  /\ Reads(o, PlaceReads(o))
  /\ Advance(o, "reserving", <<>>)
  /\ UNCHANGED <<db, results, settled, faults>>

PlaceEnds(o) ==
  /\ Ready(o, "reserving")
  /\ IF Affordable(seen[o], o) THEN Commits(o, "written", PlaceWrites(seen[o], o))
     ELSE Ends(o, "over") /\ UNCHANGED db
  /\ UNCHANGED <<results, settled, faults>>

\* The XADD; or it fails and the rollback begins.
Enqueue(o) ==
  /\ at[o] = "written"
  /\ Goto(o, "queued")
  /\ UNCHANGED <<db, results, rows, seen, tries, locked, waiting, settled, faults>>

EnqueueFails(o) ==
  /\ at[o] = "written" /\ o \notin Closing
  /\ Fault
  /\ Begin(o, "undoing", UserRow(OwnerOf(o)))
  /\ UNCHANGED <<db, results, settled>>

\* The order is read without a lock, the user then updated, and last the order,
\* which waits for who has locked it.
UndoReads(o) ==
  /\ Ready(o, "undoing")
  /\ IF IsOpen(db, o)
     THEN Reads(o, {OrderRow(o)}) /\ Advance(o, "rejecting", <<OrderRow(o)>>)
     ELSE Ends(o, "over")
  /\ UNCHANGED <<db, results, settled, faults>>

UndoEnds(o) ==
  /\ Ready(o, "rejecting")
  /\ Commits(o, "over", UndoWrites(seen[o], o))
  /\ UNCHANGED <<results, settled, faults>>

-----------------------------------------------------------------------------
(* The liquidator: scan and triggerLiquidation, one position after another.*)

Pending == {"scanned", "written", "dropping"}

\* A position of one unit, as all orders are, is found under margin, and no
\* closing order of its user.  What it is worth is not modelled.
LiquidatorScans(o) ==
  /\ at[o] = "none" /\ o \in Closing
  /\ \A i \in Closing : at[i] \notin Pending
  /\ \A i \in OrdersOf(OwnerOf(o)) \cap Closing : ~IsOpen(db, i)
  /\ LET pos == db[PositionRow(OwnerOf(o))]
     IN  pos # None /\ pos.qty = 1 /\ Sign(pos.side) = -Direction(o)
  /\ Goto(o, "scanned")
  /\ UNCHANGED <<db, results, rows, seen, tries, locked, waiting, settled, faults>>

\* The closing order of the position as it was: one INSERT, the user not locked.
LiquidatorOpens(o) ==
  /\ at[o] = "scanned"
  /\ Goto(o, "written")
  /\ Writes([r \in {OrderRow(o)} |-> NewClosing])
  /\ UNCHANGED <<results, rows, seen, tries, locked, waiting, settled, faults>>

\* The XADD fails, and the row is to be rejected.
LiquidatorFails(o) ==
  /\ at[o] = "written" /\ o \in Closing
  /\ Fault
  /\ Begin(o, "dropping", OrderRow(o))
  /\ UNCHANGED <<db, results, settled>>

\* One UPDATE, whatever the row says when it gets to it; the user not locked.
LiquidatorDrops(o) ==
  /\ Ready(o, "dropping")
  /\ Commits(o, "over", [r \in {OrderRow(o)} |-> [seen[o][r] EXCEPT !.status = "rejected"]])
  /\ UNCHANGED <<results, settled, faults>>

-----------------------------------------------------------------------------
(* The engine: a trade of two enqueued orders, or the answer to a cancel.  *)

Publish(kind, ids) ==
  /\ Len(results) < MaxResults
  /\ results' = Append(results, [kind |-> kind, ids |-> ids])
  /\ UNCHANGED <<db, txVars, settled, faults>>

Answered(o, kinds) ==
  \E n \in DOMAIN results : results[n].kind \in kinds /\ o \in Range(results[n].ids)

\* In the stream, and not over.
Tradable(o) == at[o] = "queued" /\ ~Answered(o, {"trade", "cancel"})

Trade(b, s) ==
  /\ Tradable(b) /\ Tradable(s)
  /\ Direction(b) = 1 /\ Direction(s) = -1 /\ OwnerOf(b) # OwnerOf(s)
  /\ {b, s} \ Closing # {}
  /\ Publish("trade", <<b, s>>)

\* The user, or the liquidator, cancels an order that can be seen, once; the engine
\* may not have it yet, or not any more.  A closing order never rests there.
Cancel(o) ==
  /\ IsOpen(db, o) /\ ~Answered(o, {"cancel", "not_open"})
  /\ Publish(IF Tradable(o) /\ o \notin Closing THEN "cancel" ELSE "not_open", <<o>>)

\* A market order that nobody trades with ends.
NoLiquidity(o) ==
  /\ Tradable(o) /\ o \in Closing
  /\ Publish("cancel", <<o>>)

-----------------------------------------------------------------------------
(* The db-worker: applyEngineResult.                                       *)

\* In the order of the ids.
Sorted(S) ==
  [k \in 1..Cardinality(S) |->
     CHOOSE a \in S : Cardinality({b \in S : b < a}) = k - 1]

UserRows(us) == [k \in 1..Cardinality(us) |-> UserRow(Sorted(us)[k])]
OrderRows(os) == [k \in 1..Cardinality(os) |-> OrderRow(Sorted(os)[k])]
PositionRows(us) == [k \in 1..Cardinality(us) |-> PositionRow(Sorted(us)[k])]

Current == settled + 1

CurrentOrders == Range(results[Current].ids)

SettleBegins ==
  /\ at[Worker] = "idle" /\ settled < Len(results)
  /\ Begin(Worker, "event", EventRow(Current))
  /\ UNCHANGED <<db, results, settled, faults>>

\* The row of ProcessedEvent is there already, or the orders are locked.
SettleInserts ==
  /\ Ready(Worker, "event")
  /\ IF seen[Worker][EventRow(Current)] THEN Ends(Worker, "done")
     ELSE Advance(Worker, "orders", OrderRows(CurrentOrders)) /\ UNCHANGED seen
  /\ UNCHANGED <<db, results, settled, faults>>

SettleLocksUsers ==
  /\ Ready(Worker, "orders")
  /\ Advance(Worker, "users", UserRows({OwnerOf(o) : o \in CurrentOrders}))
  /\ UNCHANGED <<db, results, seen, settled, faults>>

\* Of a trade, the buyer's position and then the seller's.
SettleLocksPositions ==
  /\ Ready(Worker, "users")
  /\ Advance(Worker, "positions",
       IF results[Current].kind # "trade" THEN <<>>
       ELSE [k \in 1..2 |-> PositionRow(OwnerOf(results[Current].ids[k]))])
  /\ UNCHANGED <<db, results, seen, settled, faults>>

\* The insurance fund is read as it is: an UPDATE adds to it, and no other
\* transaction touches it.
SettleEnds ==
  /\ Ready(Worker, "positions")
  /\ \E D \in {Over(seen[Worker], [r \in {InsuranceRow} |-> db[r]])} :
       Commits(Worker, "done", SettleWrites(D, Current))
  /\ UNCHANGED <<results, settled, faults>>

Acknowledge ==
  /\ at[Worker] = "done"
  /\ Goto(Worker, "idle")
  /\ settled' = Current
  /\ UNCHANGED <<db, results, rows, seen, tries, locked, waiting, faults>>

-----------------------------------------------------------------------------
(* The funding service: runDue and runMarket.                              *)

FundBegins(f) ==
  /\ at[f] = "idle"
  /\ ~db[PeriodRow]
  /\ Begin(f, "period", PeriodRow)
  /\ UNCHANGED <<db, results, settled, faults>>

Holders == {u \in User : db[PositionRow(u)] # None}

\* Broken: the row another instance has committed is not noticed.
FundInserts_Again(f) ==
  /\ Ready(f, "period")
  /\ Advance(f, "users", UserRows(Holders)) /\ UNCHANGED seen
  /\ UNCHANGED <<db, results, settled, faults>>

\* AlreadyApplied, or the candidates are read and their users locked.
FundInserts(f) ==
  /\ Ready(f, "period")
  /\ IF seen[f][PeriodRow] THEN Ends(f, "idle")
     ELSE Advance(f, "users", UserRows(Holders)) /\ UNCHANGED seen
  /\ UNCHANGED <<db, results, settled, faults>>

\* The positions open by now are locked, whosever they are.
FundLocksPositions(f) ==
  /\ Ready(f, "users")
  /\ Advance(f, "positions", PositionRows(Holders))
  /\ UNCHANGED <<db, results, seen, settled, faults>>

\* Positions of users who are not locked are left out.
FundEnds(f) ==
  /\ Ready(f, "positions")
  /\ LET D       == seen[f]
         users   == {u \in User : UserRow(u) \in DOMAIN D}
         holders == {u \in users : PositionRow(u) \in DOMAIN D /\ D[PositionRow(u)] # None}
     IN  \E num \in Rates, last \in User :
           /\ IsLast(D, holders, num, last)
           /\ Commits(f, "idle", FundWrites(D, users, holders, num, last))
  /\ UNCHANGED <<results, settled, faults>>

-----------------------------------------------------------------------------
(* Deadlocks and deaths.                                                   *)

InTransaction(t) == rows[t] # <<>> \/ seen[t] # <<>>

\* Everyone waits for a lock of another.
Deadlocked(S) ==
  \A t \in S : /\ Waits(t) /\ rows[t] # <<>>
               /\ \E s \in S : Head(rows[t]) \in locked[s]
               /\ \E s \in S : Head(rows[s]) \in locked[t]

\* What a transaction starts with when it is tried again.
Restarted(t) ==
  /\ Unlocks(t)
  /\ tries' = [tries EXCEPT ![t] = @ + 1]
  /\ \/ /\ at[t] \in {"placing", "reserving"} /\ Goto(t, "placing")
        /\ rows' = [rows EXCEPT ![t] = <<UserRow(OwnerOf(t))>>]
     \/ /\ at[t] \in {"undoing", "rejecting"} /\ Goto(t, "undoing")
        /\ rows' = [rows EXCEPT ![t] = <<UserRow(OwnerOf(t))>>]
     \/ /\ t = Worker /\ Goto(t, "event")
        /\ rows' = [rows EXCEPT ![t] = <<EventRow(Current)>>]
     \/ /\ t \in Funder /\ Goto(t, "period")
        /\ rows' = [rows EXCEPT ![t] = <<PeriodRow>>]

\* withTransaction throws: consumeGroup and runDue start over, a request fails.
GivesUp(t) == Ends(t, IF t \in OrderId THEN "over" ELSE "idle")

\* Broken: an aborted transaction is given up and not rolled back.
Aborted_Kept(t) ==
  /\ Goto(t, "over")
  /\ rows' = [rows EXCEPT ![t] = <<>>]
  /\ seen' = [seen EXCEPT ![t] = <<>>]
  /\ waiting' = Left(t)
  /\ UNCHANGED <<tries, locked>>

\* Broken: an aborted transaction is not tried again.
Aborted_Once(t) == GivesUp(t)

Aborted(t) == IF tries[t] + 1 < MaxAttempts THEN Restarted(t) ELSE GivesUp(t)

\* PostgreSQL aborts one of those that wait for each other.
DeadlockAbort(t) ==
  /\ \E S \in SUBSET Range(waiting) : t \in S /\ Deadlocked(S)
  /\ Aborted(t)
  /\ UNCHANGED <<db, results, settled, faults>>

\* A request dies with the API; the others are restarted.
Dies(t) ==
  /\ InTransaction(t) \/ at[t] \in {"scanned", "written", "done"}
  /\ Fault
  /\ Ends(t, IF t \in OrderId THEN "lost" ELSE "idle")
  /\ UNCHANGED <<db, results, settled>>

-----------------------------------------------------------------------------

\* A statement, a commit or an abort of some process.
Work ==
  \/ \E t \in Txn : Lock(t) \/ Wait(t) \/ DeadlockAbort(t)
  \/ \E o \in OrderId : \/ PlaceReadsRows(o) \/ PlaceEnds(o) \/ Enqueue(o)
                        \/ UndoReads(o) \/ UndoEnds(o) \/ LiquidatorDrops(o)
  \/ SettleBegins \/ SettleInserts \/ SettleLocksUsers \/ SettleLocksPositions
  \/ SettleEnds \/ Acknowledge
  \/ \E f \in Funder : FundBegins(f) \/ FundInserts(f) \/ FundLocksPositions(f) \/ FundEnds(f)

Next ==
  \/ Work
  \/ \E o \in OrderId : \/ PlaceBegins(o) \/ EnqueueFails(o) \/ Cancel(o) \/ NoLiquidity(o)
                        \/ LiquidatorScans(o) \/ LiquidatorOpens(o) \/ LiquidatorFails(o)
  \/ \E b, s \in OrderId : Trade(b, s)
  \/ \E t \in Txn : Dies(t)

Spec == Init /\ [][Next]_vars

\* As long as any process can go on, some process does; which one is not assumed.
FairSpec == Spec /\ WF_vars(Work)

-----------------------------------------------------------------------------
(* Properties.                                                             *)

(* Money is neither made nor lost to the unit by any interleaving: no      *)
(* reserve is given back twice, no period charges one side only, and the   *)
(* insurance fund gets what a liquidated user loses.                       *)
MoneyConserved ==
  db[InsuranceRow] + SumFunction([u \in User |-> db[UserRow(u)].balance + db[UserRow(u)].locked])
    = SumFunction([u \in User |-> Deposits[u] + MarginOf(Holdings[u]) + RestingOf(u)])

(* Statement by statement, every commit is a whole transaction of Accounts *)
(* on the tables as they are then: the single steps of Pipeline and Ledger *)
(* lose no interleaving.  But for one thing, which PlaceOne says: what     *)
(* placeOrder counts of a user's orders is read without locks, and the     *)
(* liquidator writes its own without the user's (triggerLiquidation), so   *)
(* that a closing order of the liquidator may be missing, or counted       *)
(* though it was just rejected.                                            *)
ActsAtomically == [][db' # db => OneTransaction]_vars

(* A funding period moves money at most once, however many instances run   *)
(* it and however often it is tried again (@@unique([market, period])).    *)
PeriodOnce ==
  [][db[PeriodRow] => /\ db'[PeriodRow]
                      /\ \A f \in Funder : Ready(f, "positions") /\ at'[f] # at[f] => db' = db]_vars

(* An order whose XADD failed ends and gives back its reserve, though the  *)
(* rollback may deadlock with settlement: the attempts of withTransaction  *)
(* are enough, unless the API dies.                                        *)
FailedOrderEnds == \A o \in OrderId : at[o] = "over" => ~IsOpen(db, o)

(* The period is funded in the end, though instances die and their         *)
(* transactions are aborted: runDue tries again while its row is missing.  *)
PeriodIsFunded == <>db[PeriodRow]
=============================================================================
