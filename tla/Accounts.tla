------------------------------ MODULE Accounts ------------------------------
(***************************************************************************)
(* The rows of PostgreSQL that money is in, for one market, and the        *)
(* transactions of the services as single steps on them.  A transaction is *)
(* an operator from what it has read of the tables, a function from rows   *)
(* to values, to what it writes.  Orders are for one unit at Price, and    *)
(* there are no fees.                                                      *)
(*                                                                         *)
(* Source: apps/api/src/lib/orders.ts, apps/db-worker/src/settlement.ts,   *)
(* apps/funding-service/src/index.ts, apps/liquidator/src/index.ts.        *)
(***************************************************************************)
EXTENDS Funding, SequencesExt

CONSTANTS
  User, OrderId,   \* numbers: rows are locked in the order of their ids
  Asks,            \* what each order asks for: [user, side]
  Price, Lev,      \* of every order
  Rates,           \* funding rates, in parts of FundDen
  Deposits,        \* balances the users start with
  Holdings,        \* open positions at the start
  Resting,         \* orders that rest in the book at the start, with a reserve
  Closing,         \* orders of the liquidator, the others are of the API
  MaxResults       \* bound: results of the engine

OrderValue == [status : {"open", "filled", "cancelled", "rejected"}, pool : Nat]

\* No fee, and positions opened at the price everyone trades at: nothing is realized.
ASSUME AccountsAssumption ==
  /\ Price \in Nat /\ Lev \in Nat \ {0} /\ FeeNum = 0
  /\ Rates \subseteq Int
  /\ Deposits \in [User -> Nat]
  /\ Holdings \in [User -> Position \cup {None}]
  /\ \A u \in User :
       Holdings[u] # None => Holdings[u].entry.num = Price * Holdings[u].entry.den
  /\ None \notin OrderValue

VARIABLES
  db,        \* the committed tables
  results    \* what the engine has published: [kind, ids]

UserRow(u) == <<"user", u>>
PositionRow(u) == <<"position", u>>   \* a user's open position
OrderRow(o) == <<"order", o>>
PeriodRow == <<"period", 1>>          \* FundingRate of the current period
InsuranceRow == <<"insurance", 1>>    \* InsuranceFund of the market
EventRow(n) == <<"event", n>>         \* ProcessedEvent

Rows == {UserRow(u) : u \in User} \cup {PositionRow(u) : u \in User}
        \cup {OrderRow(o) : o \in OrderId} \cup {PeriodRow, InsuranceRow}
        \cup {EventRow(n) : n \in 1..MaxResults}

OwnerOf(o) == Asks[o].user

Direction(o) == IF Asks[o].side = "buy" THEN 1 ELSE -1

OrdersOf(u) == {o \in OrderId : OwnerOf(o) = u}

\* Reserve of an order that only opens.
FullReserve == Round(Price, Lev)

RestingOf(u) == FullReserve * Cardinality(OrdersOf(u) \cap Resting)

AccountsInit ==
  /\ db = [r \in Rows |->
             CASE r[1] = "user"     -> [balance |-> Deposits[r[2]],
                                        locked |-> MarginOf(Holdings[r[2]]) + RestingOf(r[2])]
               [] r[1] = "position" -> Holdings[r[2]]
               [] r[1] = "order"    -> IF r[2] \in Resting
                                       THEN [status |-> "open", pool |-> FullReserve] ELSE None
               [] r[1] = "insurance" -> 0
               [] r[1] \in {"period", "event"} -> FALSE]
  /\ results = <<>>

\* The first where it says something, else the second: TLC's @@, which has no
\* definition to reason with.
Over(f, g) == [r \in DOMAIN f \cup DOMAIN g |-> IF r \in DOMAIN f THEN f[r] ELSE g[r]]

\* What is written takes the place of what was there.
Written(W) == Over(W, db)

Writes(W) == \E w \in {W} : db' = Written(w)

IsOpen(D, o) == D[OrderRow(o)] # None /\ D[OrderRow(o)].status = "open"

-----------------------------------------------------------------------------
(* placeOrder.                                                             *)

\* openingQty: nothing, when the order closes what others have not claimed.
Opening(D, o) ==
  LET pos     == D[PositionRow(OwnerOf(o))]
      pending == {i \in OrdersOf(OwnerOf(o)) : Direction(i) = Direction(o) /\ IsOpen(D, i)}
  IN  IF pos # None /\ Sign(pos.side) # Direction(o) /\ Cardinality(pending) < pos.qty
      THEN 0 ELSE 1

ReserveOf(D, o) == Opening(D, o) * FullReserve

\* An order and its user are written.
OrderAndUser(o, order, user) ==
  [r \in {OrderRow(o), UserRow(OwnerOf(o))} |-> IF r = OrderRow(o) THEN order ELSE user]

Affordable(D, o) == ReserveOf(D, o) <= D[UserRow(OwnerOf(o))].balance

PlaceReads(o) ==
  {UserRow(OwnerOf(o)), PositionRow(OwnerOf(o))} \cup {OrderRow(i) : i \in OrdersOf(OwnerOf(o))}

PlaceWrites(D, o) ==
  LET user    == D[UserRow(OwnerOf(o))]
      reserve == ReserveOf(D, o)
  IN  OrderAndUser(o, [status |-> "open", pool |-> reserve],
                   [balance |-> user.balance - reserve, locked |-> user.locked + reserve])

\* The rollback of an order that could not be enqueued.
UndoWrites(D, o) ==
  LET user == D[UserRow(OwnerOf(o))]
      pool == D[OrderRow(o)].pool
  IN  OrderAndUser(o, [status |-> "rejected", pool |-> 0],
                   [balance |-> user.balance + pool, locked |-> Positive(user.locked - pool)])

-----------------------------------------------------------------------------
(* applyEngineResult.                                                      *)

AccountOf(D, o) ==
  [balance |-> D[UserRow(OwnerOf(o))].balance, locked |-> D[UserRow(OwnerOf(o))].locked,
   pool |-> D[OrderRow(o)].pool, position |-> D[PositionRow(OwnerOf(o))],
   fees |-> 0, insurance |-> 0]

\* The rows that a fill of an order writes.
FilledRows(o) == {OrderRow(o), UserRow(OwnerOf(o)), PositionRow(OwnerOf(o))}

\* What is left of the account of an order that is filled.
Filled(D, o) ==
  Refunded(SettleSide(AccountOf(D, o), Price, 1, Lev, o \in Closing, Direction(o)))

\* Broken: what a liquidation leaves of the margin is not flushed to the fund.
FillWrites_NoFund(D, orders) ==
  LET after == [o \in orders |-> Filled(D, o)]
  IN  [r \in UNION {FilledRows(o) : o \in orders} |->
         LET o == CHOOSE i \in orders : r \in FilledRows(i)
             a == after[o]
         IN  CASE r = OrderRow(o)             -> [status |-> "filled", pool |-> a.pool]
               [] r = UserRow(OwnerOf(o))     -> [balance |-> a.balance, locked |-> a.locked]
               [] r = PositionRow(OwnerOf(o)) -> a.position]

\* A trade that fills its orders, each for one side.  What a liquidation leaves
\* of the position's margin is the insurance fund's.
FillWrites(D, orders) ==
  LET after == [o \in orders |-> Filled(D, o)]
  IN  [r \in {InsuranceRow} \cup UNION {FilledRows(o) : o \in orders} |->
         IF r = InsuranceRow
         THEN D[r] + SumFunction([o \in orders |-> after[o].insurance])
         ELSE LET o == CHOOSE i \in orders : r \in FilledRows(i)
                  a == after[o]
              IN  CASE r = OrderRow(o)             -> [status |-> "filled", pool |-> a.pool]
                    [] r = UserRow(OwnerOf(o))     -> [balance |-> a.balance, locked |-> a.locked]
                    [] r = PositionRow(OwnerOf(o)) -> a.position]

\* A cancelled order gives its reserve back, and so does one of the liquidator
\* that found nobody to trade with; one that is over stays as it is.
CancelWrites(D, o) ==
  LET user == D[UserRow(OwnerOf(o))]
      pool == D[OrderRow(o)].pool
  IN  IF IsOpen(D, o)
      THEN OrderAndUser(o, [status |-> IF o \in Closing THEN "rejected" ELSE "cancelled", pool |-> 0],
                        [balance |-> user.balance + pool, locked |-> user.locked - pool])
      ELSE <<>>

\* A cancel the engine had no order for changes nothing.
SettleWrites(D, n) ==
  LET ids == results[n].ids
  IN  Over([r \in {EventRow(n)} |-> TRUE],
           CASE results[n].kind = "cancel"   -> CancelWrites(D, ids[1])
             [] results[n].kind = "trade"    -> FillWrites(D, Range(ids))
             [] results[n].kind = "not_open" -> <<>>)

-----------------------------------------------------------------------------
(* runMarket.                                                              *)

PositionsOf(D, us) == [u \in us |-> D[PositionRow(u)]]

\* One of the receivers, if there are any.
IsLast(D, holders, num, last) ==
  LET payers == Payers(PositionsOf(D, holders), holders, num)
  IN  payers # holders => last \in holders \ payers

\* holders have positions; users are all whose rows are locked.
FundWrites(D, users, holders, num, last) ==
  LET payers == Payers(PositionsOf(D, holders), holders, num)
      after  == Funded([u \in users |-> D[UserRow(u)]], PositionsOf(D, holders),
                       holders, Price, num, last)
  IN  Over([r \in {PeriodRow} |-> TRUE],
           IF payers = {} \/ payers = holders THEN <<>>
           ELSE [r \in {UserRow(u) : u \in users} \cup {PositionRow(u) : u \in holders} |->
                   IF r[1] = "user" THEN after.users[r[2]] ELSE after.positions[r[2]]])

-----------------------------------------------------------------------------
(* triggerLiquidation: single statements, which lock no user.              *)

NewClosing == [status |-> "open", pool |-> 0]
DroppedClosing == [status |-> "rejected", pool |-> 0]

\* What the liquidator wrote over, when it wrote the last value of a row.
Past(order) ==
  CASE order = DroppedClosing -> {None, NewClosing}
    [] order = NewClosing     -> {None}
    [] OTHER                  -> {}

-----------------------------------------------------------------------------
(* The transactions one at a time.                                         *)

\* placeOrder may have counted orders of the liquidator as they were before that
\* wrote them; all else is as it is now.
PlaceOne(o) ==
  \E stale \in SUBSET Closing : \E was \in [stale -> {None, NewClosing}] :
    /\ \A c \in stale : was[c] \in Past(db[OrderRow(c)])
    /\ LET D == Over([r \in {OrderRow(c) : c \in stale} |-> was[r[2]]], db)
       IN  /\ db[OrderRow(o)] = None /\ Affordable(D, o)
           /\ Writes(PlaceWrites(D, o))

UndoOne(o) == IsOpen(db, o) /\ Writes(UndoWrites(db, o))

SettleOne(n) == ~db[EventRow(n)] /\ Writes(SettleWrites(db, n))

FundOne ==
  /\ ~db[PeriodRow]
  /\ \E users \in SUBSET User : \E holders \in SUBSET users, num \in Rates, last \in User :
       /\ \A u \in holders : db[PositionRow(u)] # None
       /\ IsLast(db, holders, num, last)
       /\ Writes(FundWrites(db, users, holders, num, last))

OpenOne(o) ==
  /\ db[OrderRow(o)] = None
  /\ Writes([r \in {OrderRow(o)} |-> NewClosing])

DropOne(o) ==
  /\ db[OrderRow(o)] = NewClosing
  /\ Writes([r \in {OrderRow(o)} |-> DroppedClosing])

OneTransaction ==
  \/ \E o \in OrderId \ Closing : PlaceOne(o) \/ UndoOne(o)
  \/ \E o \in Closing : OpenOne(o) \/ DropOne(o)
  \/ \E n \in DOMAIN results : SettleOne(n)
  \/ FundOne
=============================================================================
