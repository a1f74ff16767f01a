------------------------------- MODULE Ledger -------------------------------
(***************************************************************************)
(* The money of the exchange, in one market: what an order reserves, what  *)
(* settlement moves between users, positions, fees and insurance, what a   *)
(* liquidation and a funding run change.  Orders and commands are those of *)
(* Exchange, the sequential exchange that Pipeline implements; between the *)
(* moment an order is placed and the moment its command takes effect, any  *)
(* other order may take effect.  The index price moves freely: an action   *)
(* that reads it takes any of Prices.                                      *)
(*                                                                         *)
(* Source: apps/api/src/lib/orders.ts, apps/api/src/routes/positions.ts,   *)
(* apps/db-worker/src/settlement.ts, apps/liquidator/src/index.ts,         *)
(* apps/funding-service/src/index.ts.                                      *)
(***************************************************************************)
EXTENDS Exchange, Funding, SequencesExt

CONSTANTS
  User,               \* (Requests of Exchange also name a leverage, lev)
  Deposits,           \* the balance each user starts with
  Prices,             \* values of the index price
  Percent,            \* MARKET_ORDER_SLIPPAGE and LIQUIDATION_SLIPPAGE, as [market, liquidation]
  MmrNum, MmrDen,     \* MAINTENANCE_MARGIN_RATE
  FundNum,            \* funding rate of one period, in parts of FundDen
  MaxOpenOrders,      \* MAX_OPEN_ORDERS_PER_USER
  MaxCommands,        \* bound: commands in the stream
  MaxBacklog,         \* bound: orders placed and commands enqueued, not settled
  MaxPeriods          \* bound: funding periods

VARIABLES
  terms,     \* columns of the Order table that never change: [lev, reduceOnly, source]
  accounts,  \* users, lockedMargin of the orders, open positions, fees and insurance
  periods    \* funding periods applied

vars == <<rows, fills, commands, settled, terms, accounts, periods>>

Terms == [lev : Nat \ {0}, reduceOnly : BOOLEAN, source : {"user", "close", "liquidation"}]

Order ==
  [id : OrderId, user : User, side : Sides, type : OrderTypes, price : Int, qty : Nat,
   orig : Nat \ {0}, seq : Nat]

Row == [order : Order, status : Statuses]

\* What POST /orders admits: the price of a market order is not looked at.
Request ==
  [user : User, side : Sides, type : OrderTypes, price : Nat, qty : Nat \ {0}, lev : Nat \ {0}]

ASSUME LedgerAssumption ==
  /\ IsFiniteSet(OrderId) /\ IsFiniteSet(User)
  /\ \A id \in OrderId : Requests[id] \subseteq Request
  /\ Deposits \in [User -> Nat] /\ Prices \subseteq Nat
  /\ Percent.market \in Nat /\ Percent.liquidation \in Nat
  /\ FundNum \in Int /\ MaxPeriods \in Nat
  /\ None \notin Row /\ None \notin Terms

Users(u) == accounts.users[u]
PositionOf(u) == accounts.positions[u]

(* Every variable holds values of its type; no balance, reserve or margin  *)
(* is ever negative (schema.prisma).                                       *)
TypeOK ==
  /\ terms \in [OrderId -> Terms \cup {None}]
  /\ accounts.users \in [User -> [balance : Nat, locked : Nat]]
  /\ accounts.pools \in [OrderId -> Nat]
  /\ accounts.positions \in [User -> Position \cup {None}]
  /\ accounts.fees \in Nat
  /\ accounts.insurance \in Int
  /\ periods \in 0..MaxPeriods

Init ==
  /\ ExchangeInit
  /\ terms = [id \in OrderId |-> None]
  /\ accounts = [users     |-> [u \in User |-> [balance |-> Deposits[u], locked |-> 0]],
                 pools     |-> [id \in OrderId |-> 0],
                 positions |-> [u \in User |-> None],
                 fees      |-> 0,
                 insurance |-> 0]
  /\ periods = 0

-----------------------------------------------------------------------------
(* Placing orders.                                                         *)

IsOpen(id) == rows[id] # None /\ rows[id].status \in {"open", "partial"}

Queued(id) == \E c \in DOMAIN commands : commands[c] = Create(id)

\* Orders and cancels on their way.
Backlog ==
  Len(commands) - settled + Cardinality({id \in OrderId : IsOpen(id) /\ ~Queued(id)})

OpenOrders(u) == {id \in OrderId : IsOpen(id) /\ rows[id].order.user = u}

\* What is left of a set of orders.
LeftOf(ids) == SumFunction([id \in ids |-> rows[id].order.qty])

Direction(side) == IF side = "buy" THEN 1 ELSE -1

Opposing(u, side) ==
  PositionOf(u) # None /\ Sign(PositionOf(u).side) # Direction(side)

\* A price so many percent worse for the taker than the index.
Slipped(price, percent, side) == Round(price * (100 + Direction(side) * percent), 100)

\* What of an order opens a position: what open orders of its side leave of an opposite one closes.
OpeningQty(u, side, qty) ==
  LET pending == LeftOf({id \in OpenOrders(u) : rows[id].order.side = side})
  IN  IF Opposing(u, side) THEN Positive(qty - Positive(PositionOf(u).qty - pending))
      ELSE qty

\* placeOrder's transaction, once the margin and fee to reserve are known.
Reserve(id, req, margin, fee, term) ==
  LET user    == Users(req.user)
      reserve == Lower(user.balance, margin + fee)
  IN  /\ terms[id] = None
      /\ Cardinality(OpenOrders(req.user)) < MaxOpenOrders
      /\ margin <= user.balance
      /\ PlaceRow(id, req)
      /\ terms' = [terms EXCEPT ![id] = term]
      /\ accounts' = [accounts EXCEPT
                        !.users[req.user] = [balance |-> @.balance - reserve,
                                             locked  |-> @.locked + reserve],
                        !.pools[id] = reserve]
      /\ UNCHANGED periods

\* enginePrices: a limit order reserves at its price, a market order at the upper bound.
EnginePrices(req) ==
  IF req.type = "limit" THEN {[price |-> req.price, reserve |-> req.price]}
  ELSE {[price   |-> Slipped(index, Percent.market, req.side),
         reserve |-> Slipped(index, Percent.market, "buy")] : index \in Prices}

\* POST /orders.
Place(id, req) ==
  \E at \in EnginePrices(req) :
    Reserve(id, [req EXCEPT !.price = at.price],
            Round(at.reserve * OpeningQty(req.user, req.side, req.qty), req.lev),
            Fee(at.reserve, req.qty),
            [lev |-> req.lev, reduceOnly |-> FALSE, source |-> "user"])

\* What no reduce-only order on the closing side is about to close.
Available(u, side) ==
  PositionOf(u).qty
    - LeftOf({id \in OpenOrders(u) : rows[id].order.side = side /\ terms[id].reduceOnly})

\* POST /positions/close: a reduce-only market order, which reserves nothing.
Close(id, u) ==
  /\ PositionOf(u) # None
  /\ \E index \in Prices, qty \in 1..PositionOf(u).qty :
       LET side == IF PositionOf(u).side = "long" THEN "sell" ELSE "buy"
           req  == [user |-> u, side |-> side, type |-> "market", qty |-> qty,
                    price |-> Slipped(index, Percent.market, side)]
       IN  /\ qty <= Available(u, side)
           /\ Reserve(id, req, 0, 0,
                      [lev |-> PositionOf(u).lev, reduceOnly |-> TRUE, source |-> "close"])

\* The XADD of an order's command.
Enqueue(id) ==
  /\ IsOpen(id) /\ ~Queued(id)
  /\ Len(commands) < MaxCommands
  /\ Command(Create(id))
  /\ UNCHANGED <<terms, accounts, periods>>

\* The part of an account that one order and its user's position have to do with.
AccountOf(A, id) ==
  LET u == rows[id].order.user
  IN  [balance |-> A.users[u].balance, locked |-> A.users[u].locked,
       pool |-> A.pools[id], position |-> A.positions[u],
       fees |-> A.fees, insurance |-> A.insurance]

WithAccount(A, id, a) ==
  LET u == rows[id].order.user
  IN  [A EXCEPT !.users[u] = [balance |-> a.balance, locked |-> a.locked],
                !.pools[id] = a.pool,
                !.positions[u] = a.position,
                !.fees = a.fees,
                !.insurance = a.insurance]

\* The XADD failed: the order is rejected and its reserve given back.
Unplace(id) ==
  /\ Undo(id)
  /\ accounts' = WithAccount(accounts, id, Refunded(AccountOf(accounts, id)))
  /\ UNCHANGED <<terms, periods>>

\* DELETE /orders/:id.
Cancel(id) ==
  /\ IsOpen(id)
  /\ Len(commands) < MaxCommands
  /\ Command(CancelOf(id))
  /\ UNCHANGED <<terms, accounts, periods>>

-----------------------------------------------------------------------------
(* Settlement.                                                             *)

\* settleSide for one order of a trade.
SettleOrder(A, id, trade) ==
  WithAccount(A, id,
    SettleSide(AccountOf(A, id), trade.price, trade.qty, terms[id].lev,
               terms[id].source = "liquidation", Direction(rows[id].order.side)))

\* applyTrade: the buyer first.
SettleTrade(A, trade) ==
  LET ids  == {trade.maker, trade.taker}
      buy  == CHOOSE id \in ids : rows[id].order.side = "buy"
      sell == CHOOSE id \in ids : rows[id].order.side = "sell"
  IN  SettleOrder(SettleOrder(A, buy, trade), sell, trade)

\* Broken: only a cancelled order gives its reserve back.
ApplyState_Cancelled(s, A) ==
  IF s.status = "cancelled"
  THEN WithAccount(A, s.orderId, Refunded(AccountOf(A, s.orderId)))
  ELSE A

\* applyOrderState: an order that ends gives its reserve back.
ApplyState(s, A) ==
  LET row == rows[s.orderId]
  IN  IF s.status \in Terminal /\ (IsTerminal(row) => row.status = s.status)
      THEN WithAccount(A, s.orderId, Refunded(AccountOf(A, s.orderId)))
      ELSE A

\* persistUsers: nothing below zero is written.
Clamped(A) ==
  [A EXCEPT !.users = [u \in User |-> [balance |-> Positive(@[u].balance),
                                       locked  |-> Positive(@[u].locked)]]]

\* applyEngineResult: the trades in order, then the states of the orders.
AfterResult(r) ==
  Clamped(FoldSet(ApplyState, FoldLeft(SettleTrade, accounts, r.trades), r.orders))

SettleNext ==
  /\ Settle
  /\ accounts' = AfterResult(NextResult)
  /\ UNCHANGED <<terms, periods>>

-----------------------------------------------------------------------------
(* Liquidation and funding.                                                *)

\* isLiquidatable: margin and unrealized profit do not exceed the maintenance margin.
IsLiquidatable(pos, mark) ==
  (pos.margin + Realized(pos, mark, pos.qty)) * MmrDen <= mark * pos.qty * MmrNum

\* triggerLiquidation: cancel the user's accepted orders, then write a closing order.
Liquidate(id, u) ==
  LET pos    == PositionOf(u)
      mine   == OpenOrders(u)
      marked == {i \in mine : rows[i].order.seq > 0}
      side   == IF pos.side = "long" THEN "sell" ELSE "buy"
  IN  /\ terms[id] = None /\ rows[id] = None
      /\ pos # None
      /\ \A i \in mine : terms[i].source # "liquidation"
      /\ Len(commands) + Cardinality(marked) < MaxCommands
      /\ \E mark \in Prices, cancels \in SetToSeqs({CancelOf(i) : i \in marked}) :
           /\ IsLiquidatable(pos, mark)
           /\ rows' = [rows EXCEPT ![id] = NewRow(id,
                         [user |-> u, side |-> side, type |-> "market", qty |-> pos.qty,
                          price |-> Slipped(mark, Percent.liquidation, side)])]
           /\ commands' = commands \o cancels
      /\ terms' = [terms EXCEPT ![id] = [lev |-> pos.lev, reduceOnly |-> TRUE,
                                         source |-> "liquidation"]]
      /\ UNCHANGED <<fills, settled, accounts, periods>>

\* runMarket: one period, in one transaction.
Fund ==
  LET holders == {u \in User : PositionOf(u) # None}
      payers  == Payers(accounts.positions, holders, FundNum)
  IN  /\ periods < MaxPeriods
      /\ periods' = periods + 1
      /\ payers # {} /\ payers # holders
      /\ \E mark \in Prices, last \in holders \ payers :
           LET after == Funded(accounts.users, accounts.positions, holders, mark, FundNum, last)
           IN  accounts' = [accounts EXCEPT !.users = after.users, !.positions = after.positions]
      /\ UNCHANGED <<rows, fills, commands, settled, terms>>

\* Ids are handed out in order: the names of orders do not matter.
IsNext(id) == rows[id] = None /\ \A i \in OrderId : i < id => rows[i] # None

Next ==
  \/ /\ Backlog < MaxBacklog
     /\ \E id \in OrderId :
          \/ IsNext(id) /\ \E req \in Requests[id] : Place(id, req)
          \/ IsNext(id) /\ \E u \in User : Close(id, u) \/ Liquidate(id, u)
          \/ Cancel(id)
  \/ \E id \in OrderId : Enqueue(id) \/ Unplace(id)
  \/ SettleNext
  \/ Fund

Spec == Init /\ [][Next]_vars

-----------------------------------------------------------------------------
(* Properties.                                                             *)

OrdersOf(u) == {id \in OrderId : rows[id] # None /\ rows[id].order.user = u}

(* What is locked of a user's money is what open orders reserve and what   *)
(* the position has as margin, to the last unit: nothing stays locked for  *)
(* an order or a position that is gone, and the clamp never hides a debt.  *)
LockedBacked ==
  \A u \in User :
    Users(u).locked = SumFunctionOnSet(accounts.pools, OrdersOf(u))
                        + MarginOf(PositionOf(u))

\* What a position cost, signed: what realizing it at price 0 would lose.
Cost(pos) ==
  IF pos = None THEN 0
  ELSE Round(Sign(pos.side) * pos.qty * pos.entry.num, pos.entry.den)

(* Money is neither made nor lost: balances, locked balances, fees and     *)
(* insurance, less what open positions cost, stay what was deposited, but  *)
(* for at most one unit of rounding per trade and one per position.        *)
MoneyConserved ==
  LET gain(u) == Users(u).balance + Users(u).locked - Cost(PositionOf(u)) - Deposits[u]
      gap     == SumFunction([u \in User |-> gain(u)]) + accounts.fees + accounts.insurance
      slack   == Len(fills) + Cardinality(User)
  IN  gap \in -slack..slack

(* For every long unit there is a short one (both sides of every trade     *)
(* settle, whatever each of them closes, opens or flips).                  *)
OpenInterestBalanced ==
  SumFunction([u \in User |-> Exposure(PositionOf(u))]) = 0

(* An order that is over holds no margin, however it ended.                *)
TerminalHoldsNothing ==
  \A id \in OrderId : rows[id] # None /\ IsTerminal(rows[id]) => accounts.pools[id] = 0

(* "Reduce-only quantity exceeds open position size": nobody comes to hold *)
(* a position on a side on which only reduce-only orders traded            *)
(* (placeOrder's check, triggerLiquidation's reduceOnly flag).             *)
ReduceOnlyNeverOpens ==
  \A u \in User : PositionOf(u) # None =>
    \E id \in OrdersOf(u) : /\ ~terms[id].reduceOnly
                            /\ Direction(rows[id].order.side) = Sign(PositionOf(u).side)
                            /\ Traded(fills, id) > 0
=============================================================================
