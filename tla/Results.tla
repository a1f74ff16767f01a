------------------------------- MODULE Results -------------------------------
(***************************************************************************)
(* What travels between the services: the commands the API enqueues, the   *)
(* results the engine publishes for them, and what a result does to the    *)
(* Order table.  Pure operators, shared by the abstract Exchange and by    *)
(* the Pipeline of processes that implements it.                           *)
(*                                                                         *)
(* A row of the Order table is [order, status]; order.seq is engineSeq, 0  *)
(* while it is null (acceptedAt is set with it, so order.seq > 0 also      *)
(* stands for acceptedAt # null).  A command is [kind, id]; the attributes *)
(* an ORDER_CREATE event carries are those of its row, which never change. *)
(* A command is known by its place in the order_events stream: that is the *)
(* eventId of its result and the engineSeq of its order.                   *)
(***************************************************************************)
EXTENDS Matching, Sequences

Create(id) == [kind |-> "create", id |-> id]
CancelOf(id) == [kind |-> "cancel", id |-> id]

NewRow(id, req) ==
  [order |-> [id |-> id, user |-> req.user, side |-> req.side, type |-> req.type,
              price |-> req.price, qty |-> req.qty, orig |-> req.qty, seq |-> 0],
   status |-> "open"]

IsTerminal(row) == row.status \in Terminal

\* The order processCreate builds from command number c.
Incoming(row, c) == [row.order EXCEPT !.qty = row.order.orig, !.seq = c]

Holds(book, id) == \E o \in book : o.id = id

Result(c, cmd, trades, orders) ==
  [cmd |-> c, kind |-> cmd.kind, id |-> cmd.id, trades |-> trades, orders |-> orders]

\* processCreate, for an order that does not rest already.
CreateResult(c, cmd, book, t) ==
  Result(c, cmd, Trades(book, t), {TakerState(book, t)} \cup MakerStates(book, t))

\* processCancel: not_open reports no order.
CancelResult(c, cmd, book) ==
  Result(c, cmd, <<>>,
         {OrderState(o.id, "cancelled", o.qty) : o \in {p \in book : p.id = cmd.id}})

\* rebuildBooks: the accepted limit orders with something left.
BookOf(rows) ==
  {row.order : row \in {r \in rows : /\ r.status \in {"open", "partial"}
                                     /\ r.order.type = "limit"
                                     /\ r.order.seq > 0
                                     /\ r.order.qty > 0}}

\* The first result of a create stamps its row with acceptedAt and engineSeq.
Accepted(row, r) ==
  IF r.kind = "create" /\ row.order.id = r.id /\ row.order.seq = 0
  THEN [row EXCEPT !.order.seq = r.cmd] ELSE row

\* Broken: any state is taken.
WithState_Always(row, s) == [row EXCEPT !.status = s.status, !.order.qty = s.remaining]

\* applyOrderState: a terminal row takes no other status.
WithState(row, s) ==
  IF IsTerminal(row) /\ row.status # s.status THEN row
  ELSE [row EXCEPT !.status = s.status, !.order.qty = s.remaining]

\* applyEngineResult, for one row of the table.
Updated(row, r) ==
  LET mine == {s \in r.orders : s.orderId = row.order.id}
  IN  IF mine = {} THEN Accepted(row, r)
      ELSE WithState(Accepted(row, r), CHOOSE s \in mine : TRUE)

\* Quantity of order id in a sequence of trades.
Traded(fills, id) ==
  LET its == {i \in DOMAIN fills : id \in {fills[i].maker, fills[i].taker}}
  IN  SumFunction([i \in its |-> fills[i].qty])
=============================================================================
