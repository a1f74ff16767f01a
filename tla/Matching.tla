------------------------------ MODULE Matching ------------------------------
(***************************************************************************)
(* What the matching engine promises about one incoming order, stated      *)
(* without its loops: which resting orders it trades with, how much of     *)
(* each, what is left of it and what becomes of the remainder.             *)
(*                                                                         *)
(* An order is a record [id, user, side, type, price, qty, orig, seq]; qty *)
(* is what is left of orig, so the code's filledQuantity is orig - qty;    *)
(* seq is the order's place in the stream of commands.  Prices count price *)
(* ticks and quantities quantity steps: the API admits only multiples of   *)
(* both, so the engine's roundQty never changes a value.  A book is a set  *)
(* of resting orders.                                                      *)
(***************************************************************************)
EXTENDS Integers, FiniteSets, FiniteSetsExt

Sides == {"buy", "sell"}
OrderTypes == {"limit", "market"}
Terminal == {"filled", "cancelled", "rejected"}
Statuses == Terminal \cup {"open", "partial"}

\* The limit of taker t admits a trade at price p.
Crosses(t, p) == IF t.side = "buy" THEN p <= t.price ELSE p >= t.price

\* Of two prices on one side of the book, the one the other side is offered first.
Better(side, p, q) == IF side = "buy" THEN p > q ELSE p < q

\* Price-time priority between two orders resting on one side.
Ahead(m, n) ==
  \/ Better(m.side, m.price, n.price)
  \/ m.price = n.price /\ m.seq < n.seq

Crossing(book, t) == {m \in book : m.side # t.side /\ Crosses(t, m.price)}

OwnCrossing(book, t) == {m \in Crossing(book, t) : m.user = t.user}

\* The queue the taker works through: it stops at its own first order.
Matchable(book, t) ==
  {m \in Crossing(book, t) :
     \A own \in OwnCrossing(book, t) : own # m /\ Ahead(m, own)}

QtyOf(S) == SumFunction([m \in S |-> m.qty])

\* What m gives t: all it has, or what the orders ahead of it left wanting.
FillQty(book, t, m) ==
  LET wanted == t.qty - QtyOf({n \in Matchable(book, t) : Ahead(n, m)})
  IN  CASE m \notin Matchable(book, t) \/ wanted <= 0 -> 0
        [] m \in Matchable(book, t) /\ wanted > 0 ->
             IF wanted < m.qty THEN wanted ELSE m.qty

Makers(book, t) == {m \in Matchable(book, t) : FillQty(book, t, m) > 0}

Unfilled(book, t) ==
  t.qty - SumFunction([m \in Makers(book, t) |-> FillQty(book, t, m)])

\* Orders of one side, in priority order.
Queue(S) ==
  [i \in 1..Cardinality(S) |->
     CHOOSE m \in S : Cardinality({n \in S : Ahead(n, m)}) = i - 1]

TradeOf(t, m, q) == [maker |-> m.id, taker |-> t.id, price |-> m.price, qty |-> q]

Trades(book, t) ==
  LET queue == Queue(Makers(book, t))
  IN  [i \in DOMAIN queue |-> TradeOf(t, queue[i], FillQty(book, t, queue[i]))]

OrderState(id, status, remaining) ==
  [orderId |-> id, status |-> status, remaining |-> remaining]

\* The status of a taker, or of the remainder of one, that does not rest.
Discarded(t, remaining) == IF remaining < t.orig THEN "cancelled" ELSE "rejected"

Rests(book, t) ==
  /\ t.type = "limit"
  /\ Unfilled(book, t) > 0
  /\ OwnCrossing(book, t) = {}

TakerState(book, t) ==
  LET left == Unfilled(book, t)
  IN  OrderState(t.id,
        CASE left = 0                          -> "filled"
          [] left > 0 /\ ~Rests(book, t)       -> Discarded(t, left)
          [] Rests(book, t) /\ left < t.orig   -> "partial"
          [] Rests(book, t) /\ left = t.orig   -> "open",
        left)

MakerStates(book, t) ==
  {LET left == m.qty - FillQty(book, t, m)
   IN  OrderState(m.id, IF left = 0 THEN "filled" ELSE "partial", left)
   : m \in Makers(book, t)}

AfterSubmit(book, t) ==
  {[m EXCEPT !.qty = m.qty - FillQty(book, t, m)] :
     m \in {n \in book : FillQty(book, t, n) < n.qty}}
  \cup IF Rests(book, t) THEN {[t EXCEPT !.qty = Unfilled(book, t)]} ELSE {}

=============================================================================
