------------------------------ MODULE OrderBook ------------------------------
(***************************************************************************)
(* The order book of one market (apps/engine/src/OrderBook.ts), one action *)
(* per iteration of the matching loop.  The price levels and their queues  *)
(* (BookSide) are abstracted to the priority that module PriceLevels shows *)
(* them to implement; module Matching says in closed form what the loop    *)
(* must compute.                                                           *)
(***************************************************************************)
EXTENDS Optional, Matching, Sequences

CONSTANTS
  OrderId,    \* identities of orders
  User,
  Price,      \* prices, in ticks
  Qty,        \* quantities of incoming orders, in steps
  MaxPrice,   \* MAX_PRICE: the highest price the API admits
  MaxSeq      \* bound: orders submitted in one behaviour

Order ==
  {o \in [id : OrderId, user : User, side : Sides, type : OrderTypes,
          price : Price, qty : Nat, orig : Qty, seq : Nat] : o.qty <= o.orig}

ASSUME OrderBookAssumption ==
  /\ MaxPrice \in Nat
  /\ Price \subseteq 1..MaxPrice
  /\ Qty \subseteq Nat \ {0}
  /\ MaxSeq \in Nat

ASSUME NoneAssumption == None \notin Order

VARIABLES
  resting,    \* the orders in the book
  taker,      \* the order submit is matching, None outside submit
  trades,     \* the trades of the last submit
  makers,     \* makerStates: what submit reports of the orders it met
  reply,      \* the state returned for the order of the last call, or None
  nextSeq,    \* place of the next order in the stream
  before      \* ghost: the book and the order when the last submit began

vars == <<resting, taker, trades, makers, reply, nextSeq, before>>

Resting == {o \in Order : o.type = "limit" /\ o.qty > 0}

Trade == [maker : OrderId, taker : OrderId, price : Price, qty : Nat \ {0}]

Report == [orderId : OrderId, status : Statuses, remaining : Nat]

\* Every variable holds values of its type (OrderBook.ts 3-20, 107-116).
TypeOK ==
  /\ resting \subseteq Resting
  /\ taker \in Order \cup {None}
  /\ trades \in Seq(Trade)
  /\ makers \subseteq Report
  /\ reply \in Report \cup {None}
  /\ nextSeq \in Nat
  /\ before \in [book : SUBSET Resting, order : Order] \cup {None}

-----------------------------------------------------------------------------

Has(id) == \E o \in resting : o.id = id

Opposite == {m \in resting : m.side # taker.side}

\* Broken: any order of the best level.
Candidates_AnyOfLevel ==
  {m \in Opposite : /\ \A n \in Opposite : ~Better(m.side, n.price, m.price)
                    /\ Crosses(taker, m.price)}

\* bestLevel, and the first order of its queue with something left, if it crosses.
Candidates ==
  {m \in Opposite : /\ \A n \in Opposite : n = m \/ Ahead(m, n)
                    /\ Crosses(taker, m.price)}

SelfTrade == \E m \in Candidates : m.user = taker.user

Init ==
  /\ resting = {}
  /\ taker = None
  /\ trades = <<>>
  /\ makers = {}
  /\ reply = None
  /\ nextSeq = 0
  /\ before = None

\* An id that rests never reaches submit: processCreate looks first.
Submit(id, user, side, type, price, qty) ==
  /\ taker = None
  /\ ~Has(id)
  /\ nextSeq < MaxSeq
  /\ taker' = [id |-> id, user |-> user, side |-> side, type |-> type,
               price |-> price, qty |-> qty, orig |-> qty, seq |-> nextSeq]
  /\ trades' = <<>>
  /\ makers' = {}
  /\ reply' = None
  /\ nextSeq' = nextSeq + 1
  /\ before' = [book |-> resting, order |-> taker']
  /\ UNCHANGED resting

\* Broken: a maker goes, whatever is left of it.
Reduce_Gone(m, q) == {}

\* What stays of a maker that gave q.
Reduce(m, q) == IF m.qty > q THEN {[m EXCEPT !.qty = @ - q]} ELSE {}

\* One iteration of the inner loop: the first maker meets the taker.
Match(m) ==
  LET q == IF m.qty < taker.qty THEN m.qty ELSE taker.qty
  IN  /\ taker # None
      /\ taker.qty > 0
      /\ m \in Candidates
      /\ m.user # taker.user
      /\ resting' = (resting \ {m}) \cup Reduce(m, q)
      /\ taker' = [taker EXCEPT !.qty = @ - q]
      /\ trades' = Append(trades, TradeOf(taker, m, q))
      /\ makers' = {s \in makers : s.orderId # m.id} \cup
           {OrderState(m.id, IF m.qty > q THEN "partial" ELSE "filled", m.qty - q)}
      /\ UNCHANGED <<reply, nextSeq, before>>

\* Broken: what an order of the same user stopped rests too.
Remains_SelfTrade == taker.qty > 0 /\ taker.type = "limit"

\* The loop is over and something of a limit order is left to rest.
Remains == taker.qty > 0 /\ ~SelfTrade /\ taker.type = "limit"

\* The loop is over: classify the order, and rest what may rest.
Finish ==
  /\ taker # None
  /\ taker.qty = 0 \/ Candidates = {} \/ SelfTrade
  /\ reply' = OrderState(taker.id,
       CASE taker.qty = 0                      -> "filled"
         [] taker.qty > 0 /\ ~Remains          -> Discarded(taker, taker.qty)
         [] Remains /\ taker.qty < taker.orig  -> "partial"
         [] Remains /\ taker.qty = taker.orig  -> "open",
       taker.qty)
  /\ resting' = resting \cup IF Remains THEN {taker} ELSE {}
  /\ taker' = None
  /\ UNCHANGED <<trades, makers, nextSeq, before>>

\* cancel: null for an order that is not in the book.
Cancel(id) ==
  /\ taker = None
  /\ resting' = {o \in resting : o.id # id}
  /\ reply' \in IF Has(id)
                THEN {OrderState(id, "cancelled", o.qty) : o \in resting \ resting'}
                ELSE {None}
  /\ trades' = <<>>
  /\ makers' = {}
  /\ before' = None
  /\ UNCHANGED <<taker, nextSeq>>

Next ==
  \/ \E id \in OrderId, user \in User, side \in Sides, type \in OrderTypes,
        price \in Price, qty \in Qty : Submit(id, user, side, type, price, qty)
  \/ \E m \in resting : Match(m)
  \/ Finish
  \/ \E id \in OrderId : Cancel(id)

Spec == Init /\ [][Next]_vars

-----------------------------------------------------------------------------

(* A bid and an ask that could trade never rest together, whatever was     *)
(* submitted, partially filled, stopped at the user's own order, or        *)
(* cancelled before (submit's loop and its self-trade exit).               *)
NotCrossed ==
  \A b, a \in resting : b.side = "buy" /\ a.side = "sell" => b.price < a.price

(* Order by order, the loop does what price-time priority promises in      *)
(* closed form: the same trades in the same order, the same book left      *)
(* behind and the same verdict (submit against module Matching).           *)
MatchesReference ==
  taker = None /\ before # None =>
    LET book == before.book
        t    == before.order
    IN  /\ trades = Trades(book, t)
        /\ resting = AfterSubmit(book, t)
        /\ reply = TakerState(book, t)
        /\ makers = MakerStates(book, t)

(* Settlement sees the book only through the reported states, and rebuilds *)
(* it from them after a restart: after a submit, a reported order is in    *)
(* the book exactly when it is reported open or partial, with the reported *)
(* remainder, and an order nobody reported has not changed.                *)
ReportsTellTheBook ==
  taker = None /\ before # None =>
    LET reports == makers \cup {reply}
        Told(o) == \E s \in reports : /\ s.orderId = o.id
                                      /\ s.remaining = o.qty
                                      /\ s.status \in {"open", "partial"}
        Named(id) == \E s \in reports : s.orderId = id
    IN  /\ \A o \in resting : IF Named(o.id) THEN Told(o) ELSE o \in before.book
        /\ \A s \in reports : s.status \in {"open", "partial"} <=> Has(s.orderId)
        /\ \A o \in before.book : Named(o.id) \/ o \in resting

=============================================================================
