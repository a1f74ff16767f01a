----------------------------- MODULE PriceLevels -----------------------------
(***************************************************************************)
(* The data structures of the order book (class BookSide and the loop of   *)
(* submit in apps/engine/src/OrderBook.ts): per side a sorted list of      *)
(* prices, per price a queue whose consumed head is skipped, now and then  *)
(* sliced off, and the quantity it shows in a snapshot.  Implements        *)
(* OrderBook, where a book is just the set of what rests in it.            *)
(*                                                                         *)
(* An order object is known by its seq: the code finds it by reference.    *)
(* Positions in a queue count from 1, so the code's index i is i + 1 here; *)
(* head counts the consumed orders, as in the code.                        *)
(***************************************************************************)
EXTENDS Optional, Matching, SequencesExt

CONSTANTS
  OrderId, User, Price, Qty, MaxPrice, MaxSeq,   \* of OrderBook
  Asked,      \* what orders may ask for: [user, side, type, price, qty]
  Slack,      \* 64: a queue with more consumed orders than this may be sliced
  Depth       \* levels in a snapshot

VARIABLES
  sides,      \* bids and asks: [prices, levels]
  byId,       \* the resting orders: where each of them is
  taker,      \* the order submit is matching, None outside submit
  inner,      \* the loops of submit: 0 in the outer one, or the position in the queue
  selfTrade,  \* the user's own order was met
  trades, makers, reply, nextSeq, before   \* as in OrderBook

bookVars == <<sides, byId>>
loopVars == <<taker, inner, selfTrade>>
vars == <<bookVars, loopVars, trades, makers, reply, nextSeq, before>>

Order ==
  {o \in [id : OrderId, user : User, side : Sides, type : OrderTypes,
          price : Price, qty : Nat, orig : Qty, seq : Nat] : o.qty <= o.orig}

PriceLevel == [orders : Seq(Order), head : Nat, total : Nat]

BookSide == [prices : Seq(Price), levels : [Price -> PriceLevel \cup {None}]]

Request == [user : User, side : Sides, type : OrderTypes, price : Price, qty : Qty]

ASSUME LevelsAssumption ==
  /\ MaxPrice \in Nat /\ Price \subseteq 1..MaxPrice
  /\ Qty \subseteq Nat \ {0}
  /\ MaxSeq \in Nat /\ Slack \in Nat /\ Depth \in Nat
  /\ Asked \subseteq Request
  /\ None \notin Order \cup PriceLevel

-----------------------------------------------------------------------------
(* BookSide.                                                               *)

EmptySide == [prices |-> <<>>, levels |-> [p \in Price |-> None]]

\* Broken: a new price goes to the end.
InsertPrice_Append(side, ps, price) == Append(ps, price)

\* insertPrice: binary search for the first price that is not better.
InsertPrice(side, ps, price) ==
  LET mid(r) == (r[1] + r[2]) \div 2
      place[r \in (0..Len(ps)) \X (0..Len(ps))] ==
        IF r[1] >= r[2] THEN r[1]
        ELSE IF Better(side, ps[mid(r) + 1], price)
             THEN place[<<mid(r) + 1, r[2]>>] ELSE place[<<r[1], mid(r)>>]
  IN  InsertAt(ps, place[<<0, Len(ps)>>] + 1, price)

\* add.
Added(b, o) ==
  LET new   == b.levels[o.price] = None
      level == IF new THEN [orders |-> <<>>, head |-> 0, total |-> 0] ELSE b.levels[o.price]
  IN  [prices |-> IF new THEN InsertPrice(o.side, b.prices, o.price) ELSE b.prices,
       levels |-> [b.levels EXCEPT ![o.price] =
                     [level EXCEPT !.orders = Append(@, o), !.total = @ + o.qty]]]

\* removePrice.
WithoutPrice(ps, price) ==
  LET at == {i \in DOMAIN ps : ps[i] = price}
  IN  IF at = {} THEN ps ELSE RemoveAt(ps, Min(at))

\* A level that is used up goes, and its price with it.
Kept(b, price, level) ==
  IF level.head < Len(level.orders) THEN [b EXCEPT !.levels[price] = level]
  ELSE [prices |-> WithoutPrice(b.prices, price), levels |-> [b.levels EXCEPT ![price] = None]]

\* Positions of a queue, from position i on, with something left.
LiveFrom(level, i) ==
  {k \in i..Len(level.orders) : level.orders[k].qty > 0}

\* How many orders at the head of a queue are consumed.
Consumed(level) ==
  LET live == LiveFrom(level, level.head + 1)
  IN  IF live = {} THEN Len(level.orders) ELSE Min(live) - 1

\* Broken: slices one order too many off.
Compacted_OneMore(b, price) ==
  LET level == b.levels[price]
      head  == Consumed(level)
      slice == head > Slack /\ 2 * head > Len(level.orders)
  IN  Kept(b, price,
           [level EXCEPT
              !.orders = IF slice THEN SubSeq(@, head + 2, Len(@)) ELSE @,
              !.head   = IF slice THEN 0 ELSE head])

\* compact.
Compacted(b, price) ==
  LET level == b.levels[price]
      head  == Consumed(level)
      slice == head > Slack /\ 2 * head > Len(level.orders)
  IN  Kept(b, price,
           [level EXCEPT
              !.orders = IF slice THEN SubSeq(@, head + 1, Len(@)) ELSE @,
              !.head   = IF slice THEN 0 ELSE head])

\* Broken: the level goes on showing what was taken out.
Taken_Shown(b, ref) ==
  LET level == b.levels[ref.price]
      found == {k \in (level.head + 1)..Len(level.orders) : level.orders[k].seq = ref.seq}
  IN  IF level = None \/ found = {} THEN b
      ELSE Kept(b, ref.price, [level EXCEPT !.orders = RemoveAt(@, Min(found))])

\* remove: looks from the head on.
Taken(b, ref) ==
  LET level == b.levels[ref.price]
      found == {k \in (level.head + 1)..Len(level.orders) : level.orders[k].seq = ref.seq}
  IN  IF level = None \/ found = {} THEN b
      ELSE Kept(b, ref.price,
                [level EXCEPT !.orders = RemoveAt(@, Min(found)),
                              !.total = @ - level.orders[Min(found)].qty])

\* reduce: order i of the queue gives q and keeps left.
LevelReduced(level, i, left, q) ==
  [level EXCEPT !.orders[i].qty = left, !.total = @ - q]

\* snapshot: what is out after the first i prices.
Snapshot(b) ==
  LET Shown(p) == [price |-> p, qty |-> b.levels[p].total]
      out[i \in 0..Len(b.prices)] ==
        IF i = 0 THEN <<>>
        ELSE IF Len(out[i - 1]) < Depth /\ b.levels[b.prices[i]].total > 0
             THEN Append(out[i - 1], Shown(b.prices[i])) ELSE out[i - 1]
  IN  out[Len(b.prices)]

-----------------------------------------------------------------------------
(* OrderBook.                                                              *)

Other(side) == IF side = "buy" THEN "sell" ELSE "buy"

RefOf(o) == [side |-> o.side, price |-> o.price, seq |-> o.seq]

\* restore, on a book [sides, byId].
Restored(bk, o) ==
  IF o.id \in DOMAIN bk.byId \/ o.qty = 0 THEN bk
  ELSE [sides |-> [bk.sides EXCEPT ![o.side] = Added(@, o)],
        byId  |-> [id \in DOMAIN bk.byId \cup {o.id} |->
                     IF id = o.id THEN RefOf(o) ELSE bk.byId[id]]]

\* The orders of one side that a taker can still meet, or a snapshot shows.
LiveIn(b) ==
  UNION {{level.orders[k] : k \in LiveFrom(level, level.head + 1)} :
           level \in {b.levels[p] : p \in Price} \ {None}}

LiveOn(side) == LiveIn(sides[side])

Live == LiveOn("buy") \cup LiveOn("sell")

Init ==
  /\ sides = [side \in Sides |-> EmptySide]
  /\ byId = [id \in {} |-> None]
  /\ taker = None /\ inner = 0 /\ selfTrade = FALSE
  /\ trades = <<>> /\ makers = {} /\ reply = None
  /\ nextSeq = 0
  /\ before = None

\* processCreate: has, then submit.
Submit(id, req) ==
  /\ taker = None
  /\ id \notin DOMAIN byId
  /\ nextSeq < MaxSeq
  /\ taker' = [id |-> id, user |-> req.user, side |-> req.side, type |-> req.type,
               price |-> req.price, qty |-> req.qty, orig |-> req.qty, seq |-> nextSeq]
  /\ trades' = <<>> /\ makers' = {} /\ reply' = None
  /\ nextSeq' = nextSeq + 1
  /\ before' = [book |-> Live, order |-> taker']
  /\ UNCHANGED <<bookVars, inner, selfTrade>>

opposite == sides[Other(taker.side)]

best == opposite.prices[1]

\* The condition of the outer loop, and the two breaks that follow it.
GoesOn ==
  /\ taker.qty > 0 /\ ~selfTrade
  /\ opposite.prices # <<>>
  /\ Crosses(taker, best)

EnterLevel ==
  /\ taker # None /\ inner = 0
  /\ GoesOn
  /\ inner' = opposite.levels[best].head + 1
  /\ UNCHANGED <<bookVars, taker, selfTrade, trades, makers, reply, nextSeq, before>>

\* The inner loop has an order to look at, the first one with something left.
Meets == taker.qty > 0 /\ LiveFrom(opposite.levels[best], inner) # {}

MetAt == Min(LiveFrom(opposite.levels[best], inner))

\* One iteration of the inner loop: a trade.
Meet ==
  /\ taker # None /\ inner > 0
  /\ Meets
  /\ LET maker == opposite.levels[best].orders[MetAt]
         q     == IF maker.qty < taker.qty THEN maker.qty ELSE taker.qty
         left  == maker.qty - q
     IN  /\ maker.user # taker.user
         /\ sides' = [sides EXCEPT ![maker.side].levels[best] = LevelReduced(@, MetAt, left, q)]
         /\ taker' = [taker EXCEPT !.qty = @ - q]
         /\ trades' = Append(trades, TradeOf(taker, maker, q))
         /\ byId' = IF left = 0 THEN Restrict(byId, DOMAIN byId \ {maker.id}) ELSE byId
         /\ makers' = {s \in makers : s.orderId # maker.id}
                        \cup {OrderState(maker.id, IF left = 0 THEN "filled" ELSE "partial", left)}
  /\ inner' = MetAt + 1
  /\ UNCHANGED <<selfTrade, reply, nextSeq, before>>

MeetsOwn == Meets /\ opposite.levels[best].orders[MetAt].user = taker.user

\* The inner loop ends, at the user's own order or with nothing more to do.
LeaveLevel ==
  /\ taker # None /\ inner > 0
  /\ ~Meets \/ MeetsOwn
  /\ selfTrade' = MeetsOwn
  /\ sides' = [sides EXCEPT ![Other(taker.side)] = Compacted(@, best)]
  /\ inner' = 0
  /\ UNCHANGED <<byId, taker, trades, makers, reply, nextSeq, before>>

\* After the loops: classify the order, and rest it if it may.
Finish ==
  /\ taker # None /\ inner = 0
  /\ ~GoesOn
  /\ LET rests == taker.qty > 0 /\ ~selfTrade /\ taker.type = "limit"
         after == IF rests THEN Restored([sides |-> sides, byId |-> byId], taker)
                  ELSE [sides |-> sides, byId |-> byId]
     IN  /\ reply' = OrderState(taker.id,
              CASE taker.qty = 0                       -> "filled"
                [] taker.qty > 0 /\ ~rests             -> Discarded(taker, taker.qty)
                [] rests /\ taker.qty < taker.orig     -> "partial"
                [] rests /\ taker.qty = taker.orig     -> "open",
              taker.qty)
         /\ sides' = after.sides
         /\ byId' = after.byId
  /\ taker' = None /\ selfTrade' = FALSE
  /\ UNCHANGED <<inner, trades, makers, nextSeq, before>>

\* cancel.
Cancel(id) ==
  /\ taker = None
  /\ IF id \in DOMAIN byId
     THEN LET ref == byId[id]
          IN  /\ reply' \in {OrderState(id, "cancelled", o.qty) :
                               o \in {m \in Live : m.seq = ref.seq}}
              /\ sides' = [sides EXCEPT ![ref.side] = Taken(@, ref)]
              /\ byId' = Restrict(byId, DOMAIN byId \ {id})
     ELSE reply' = None /\ UNCHANGED bookVars
  /\ trades' = <<>> /\ makers' = {} /\ before' = None
  /\ UNCHANGED <<loopVars, nextSeq>>

\* Orders in the order they came.
InOrder(S) ==
  [k \in 1..Cardinality(S) |->
     CHOOSE m \in S : Cardinality({n \in S : n.seq < m.seq}) = k - 1]

\* An empty book into which orders are restored, one after another.
BookOf(orders) ==
  LET bk[k \in 0..Len(orders)] ==
        IF k = 0 THEN [sides |-> [side \in Sides |-> EmptySide], byId |-> [id \in {} |-> None]]
        ELSE Restored(bk[k - 1], orders[k])
  IN  bk[Len(orders)]

\* The engine restarts: rebuildBooks restores the open orders by engineSeq.
Rebuild ==
  /\ taker = None
  /\ \E new \in {BookOf(InOrder(Live))} : sides' = new.sides /\ byId' = new.byId
  /\ UNCHANGED <<loopVars, trades, makers, reply, nextSeq, before>>

Next ==
  \/ \E id \in OrderId, req \in Asked : Submit(id, req)
  \/ EnterLevel
  \/ Meet
  \/ LeaveLevel
  \/ Finish
  \/ \E id \in OrderId : Cancel(id)
  \/ Rebuild

Spec == Init /\ [][Next]_vars

-----------------------------------------------------------------------------
(* Properties.                                                             *)

(* Whatever was consumed, sliced off, cancelled in the middle of a queue   *)
(* or rebuilt, the levels behave as the plain set of resting orders served *)
(* by price and time (refinement of OrderBook).                            *)
Book == INSTANCE OrderBook WITH resting <- Live

ImplementsBook == Book!Spec

(* Between calls, the sorted prices are exactly those of the levels, best  *)
(* first, and every queue holds from its head on at least one order, and   *)
(* only orders with something left, in the order they came (insertPrice,   *)
(* compact, remove).                                                       *)
LevelsInOrder ==
  taker = None =>
    \A side \in Sides :
      LET b == sides[side]
      IN  /\ \A i, j \in DOMAIN b.prices : i < j => Better(side, b.prices[i], b.prices[j])
          /\ ToSet(b.prices) = {p \in Price : b.levels[p] # None}
          /\ \A i \in DOMAIN b.prices :
               LET level == b.levels[b.prices[i]]
                   queue == SubSeq(level.orders, level.head + 1, Len(level.orders))
               IN  /\ queue # <<>>
                   /\ \A k \in DOMAIN queue : queue[k].qty > 0
                   /\ \A k, l \in DOMAIN queue : k < l => queue[k].seq < queue[l].seq

(* Between calls a snapshot shows, best price first, what rests at each    *)
(* price: the running totals of the levels never drift from their queues   *)
(* (add, reduce, remove, snapshot).                                        *)
SnapshotTellsTheBook ==
  taker = None =>
    \A side \in Sides :
      LET shown == Snapshot(sides[side])
          At(p) == {m \in LiveOn(side) : m.price = p}
      IN  /\ \A i \in DOMAIN shown : shown[i].qty = QtyOf(At(shown[i].price))
          /\ \A m \in LiveOn(side) :
               \/ \E i \in DOMAIN shown : shown[i].price = m.price
               \/ Len(shown) = Depth
                    /\ \A i \in DOMAIN shown : Better(side, shown[i].price, m.price)
=============================================================================
