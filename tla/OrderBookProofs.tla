--------------------------- MODULE OrderBookProofs ---------------------------
(***************************************************************************)
(* Proofs about OrderBook, for every set of orders, users, prices and      *)
(* quantities.                                                             *)
(***************************************************************************)
EXTENDS OrderBook, OperatorProofs

(* Prices and quantities are numbers, and an order has some of each field. *)
LEMMA OrderFields ==
  /\ \A o \in Order : /\ o.id \in OrderId
                     /\ o.side \in Sides
                     /\ o.price \in 1..MaxPrice /\ o.price \in Nat
                     /\ o.qty \in Nat /\ o.orig \in Nat \ {0} /\ o.qty <= o.orig
                     /\ o.seq \in Nat
  /\ Resting \subseteq Order
<1>1. \A p \in Price : p \in 1..MaxPrice /\ p \in Nat
  BY OrderBookAssumption
<1>2. \A q \in Qty : q \in Nat \ {0}
  BY OrderBookAssumption
<1> QED  BY <1>1, <1>2 DEF Order, Resting

(* One side of a book that is not empty has a first order: a best price,   *)
(* and the earliest order at it.                                           *)
LEMMA FrontExists ==
  ASSUME NEW S \in SUBSET Resting, S # {},
         NEW side \in Sides, \A m \in S : m.side = side,
         \A m, n \in S : m.seq = n.seq => m = n
  PROVE  \E m \in S : \A n \in S : n = m \/ Ahead(m, n)
<1> DEFINE Key(m) == IF side = "buy" THEN MaxPrice - m.price ELSE m.price
           Keys == {Key(m) : m \in S}
<1>1. \A m \in S : m.price \in 1..MaxPrice /\ m.seq \in Nat /\ Key(m) \in Nat
  BY OrderFields, OrderBookAssumption
<1>2. PICK k \in Keys : \A j \in Keys : k <= j
  <2>1. Keys \in SUBSET Nat /\ Keys # {}
    BY <1>1
  <2> HIDE DEF Keys
  <2> QED  BY <2>1, LeastNat
<1> DEFINE Level == {m \in S : Key(m) = k}
           Seqs == {m.seq : m \in Level}
<1>3. PICK q \in Seqs : \A r \in Seqs : q <= r
  <2>1. Seqs \in SUBSET Nat /\ Seqs # {}
    BY <1>1
  <2> HIDE DEF Seqs
  <2> QED  BY <2>1, LeastNat
<1>4. PICK m \in Level : m.seq = q
  OBVIOUS
<1>5. ASSUME NEW n \in S, n # m
      PROVE  Ahead(m, n)
  <2>1. Key(m) <= Key(n)
    BY <1>2, <1>4
  <2>2. CASE Key(m) < Key(n)
    <3>1. Better(side, m.price, n.price)
      BY <1>1, <1>4, <2>2, OrderBookAssumption DEF Better, Sides
    <3> QED  BY <1>4, <3>1 DEF Ahead
  <2>3. CASE Key(m) = Key(n)
    <3>1. m.price = n.price
      BY <1>1, <1>4, <2>3, OrderBookAssumption
    <3>2. n \in Level
      BY <1>4, <2>3
    <3>3. m.seq <= n.seq
      BY <1>3, <1>4, <3>2
    <3>4. m.seq # n.seq
      BY <1>4, <1>5
    <3> QED  BY <1>1, <1>4, <3>1, <3>3, <3>4 DEF Ahead
  <2> QED  BY <1>1, <1>4, <2>1, <2>2, <2>3, OrderBookAssumption
<1> QED  BY <1>4, <1>5

-----------------------------------------------------------------------------

(* The inductive invariant: types, and orders in the book and in submit    *)
(* that differ in identity and in their place in the stream.               *)
Distinct ==
  /\ \A m, n \in resting : m.seq = n.seq \/ m.id = n.id => m = n
  /\ \A m \in resting : m.seq < nextSeq
  /\ taker # None => /\ taker.seq < nextSeq
                     /\ \A m \in resting : m.seq # taker.seq /\ m.id # taker.id

BookInv == TypeOK /\ Distinct /\ NotCrossed

LEMMA InitBookInv == Init => BookInv
BY OrderBookAssumption DEF Init, BookInv, TypeOK, Distinct, NotCrossed

(* A submitted order gets a place of its own in the stream.                *)
LEMMA SubmitBookInv ==
  ASSUME BookInv,
         NEW id \in OrderId, NEW user \in User, NEW side \in Sides,
         NEW type \in OrderTypes, NEW price \in Price, NEW qty \in Qty,
         Submit(id, user, side, type, price, qty)
  PROVE  BookInv'
<1> USE DEF BookInv, Submit
<1>1. taker' \in Order
  BY OrderBookAssumption DEF Order, TypeOK
<1>2. TypeOK'
  BY <1>1 DEF TypeOK
<1>3. Distinct'
  BY DEF Distinct, TypeOK, Has, Resting, Order
<1>4. NotCrossed'
  BY DEF NotCrossed
<1> QED  BY <1>2, <1>3, <1>4

(* A trade leaves at most what it takes from of the first opposite order.  *)
LEMMA MatchBookInv ==
  ASSUME BookInv, NEW m \in resting, Match(m)
  PROVE  BookInv'
<1> DEFINE q == IF m.qty < taker.qty THEN m.qty ELSE taker.qty
           left == [m EXCEPT !.qty = @ - q]
<1> USE DEF BookInv
<1>1. m \in Order /\ m.qty > 0 /\ m.type = "limit" /\ taker \in Order /\ taker.qty > 0
  BY DEF TypeOK, Resting, Match
<1>2. q \in Nat \ {0} /\ m.qty - q \in Nat /\ taker.qty - q \in Nat
  BY <1>1 DEF Order
<1>3. /\ resting' = (resting \ {m}) \cup IF m.qty > q THEN {left} ELSE {}
      /\ taker' = [taker EXCEPT !.qty = @ - q]
      /\ trades' = Append(trades, TradeOf(taker, m, q))
      /\ makers' = {s \in makers : s.orderId # m.id} \cup
           {OrderState(m.id, IF m.qty > q THEN "partial" ELSE "filled", m.qty - q)}
      /\ UNCHANGED <<reply, nextSeq, before>>
  BY DEF Match, Reduce
<1>4. /\ m.qty > q => left \in Resting
      /\ taker' \in Order
  <2>1. q <= m.qty /\ q <= taker.qty
    BY <1>1 DEF Order
  <2>2. ASSUME NEW o \in Order, q <= o.qty, o.qty - q \in Nat
        PROVE  /\ [o EXCEPT !.qty = @ - q] \in Order
               /\ [o EXCEPT !.qty = @ - q].qty = o.qty - q
               /\ [o EXCEPT !.qty = @ - q].type = o.type
    <3>1. o.qty \in Nat /\ o.orig \in Nat /\ o.qty <= o.orig /\ q \in Nat
      BY <1>2, OrderFields
    <3> HIDE DEF q
    <3>2. o.qty - q <= o.orig
      BY <2>2, <3>1
    <3> QED  BY <2>2, <3>2 DEF Order
  <2>3. left \in Order /\ left.qty = m.qty - q /\ left.type = m.type
    BY <1>1, <1>2, <2>1, <2>2
  <2>4. taker' \in Order
    BY <1>1, <1>2, <1>3, <2>1, <2>2
  <2>5. m.qty \in Nat /\ m.qty - q \in Nat
    BY <1>1, <1>2 DEF Order
  <2> HIDE DEF left, q
  <2> QED  BY <1>1, <1>2, <2>3, <2>4, <2>5 DEF Resting
<1>5. /\ left.id = m.id /\ left.seq = m.seq /\ left.side = m.side /\ left.price = m.price
      /\ taker'.id = taker.id /\ taker'.seq = taker.seq /\ taker' # None
  BY <1>1, <1>3, <1>4, NoneAssumption DEF Order
<1>6. TypeOK'
  <2>1. resting' \subseteq Resting
    BY <1>3, <1>4 DEF TypeOK
  <2>3. TradeOf(taker, m, q) \in Trade
    BY <1>1, <1>2 DEF TradeOf, Trade, Order
  <2>4. OrderState(m.id, IF m.qty > q THEN "partial" ELSE "filled", m.qty - q) \in Report
    BY <1>1, <1>2 DEF OrderState, Report, Statuses, Terminal, Order
  <2> HIDE DEF q
  <2> QED  BY <1>3, <1>4, <2>1, <2>3, <2>4 DEF TypeOK
<1>7. \A n \in resting' : \E o \in resting :
         o.id = n.id /\ o.seq = n.seq /\ o.side = n.side /\ o.price = n.price
                     /\ (n = o \/ (o = m /\ n = left))
  BY <1>3, <1>5
<1>8. Distinct'
  <2> HIDE DEF left
  <2>1. \A n1, n2 \in resting' : n1.seq = n2.seq \/ n1.id = n2.id => n1 = n2
    BY <1>3, <1>5 DEF Distinct
  <2>2. \A n \in resting' : n.seq < nextSeq'
    BY <1>3, <1>5 DEF Distinct
  <2>3. taker'.seq < nextSeq' /\ \A n \in resting' : n.seq # taker'.seq /\ n.id # taker'.id
    BY <1>3, <1>5, <1>7 DEF Distinct, Match
  <2> QED  BY <2>1, <2>2, <2>3 DEF Distinct
<1>9. NotCrossed'
  BY <1>7 DEF NotCrossed
<1> QED  BY <1>6, <1>8, <1>9

(* An order rests only when nothing on the other side crosses it: either   *)
(* that side is empty or its first order, and so every order, is beyond    *)
(* the limit.                                                              *)
LEMMA RestingTakerCrossesNothing ==
  ASSUME BookInv, taker # None, Candidates = {}
  PROVE  \A n \in Opposite : ~Crosses(taker, n.price)
<1> USE DEF BookInv
<1>1. Opposite \in SUBSET Resting /\ taker \in Order
  BY DEF Opposite, TypeOK
<1>2. CASE Opposite = {}
  BY <1>2
<1>3. CASE Opposite # {}
  <2>1. PICK side \in Sides : \A n \in Opposite : n.side = side /\ taker.side # side
    BY <1>1, <1>3 DEF Opposite, Resting, Order, Sides
  <2>2. \A n1, n2 \in Opposite : n1.seq = n2.seq => n1 = n2
    BY DEF Opposite, Distinct
  <2>3. PICK m \in Opposite : \A n \in Opposite : n = m \/ Ahead(m, n)
    BY <1>1, <1>3, <2>1, <2>2, FrontExists
  <2>4. ~Crosses(taker, m.price)
    BY <2>3 DEF Candidates
  <2>5. \A n \in Opposite : n.price \in Nat /\ taker.price \in Nat
    BY <1>1, OrderFields
  <2>6. ASSUME NEW n \in Opposite PROVE ~Crosses(taker, n.price)
    <3>1. n = m \/ Better(m.side, m.price, n.price) \/ m.price = n.price
      BY <2>3 DEF Ahead
    <3> QED  BY <1>1, <2>1, <2>4, <2>5, <3>1 DEF Crosses, Better, Sides, Order
  <2> QED  BY <2>6
<1> QED  BY <1>2, <1>3

(* A finished order rests only where it can trade with nothing.            *)
LEMMA FinishBookInv ==
  ASSUME BookInv, Finish
  PROVE  BookInv'
<1> USE DEF BookInv
<1>1. taker \in Order /\ taker # None
  BY DEF Finish, TypeOK
<1>2. CASE Remains
  <2>1. resting' = resting \cup {taker} /\ Candidates = {}
    BY <1>2 DEF Finish, Remains
  <2>2. taker \in Resting
    BY <1>1, <1>2 DEF Remains, Resting
  <2>3. NotCrossed'
    <3>1. \A n \in Opposite : ~Crosses(taker, n.price)
      BY <1>1, <2>1, RestingTakerCrossesNothing
    <3>2. \A n \in resting' : n.price \in Nat /\ n.side \in Sides
      <4>1. resting' \subseteq Resting
        BY <2>1, <2>2 DEF TypeOK
      <4> QED  BY <4>1, OrderFields
    <3> QED  BY <1>1, <2>1, <3>1, <3>2 DEF NotCrossed, Opposite, Crosses, Sides
  <2>4. Distinct'
    BY <1>1, <2>1 DEF Distinct, Finish
  <2>5. resting' \subseteq Resting
    BY <2>1, <2>2 DEF TypeOK
  <2>6. reply' \in Report
    <3>1. \E status \in Statuses : reply' = OrderState(taker.id, status, taker.qty)
      BY <1>1, <1>2, OrderFields DEF Finish, Remains, Statuses, Terminal
    <3> QED  BY <1>1, <3>1 DEF OrderState, Report, Order
  <2> QED  BY <2>3, <2>4, <2>5, <2>6 DEF TypeOK, Finish
<1>3. CASE ~Remains
  <2>1. resting' = resting
    BY <1>3 DEF Finish
  <2>2. reply' \in Report
    <3>1. \E status \in Statuses : reply' = OrderState(taker.id, status, taker.qty)
      BY <1>1, <1>3, OrderFields DEF Finish, Discarded, Statuses, Terminal
    <3> QED  BY <1>1, <3>1 DEF OrderState, Report, Order
  <2> QED  BY <2>1, <2>2 DEF TypeOK, Distinct, NotCrossed, Finish
<1> QED  BY <1>2, <1>3

LEMMA CancelBookInv ==
  ASSUME BookInv, NEW id \in OrderId, Cancel(id)
  PROVE  BookInv'
<1> USE DEF BookInv
<1>1. resting' \subseteq resting
  BY DEF Cancel
<1>2. reply' \in Report \cup {None}
  BY DEF Cancel, TypeOK, Resting, Order, OrderState, Report, Statuses, Terminal
<1>3. TypeOK'
  BY <1>1, <1>2 DEF TypeOK, Cancel
<1>4. Distinct' /\ NotCrossed'
  BY <1>1 DEF Distinct, NotCrossed, Cancel
<1> QED  BY <1>3, <1>4

LEMMA NextBookInv == BookInv /\ [Next]_vars => BookInv'
<1> SUFFICES ASSUME BookInv, [Next]_vars PROVE BookInv'
  OBVIOUS
<1>1. ASSUME NEW id \in OrderId, NEW user \in User, NEW side \in Sides,
             NEW type \in OrderTypes, NEW price \in Price, NEW qty \in Qty,
             Submit(id, user, side, type, price, qty)
      PROVE  BookInv'
  BY <1>1, SubmitBookInv
<1>2. ASSUME NEW m \in resting, Match(m) PROVE BookInv'
  BY <1>2, MatchBookInv
<1>3. CASE Finish
  BY <1>3, FinishBookInv
<1>4. ASSUME NEW id \in OrderId, Cancel(id) PROVE BookInv'
  BY <1>4, CancelBookInv
<1>5. CASE UNCHANGED vars
  BY <1>5 DEF vars, BookInv, TypeOK, Distinct, NotCrossed
<1> QED  BY <1>1, <1>2, <1>3, <1>4, <1>5 DEF Next

(* Every reachable state of the book has the inductive invariant.          *)
THEOREM BookInvariant == Spec => []BookInv
<1> QED  BY InitBookInv, NextBookInv, PTL DEF Spec

(* Every variable of the order book always holds values of its type.       *)
THEOREM BookTypeCorrect == Spec => []TypeOK
<1>1. BookInv => TypeOK
  BY DEF BookInv
<1> QED  BY <1>1, BookInvariant, PTL

(* The book is never crossed: no bid at or above an ask ever rests, in any *)
(* market, with any number of orders, users and prices.                    *)
THEOREM BookNeverCrossed == Spec => []NotCrossed
<1>1. BookInv => NotCrossed
  BY DEF BookInv
<1> QED  BY <1>1, BookInvariant, PTL

-----------------------------------------------------------------------------
(* The loop computes the closed form.                                      *)

\* What submit starts with: the book and the order, as before holds them.
Entered(b, t) ==
  /\ Meeting(b, t)
  /\ b \subseteq Resting
  /\ t \in Order /\ t.orig = t.qty
  /\ \A m, n \in b : m.id = n.id => m = n
  /\ \A m \in b : m.id # t.id

\* What is left of a maker, and what is said of it, by the closed form.
Left(b, t, m) == [m EXCEPT !.qty = m.qty - FillQty(b, t, m)]

StateOf(b, t, m) ==
  LET left == m.qty - FillQty(b, t, m)
  IN  OrderState(m.id, IF left = 0 THEN "filled" ELSE "partial", left)

\* Where the loop is once it has met the makers of D.
Loop(b, t, D) ==
  /\ Met(b, t, D)
  /\ \A m \in D : FillQty(b, t, m) > 0
  /\ taker = [t EXCEPT !.qty = IF QtyOf(D) < t.qty THEN t.qty - QtyOf(D) ELSE 0]
  /\ resting = (b \ D) \cup {Left(b, t, m) : m \in {n \in D : FillQty(b, t, n) < n.qty}}
  /\ Len(trades) = Cardinality(D)
  /\ \A i \in 1..Cardinality(D) :
       trades[i] = TradeOf(t, Queue(D)[i], FillQty(b, t, Queue(D)[i]))
  /\ makers = {StateOf(b, t, m) : m \in D}

\* MatchesReference, of a book and an order.
Told(b, t) ==
  /\ trades = Trades(b, t)
  /\ resting = AfterSubmit(b, t)
  /\ reply = TakerState(b, t)
  /\ makers = MakerStates(b, t)

RefInv ==
  /\ IsFiniteSet(resting)
  /\ before # None =>
       /\ Entered(before.book, before.order)
       /\ IF taker = None THEN Told(before.book, before.order)
          ELSE \E D : Loop(before.book, before.order, D)

LEMMA MetFacts ==
  ASSUME NEW b, NEW t, Entered(b, t), NEW D, Met(b, t, D)
  PROVE  /\ D \in SUBSET b /\ IsFiniteSet(D) /\ BookOK(D)
         /\ QtyOf(D) \in Nat /\ Cardinality(D) \in Nat
         /\ \E side \in Sides : \A m \in D : m.side = side
<1>1. /\ Matchable(b, t) \in SUBSET b /\ IsFiniteSet(Matchable(b, t)) /\ BookOK(Matchable(b, t))
      /\ \A m \in Matchable(b, t) : m.qty \in Nat
      /\ \E side \in Sides : \A m \in Matchable(b, t) : m.side = side
  BY MatchableFacts DEF Entered
<1>2. D \in SUBSET Matchable(b, t)
  BY DEF Met
<1>3. IsFiniteSet(D) /\ \A m \in D : m.qty \in Nat
  BY <1>1, <1>2, FS_Subset
<1>4. BookOK(D)
  BY <1>1, <1>2, <1>3 DEF BookOK
<1>5. QtyOf(D) \in Nat /\ Cardinality(D) \in Nat
  BY <1>3, QtyFacts, FS_CardinalityType
<1> QED  BY <1>1, <1>2, <1>3, <1>4, <1>5

(* As long as the order wants more, the makers met are gone from the book. *)
LEMMA StillWanting ==
  ASSUME NEW b, NEW t, Entered(b, t), NEW D, Loop(b, t, D), taker.qty > 0
  PROVE  /\ QtyOf(D) < t.qty /\ taker.qty = t.qty - QtyOf(D)
         /\ \A m \in D : FillQty(b, t, m) = m.qty
         /\ resting = b \ D
<1>1. QtyOf(D) \in Nat /\ t \in Order /\ t.qty \in Nat
  BY MetFacts, OrderFields DEF Loop, Entered
<1>2. QtyOf(D) < t.qty /\ taker.qty = t.qty - QtyOf(D)
  <2>1. taker.qty = IF QtyOf(D) < t.qty THEN t.qty - QtyOf(D) ELSE 0
    BY <1>1 DEF Loop, Order
  <2> QED  BY <1>1, <2>1
<1>3. \A m \in D : FillQty(b, t, m) = m.qty
  <2>1. QtyOf(D) <= t.qty /\ Meeting(b, t) /\ Met(b, t, D)
    BY <1>1, <1>2 DEF Loop, Entered
  <2> QED  BY <2>1, MetInFull
<1>4. {n \in D : FillQty(b, t, n) < n.qty} = {}
  <2>1. \A n \in D : n.qty \in Nat
    BY MetFacts DEF Loop, Entered, Meeting
  <2> QED  BY <1>3, <2>1
<1>5. resting = b \ D
  BY <1>4 DEF Loop
<1> QED  BY <1>2, <1>3, <1>5

LEMMA TakerFields ==
  ASSUME NEW b, NEW t, Entered(b, t), NEW D, Loop(b, t, D)
  PROVE  /\ taker.id = t.id /\ taker.user = t.user /\ taker.side = t.side
         /\ taker.type = t.type /\ taker.price = t.price /\ taker.orig = t.orig
         /\ taker.seq = t.seq /\ taker \in [id : OrderId, user : User, side : Sides,
              type : OrderTypes, price : Price, qty : Int, orig : Qty, seq : Nat]
<1>1. QtyOf(D) \in Nat /\ t.qty \in Nat
  BY MetFacts, OrderFields DEF Loop, Entered
<1> DEFINE q == IF QtyOf(D) < t.qty THEN t.qty - QtyOf(D) ELSE 0
<1>2. q \in Int
  BY <1>1
<1>3. taker = [t EXCEPT !.qty = q] /\ t \in Order
  BY DEF Loop, Entered
<1> HIDE DEF q
<1> QED  BY <1>2, <1>3 DEF Order

(* The first order met next is the next one of the closed form.            *)
LEMMA CandidateNext ==
  ASSUME NEW b, NEW t, Entered(b, t), NEW D, Loop(b, t, D), taker.qty > 0,
         NEW m \in Candidates, m.user # taker.user
  PROVE  /\ m \in Matchable(b, t) \ D
         /\ \A n \in Matchable(b, t) \ D : n = m \/ Ahead(m, n)
<1>1. resting = b \ D /\ taker.side = t.side /\ taker.price = t.price /\ taker.user = t.user
  BY StillWanting, TakerFields
<1>2. Opposite = {n \in b \ D : n.side # t.side}
  BY <1>1 DEF Opposite
<1>3. m \in b \ D /\ m.side # t.side /\ Crosses(t, m.price)
  BY <1>1, <1>2 DEF Candidates, Crosses
<1>4. D \cap OwnCrossing(b, t) = {}
  BY DEF Loop, Met, Matchable
<1>5. \A own \in OwnCrossing(b, t) : own # m /\ Ahead(m, own)
  <2> SUFFICES ASSUME NEW own \in OwnCrossing(b, t) PROVE own # m /\ Ahead(m, own)
    OBVIOUS
  <2>1. own \in b \ D /\ own.side # t.side /\ own.user = t.user
    BY <1>4 DEF OwnCrossing, Crossing
  <2>2. own # m
    BY <1>1, <2>1
  <2> QED  BY <1>2, <2>1, <2>2 DEF Candidates
<1>6. m \in Matchable(b, t)
  BY <1>3, <1>5 DEF Matchable, Crossing
<1>7. \A n \in Matchable(b, t) \ D : n \in Opposite
  BY <1>2 DEF Matchable, Crossing
<1> QED  BY <1>3, <1>6, <1>7 DEF Candidates

(* One iteration does for one maker what the closed form says of it.       *)
LEMMA LoopStep ==
  ASSUME BookInv, NEW b, NEW t, Entered(b, t), NEW D, Loop(b, t, D), NEW m, Match(m)
  PROVE  Loop(b, t, D \cup {m})'
<1> DEFINE E == D \cup {m}
           q == IF m.qty < taker.qty THEN m.qty ELSE taker.qty
           c == Cardinality(D)
<1>1. taker # None /\ taker.qty > 0 /\ m \in Candidates /\ m.user # taker.user
  BY DEF Match
<1>2. /\ QtyOf(D) < t.qty /\ taker.qty = t.qty - QtyOf(D) /\ resting = b \ D
      /\ \A n \in D : FillQty(b, t, n) = n.qty
  BY <1>1, StillWanting
<1>3. /\ m \in Matchable(b, t) \ D
      /\ \A n \in Matchable(b, t) \ D : n = m \/ Ahead(m, n)
  BY <1>1, CandidateNext
<1>4. /\ Met(b, t, E) /\ (\A n \in D : Ahead(n, m))
      /\ QtyOf(D) \in Nat /\ QtyOf(E) = QtyOf(D) + m.qty
      /\ FillQty(b, t, m) = IF m.qty < t.qty - QtyOf(D) THEN m.qty ELSE t.qty - QtyOf(D)
  <2>1. Meeting(b, t) /\ Met(b, t, D)
    BY DEF Entered, Loop
  <2>2. /\ m \in Matchable(b, t) /\ m \notin D
        /\ \A n \in Matchable(b, t) \ D : n = m \/ Ahead(m, n)
    BY <1>3
  <2>3. QtyOf(D) < t.qty
    BY <1>2
  <2>4. Met(b, t, D \cup {m}) /\ (\A n \in D : Ahead(n, m)) /\ GivesNext(b, t, D, m)
    BY <2>1, <2>2, <2>3, NextMet, Zenon
  <2> QED  BY <2>4 DEF GivesNext
<1>5. m \in b /\ m \in Order /\ m.qty \in Nat \ {0} /\ m \notin D /\ t.qty \in Nat /\ t \in Order
  BY <1>3, MatchableFacts, OrderFields DEF Entered, Meeting
<1>6. q = FillQty(b, t, m) /\ q \in Nat \ {0} /\ q <= m.qty
  BY <1>2, <1>4, <1>5
<1>7. taker' = [t EXCEPT !.qty = IF QtyOf(E) < t.qty THEN t.qty - QtyOf(E) ELSE 0]
  <2>1. taker' = [taker EXCEPT !.qty = taker.qty - q]
    BY <1>1, TakerFields DEF Match
  <2>2. taker.qty - q = IF QtyOf(E) < t.qty THEN t.qty - QtyOf(E) ELSE 0
    BY <1>2, <1>4, <1>5
  <2> DEFINE r == taker.qty - q
             r0 == IF QtyOf(D) < t.qty THEN t.qty - QtyOf(D) ELSE 0
  <2>3. taker = [t EXCEPT !.qty = r0] /\ taker' = [taker EXCEPT !.qty = r]
    BY <2>1 DEF Loop
  <2>4. [[t EXCEPT !.qty = r0] EXCEPT !.qty = r] = [t EXCEPT !.qty = r]
    <3> HIDE DEF r, r0
    <3> QED  BY <1>5 DEF Order
  <2>5. taker' = [t EXCEPT !.qty = r]
    BY <2>3, <2>4
  <2> QED  BY <2>2, <2>5
<1>8. resting' = (b \ E) \cup {Left(b, t, n) : n \in {o \in E : FillQty(b, t, o) < o.qty}}
  <2>1. resting' = ((b \ D) \ {m}) \cup Reduce(m, q)
    BY <1>2 DEF Match
  <2>2. {o \in E : FillQty(b, t, o) < o.qty} = IF q < m.qty THEN {m} ELSE {}
    <3>1. \A o \in D : ~(FillQty(b, t, o) < o.qty)
      <4>1. \A o \in D : o.qty \in Nat
        BY MetFacts DEF Loop, Entered, Meeting
      <4> QED  BY <1>2, <4>1
    <3> HIDE DEF q
    <3> QED  BY <1>6, <3>1
  <2>3. Reduce(m, q) = IF q < m.qty THEN {Left(b, t, m)} ELSE {}
    <3> HIDE DEF q
    <3>1. m.qty > q <=> q < m.qty
      BY <1>5, <1>6
    <3>2. [m EXCEPT !.qty = @ - q] = Left(b, t, m)
      BY <1>5, <1>6 DEF Left, Order
    <3> QED  BY <3>1, <3>2 DEF Reduce
  <2> HIDE DEF q
  <2>4. CASE q < m.qty
    BY <2>1, <2>2, <2>3, <2>4
  <2>5. CASE ~(q < m.qty)
    BY <2>1, <2>2, <2>3, <2>5
  <2> QED  BY <2>4, <2>5
<1>9. /\ Cardinality(E) = c + 1 /\ c \in Nat
      /\ \A i \in 1..c : Queue(E)[i] = Queue(D)[i] /\ Queue(D)[i] \in D
      /\ Queue(E)[c + 1] = m
  <2>1. E \ {m} = D /\ m \in E
    BY <1>5
  <2>2. BookOK(E) /\ \E side \in Sides : \A n \in E : n.side = side
    BY <1>4, MetFacts
  <2>3. \A n \in E \ {m} : Ahead(n, m)
    BY <1>4, <2>1
  <2>4. BookOK(D) /\ \E side \in Sides : \A n \in D : n.side = side
    BY MetFacts DEF Loop
  <2>5. \A i \in 1..c : Queue(D)[i] \in D
    BY <2>4, QueueOrder
  <2> HIDE DEF E
  <2>6. LET d == Cardinality(E \ {m})
        IN  /\ d \in Nat /\ Cardinality(E) = d + 1
            /\ \A i \in 1..d : Queue(E)[i] = Queue(E \ {m})[i]
            /\ Queue(E)[d + 1] = m
    BY <2>1, <2>2, <2>3, QueueAppend
  <2> QED  BY <2>1, <2>5, <2>6
<1>10. Len(trades') = Cardinality(E)
       /\ \A i \in 1..Cardinality(E) :
            trades'[i] = TradeOf(t, Queue(E)[i], FillQty(b, t, Queue(E)[i]))
  <2>1. trades \in Seq(Trade) /\ Len(trades) = c
    BY DEF BookInv, TypeOK, Loop
  <2>2. TradeOf(taker, m, q) = TradeOf(t, m, FillQty(b, t, m))
    BY <1>6, TakerFields DEF TradeOf
  <2>3. trades' = Append(trades, TradeOf(t, m, FillQty(b, t, m)))
    BY <2>2 DEF Match
  <2>4. /\ Len(trades') = c + 1 /\ trades'[c + 1] = TradeOf(t, m, FillQty(b, t, m))
        /\ \A i \in 1..c : trades'[i] = trades[i]
    BY <1>9, <2>1, <2>3
  <2>5. \A i \in 1..c : trades[i] = TradeOf(t, Queue(D)[i], FillQty(b, t, Queue(D)[i]))
    BY DEF Loop
  <2> HIDE DEF E, c
  <2>6. \A i \in 1..(c + 1) : i = c + 1 \/ i \in 1..c
    BY <1>9
  <2> QED  BY <1>9, <2>4, <2>5, <2>6
<1>11. makers' = {StateOf(b, t, n) : n \in E}
  <2>1. OrderState(m.id, IF m.qty > q THEN "partial" ELSE "filled", m.qty - q) = StateOf(b, t, m)
    <3> HIDE DEF q
    <3>1. m.qty > q <=> m.qty - q # 0
      BY <1>5, <1>6
    <3> QED  BY <1>6, <3>1 DEF StateOf
  <2>2. \A s \in makers : s.orderId # m.id
    <3> SUFFICES ASSUME NEW s \in makers PROVE s.orderId # m.id
      OBVIOUS
    <3>1. PICK n \in D : s = StateOf(b, t, n)
      BY DEF Loop
    <3>2. n \in b /\ n # m
      BY <1>5, MetFacts DEF Loop
    <3>3. s.orderId = n.id
      BY <3>1 DEF StateOf, OrderState
    <3> QED  BY <1>5, <3>2, <3>3 DEF Entered
  <2>3. makers' = makers \cup {StateOf(b, t, m)}
    BY <2>1, <2>2 DEF Match
  <2> QED  BY <2>3 DEF Loop
<1>12. \A n \in E : FillQty(b, t, n) > 0
  BY <1>6 DEF Loop
<1> HIDE DEF E, q
<1>13. Loop(b, t, E)'
  BY <1>4, <1>7, <1>8, <1>10, <1>11, <1>12 DEF Loop
<1> QED  BY <1>13 DEF E

(* The loop ends when the order has what it wants, or nothing crosses, or  *)
(* its own order is next: then the makers met are all there are.           *)
LEMMA LoopEnds ==
  ASSUME BookInv, NEW b, NEW t, Entered(b, t), NEW D, Loop(b, t, D), Finish
  PROVE  /\ D = Makers(b, t) /\ taker.qty = Unfilled(b, t)
         /\ \A m \in b \ D : FillQty(b, t, m) = 0
         /\ Remains <=> Rests(b, t)
<1> DEFINE M == Matchable(b, t)
<1>1. /\ Meeting(b, t) /\ Met(b, t, D) /\ D \in SUBSET M /\ M \in SUBSET b
      /\ IsFiniteSet(M) /\ \A m \in M : m.qty \in Nat \ {0}
  BY MatchableFacts DEF Entered, Loop, Met
<1>2. /\ QtyOf(D) \in Nat /\ QtyOf(M) \in Nat /\ QtyOf(D) <= QtyOf(M) /\ t.qty \in Nat \ {0}
      /\ taker.qty = IF QtyOf(D) < t.qty THEN t.qty - QtyOf(D) ELSE 0
  <2>1. \A m \in M : m.qty \in Nat
    BY <1>1
  <2>2. QtyOf(D) \in Nat /\ QtyOf(M) \in Nat /\ QtyOf(D) <= QtyOf(M)
    <3> HIDE DEF M
    <3> QED  BY <1>1, <2>1, QtyFacts
  <2>3. taker.qty = IF QtyOf(D) < t.qty THEN t.qty - QtyOf(D) ELSE 0
    BY DEF Loop, Entered, Order
  <2>4. t.qty \in Nat \ {0}
    BY DEF Entered, Meeting
  <2> QED  BY <2>2, <2>3, <2>4
<1>3. Unfilled(b, t) = IF t.qty <= QtyOf(M) THEN 0 ELSE t.qty - QtyOf(M)
  <2>1. BookOK(b) /\ (\A m \in b : m.qty \in Nat) /\ t.side \in Sides /\ t.qty \in Nat
    BY DEF Entered, Meeting
  <2> QED  BY <2>1, FillsAddUp
<1>4. ASSUME \A m \in b \ D : FillQty(b, t, m) = 0
      PROVE  D = Makers(b, t)
  BY <1>1, <1>4 DEF Makers, Loop
<1>5. CASE taker.qty = 0
  <2>1. QtyOf(D) >= t.qty
    BY <1>2, <1>5
  <2>2. \A m \in b \ D : FillQty(b, t, m) = 0
    BY <1>1, <2>1, EnoughMet
  <2>3. Unfilled(b, t) = 0
    <3> HIDE DEF M
    <3> QED  BY <1>2, <1>3, <2>1
  <2>4. ~Remains /\ ~Rests(b, t)
    BY <1>5, <2>3 DEF Remains, Rests
  <2> QED  BY <1>4, <1>5, <2>2, <2>3, <2>4
<1>6. CASE taker.qty # 0
  <2>1. taker.qty > 0 /\ taker # None /\ (Candidates = {} \/ SelfTrade)
    BY <1>2, <1>6 DEF Finish
  <2>2. /\ QtyOf(D) < t.qty /\ resting = b \ D
        /\ taker.side = t.side /\ taker.price = t.price /\ taker.user = t.user
        /\ taker.type = t.type
    BY <2>1, StillWanting, TakerFields
  <2>3. Opposite = {n \in b \ D : n.side # t.side}
    BY <2>2 DEF Opposite
  <2>4. D \cap OwnCrossing(b, t) = {}
    BY DEF Loop, Met, Matchable
  <2>5. ASSUME NEW n \in Crossing(b, t), n \notin D
        PROVE  n \in Opposite /\ SelfTrade
    <3>1. n \in Opposite /\ Crosses(taker, n.price)
      BY <2>2, <2>3, <2>5 DEF Crossing, Crosses
    <3> QED  BY <2>1, <3>1, RestingTakerCrossesNothing
  <2>6. ASSUME NEW own \in Candidates, own.user = taker.user
        PROVE  own \in OwnCrossing(b, t)
    BY <2>2, <2>3, <2>6 DEF Candidates, Crosses, OwnCrossing, Crossing
  <2>7. SelfTrade <=> OwnCrossing(b, t) # {}
    <3>1. ASSUME SelfTrade PROVE OwnCrossing(b, t) # {}
      BY <2>6, <3>1 DEF SelfTrade
    <3>2. ASSUME NEW own \in OwnCrossing(b, t) PROVE SelfTrade
      BY <2>4, <2>5 DEF OwnCrossing
    <3> QED  BY <3>1, <3>2
  <2>8. ASSUME NEW n \in M, n \notin D PROVE FALSE
    <3>1. n \in Crossing(b, t) /\ \A own \in OwnCrossing(b, t) : own # n /\ Ahead(n, own)
      BY DEF Matchable
    <3>2. n \in Opposite /\ SelfTrade
      BY <2>5, <2>8, <3>1
    <3>3. PICK own \in Candidates : own.user = taker.user
      BY <3>2 DEF SelfTrade
    <3>4. own \in OwnCrossing(b, t)
      BY <2>6, <3>3
    <3>5. Ahead(own, n) /\ Ahead(n, own)
      BY <3>1, <3>2, <3>4 DEF Candidates
    <3>6. BookOK(b) /\ n \in b /\ own \in b /\ n.side \in Sides /\ own.side \in Sides
          /\ n.side # t.side /\ own.side # t.side /\ t.side \in Sides
      BY <3>1, <3>4 DEF Crossing, OwnCrossing, Entered, Meeting, BookOK
    <3>7. n.side = own.side /\ n.price \in Int /\ own.price \in Int /\ n.seq \in Int /\ own.seq \in Int
      BY <3>6 DEF Sides, BookOK
    <3> QED  BY <3>5, <3>6, <3>7 DEF Ahead, Better
  <2>9. D = M
    BY <1>1, <2>8
  <2>10. \A m \in b \ D : FillQty(b, t, m) = 0
    BY <1>1, <2>9, FillOf
  <2>11. taker.qty = Unfilled(b, t)
    <3> HIDE DEF M
    <3> QED  BY <1>2, <1>3, <2>2, <2>9
  <2>12. Remains <=> Rests(b, t)
    BY <2>1, <2>2, <2>7, <2>11 DEF Remains, Rests
  <2> QED  BY <1>4, <2>10, <2>11, <2>12
<1> QED  BY <1>5, <1>6

(* The verdict on the order, and what becomes of it, are the closed form's. *)
LEMMA FinishTells ==
  ASSUME BookInv, NEW b, NEW t, Entered(b, t), NEW D, Loop(b, t, D), Finish
  PROVE  Told(b, t)'
<1>1. /\ D = Makers(b, t) /\ taker.qty = Unfilled(b, t)
      /\ \A m \in b \ D : FillQty(b, t, m) = 0
      /\ Remains <=> Rests(b, t)
  BY LoopEnds
<1>2. /\ taker.id = t.id /\ taker.orig = t.orig /\ t \in Order
      /\ taker = [t EXCEPT !.qty = taker.qty]
  <2> DEFINE q == IF QtyOf(D) < t.qty THEN t.qty - QtyOf(D) ELSE 0
  <2>1. taker = [t EXCEPT !.qty = q] /\ t \in Order
    BY DEF Loop, Entered
  <2> HIDE DEF q
  <2> QED  BY <2>1 DEF Order
<1>3. trades' = trades /\ makers' = makers
  BY DEF Finish
<1>4. trades = Trades(b, t)
  <2>1. trades \in Seq(Trade) /\ Len(trades) = Cardinality(D)
    BY DEF BookInv, TypeOK, Loop
  <2>2. trades = [i \in 1..Cardinality(D) |-> trades[i]]
    BY <2>1
  <2>3. DOMAIN Queue(D) = 1..Cardinality(D)
    BY DEF Queue
  <2>4. Trades(b, t) = [i \in 1..Cardinality(D) |->
                          TradeOf(t, Queue(D)[i], FillQty(b, t, Queue(D)[i]))]
    BY <1>1, <2>3 DEF Trades
  <2>5. \A i \in 1..Cardinality(D) :
          trades[i] = TradeOf(t, Queue(D)[i], FillQty(b, t, Queue(D)[i]))
    BY DEF Loop
  <2> QED  BY <2>2, <2>4, <2>5
<1>5. makers = MakerStates(b, t)
  BY <1>1 DEF Loop, MakerStates, StateOf
<1>6. resting' = AfterSubmit(b, t)
  <2> DEFINE Kept == {n \in b : FillQty(b, t, n) < n.qty}
             Own == IF Rests(b, t) THEN {[t EXCEPT !.qty = Unfilled(b, t)]} ELSE {}
  <2>1. AfterSubmit(b, t) = {Left(b, t, m) : m \in Kept} \cup Own
    BY DEF AfterSubmit, Left
  <2>2. resting' = (b \ D) \cup {Left(b, t, m) : m \in {n \in D : FillQty(b, t, n) < n.qty}}
                   \cup Own
    <3>1. (IF Remains THEN {taker} ELSE {}) = Own
      BY <1>1, <1>2
    <3> HIDE DEF Own
    <3> QED  BY <3>1 DEF Finish, Loop
  <2>3. \A m \in b \ D : Left(b, t, m) = m /\ m \in Kept
    <3> SUFFICES ASSUME NEW m \in b \ D PROVE Left(b, t, m) = m /\ m \in Kept
      OBVIOUS
    <3>1. m \in Order /\ m.qty \in Nat \ {0} /\ FillQty(b, t, m) = 0
      BY <1>1, OrderFields DEF Entered, Meeting
    <3>2. [m EXCEPT !.qty = m.qty] = m
      BY <3>1 DEF Order
    <3>3. m.qty - 0 = m.qty
      BY <3>1
    <3> QED  BY <3>1, <3>2, <3>3 DEF Left
  <2>4. D \in SUBSET b
    BY MetFacts DEF Loop
  <2>5. {Left(b, t, m) : m \in Kept} =
          (b \ D) \cup {Left(b, t, m) : m \in {n \in D : FillQty(b, t, n) < n.qty}}
    <3>1. Kept = (b \ D) \cup {n \in D : FillQty(b, t, n) < n.qty}
      BY <2>3, <2>4
    <3> HIDE DEF Kept
    <3> QED  BY <2>3, <3>1
  <2> HIDE DEF Kept, Own
  <2> QED  BY <2>1, <2>2, <2>5
<1>7. reply' = TakerState(b, t)
  <2> DEFINE left == Unfilled(b, t)
             status == CASE left = 0                        -> "filled"
                         [] left > 0 /\ ~Rests(b, t)        -> Discarded(t, left)
                         [] Rests(b, t) /\ left < t.orig    -> "partial"
                         [] Rests(b, t) /\ left = t.orig    -> "open"
  <2>1. Discarded(taker, taker.qty) = Discarded(t, left)
    BY <1>1, <1>2 DEF Discarded
  <2>2. reply' = OrderState(t.id, status, left)
    <3> HIDE DEF left
    <3> QED  BY <1>1, <1>2, <2>1, Zenon DEF Finish, left
  <2> QED  BY <2>2 DEF TakerState
<1> QED  BY <1>3, <1>4, <1>5, <1>6, <1>7 DEF Told

LEMMA InitRefInv == Init => RefInv
BY FS_EmptySet DEF Init, RefInv

(* The order being matched stays an order.                                 *)
LEMMA MatchOrder ==
  ASSUME BookInv, NEW m \in resting, Match(m)
  PROVE  taker' \in Order
<1> DEFINE q == IF m.qty < taker.qty THEN m.qty ELSE taker.qty
<1>1. m \in Order /\ taker \in Order /\ taker' = [taker EXCEPT !.qty = @ - q]
  BY DEF BookInv, TypeOK, Resting, Match
<1>2. q \in Nat /\ taker.qty - q \in Nat /\ taker.qty - q <= taker.orig
  BY <1>1, OrderFields
<1> HIDE DEF q
<1> QED  BY <1>1, <1>2, OrderFields DEF Order

LEMMA NextRefInv ==
  ASSUME BookInv, RefInv, [Next]_vars
  PROVE  RefInv'
<1>1. ASSUME NEW id \in OrderId, NEW user \in User, NEW side \in Sides, NEW type \in OrderTypes,
             NEW price \in Price, NEW qty \in Qty, Submit(id, user, side, type, price, qty)
      PROVE  RefInv'
  <2>1. PICK b, t : /\ b = resting /\ resting' = b
                    /\ t = [id |-> id, user |-> user, side |-> side, type |-> type,
                            price |-> price, qty |-> qty, orig |-> qty, seq |-> nextSeq]
                    /\ taker' = t /\ before' = [book |-> b, order |-> t]
                    /\ trades' = <<>> /\ makers' = {}
    BY <1>1 DEF Submit
  <2>2. t \in Order /\ t.orig = t.qty /\ t.id = id /\ t.qty \in Nat \ {0}
    BY <2>1, OrderBookAssumption DEF Order, BookInv, TypeOK
  <2>3. Entered(b, t)
    <3>1. b \subseteq Resting /\ IsFiniteSet(b)
      BY <2>1 DEF BookInv, TypeOK, RefInv
    <3>2. \A m \in b : /\ m.side \in Sides /\ m.qty \in Nat \ {0}
                       /\ m.price \in Int /\ m.seq \in Int
      BY <3>1, OrderFields DEF Resting
    <3>3. \A m, n \in b : m.seq = n.seq \/ m.id = n.id => m = n
      BY <2>1 DEF BookInv, Distinct
    <3>4. Meeting(b, t)
      BY <2>2, <3>1, <3>2, <3>3, OrderFields DEF Meeting, BookOK
    <3>5. \A m \in b : m.id # t.id
      BY <1>1, <2>1, <2>2 DEF Submit, Has
    <3> QED  BY <2>2, <3>1, <3>3, <3>4, <3>5 DEF Entered
  <2>4. Loop(b, t, {})'
    <3>1. QtyOf({}) = 0
      BY SumEmpty DEF QtyOf, SumFunction
    <3>2. t = [t EXCEPT !.qty = IF QtyOf({}) < t.qty THEN t.qty - QtyOf({}) ELSE 0]
      <4>1. t.qty - 0 = t.qty /\ 0 < t.qty
        BY <2>2
      <4>2. t = [t EXCEPT !.qty = t.qty]
        BY <2>2 DEF Order
      <4> QED  BY <3>1, <4>1, <4>2
    <3>3. Cardinality({}) = 0 /\ 1..0 = {} /\ Len(<<>>) = 0
      BY FS_EmptySet
    <3> QED  BY <2>1, <3>2, <3>3 DEF Loop, Met
  <2>5. before'.book = b /\ before'.order = t /\ taker' # None /\ IsFiniteSet(resting')
    BY <2>1, <2>2, NoneAssumption DEF RefInv
  <2> QED  BY <2>3, <2>4, <2>5 DEF RefInv
<1>2. ASSUME NEW m \in resting, Match(m) PROVE RefInv'
  <2>1. taker # None /\ before' = before /\ IsFiniteSet(resting')
    <3>1. IsFiniteSet(Reduce(m, IF m.qty < taker.qty THEN m.qty ELSE taker.qty))
      BY FS_EmptySet, FS_Singleton DEF Reduce
    <3>2. IsFiniteSet(resting \ {m})
      BY FS_RemoveElement DEF RefInv
    <3> QED  BY <1>2, <3>1, <3>2, FS_Union DEF Match
  <2>2. CASE before = None
    BY <2>1, <2>2 DEF RefInv
  <2>3. CASE before # None
    <3>1. PICK b, t, D : /\ b = before.book /\ t = before.order
                         /\ Entered(b, t) /\ Loop(b, t, D)
      BY <2>1, <2>3 DEF RefInv
    <3>2. Loop(b, t, D \cup {m})'
      BY <1>2, <3>1, LoopStep
    <3>3. before'.book = b /\ before'.order = t
      BY <2>1, <3>1
    <3>4. taker' # None
      BY <1>2, NoneAssumption, MatchOrder
    <3> QED  BY <2>1, <3>1, <3>2, <3>3, <3>4 DEF RefInv
  <2> QED  BY <2>2, <2>3
<1>3. CASE Finish
  <2>1. taker # None /\ taker' = None /\ before' = before /\ IsFiniteSet(resting')
    BY <1>3, FS_EmptySet, FS_Singleton, FS_Union DEF Finish, RefInv
  <2>2. CASE before = None
    BY <2>1, <2>2 DEF RefInv
  <2>3. CASE before # None
    <3>1. PICK b, t, D : /\ b = before.book /\ t = before.order
                         /\ Entered(b, t) /\ Loop(b, t, D)
      BY <2>1, <2>3 DEF RefInv
    <3>2. Told(b, t)'
      BY <1>3, <3>1, FinishTells
    <3>3. before'.book = b /\ before'.order = t
      BY <2>1, <3>1
    <3> QED  BY <2>1, <3>1, <3>2, <3>3 DEF RefInv
  <2> QED  BY <2>2, <2>3
<1>4. ASSUME NEW id \in OrderId, Cancel(id) PROVE RefInv'
  <2>1. before' = None /\ resting' \in SUBSET resting
    BY <1>4 DEF Cancel
  <2>2. IsFiniteSet(resting')
    BY <2>1, FS_Subset DEF RefInv
  <2> QED  BY <2>1, <2>2 DEF RefInv
<1>5. CASE UNCHANGED vars
  BY <1>5 DEF vars, RefInv, Told, Loop
<1> QED  BY <1>1, <1>2, <1>3, <1>4, <1>5 DEF Next

(* Whatever is submitted and cancelled, the loop and the closed form do    *)
(* the same: submit's trades, the book it leaves and what it reports.      *)
THEOREM BookMatchesReference == Spec => []MatchesReference
<1>1. Init => BookInv /\ RefInv
  BY InitBookInv, InitRefInv
<1>2. BookInv /\ RefInv /\ [Next]_vars => (BookInv /\ RefInv)'
  BY NextBookInv, NextRefInv
<1>3. BookInv /\ RefInv => MatchesReference
  BY DEF RefInv, Told, MatchesReference
<1> QED  BY <1>1, <1>2, <1>3, PTL DEF Spec

(* The closed form says of every order in the book what is left of it, and *)
(* of no order out of the book that anything is.                           *)
LEMMA ToldTellsTheBook ==
  ASSUME NEW b, NEW t, Entered(b, t), Told(b, t)
  PROVE  LET reports == makers \cup {reply}
             Says(o) == \E s \in reports : /\ s.orderId = o.id
                                           /\ s.remaining = o.qty
                                           /\ s.status \in {"open", "partial"}
             Named(id) == \E s \in reports : s.orderId = id
         IN  /\ \A o \in resting : IF Named(o.id) THEN Says(o) ELSE o \in b
             /\ \A s \in reports : s.status \in {"open", "partial"} <=> Has(s.orderId)
             /\ \A o \in b : Named(o.id) \/ o \in resting
<1> DEFINE fill(m) == FillQty(b, t, m)
           left(m) == m.qty - fill(m)
           own == [t EXCEPT !.qty = Unfilled(b, t)]
           reports == makers \cup {reply}
           Says(o) == \E s \in reports : /\ s.orderId = o.id
                                         /\ s.remaining = o.qty
                                         /\ s.status \in {"open", "partial"}
           Named(id) == \E s \in reports : s.orderId = id
<1>1. /\ BookOK(b) /\ t.side \in Sides /\ t.qty \in Nat \ {0} /\ t.orig = t.qty /\ t \in Order
      /\ \A m \in b : m \in Order /\ m.qty \in Nat \ {0} /\ m.id # t.id
      /\ \A m, n \in b : m.id = n.id => m = n
  BY OrderFields DEF Entered, Meeting
<1>2. \A m \in b : fill(m) \in 0..m.qty
  BY <1>1, FillBounds
<1>3. /\ Makers(b, t) \in SUBSET b
      /\ \A m \in b : m \in Makers(b, t) <=> fill(m) > 0
  <2>1. \A m \in b : fill(m) > 0 => m \in Matchable(b, t)
    BY <1>1 DEF FillQty
  <2> QED  BY <2>1 DEF Makers, Matchable, Crossing
<1>4. \A m \in b : /\ Left(b, t, m).id = m.id /\ Left(b, t, m).qty = left(m)
                   /\ fill(m) = 0 => Left(b, t, m) = m
  <2> SUFFICES ASSUME NEW m \in b
               PROVE  /\ Left(b, t, m).id = m.id /\ Left(b, t, m).qty = left(m)
                      /\ fill(m) = 0 => Left(b, t, m) = m
    OBVIOUS
  <2>1. Left(b, t, m) = [m EXCEPT !.qty = left(m)] /\ m \in Order
    BY <1>1 DEF Left
  <2>2. fill(m) = 0 => left(m) = m.qty
    BY <1>1
  <2> HIDE DEF left, fill
  <2> QED  BY <2>1, <2>2 DEF Order
<1>5. own.id = t.id /\ own.qty = Unfilled(b, t)
  BY <1>1 DEF Order
<1>6. /\ reply.orderId = t.id /\ reply.remaining = Unfilled(b, t)
      /\ reply.status \in {"open", "partial"} <=> Rests(b, t)
  <2>1. reply = TakerState(b, t)
    BY DEF Told
  <2>2. TakerState(b, t).orderId = t.id /\ TakerState(b, t).remaining = Unfilled(b, t)
    BY Zenon DEF TakerState, OrderState
  <2>3. \A m \in b : m.qty \in Nat
    BY <1>1
  <2> QED  BY <1>1, <2>1, <2>2, <2>3, TakerRests
<1>7. makers = {StateOf(b, t, m) : m \in Makers(b, t)}
  BY DEF Told, MakerStates, StateOf
<1>8. \A m \in b : /\ StateOf(b, t, m).orderId = m.id /\ StateOf(b, t, m).remaining = left(m)
                   /\ StateOf(b, t, m).status \in {"open", "partial"} <=> fill(m) < m.qty
  BY <1>1, <1>2 DEF StateOf, OrderState
<1>9. resting = {Left(b, t, m) : m \in {n \in b : fill(n) < n.qty}}
                \cup IF Rests(b, t) THEN {own} ELSE {}
  BY DEF Told, AfterSubmit, Left
<1> HIDE DEF fill, left, own
<1>10. \A m \in b : Named(m.id) <=> fill(m) > 0
  BY <1>1, <1>3, <1>6, <1>7, <1>8
<1>11. ASSUME NEW o \in resting PROVE IF Named(o.id) THEN Says(o) ELSE o \in b
  <2>1. CASE \E m \in b : fill(m) < m.qty /\ o = Left(b, t, m)
    <3>1. PICK m \in b : fill(m) < m.qty /\ o = Left(b, t, m)
      BY <2>1
    <3>2. CASE fill(m) > 0
      <4>1. StateOf(b, t, m) \in reports
        BY <1>3, <1>7, <3>2
      <4> QED  BY <1>4, <1>8, <3>1, <4>1
    <3>3. CASE fill(m) = 0
      BY <1>4, <1>10, <3>1, <3>3
    <3> QED  BY <1>1, <1>2, <3>2, <3>3
  <2>2. CASE Rests(b, t) /\ o = own
    BY <1>5, <1>6, <2>2
  <2> QED  BY <1>9, <2>1, <2>2
<1>12. \A s \in reports : s.status \in {"open", "partial"} <=> Has(s.orderId)
  <2>1. ASSUME NEW m \in b PROVE Has(m.id) <=> fill(m) < m.qty
    <3>1. ASSUME fill(m) < m.qty PROVE Has(m.id)
      <4>1. Left(b, t, m) \in resting
        BY <1>9, <3>1
      <4> QED  BY <1>4, <4>1 DEF Has
    <3>2. ASSUME Has(m.id) PROVE fill(m) < m.qty
      <4>1. PICK o \in resting : o.id = m.id
        BY <3>2 DEF Has
      <4>2. o # own
        BY <1>1, <1>5, <4>1
      <4>3. PICK n \in b : fill(n) < n.qty /\ o = Left(b, t, n)
        BY <1>9, <4>2
      <4>4. n = m
        BY <1>1, <1>4, <4>1, <4>3
      <4> QED  BY <4>3, <4>4
    <3> QED  BY <3>1, <3>2
  <2>2. Has(t.id) <=> Rests(b, t)
    <3>1. \A m \in b : Left(b, t, m).id # t.id
      BY <1>1, <1>4
    <3> QED  BY <1>5, <1>9, <3>1 DEF Has
  <2>3. \A m \in Makers(b, t) : StateOf(b, t, m).status \in {"open", "partial"}
                                  <=> Has(StateOf(b, t, m).orderId)
    BY <1>3, <1>8, <2>1
  <2> QED  BY <1>6, <1>7, <2>2, <2>3
<1>13. \A o \in b : Named(o.id) \/ o \in resting
  <2> SUFFICES ASSUME NEW o \in b, ~Named(o.id) PROVE o \in resting
    OBVIOUS
  <2>1. fill(o) = 0 /\ fill(o) < o.qty
    BY <1>1, <1>2, <1>10
  <2>2. Left(b, t, o) = o /\ Left(b, t, o) \in resting
    BY <1>4, <1>9, <2>1
  <2> QED  BY <2>2
<1> HIDE DEF reports
<1> QED  BY <1>11, <1>12, <1>13 DEF reports

(* What submit reports tells the whole book: the orders it names, their    *)
(* remainders, and that the others have not changed.                       *)
THEOREM BookReportsTell == Spec => []ReportsTellTheBook
<1>1. Init => BookInv /\ RefInv
  BY InitBookInv, InitRefInv
<1>2. BookInv /\ RefInv /\ [Next]_vars => (BookInv /\ RefInv)'
  BY NextBookInv, NextRefInv
<1>3. BookInv /\ RefInv => ReportsTellTheBook
  <2> SUFFICES ASSUME RefInv, taker = None, before # None
               PROVE  ReportsTellTheBook
    BY DEF ReportsTellTheBook
  <2>1. Entered(before.book, before.order) /\ Told(before.book, before.order)
    BY DEF RefInv
  <2> QED  BY <2>1, ToldTellsTheBook DEF ReportsTellTheBook
<1> QED  BY <1>1, <1>2, <1>3, PTL DEF Spec
=============================================================================
