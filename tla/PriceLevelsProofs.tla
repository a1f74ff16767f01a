------------------------- MODULE PriceLevelsProofs -------------------------
(***************************************************************************)
(* The price levels implement the book of OrderBook, for all values of the *)
(* constants.                                                              *)
(***************************************************************************)
EXTENDS PriceLevels, OperatorProofs, SequenceTheorems

(* A set of numbers has a least one, and Min is it.                        *)
LEMMA MinOf ==
  ASSUME NEW S \in SUBSET Nat, S # {}
  PROVE  Min(S) \in S /\ \A y \in S : Min(S) <= y
<1>1. PICK x \in S : \A y \in S : x <= y
  BY LeastNat
<1> QED  BY <1>1 DEF Min

LEMMA PriceInserted ==
  ASSUME NEW s \in Seq(Price), NEW e \in Price, NEW i \in 1..(Len(s) + 1)
  PROVE  /\ InsertAt(s, i, e) \in Seq(Price)
         /\ Len(InsertAt(s, i, e)) = Len(s) + 1
         /\ \A k \in 1..(Len(s) + 1) :
              InsertAt(s, i, e)[k] = IF k < i THEN s[k] ELSE IF k = i THEN e ELSE s[k - 1]
<1> DEFINE a == SubSeq(s, 1, i - 1)
           b == SubSeq(s, i, Len(s))
           ae == a \o <<e>>
<1>1. /\ a \in Seq(Price) /\ Len(a) = i - 1
      /\ \A k \in 1..(i - 1) : a[k] = s[k]
  <2>1. \A k \in 1..(i - 1) : s[k] \in Price
    OBVIOUS
  <2>2. /\ a \in Seq(Price) /\ Len(a) = IF 1 <= i - 1 THEN i - 1 - 1 + 1 ELSE 0
        /\ \A k \in 1..(i - 1 - 1 + 1) : a[k] = s[1 + k - 1]
    BY <2>1, SubSeqProperties
  <2> QED  BY <2>2
<1>2. /\ b \in Seq(Price) /\ Len(b) = Len(s) - i + 1
      /\ \A k \in 1..(Len(s) - i + 1) : b[k] = s[i + k - 1]
  <2>1. \A k \in i..Len(s) : s[k] \in Price
    OBVIOUS
  <2>2. /\ b \in Seq(Price) /\ Len(b) = IF i <= Len(s) THEN Len(s) - i + 1 ELSE 0
        /\ \A k \in 1..(Len(s) - i + 1) : b[k] = s[i + k - 1]
    BY <2>1, SubSeqProperties
  <2> QED  BY <2>2
<1> HIDE DEF a, b
<1>3. /\ ae \in Seq(Price) /\ Len(ae) = i
      /\ \A k \in 1..i : ae[k] = IF k < i THEN s[k] ELSE e
  <2>1. <<e>> \in Seq(Price) /\ Len(<<e>>) = 1 /\ <<e>>[1] = e
    OBVIOUS
  <2>2. /\ ae \in Seq(Price) /\ Len(ae) = Len(a) + 1
        /\ \A k \in 1..(Len(a) + 1) : ae[k] = IF k <= Len(a) THEN a[k] ELSE <<e>>[k - Len(a)]
    BY <1>1, <2>1, ConcatProperties
  <2> HIDE DEF ae
  <2> QED  BY <1>1, <2>1, <2>2
<1>4. InsertAt(s, i, e) = ae \o b
  BY DEF InsertAt, a, b
<1> HIDE DEF ae
<1>5. /\ ae \o b \in Seq(Price) /\ Len(ae \o b) = Len(ae) + Len(b)
      /\ \A k \in 1..(Len(ae) + Len(b)) :
           (ae \o b)[k] = IF k <= Len(ae) THEN ae[k] ELSE b[k - Len(ae)]
  BY <1>2, <1>3, ConcatProperties
<1> QED  BY <1>2, <1>3, <1>4, <1>5

LEMMA PriceRemoved ==
  ASSUME NEW S, NEW ps \in Seq(S), NEW i \in 1..Len(ps),
         \A j \in 1..Len(ps) : ps[j] = ps[i] => j = i
  PROVE  WithoutPrice(ps, ps[i]) = RemoveAt(ps, i)
<1>1. {j \in DOMAIN ps : ps[j] = ps[i]} = {i}
  OBVIOUS
<1>2. i \in Nat /\ Min({i}) \in {i}
  BY MinOf
<1> QED  BY <1>1, <1>2 DEF WithoutPrice

-----------------------------------------------------------------------------
(* The binary search of insertPrice.                                       *)

LEMMA Prices == \A p \in Price : p \in Nat /\ p \in Int
BY LevelsAssumption

BestFirst(side, ps) ==
  \A i, j \in DOMAIN ps : i < j => Better(side, ps[i], ps[j])

(* Better prices come first, so there is a place they end at.              *)
LEMMA Boundary ==
  ASSUME NEW side, NEW ps \in Seq(Price), BestFirst(side, ps), NEW price \in Price
  PROVE  \E c \in 0..Len(ps) : \A k \in 1..Len(ps) : Better(side, ps[k], price) <=> k <= c
<1> DEFINE C == {c \in 0..Len(ps) : \A k \in 1..Len(ps) : k > c => ~Better(side, ps[k], price)}
<1>1. Len(ps) \in C
  OBVIOUS
<1>2. PICK c \in C : \A d \in C : c <= d
  <2>1. C \in SUBSET Nat
    OBVIOUS
  <2> HIDE DEF C
  <2> QED  BY <1>1, <2>1, LeastNat
<1>3. ASSUME NEW k \in 1..Len(ps), k <= c PROVE Better(side, ps[k], price)
  <2>0. c \in 0..Len(ps) /\ Len(ps) \in Nat
    OBVIOUS
  <2>1. c - 1 \in 0..Len(ps) /\ c \in 1..Len(ps) /\ ~(c <= c - 1)
    BY <1>3, <2>0
  <2>7. c - 1 \notin C
    <3> HIDE DEF C
    <3> QED  BY <1>2, <2>1
  <2>2. PICK l \in 1..Len(ps) : l > c - 1 /\ Better(side, ps[l], price)
    BY <2>1, <2>7
  <2>3. l <= c
    BY <1>2, <2>2
  <2>4. l = c
    BY <1>2, <2>2, <2>3
  <2>5. k = c \/ Better(side, ps[k], ps[c])
    BY <1>3, <2>1 DEF BestFirst
  <2>6. ps[k] \in Int /\ ps[c] \in Int /\ price \in Int
    <3>1. ps[k] \in Price /\ ps[c] \in Price
      BY <2>1
    <3> QED  BY <3>1, Prices
  <2> QED  BY <2>2, <2>4, <2>5, <2>6 DEF Better
<1> QED  BY <1>2, <1>3

Pairs(n) == (0..n) \X (0..n)

Middle(r) == (r[1] + r[2]) \div 2

Search(side, ps, price, f) ==
  f = [r \in Pairs(Len(ps)) |->
        IF r[1] >= r[2] THEN r[1]
        ELSE IF Better(side, ps[Middle(r) + 1], price)
             THEN f[<<Middle(r) + 1, r[2]>>] ELSE f[<<r[1], Middle(r)>>]]

LEMMA SearchIs ==
  ASSUME NEW side, NEW ps, NEW price
  PROVE  InsertPrice(side, ps, price)
           = InsertAt(ps, (CHOOSE f : Search(side, ps, price, f))[<<0, Len(ps)>>] + 1, price)
  BY Zenon DEF InsertPrice, Search, Pairs, Middle

(* One step of the search, wherever the boundary is.                       *)
LEMMA Halved ==
  ASSUME NEW n \in Nat, NEW lo \in 0..n, NEW hi \in 0..n, lo < hi
  PROVE  /\ (lo + hi) \div 2 \in lo..(hi - 1)
         /\ (lo + hi) \div 2 + 1 \in 0..n /\ (lo + hi) \div 2 \in 0..n
  OBVIOUS

LEMMA SearchExists ==
  ASSUME NEW side, NEW ps \in Seq(Price), NEW price, NEW c \in 0..Len(ps),
         \A k \in 1..Len(ps) : Better(side, ps[k], price) <=> k <= c
  PROVE  \E f : Search(side, ps, price, f)
<1> DEFINE w == [r \in Pairs(Len(ps)) |->
                  IF r[1] >= r[2] \/ c < r[1] THEN r[1] ELSE IF c > r[2] THEN r[2] ELSE c]
<1>0. Len(ps) \in Nat
  OBVIOUS
<1>1. ASSUME NEW lo \in 0..Len(ps), NEW hi \in 0..Len(ps)
      PROVE  /\ <<lo, hi>> \in Pairs(Len(ps))
             /\ w[<<lo, hi>>] = IF lo >= hi \/ c < lo THEN lo ELSE IF c > hi THEN hi ELSE c
  BY DEF Pairs
<1>2. ASSUME NEW r \in Pairs(Len(ps))
      PROVE  w[r] =
               IF r[1] >= r[2] THEN r[1]
               ELSE IF Better(side, ps[Middle(r) + 1], price)
                    THEN w[<<Middle(r) + 1, r[2]>>] ELSE w[<<r[1], Middle(r)>>]
  <2> DEFINE lo == r[1]
             hi == r[2]
             mid == Middle(r)
  <2>1. lo \in 0..Len(ps) /\ hi \in 0..Len(ps) /\ r = <<lo, hi>>
    BY DEF Pairs
  <2>2. w[r] = IF lo >= hi \/ c < lo THEN lo ELSE IF c > hi THEN hi ELSE c
    OBVIOUS
  <2>3. CASE lo >= hi
    BY <2>1, <2>2, <2>3
  <2>4. CASE lo < hi /\ Better(side, ps[mid + 1], price)
    <3>1. mid \in lo..(hi - 1) /\ mid + 1 \in 0..Len(ps)
      BY <1>0, <2>1, <2>4, Halved DEF Middle
    <3> HIDE DEF w, lo, hi, mid
    <3>2. mid + 1 \in 1..Len(ps) /\ mid + 1 <= c
      BY <1>0, <2>1, <2>4, <3>1
    <3>3. w[<<mid + 1, hi>>]
            = IF mid + 1 >= hi \/ c < mid + 1 THEN mid + 1 ELSE IF c > hi THEN hi ELSE c
      BY <1>1, <2>1, <3>1
    <3>4. w[r] = w[<<mid + 1, hi>>]
      BY <2>1, <2>2, <2>4, <3>1, <3>2, <3>3
    <3>5. ~(lo >= hi)
      BY <2>1, <2>4
    <3> QED  BY <2>4, <3>4, <3>5 DEF lo, hi, mid
  <2>5. CASE lo < hi /\ ~Better(side, ps[mid + 1], price)
    <3>1. mid \in lo..(hi - 1) /\ mid + 1 \in 0..Len(ps) /\ mid \in 0..Len(ps)
      BY <1>0, <2>1, <2>5, Halved DEF Middle
    <3> HIDE DEF w, lo, hi, mid
    <3>2. mid + 1 \in 1..Len(ps) /\ ~(mid + 1 <= c)
      BY <1>0, <2>1, <2>5, <3>1
    <3>3. w[<<lo, mid>>]
            = IF lo >= mid \/ c < lo THEN lo ELSE IF c > mid THEN mid ELSE c
      BY <1>1, <2>1, <3>1
    <3>4. w[r] = w[<<lo, mid>>]
      BY <2>1, <2>2, <2>5, <3>1, <3>2, <3>3
    <3>5. ~(lo >= hi)
      BY <2>1, <2>5
    <3> QED  BY <2>5, <3>4, <3>5 DEF lo, hi, mid
  <2>6. lo >= hi \/ lo < hi
    BY <2>1
  <2> QED  BY <2>3, <2>4, <2>5, <2>6
<1>3. Search(side, ps, price, w)
  BY <1>2, Zenon DEF Search
<1> QED  BY <1>3

LEMMA SearchFinds ==
  ASSUME NEW side, NEW ps \in Seq(Price), NEW price, NEW c \in 0..Len(ps),
         \A k \in 1..Len(ps) : Better(side, ps[k], price) <=> k <= c,
         NEW f, Search(side, ps, price, f)
  PROVE  f[<<0, Len(ps)>>] = c
<1> DEFINE n == Len(ps)
           Wrong(d) == \E lo, hi \in 0..n : /\ lo <= c /\ c <= hi /\ hi - lo = d
                                            /\ f[<<lo, hi>>] # c
           Bad == {d \in 0..n : Wrong(d)}
<1>1. n \in Nat /\ c \in 0..n
  OBVIOUS
<1>2. ASSUME NEW lo \in 0..n, NEW hi \in 0..n
      PROVE  f[<<lo, hi>>] =
               IF lo >= hi THEN lo
               ELSE IF Better(side, ps[(lo + hi) \div 2 + 1], price)
                    THEN f[<<(lo + hi) \div 2 + 1, hi>>] ELSE f[<<lo, (lo + hi) \div 2>>]
  <2>1. <<lo, hi>> \in Pairs(Len(ps)) /\ <<lo, hi>>[1] = lo /\ <<lo, hi>>[2] = hi
        /\ Middle(<<lo, hi>>) = (lo + hi) \div 2
    BY DEF Pairs, Middle
  <2> DEFINE r == <<lo, hi>>
  <2>2. f[r] = IF r[1] >= r[2] THEN r[1]
               ELSE IF Better(side, ps[Middle(r) + 1], price)
                    THEN f[<<Middle(r) + 1, r[2]>>] ELSE f[<<r[1], Middle(r)>>]
    <3> HIDE DEF r
    <3> QED  BY <2>1 DEF Search, r
  <2>3. r[1] = lo /\ r[2] = hi /\ Middle(r) = (lo + hi) \div 2
    BY <2>1
  <2> HIDE DEF r
  <2>4. f[r] = IF lo >= hi THEN lo
               ELSE IF Better(side, ps[(lo + hi) \div 2 + 1], price)
                    THEN f[<<(lo + hi) \div 2 + 1, hi>>] ELSE f[<<lo, (lo + hi) \div 2>>]
    BY <2>2, <2>3, Zenon
  <2> QED  BY <2>4 DEF r
<1> SUFFICES ASSUME f[<<0, n>>] # c PROVE FALSE
  OBVIOUS
<1>3. n \in Bad
  <2>1. 0 <= c /\ c <= n /\ n - 0 = n /\ 0 \in 0..n /\ n \in 0..n
    BY <1>1
  <2> HIDE DEF n
  <2>2. Wrong(n)
    BY <2>1
  <2> QED  BY <2>1, <2>2
<1>4. PICK d \in Bad : \A e \in Bad : d <= e
  <2>1. Bad \in SUBSET Nat
    BY <1>1
  <2> HIDE DEF Bad
  <2> QED  BY <1>3, <2>1, LeastNat
<1>5. PICK lo \in 0..n, hi \in 0..n : lo <= c /\ c <= hi /\ hi - lo = d /\ f[<<lo, hi>>] # c
  <2> HIDE DEF n
  <2>1. d \in Bad
    BY <1>4
  <2> QED  BY <2>1
<1> DEFINE mid == (lo + hi) \div 2
<1>6. lo < hi
  <2> SUFFICES ASSUME lo >= hi PROVE FALSE
    BY <1>1
  <2>1. f[<<lo, hi>>] = lo
    BY <1>2
  <2>2. lo = c
    BY <1>1, <1>5
  <2> QED  BY <1>5, <2>1, <2>2
<1>7. mid \in lo..(hi - 1) /\ mid + 1 \in 0..n /\ mid \in 0..n
  BY <1>1, <1>6, Halved
<1>8. /\ f[<<lo, hi>>] = IF Better(side, ps[mid + 1], price) THEN f[<<mid + 1, hi>>]
                         ELSE f[<<lo, mid>>]
      /\ Better(side, ps[mid + 1], price) <=> mid + 1 <= c
  <2>1. ~(lo >= hi) /\ mid + 1 \in 1..n
    BY <1>1, <1>6, <1>7
  <2> QED  BY <1>2, <2>1
<1> HIDE DEF mid
<1>9. CASE mid + 1 <= c
  <2>1. /\ mid + 1 <= c /\ c <= hi /\ f[<<mid + 1, hi>>] # c /\ mid + 1 \in 0..n
        /\ hi - (mid + 1) \in 0..n /\ hi - (mid + 1) < d
    BY <1>1, <1>5, <1>7, <1>8, <1>9
  <2> HIDE DEF n
  <2>2. Wrong(hi - (mid + 1))
    BY <2>1
  <2>3. hi - (mid + 1) \in Bad
    BY <2>1, <2>2
  <2> HIDE DEF Bad
  <2> QED  BY <1>4, <1>5, <2>1, <2>3
<1>10. CASE ~(mid + 1 <= c)
  <2>1. /\ lo <= c /\ c <= mid /\ f[<<lo, mid>>] # c /\ mid \in 0..n
        /\ mid - lo \in 0..n /\ mid - lo < d
    BY <1>1, <1>5, <1>7, <1>8, <1>10
  <2> HIDE DEF n
  <2>2. Wrong(mid - lo)
    BY <2>1
  <2>3. mid - lo \in Bad
    BY <2>1, <2>2
  <2> HIDE DEF Bad
  <2> QED  BY <1>4, <1>5, <2>1, <2>3
<1> QED  BY <1>9, <1>10

(* insertPrice keeps the prices best first.                                *)
LEMMA PricePlaced ==
  ASSUME NEW side \in Sides, NEW ps \in Seq(Price), BestFirst(side, ps), NEW price \in Price,
         \A k \in 1..Len(ps) : ps[k] # price
  PROVE  \E i \in 1..(Len(ps) + 1) :
           /\ InsertPrice(side, ps, price) = InsertAt(ps, i, price)
           /\ \A k \in 1..Len(ps) : IF k < i THEN Better(side, ps[k], price)
                                    ELSE Better(side, price, ps[k])
<1>1. PICK c \in 0..Len(ps) : \A k \in 1..Len(ps) : Better(side, ps[k], price) <=> k <= c
  BY Boundary
<1> DEFINE f == CHOOSE f : Search(side, ps, price, f)
<1>2. Search(side, ps, price, f)
  BY <1>1, SearchExists
<1>3. InsertPrice(side, ps, price) = InsertAt(ps, f[<<0, Len(ps)>>] + 1, price)
  BY SearchIs, Zenon
<1> HIDE DEF f
<1>4. f[<<0, Len(ps)>>] = c
  BY <1>1, <1>2, SearchFinds
<1>5. c + 1 \in 1..(Len(ps) + 1) /\ \A k \in 1..Len(ps) : k < c + 1 <=> k <= c
  OBVIOUS
<1>6. ASSUME NEW k \in 1..Len(ps), ~Better(side, ps[k], price) PROVE Better(side, price, ps[k])
  <2>1. ps[k] \in Price
    OBVIOUS
  <2> QED  BY <1>6, <2>1, Prices DEF Better
<1> QED  BY <1>1, <1>3, <1>4, <1>5, <1>6

-----------------------------------------------------------------------------
(* One price level.                                                        *)

\* What rests at a level.
LiveAt(level) == {level.orders[k] : k \in LiveFrom(level, level.head + 1)}

\* A queue at price p, of orders that came before order n.
QueueOK(level, side, p, n) ==
  /\ level \in PriceLevel
  /\ level.head <= Len(level.orders)
  /\ \A k \in 1..Len(level.orders) :
       /\ level.orders[k].side = side /\ level.orders[k].price = p
       /\ level.orders[k].type = "limit" /\ level.orders[k].seq < n
       /\ k <= level.head => level.orders[k].qty = 0
  /\ \A k, l \in 1..Len(level.orders) :
       k < l => /\ level.orders[k].seq < level.orders[l].seq
                /\ level.orders[k].qty > 0 => level.orders[l].qty > 0
  /\ level.total = QtyOf(LiveAt(level))

\* The first order of the queue has something left.
Clean(level) ==
  level.head < Len(level.orders) /\ level.orders[level.head + 1].qty > 0

LEMMA OrderIs ==
  \A o \in Order : /\ o.id \in OrderId /\ o.user \in User /\ o.side \in Sides
                   /\ o.type \in OrderTypes /\ o.price \in Price
                   /\ o.qty \in Nat /\ o.seq \in Nat /\ o.orig \in Qty
BY DEF Order

LEMMA LevelIs ==
  ASSUME NEW level \in PriceLevel
  PROVE  /\ level.orders \in Seq(Order) /\ level.head \in Nat /\ level.total \in Nat
         /\ Len(level.orders) \in Nat
         /\ \A k \in 1..Len(level.orders) :
              /\ level.orders[k] \in Order
              /\ level.orders[k].qty \in Nat /\ level.orders[k].seq \in Nat
<1>1. level.orders \in Seq(Order) /\ level.head \in Nat /\ level.total \in Nat
  BY DEF PriceLevel
<1>2. Len(level.orders) \in Nat /\ \A k \in 1..Len(level.orders) : level.orders[k] \in Order
  BY <1>1
<1> QED  BY <1>1, <1>2, OrderIs

LEMMA LiveAtIs ==
  ASSUME NEW level \in PriceLevel
  PROVE  /\ IsFiniteSet(LiveAt(level))
         /\ \A m \in LiveAt(level) : m \in Order /\ m.qty \in Nat /\ m.qty > 0
         /\ QtyOf(LiveAt(level)) \in Nat
         /\ \A m : m \in LiveAt(level) <=>
              \E k \in 1..Len(level.orders) :
                k > level.head /\ level.orders[k].qty > 0 /\ m = level.orders[k]
<1> DEFINE D == LiveFrom(level, level.head + 1)
           f == level.orders
<1>1. \A k : k \in D <=> k \in 1..Len(f) /\ k > level.head /\ f[k].qty > 0
  BY LevelIs DEF LiveFrom
<1>2. IsFiniteSet(D)
  <2>1. IsFiniteSet(1..Len(f)) /\ D \subseteq 1..Len(f)
    BY <1>1, LevelIs, FS_Interval
  <2> HIDE DEF D
  <2> QED  BY <2>1, FS_Subset
<1>3. LiveAt(level) = {f[k] : k \in D}
  BY DEF LiveAt
<1> HIDE DEF D
<1>4. IsFiniteSet(LiveAt(level))
  <2> HIDE DEF f
  <2> QED  BY <1>2, <1>3, ImageFinite
<1>5. \A m : m \in LiveAt(level) <=>
        \E k \in 1..Len(f) : k > level.head /\ f[k].qty > 0 /\ m = f[k]
  BY <1>1, <1>3
<1>6. \A m \in LiveAt(level) : m \in Order /\ m.qty \in Nat /\ m.qty > 0
  BY <1>5, LevelIs
<1>7. QtyOf(LiveAt(level)) \in Nat
  BY <1>4, <1>6, QtyFacts
<1> QED  BY <1>4, <1>5, <1>6, <1>7

LEMMA LevelWith ==
  ASSUME NEW level \in PriceLevel
  PROVE  /\ \A os, t : [level EXCEPT !.orders = os, !.total = t]
                         = [orders |-> os, head |-> level.head, total |-> t]
         /\ \A os, h : [level EXCEPT !.orders = os, !.head = h]
                         = [orders |-> os, head |-> h, total |-> level.total]
         /\ level = [orders |-> level.orders, head |-> level.head, total |-> level.total]
<1>1. level = [orders |-> level.orders, head |-> level.head, total |-> level.total]
  BY DEF PriceLevel
<1>2. ASSUME NEW os, NEW h, NEW t
      PROVE  /\ [level EXCEPT !.orders = os, !.total = t]
                  = [orders |-> os, head |-> level.head, total |-> t]
             /\ [level EXCEPT !.orders = os, !.head = h]
                  = [orders |-> os, head |-> h, total |-> level.total]
  <2> DEFINE l == [level EXCEPT !.orders = os]
  <2>1. l = [orders |-> os, head |-> level.head, total |-> level.total]
    BY <1>1
  <2> HIDE DEF l
  <2>2. /\ [l EXCEPT !.total = t] = [orders |-> os, head |-> level.head, total |-> t]
        /\ [l EXCEPT !.head = h] = [orders |-> os, head |-> h, total |-> level.total]
    BY <2>1
  <2> QED  BY <2>2 DEF l
<1> QED  BY <1>1, <1>2, Zenon

\* An order that may come last in the queue of price p.
ComesLast(o, side, p, n) ==
  /\ o \in Order /\ o.side = side /\ o.price = p /\ o.type = "limit"
  /\ o.qty > 0 /\ o.seq >= n

\* add and remove at a level, and a level put in its place or taken out.
LevelAdded(level, o) ==
  [level EXCEPT !.orders = Append(@, o), !.total = @ + o.qty]

LevelWithout(level, i) ==
  [level EXCEPT !.orders = RemoveAt(@, i), !.total = @ - level.orders[i].qty]

LevelShifted(level, os, head) == [orders |-> os, head |-> head, total |-> level.total]

SidePut(b, p, level) == [prices |-> b.prices, levels |-> [b.levels EXCEPT ![p] = level]]

SideDropped(b, p) ==
  [prices |-> WithoutPrice(b.prices, p), levels |-> [b.levels EXCEPT ![p] = None]]

\* Order o may join the queue of price p, whose orders all came before n.
MayJoin(level, o, side, p, n, n2) ==
  /\ n \in Nat /\ n2 \in Nat
  /\ QueueOK(level, side, p, n) /\ ComesLast(o, side, p, n) /\ o.seq < n2
  /\ Clean(level) \/ level.head = Len(level.orders)

LEMMA QueueAdded ==
  ASSUME NEW level, NEW o, NEW side, NEW p, NEW n, NEW n2, MayJoin(level, o, side, p, n, n2)
  PROVE  /\ QueueOK(LevelAdded(level, o), side, p, n2)
         /\ Clean(LevelAdded(level, o))
         /\ LiveAt(LevelAdded(level, o)) = LiveAt(level) \cup {o}
<1> DEFINE new == LevelAdded(level, o)
           len == Len(level.orders)
<1>a. /\ n \in Nat /\ n2 \in Nat /\ QueueOK(level, side, p, n)
      /\ o \in Order /\ o.side = side /\ o.price = p /\ o.type = "limit"
      /\ o.qty > 0 /\ o.seq >= n /\ o.seq < n2
      /\ Clean(level) \/ level.head = len
  BY DEF MayJoin, ComesLast
<1>b. \A k \in 1..len :
        /\ level.orders[k].side = side /\ level.orders[k].price = p
        /\ level.orders[k].type = "limit" /\ level.orders[k].seq < n
        /\ k <= level.head => level.orders[k].qty = 0
        /\ level.orders[k].seq \in Nat
  BY ONLY <1>a, LevelIs DEF QueueOK
<1>c. \A k, l \in 1..len : k < l => /\ level.orders[k].seq < level.orders[l].seq
                                    /\ level.orders[k].qty > 0 => level.orders[l].qty > 0
  BY ONLY <1>a DEF QueueOK
<1>d. level.total = QtyOf(LiveAt(level)) /\ level.head <= len /\ level \in PriceLevel
  BY ONLY <1>a DEF QueueOK
<1>1. /\ level \in PriceLevel /\ o \in Order /\ o.qty \in Nat /\ o.seq \in Nat
      /\ len \in Nat /\ level.head \in Nat /\ level.total \in Nat /\ level.head <= len
      /\ level.orders \in Seq(Order)
  BY ONLY <1>a, <1>d, LevelIs, OrderIs
<1>2. /\ new.orders = Append(level.orders, o) /\ new.head = level.head
      /\ new.total = level.total + o.qty
      /\ new = [orders |-> new.orders, head |-> new.head, total |-> new.total]
  <2>1. new = [orders |-> Append(level.orders, o), head |-> level.head,
               total |-> level.total + o.qty]
    <3>1. \A os, t : [level EXCEPT !.orders = os, !.total = t]
                       = [orders |-> os, head |-> level.head, total |-> t]
      BY ONLY <1>1, LevelWith, Zenon
    <3>2. new = [level EXCEPT !.orders = Append(level.orders, o),
                              !.total = level.total + o.qty]
      BY DEF LevelAdded
    <3> QED  BY ONLY <3>1, <3>2, Zenon
  <2> HIDE DEF new
  <2> QED  BY ONLY <2>1
<1> HIDE DEF new
<1>3. /\ new.orders \in Seq(Order) /\ Len(new.orders) = len + 1
      /\ \A k \in 1..(len + 1) : new.orders[k] = IF k = len + 1 THEN o ELSE level.orders[k]
  <2>1. Append(level.orders, o) \in Seq(Order)
    BY ONLY <1>1
  <2>2. Len(Append(level.orders, o)) = len + 1
    BY ONLY <1>1
  <2>3. \A k \in 1..(len + 1) :
          Append(level.orders, o)[k] = IF k = len + 1 THEN o ELSE level.orders[k]
    BY ONLY <1>1
  <2> QED  BY ONLY <1>2, <2>1, <2>2, <2>3
<1>m. /\ new.orders[len + 1] = o
      /\ \A k \in 1..(len + 1) : k # len + 1 => k \in 1..len /\ new.orders[k] = level.orders[k]
      /\ \A k \in 1..len : k \in 1..(len + 1) /\ new.orders[k] = level.orders[k]
  <2>1. len + 1 \in 1..(len + 1)
    BY ONLY <1>1
  <2>2. new.orders[len + 1] = o
    BY ONLY <1>3, <2>1
  <2>3. \A k \in 1..(len + 1) : k # len + 1 => k \in 1..len
    BY ONLY <1>1
  <2>4. \A k \in 1..len : k \in 1..(len + 1) /\ k # len + 1
    BY ONLY <1>1
  <2> QED  BY ONLY <1>3, <2>2, <2>3, <2>4
<1>4. new \in PriceLevel
  <2>1. level.total + o.qty \in Nat
    BY ONLY <1>1
  <2> QED  BY ONLY <1>1, <1>2, <1>3, <2>1 DEF PriceLevel
<1>5. LiveAt(new) = LiveAt(level) \cup {o}
  <2>1. ASSUME NEW m PROVE m \in LiveAt(new) <=> m \in LiveAt(level) \/ m = o
    <3>1. m \in LiveAt(new) <=>
            \E k \in 1..(len + 1) : k > level.head /\ new.orders[k].qty > 0 /\ m = new.orders[k]
      <4>1. m \in LiveAt(new) <=>
              \E k \in 1..Len(new.orders) :
                k > new.head /\ new.orders[k].qty > 0 /\ m = new.orders[k]
        BY ONLY <1>4, LiveAtIs
      <4> QED  BY ONLY <1>2, <1>3, <4>1
    <3>2. m \in LiveAt(level) <=>
            \E k \in 1..len : k > level.head /\ level.orders[k].qty > 0 /\ m = level.orders[k]
      BY ONLY <1>1, LiveAtIs
    <3>3. len + 1 \in 1..(len + 1) /\ len + 1 > level.head
      BY ONLY <1>1
    <3>4. ASSUME m \in LiveAt(new), m # o PROVE m \in LiveAt(level)
      <4>1. PICK k \in 1..(len + 1) :
              k > level.head /\ new.orders[k].qty > 0 /\ m = new.orders[k]
        BY ONLY <3>1, <3>4
      <4>2. k \in 1..len /\ new.orders[k] = level.orders[k]
        BY ONLY <1>m, <3>4, <4>1, k \in 1..(len + 1)
      <4> QED  BY ONLY <3>2, <4>1, <4>2
    <3>5. ASSUME m \in LiveAt(level) PROVE m \in LiveAt(new)
      <4>1. PICK k \in 1..len :
              k > level.head /\ level.orders[k].qty > 0 /\ m = level.orders[k]
        BY ONLY <3>2, <3>5
      <4> QED  BY ONLY <1>m, <3>1, <4>1
    <3>6. m = o => m \in LiveAt(new)
      BY ONLY <1>a, <1>m, <3>1, <3>3
    <3> QED  BY <3>4, <3>5, <3>6
  <2> QED  BY ONLY <2>1
<1>6. o \notin LiveAt(level)
  <2> SUFFICES ASSUME o \in LiveAt(level) PROVE FALSE
    OBVIOUS
  <2>1. PICK k \in 1..len : o = level.orders[k]
    BY <1>1, LiveAtIs
  <2> QED  BY ONLY <1>a, <1>b, <1>1, <2>1
<1>7. new.total = QtyOf(LiveAt(new))
  <2>1. LiveAt(new) \ {o} = LiveAt(level) /\ o \in LiveAt(new)
    BY ONLY <1>5, <1>6
  <2>2. IsFiniteSet(LiveAt(new)) /\ \A m \in LiveAt(new) : m.qty \in Nat
    BY ONLY <1>4, LiveAtIs
  <2>3. QtyOf(LiveAt(new)) = QtyOf(LiveAt(new) \ {o}) + o.qty
    BY ONLY <2>1, <2>2, QtyFacts
  <2> QED  BY ONLY <1>d, <1>1, <1>2, <2>1, <2>3
<1>8. ASSUME NEW k \in 1..(len + 1)
      PROVE  /\ new.orders[k].side = side /\ new.orders[k].price = p
             /\ new.orders[k].type = "limit" /\ new.orders[k].seq < n2
             /\ k <= level.head => new.orders[k].qty = 0
  <2>1. CASE k = len + 1
    <3>1. ~(k <= level.head)
      BY ONLY <1>1, <2>1
    <3> QED  BY ONLY <1>a, <1>m, <2>1, <3>1
  <2>2. CASE k # len + 1
    <3>1. k \in 1..len /\ new.orders[k] = level.orders[k]
      BY ONLY <1>m, <2>2, k \in 1..(len + 1)
    <3>2. level.orders[k].seq < n2
      <4>1. PICK s \in Nat : s = level.orders[k].seq /\ s < n
        BY ONLY <1>b, <3>1
      <4>2. s < n2
        <5>1. n \in Nat /\ n2 \in Nat /\ o.seq \in Nat /\ n <= o.seq /\ o.seq < n2
          BY ONLY <1>a, <1>1
        <5>2. s \in Nat /\ s < n
          BY ONLY <4>1
        <5> QED  BY ONLY <5>1, <5>2
      <4> QED  BY ONLY <4>1, <4>2
    <3> QED  BY ONLY <1>b, <3>1, <3>2
  <2> QED  BY <2>1, <2>2
<1>9. ASSUME NEW k \in 1..(len + 1), NEW l \in 1..(len + 1), k < l
      PROVE  /\ new.orders[k].seq < new.orders[l].seq
             /\ new.orders[k].qty > 0 => new.orders[l].qty > 0
  <2>0. k # len + 1
    BY ONLY <1>1, <1>9, k \in 1..(len + 1), l \in 1..(len + 1)
  <2>1. k \in 1..len /\ new.orders[k] = level.orders[k]
    BY ONLY <1>m, <2>0, k \in 1..(len + 1)
  <2>2. CASE l = len + 1
    <3>1. new.orders[l] = o /\ level.orders[k].seq < n /\ level.orders[k].seq \in Nat
      BY ONLY <1>b, <1>m, <2>1, <2>2
    <3>2. level.orders[k].seq < o.seq
      <4>1. PICK s \in Nat : s = level.orders[k].seq /\ s < n
        BY ONLY <3>1
      <4>2. s < o.seq
        <5>1. n \in Nat /\ n2 \in Nat /\ o.seq \in Nat /\ n <= o.seq /\ o.seq < n2
          BY ONLY <1>a, <1>1
        <5>2. s \in Nat /\ s < n
          BY ONLY <4>1
        <5> QED  BY ONLY <5>1, <5>2
      <4> QED  BY ONLY <4>1, <4>2
    <3> QED  BY ONLY <1>a, <2>1, <3>1, <3>2
  <2>3. CASE l # len + 1
    <3>1. l \in 1..len /\ new.orders[l] = level.orders[l]
      BY ONLY <1>m, <2>3, l \in 1..(len + 1)
    <3> QED  BY ONLY <1>c, <1>9, <2>1, <3>1
  <2> QED  BY <2>2, <2>3
<1>10. Clean(new)
  <2>1. CASE level.head = len
    BY ONLY <1>a, <1>1, <1>2, <1>3, <1>m, <2>1 DEF Clean
  <2>2. CASE Clean(level)
    <3>1. level.head < len /\ level.orders[level.head + 1].qty > 0
      BY <2>2 DEF Clean
    <3>2. level.head + 1 \in 1..len
      BY ONLY <1>1, <3>1
    <3>3. new.orders[level.head + 1].qty > 0 /\ new.head < Len(new.orders)
      BY ONLY <1>1, <1>2, <1>3, <1>m, <3>1, <3>2
    <3> QED  BY ONLY <1>2, <3>3 DEF Clean
  <2> QED  BY <1>a, <2>1, <2>2
<1>11. QueueOK(new, side, p, n2)
  <2>1. new.head <= Len(new.orders)
    BY ONLY <1>1, <1>2, <1>3
  <2> QED  BY ONLY <1>2, <1>3, <1>4, <1>7, <1>8, <1>9, <2>1 DEF QueueOK
<1> QED  BY <1>5, <1>10, <1>11 DEF new

LEMMA QueueWithout ==
  ASSUME NEW side, NEW p, NEW n \in Nat, NEW level, QueueOK(level, side, p, n),
         NEW i \in 1..Len(level.orders), i > level.head, level.orders[i].qty > 0
  PROVE  /\ QueueOK(LevelWithout(level, i), side, p, n)
         /\ Clean(level) /\ LevelWithout(level, i).head < Len(LevelWithout(level, i).orders)
              => Clean(LevelWithout(level, i))
         /\ LiveAt(LevelWithout(level, i)) = LiveAt(level) \ {level.orders[i]}
<1> DEFINE new == LevelWithout(level, i)
           len == Len(level.orders)
           m == level.orders[i]
<1>1. /\ level \in PriceLevel /\ m \in Order /\ m.qty \in Nat /\ m.seq \in Nat
      /\ len \in Nat /\ level.head \in Nat /\ level.total \in Nat /\ level.head <= len
      /\ level.orders \in Seq(Order)
      /\ \A k \in 1..len : /\ level.orders[k] \in Order
                           /\ level.orders[k].qty \in Nat /\ level.orders[k].seq \in Nat
  BY LevelIs, OrderIs DEF QueueOK
<1>2. /\ new.orders = RemoveAt(level.orders, i) /\ new.head = level.head
      /\ new.total = level.total - m.qty
      /\ new = [orders |-> new.orders, head |-> new.head, total |-> new.total]
  <2>1. new = [orders |-> RemoveAt(level.orders, i), head |-> level.head,
               total |-> level.total - m.qty]
    <3>1. \A os, t : [level EXCEPT !.orders = os, !.total = t]
                       = [orders |-> os, head |-> level.head, total |-> t]
      BY <1>1, LevelWith, Zenon
    <3>2. new = [level EXCEPT !.orders = RemoveAt(level.orders, i),
                              !.total = level.total - m.qty]
      BY DEF LevelWithout
    <3> QED  BY ONLY <3>1, <3>2, Zenon
  <2> HIDE DEF new
  <2> QED  BY ONLY <2>1
<1> HIDE DEF new
<1>3. /\ new.orders \in Seq(Order) /\ Len(new.orders) = len - 1
      /\ \A k \in 1..(len - 1) :
           new.orders[k] = IF k < i THEN level.orders[k] ELSE level.orders[k + 1]
  BY <1>1, <1>2, RemovedAt
<1>4. /\ m \in LiveAt(level)
      /\ QtyOf(LiveAt(level)) = QtyOf(LiveAt(level) \ {m}) + m.qty
      /\ QtyOf(LiveAt(level) \ {m}) \in Nat
  <2>1. m \in LiveAt(level)
    BY <1>1, LiveAtIs
  <2> QED  BY <1>1, <2>1, LiveAtIs, QtyFacts
<1>5. level.total - m.qty = QtyOf(LiveAt(level) \ {m})
  BY <1>1, <1>4 DEF QueueOK
<1>6. new \in PriceLevel
  <2>1. level.total - m.qty \in Nat
    BY <1>4, <1>5
  <2> QED  BY <1>1, <1>2, <1>3, <2>1 DEF PriceLevel
<1> DEFINE from(k) == IF k < i THEN k ELSE k + 1
<1>7. /\ \A k \in 1..(len - 1) : /\ from(k) \in 1..len /\ from(k) # i
                                 /\ new.orders[k] = level.orders[from(k)]
                                 /\ k <= level.head => from(k) = k
                                 /\ k > level.head => from(k) > level.head
      /\ \A k, l \in 1..(len - 1) : k < l => from(k) < from(l)
      /\ \A k \in 1..len : k # i => \E l \in 1..(len - 1) : from(l) = k
  <2>1. \A k \in 1..(len - 1) : /\ from(k) \in 1..len /\ from(k) # i
                                /\ new.orders[k] = level.orders[from(k)]
                                /\ k <= level.head => from(k) = k
                                /\ k > level.head => from(k) > level.head
    <3> SUFFICES ASSUME NEW k \in 1..(len - 1)
                 PROVE  /\ from(k) \in 1..len /\ from(k) # i
                        /\ new.orders[k] = level.orders[from(k)]
                        /\ k <= level.head => from(k) = k
                        /\ k > level.head => from(k) > level.head
      OBVIOUS
    <3>1. k \in Nat /\ i \in Nat /\ len \in Nat /\ level.head \in Nat /\ level.head < i
      BY <1>1
    <3>2. CASE k < i
      <4>1. from(k) = k /\ k \in 1..len
        BY <3>1, <3>2
      <4>2. new.orders[k] = level.orders[k]
        BY <1>3, <3>2
      <4> HIDE DEF from
      <4> QED  BY <3>1, <3>2, <4>1, <4>2
    <3>3. CASE ~(k < i)
      <4>1. from(k) = k + 1 /\ k + 1 \in 1..len
        BY <3>1, <3>3
      <4>2. new.orders[k] = level.orders[k + 1]
        BY <1>3, <3>3
      <4> HIDE DEF from
      <4> QED  BY <3>1, <3>3, <4>1, <4>2
    <3> QED  BY <3>2, <3>3
  <2>2. \A k, l \in 1..(len - 1) : k < l => from(k) < from(l)
    BY <1>1
  <2>3. ASSUME NEW k \in 1..len, k # i PROVE \E l \in 1..(len - 1) : from(l) = k
    <3>1. CASE k < i
      <4>1. k \in 1..(len - 1) /\ from(k) = k
        BY <1>1, <3>1
      <4> QED  BY <4>1
    <3>2. CASE k > i
      <4>1. k - 1 \in 1..(len - 1) /\ from(k - 1) = k
        BY <1>1, <3>2
      <4> QED  BY <4>1
    <3> QED  BY <2>3, <3>1, <3>2
  <2> QED  BY <2>1, <2>2, <2>3
<1> HIDE DEF from
<1>8. LiveAt(new) = LiveAt(level) \ {m}
  <2>1. ASSUME NEW o PROVE o \in LiveAt(new) <=> o \in LiveAt(level) /\ o # m
    <3>1. o \in LiveAt(new) <=>
            \E k \in 1..(len - 1) : k > level.head /\ new.orders[k].qty > 0 /\ o = new.orders[k]
      <4>1. o \in LiveAt(new) <=>
              \E k \in 1..Len(new.orders) :
                k > new.head /\ new.orders[k].qty > 0 /\ o = new.orders[k]
        BY <1>6, LiveAtIs
      <4> QED  BY <1>2, <1>3, <4>1
    <3>2. o \in LiveAt(level) <=>
            \E k \in 1..len : k > level.head /\ level.orders[k].qty > 0 /\ o = level.orders[k]
      BY <1>1, LiveAtIs
    <3>3. ASSUME o \in LiveAt(new) PROVE o \in LiveAt(level) /\ o # m
      <4>1. PICK k \in 1..(len - 1) :
              k > level.head /\ new.orders[k].qty > 0 /\ o = new.orders[k]
        BY <3>1, <3>3
      <4>2. from(k) \in 1..len /\ from(k) # i /\ o = level.orders[from(k)] /\ from(k) > level.head
        BY <1>7, <4>1
      <4>3. o \in LiveAt(level)
        BY <3>2, <4>1, <4>2
      <4>4. o.seq # m.seq
        <5>1. from(k) < i \/ i < from(k)
          BY <4>2
        <5>2. o.seq < m.seq \/ m.seq < o.seq
          BY <4>2, <5>1 DEF QueueOK
        <5>3. o.seq \in Nat /\ m.seq \in Nat
          BY <1>1, <4>2
        <5> QED  BY <5>2, <5>3
      <4> QED  BY <4>3, <4>4
    <3>4. ASSUME o \in LiveAt(level), o # m PROVE o \in LiveAt(new)
      <4>1. PICK k \in 1..len :
              k > level.head /\ level.orders[k].qty > 0 /\ o = level.orders[k]
        BY <3>2, <3>4
      <4>2. k # i
        BY <3>4, <4>1
      <4>3. PICK l \in 1..(len - 1) : from(l) = k
        BY <1>7, <4>2
      <4>4. new.orders[l] = o /\ (l <= level.head => from(l) = l)
        BY <1>7, <4>1, <4>3
      <4>5. l > level.head
        <5>1. l \in Nat /\ k \in Nat /\ level.head \in Nat
          BY <1>1
        <5> QED  BY <4>1, <4>3, <4>4, <5>1
      <4> QED  BY <3>1, <4>1, <4>4, <4>5
    <3> QED  BY <3>3, <3>4
  <2> QED  BY <2>1
<1>9. QueueOK(new, side, p, n)
  <2>1. ASSUME NEW k \in 1..(len - 1)
        PROVE  /\ new.orders[k].side = side /\ new.orders[k].price = p
               /\ new.orders[k].type = "limit" /\ new.orders[k].seq < n
               /\ k <= new.head => new.orders[k].qty = 0
    <3>1. from(k) \in 1..len /\ new.orders[k] = level.orders[from(k)]
          /\ (k <= level.head => from(k) <= level.head)
      BY <1>7
    <3> QED  BY <1>2, <3>1 DEF QueueOK
  <2>2. ASSUME NEW k \in 1..(len - 1), NEW l \in 1..(len - 1), k < l
        PROVE  /\ new.orders[k].seq < new.orders[l].seq
               /\ new.orders[k].qty > 0 => new.orders[l].qty > 0
    <3>1. /\ from(k) \in 1..len /\ new.orders[k] = level.orders[from(k)]
          /\ from(l) \in 1..len /\ new.orders[l] = level.orders[from(l)]
          /\ from(k) < from(l)
      BY <1>7, <2>2
    <3> QED  BY <3>1 DEF QueueOK
  <2>3. new.total = QtyOf(LiveAt(new))
    BY <1>2, <1>5, <1>8
  <2>4. new.head <= Len(new.orders)
    BY <1>1, <1>2, <1>3
  <2> QED  BY <1>3, <1>6, <2>1, <2>2, <2>3, <2>4 DEF QueueOK
<1>10. ASSUME Clean(level), new.head < Len(new.orders) PROVE Clean(new)
  <2>1. level.head + 1 \in 1..(len - 1) /\ level.head + 1 > level.head
    BY <1>1, <1>2, <1>3, <1>10
  <2>2. /\ from(level.head + 1) \in 1..len /\ from(level.head + 1) > level.head
        /\ new.orders[level.head + 1] = level.orders[from(level.head + 1)]
    BY <1>7, <2>1
  <2>3. level.head + 1 \in 1..len /\ level.orders[level.head + 1].qty > 0
    BY <1>1, <1>10 DEF Clean
  <2>4. from(level.head + 1) = level.head + 1 \/ level.head + 1 < from(level.head + 1)
    <3>1. level.head \in Int /\ from(level.head + 1) \in Int
      BY <1>1, <2>2
    <3> QED  BY <2>2, <3>1
  <2>5. level.orders[from(level.head + 1)].qty > 0
    BY <2>2, <2>3, <2>4 DEF QueueOK
  <2> QED  BY <1>2, <1>10, <2>2, <2>5 DEF Clean
<1> QED  BY <1>8, <1>9, <1>10 DEF new

(* The consumed head of a queue may go, or stay and be skipped.            *)
\* The first h orders of the queue are consumed, no more; os is without the first d of them.
MayShift(level, h, d, os, side, p, n) ==
  /\ n \in Nat /\ QueueOK(level, side, p, n)
  /\ h \in level.head..Len(level.orders) /\ d \in 0..h
  /\ \A k \in 1..Len(level.orders) : k <= h => level.orders[k].qty = 0
  /\ h < Len(level.orders) => level.orders[h + 1].qty > 0
  /\ os \in Seq(Order) /\ Len(os) = Len(level.orders) - d
  /\ \A k \in 1..(Len(level.orders) - d) : os[k] = level.orders[k + d]

LEMMA QueueShifted ==
  ASSUME NEW level, NEW h, NEW d, NEW os, NEW side, NEW p, NEW n,
         MayShift(level, h, d, os, side, p, n)
  PROVE  /\ QueueOK(LevelShifted(level, os, h - d), side, p, n)
         /\ h - d < Len(os) => Clean(LevelShifted(level, os, h - d))
         /\ LiveAt(LevelShifted(level, os, h - d)) = LiveAt(level)
<1> DEFINE new == LevelShifted(level, os, h - d)
           len == Len(level.orders)
<1>a. /\ h \in level.head..len /\ d \in 0..h
      /\ \A k \in 1..len : k <= h => level.orders[k].qty = 0
      /\ h < len => level.orders[h + 1].qty > 0
      /\ os \in Seq(Order) /\ Len(os) = len - d
      /\ \A k \in 1..(len - d) : os[k] = level.orders[k + d]
      /\ level \in PriceLevel /\ level.head <= len
      /\ level.total = QtyOf(LiveAt(level))
  BY DEF MayShift, QueueOK
<1>b. \A k \in 1..len : /\ level.orders[k].side = side /\ level.orders[k].price = p
                        /\ level.orders[k].type = "limit" /\ level.orders[k].seq < n
                        /\ level.orders[k].qty \in Nat
  BY ONLY MayShift(level, h, d, os, side, p, n), LevelIs DEF MayShift, QueueOK
<1>c. \A k, l \in 1..len : k < l => /\ level.orders[k].seq < level.orders[l].seq
                                    /\ level.orders[k].qty > 0 => level.orders[l].qty > 0
  BY DEF MayShift, QueueOK
<1>1. /\ level \in PriceLevel
      /\ len \in Nat /\ level.head \in Nat /\ level.total \in Nat /\ level.head <= len
      /\ h \in Nat /\ d \in Nat /\ h - d \in Nat /\ h <= len /\ d <= h /\ level.head <= h
  <2>1. len \in Nat /\ level.head \in Nat /\ level.total \in Nat
    BY ONLY <1>a, LevelIs
  <2> QED  BY ONLY <1>a, <2>1
<1>2. /\ new \in PriceLevel /\ new.orders = os /\ new.head = h - d /\ new.total = level.total
      /\ Len(new.orders) = len - d
  BY ONLY <1>1, <1>a DEF PriceLevel, LevelShifted
<1> HIDE DEF new
<1>3. \A k \in 1..(len - d) : k + d \in 1..len /\ new.orders[k] = level.orders[k + d]
  <2>1. \A k \in 1..(len - d) : k + d \in 1..len
    BY ONLY <1>1
  <2> QED  BY ONLY <1>2, <1>a, <2>1
<1>4. LiveAt(new) = LiveAt(level)
  <2>1. ASSUME NEW o PROVE o \in LiveAt(new) <=> o \in LiveAt(level)
    <3>1. o \in LiveAt(new) <=>
            \E k \in 1..(len - d) : k > h - d /\ new.orders[k].qty > 0 /\ o = new.orders[k]
      <4>1. o \in LiveAt(new) <=>
              \E k \in 1..Len(new.orders) :
                k > new.head /\ new.orders[k].qty > 0 /\ o = new.orders[k]
        BY ONLY <1>2, LiveAtIs
      <4> QED  BY ONLY <1>2, <4>1
    <3>2. o \in LiveAt(level) <=>
            \E k \in 1..len : k > level.head /\ level.orders[k].qty > 0 /\ o = level.orders[k]
      BY ONLY <1>1, LiveAtIs
    <3>3. ASSUME o \in LiveAt(new) PROVE o \in LiveAt(level)
      <4>1. PICK k \in 1..(len - d) : k > h - d /\ new.orders[k].qty > 0 /\ o = new.orders[k]
        BY ONLY <3>1, <3>3
      <4>2. k + d \in 1..len /\ new.orders[k] = level.orders[k + d]
        BY ONLY <1>3, k \in 1..(len - d)
      <4>3. k + d > level.head
        BY ONLY <1>1, <4>1, k \in 1..(len - d)
      <4> QED  BY ONLY <3>2, <4>1, <4>2, <4>3
    <3>4. ASSUME o \in LiveAt(level) PROVE o \in LiveAt(new)
      <4>1. PICK k \in 1..len :
              k > level.head /\ level.orders[k].qty > 0 /\ o = level.orders[k]
        BY ONLY <3>2, <3>4
      <4>2. ~(k <= h)
        BY ONLY <1>a, <4>1, k \in 1..len
      <4>3. k - d \in 1..(len - d) /\ k - d > h - d /\ (k - d) + d = k
        BY ONLY <1>1, <4>2, k \in 1..len
      <4>4. new.orders[k - d] = level.orders[k]
        BY ONLY <1>3, <4>3
      <4> QED  BY ONLY <3>1, <4>1, <4>3, <4>4
    <3> QED  BY <3>3, <3>4
  <2> QED  BY ONLY <2>1
<1>5. QueueOK(new, side, p, n)
  <2>1. ASSUME NEW k \in 1..(len - d)
        PROVE  /\ new.orders[k].side = side /\ new.orders[k].price = p
               /\ new.orders[k].type = "limit" /\ new.orders[k].seq < n
               /\ k <= new.head => new.orders[k].qty = 0
    <3>1. k + d \in 1..len /\ new.orders[k] = level.orders[k + d]
      BY ONLY <1>3, k \in 1..(len - d)
    <3>2. k <= new.head => k + d <= h
      BY ONLY <1>1, <1>2, k \in 1..(len - d)
    <3> QED  BY ONLY <1>a, <1>b, <3>1, <3>2
  <2>2. ASSUME NEW k \in 1..(len - d), NEW l \in 1..(len - d), k < l
        PROVE  /\ new.orders[k].seq < new.orders[l].seq
               /\ new.orders[k].qty > 0 => new.orders[l].qty > 0
    <3>1. /\ k + d \in 1..len /\ new.orders[k] = level.orders[k + d]
          /\ l + d \in 1..len /\ new.orders[l] = level.orders[l + d]
      BY ONLY <1>3, k \in 1..(len - d), l \in 1..(len - d)
    <3>2. k + d < l + d
      BY ONLY <1>1, <2>2, k \in 1..(len - d), l \in 1..(len - d)
    <3> QED  BY ONLY <1>c, <3>1, <3>2
  <2>3. new.total = QtyOf(LiveAt(new))
    BY ONLY <1>a, <1>2, <1>4
  <2>4. new.head <= Len(new.orders)
    BY ONLY <1>1, <1>2
  <2> QED  BY ONLY <1>2, <2>1, <2>2, <2>3, <2>4 DEF QueueOK
<1>6. ASSUME new.head < Len(new.orders) PROVE Clean(new)
  <2>1. h - d + 1 \in 1..(len - d) /\ h < len /\ (h - d + 1) + d = h + 1
    BY ONLY <1>1, <1>2, <1>6
  <2>2. new.orders[h - d + 1] = level.orders[h + 1]
    BY ONLY <1>3, <2>1
  <2> QED  BY ONLY <1>a, <1>2, <1>6, <2>1, <2>2 DEF Clean
<1> QED  BY <1>2, <1>4, <1>5, <1>6 DEF new

\* An order of which less is left.
Lessen(m, left) == [m EXCEPT !.qty = left]

LEMMA LessenIs ==
  ASSUME NEW m \in Order, NEW left \in Nat, left <= m.qty
  PROVE  /\ Lessen(m, left) \in Order
         /\ Lessen(m, left).qty = left /\ Lessen(m, left).seq = m.seq
         /\ Lessen(m, left).side = m.side /\ Lessen(m, left).price = m.price
         /\ Lessen(m, left).type = m.type /\ Lessen(m, left).id = m.id
         /\ Lessen(m, left).user = m.user
<1> DEFINE T == [id : OrderId, user : User, side : Sides, type : OrderTypes,
                 price : Price, qty : Nat, orig : Qty, seq : Nat]
           l == Lessen(m, left)
<1>1. m \in T /\ m.qty <= m.orig
  BY DEF Order
<1>2. /\ l \in T /\ l.qty = left /\ l.seq = m.seq /\ l.side = m.side /\ l.price = m.price
      /\ l.type = m.type /\ l.id = m.id /\ l.orig = m.orig /\ l.user = m.user
  BY <1>1 DEF Lessen
<1>3. left <= l.orig
  <2>1. m.orig \in Nat /\ m.qty \in Nat
    BY <1>1, LevelsAssumption
  <2> QED  BY <1>1, <1>2, <2>1
<1> HIDE DEF l
<1>4. l \in Order
  BY <1>2, <1>3 DEF Order
<1> QED  BY <1>2, <1>4 DEF l

(* An order of the queue gives something.                                  *)
\* Order i of the queue is the first with something left; q of it goes.
MayMeet(level, i, left, q, side, p, n) ==
  /\ n \in Nat /\ QueueOK(level, side, p, n)
  /\ i \in 1..Len(level.orders) /\ i > level.head /\ level.orders[i].qty > 0
  /\ \A k \in 1..Len(level.orders) : k < i => level.orders[k].qty = 0
  /\ left \in Nat /\ q \in Nat /\ level.orders[i].qty = left + q /\ q > 0

LEMMA QueueMet ==
  ASSUME NEW level, NEW i, NEW left, NEW q, NEW side, NEW p, NEW n,
         MayMeet(level, i, left, q, side, p, n),
         NEW new, new = LevelReduced(level, i, left, q)
  PROVE  /\ QueueOK(new, side, p, n)
         /\ new.head = level.head /\ Len(new.orders) = Len(level.orders)
         /\ new.orders[i] = Lessen(level.orders[i], left)
         /\ \A k \in 1..Len(level.orders) : k # i => new.orders[k] = level.orders[k]
         /\ LiveAt(new) = (LiveAt(level) \ {level.orders[i]})
                            \cup (IF left > 0 THEN {Lessen(level.orders[i], left)} ELSE {})
<1> DEFINE len == Len(level.orders)
           m == level.orders[i]
           l == Lessen(m, left)
<1>a. /\ QueueOK(level, side, p, n) /\ level \in PriceLevel
      /\ i \in 1..len /\ i > level.head /\ m.qty > 0
      /\ left \in Nat /\ q \in Nat /\ m.qty = left + q /\ q > 0
      /\ level.head <= len /\ level.total = QtyOf(LiveAt(level))
  BY DEF MayMeet, QueueOK
<1>b. \A k \in 1..len : k < i => level.orders[k].qty = 0
  BY DEF MayMeet
<1>c. \A k \in 1..len :
        /\ level.orders[k].side = side /\ level.orders[k].price = p
        /\ level.orders[k].type = "limit" /\ level.orders[k].seq < n
        /\ k <= level.head => level.orders[k].qty = 0
  BY ONLY <1>a DEF QueueOK
<1>d. \A k, j \in 1..len : k < j => /\ level.orders[k].seq < level.orders[j].seq
                                    /\ level.orders[k].qty > 0 => level.orders[j].qty > 0
  BY ONLY <1>a DEF QueueOK
<1>1. /\ m \in Order /\ m.qty \in Nat /\ m.seq \in Nat
      /\ len \in Nat /\ level.head \in Nat /\ level.total \in Nat
      /\ level.orders \in Seq(Order)
      /\ \A k \in 1..len : /\ level.orders[k] \in Order
                           /\ level.orders[k].qty \in Nat /\ level.orders[k].seq \in Nat
  <2>1. /\ len \in Nat /\ level.head \in Nat /\ level.total \in Nat
        /\ level.orders \in Seq(Order)
        /\ \A k \in 1..len : /\ level.orders[k] \in Order
                             /\ level.orders[k].qty \in Nat /\ level.orders[k].seq \in Nat
    BY ONLY <1>a, LevelIs
  <2> QED  BY ONLY <1>a, <2>1
<1>0. /\ l \in Order /\ l.qty = left /\ l.seq = m.seq /\ l.side = m.side /\ l.price = m.price
      /\ l.type = m.type
  <2>1. left <= m.qty
    BY ONLY <1>a, <1>1
  <2> QED  BY ONLY <1>a, <1>1, <2>1, LessenIs
<1>2. /\ new.orders = [level.orders EXCEPT ![i] = l] /\ new.head = level.head
      /\ new.total = level.total - q
      /\ new = [orders |-> new.orders, head |-> new.head, total |-> new.total]
  <2>1. new = [orders |-> [level.orders EXCEPT ![i] = l], head |-> level.head,
               total |-> level.total - q]
    <3>1. \A os, t : [level EXCEPT !.orders = os, !.total = t]
                       = [orders |-> os, head |-> level.head, total |-> t]
      BY ONLY <1>a, LevelWith, Zenon
    <3>2. new = [level EXCEPT !.orders = [level.orders EXCEPT ![i] = l],
                              !.total = level.total - q]
      BY DEF LevelReduced, Lessen
    <3> QED  BY ONLY <3>1, <3>2, Zenon
  <2> QED  BY ONLY <2>1
<1> HIDE DEF l
<1>3. /\ new.orders \in Seq(Order) /\ Len(new.orders) = len
      /\ \A k \in 1..len : new.orders[k] = IF k = i THEN l ELSE level.orders[k]
  BY ONLY <1>a, <1>0, <1>1, <1>2, ExceptSeq
<1>m. /\ new.orders[i] = l
      /\ \A k \in 1..len : k # i => new.orders[k] = level.orders[k]
  BY ONLY <1>a, <1>3
<1>4. /\ m \in LiveAt(level)
      /\ QtyOf(LiveAt(level)) = QtyOf(LiveAt(level) \ {m}) + m.qty
      /\ QtyOf(LiveAt(level) \ {m}) \in Nat
  <2>1. m \in LiveAt(level)
    BY ONLY <1>a, LiveAtIs
  <2>2. IsFiniteSet(LiveAt(level)) /\ \A x \in LiveAt(level) : x.qty \in Nat
    BY ONLY <1>a, LiveAtIs
  <2> HIDE DEF m
  <2> QED  BY ONLY <2>1, <2>2, QtyFacts
<1> HIDE DEF m
<1>14. /\ level.total - q = QtyOf(LiveAt(level) \ {m}) + left
       /\ level.total - q \in Nat
  BY ONLY <1>a, <1>1, <1>4
<1>6. new \in PriceLevel
  BY ONLY <1>1, <1>2, <1>3, <1>14 DEF PriceLevel
<1>5. m = level.orders[i]
  BY DEF m
<1>7. ASSUME NEW o
      PROVE  o \in LiveAt(new) <=> \/ o \in LiveAt(level) /\ o # m
                                   \/ left > 0 /\ o = l
  <2>1. o \in LiveAt(new) <=>
          \E k \in 1..len : k > level.head /\ new.orders[k].qty > 0 /\ o = new.orders[k]
    <3>1. o \in LiveAt(new) <=>
            \E k \in 1..Len(new.orders) :
              k > new.head /\ new.orders[k].qty > 0 /\ o = new.orders[k]
      BY ONLY <1>6, LiveAtIs
    <3> QED  BY ONLY <1>2, <1>3, <3>1
  <2>2. o \in LiveAt(level) <=>
          \E k \in 1..len : k > level.head /\ level.orders[k].qty > 0 /\ o = level.orders[k]
    BY ONLY <1>a, LiveAtIs
  <2>3. ASSUME o \in LiveAt(new), ~(left > 0 /\ o = l) PROVE o \in LiveAt(level) /\ o # m
    <3>1. PICK k \in 1..len : k > level.head /\ new.orders[k].qty > 0 /\ o = new.orders[k]
      BY ONLY <2>1, <2>3
    <3>2. k # i
      BY ONLY <1>0, <1>m, <2>3, <3>1
    <3>3. o = level.orders[k]
      BY ONLY <1>m, <3>1, <3>2, k \in 1..len
    <3>4. o \in LiveAt(level)
      BY ONLY <2>2, <3>1, <3>3, k \in 1..len
    <3>5. o.seq # m.seq
      <4>1. k < i \/ i < k
        BY ONLY <1>a, <3>2, k \in 1..len
      <4>2. o.seq < m.seq \/ m.seq < o.seq
        BY ONLY <1>a, <1>d, <1>5, <3>3, <4>1, k \in 1..len
      <4>3. o.seq \in Nat /\ m.seq \in Nat
        BY ONLY <1>1, <3>3, k \in 1..len
      <4> QED  BY ONLY <4>2, <4>3
    <3> QED  BY ONLY <3>4, <3>5
  <2>4. ASSUME o \in LiveAt(level), o # m PROVE o \in LiveAt(new)
    <3>1. PICK k \in 1..len : k > level.head /\ level.orders[k].qty > 0 /\ o = level.orders[k]
      BY ONLY <2>2, <2>4
    <3>2. k # i /\ new.orders[k] = level.orders[k]
      BY ONLY <1>m, <1>5, <2>4, <3>1, k \in 1..len
    <3> QED  BY ONLY <2>1, <3>1, <3>2, k \in 1..len
  <2>5. ASSUME left > 0, o = l PROVE o \in LiveAt(new)
    <3>1. new.orders[i] = l /\ i > level.head /\ i \in 1..len
      BY ONLY <1>a, <1>m
    <3> QED  BY ONLY <1>0, <2>1, <2>5, <3>1
  <2> QED  BY <2>3, <2>4, <2>5
<1>8. LiveAt(new) = (LiveAt(level) \ {m}) \cup (IF left > 0 THEN {l} ELSE {})
  BY ONLY <1>7
<1>9. new.total = QtyOf(LiveAt(new))
  <2>1. CASE left = 0
    <3>1. LiveAt(new) = LiveAt(level) \ {m}
      BY ONLY <1>8, <2>1
    <3> QED  BY ONLY <1>2, <1>4, <1>14, <2>1, <3>1
  <2>2. CASE left > 0
    <3>1. l \notin LiveAt(level) \ {m}
      <4> SUFFICES ASSUME l \in LiveAt(level), l # m PROVE FALSE
        OBVIOUS
      <4>1. PICK k \in 1..len : level.orders[k] = l
        BY <1>a, LiveAtIs
      <4>4. k # i
        BY <1>5, <4>1
      <4>2. k < i \/ i < k
        BY ONLY <1>a, <1>1, <4>4, k \in 1..len
      <4>3. l.seq < m.seq \/ m.seq < l.seq
        BY ONLY <1>a, <1>d, <1>5, <4>1, <4>2, k \in 1..len
      <4> QED  BY ONLY <1>0, <1>1, <4>3
    <3>2. LiveAt(new) \ {l} = LiveAt(level) \ {m} /\ l \in LiveAt(new)
      BY ONLY <1>8, <2>2, <3>1
    <3>3. IsFiniteSet(LiveAt(new)) /\ \A x \in LiveAt(new) : x.qty \in Nat
      BY ONLY <1>6, LiveAtIs
    <3>4. QtyOf(LiveAt(new)) = QtyOf(LiveAt(new) \ {l}) + l.qty
      BY ONLY <3>2, <3>3, QtyFacts
    <3> QED  BY ONLY <1>0, <1>2, <1>14, <3>2, <3>4
  <2> QED  BY <1>a, <2>1, <2>2
<1>10. ASSUME NEW k \in 1..len
       PROVE  /\ new.orders[k].side = side /\ new.orders[k].price = p
              /\ new.orders[k].type = "limit" /\ new.orders[k].seq < n
              /\ k <= new.head => new.orders[k].qty = 0
              /\ new.orders[k].seq = level.orders[k].seq
  <2>1. CASE k = i
    <3>1. m.side = side /\ m.price = p /\ m.type = "limit" /\ m.seq < n
      BY ONLY <1>a, <1>c, <1>5
    <3>2. new.orders[k] = l /\ ~(k <= new.head)
      BY ONLY <1>a, <1>1, <1>2, <1>m, <2>1
    <3> QED  BY ONLY <1>0, <1>5, <2>1, <3>1, <3>2
  <2>2. CASE k # i
    <3>1. new.orders[k] = level.orders[k]
      BY ONLY <1>m, <2>2, k \in 1..len
    <3> QED  BY ONLY <1>c, <1>2, <3>1, k \in 1..len
  <2> QED  BY <2>1, <2>2
<1>11. ASSUME NEW k \in 1..len, NEW j \in 1..len, k < j
       PROVE  /\ new.orders[k].seq < new.orders[j].seq
              /\ new.orders[k].qty > 0 => new.orders[j].qty > 0
  <2>1. new.orders[k].seq < new.orders[j].seq
    BY ONLY <1>d, <1>10, <1>11, k \in 1..len, j \in 1..len
  <2>2. ASSUME new.orders[k].qty > 0 PROVE new.orders[j].qty > 0
    <3>1. k >= i
      <4> SUFFICES ASSUME k < i PROVE FALSE
        BY <1>a
      <4>1. k # i
        BY <1>a
      <4>2. new.orders[k] = level.orders[k] /\ level.orders[k].qty = 0
        BY ONLY <1>b, <1>m, <4>1, k < i, k \in 1..len
      <4> QED  BY ONLY <2>2, <4>2
    <3>2. j # i /\ i < j
      BY ONLY <1>a, <1>11, <3>1, k \in 1..len, j \in 1..len
    <3>3. new.orders[j] = level.orders[j]
      BY ONLY <1>m, <3>2, j \in 1..len
    <3>4. level.orders[j].qty > 0
      BY ONLY <1>a, <1>d, <1>5, <3>2, j \in 1..len
    <3> QED  BY ONLY <3>3, <3>4
  <2> QED  BY <2>1, <2>2
<1>12. QueueOK(new, side, p, n)
  <2>1. new.head <= Len(new.orders)
    BY ONLY <1>a, <1>2, <1>3
  <2> QED  BY ONLY <1>3, <1>6, <1>9, <1>10, <1>11, <2>1 DEF QueueOK
<1> QED  BY <1>2, <1>3, <1>m, <1>8, <1>12 DEF l, m

-----------------------------------------------------------------------------
(* One side of the book.                                                   *)

\* A side of orders that came before order n.
SideOK(b, side, n) ==
  /\ b \in BookSide
  /\ BestFirst(side, b.prices)
  /\ \A p \in Price : b.levels[p] # None <=> \E i \in DOMAIN b.prices : b.prices[i] = p
  /\ \A p \in Price : b.levels[p] # None => QueueOK(b.levels[p], side, p, n)

AllClean(b) == \A p \in Price : b.levels[p] # None => Clean(b.levels[p])

LEMMA SideIs ==
  ASSUME NEW b \in BookSide
  PROVE  /\ b.prices \in Seq(Price) /\ Len(b.prices) \in Nat
         /\ DOMAIN b.prices = 1..Len(b.prices)
         /\ b.levels \in [Price -> PriceLevel \cup {None}]
         /\ \A p \in Price : b.levels[p] # None => b.levels[p] \in PriceLevel
         /\ b = [prices |-> b.prices, levels |-> b.levels]
<1>1. /\ b.prices \in Seq(Price)
      /\ b.levels \in [Price -> PriceLevel \cup {None}]
      /\ b = [prices |-> b.prices, levels |-> b.levels]
  BY DEF BookSide
<1>2. Len(b.prices) \in Nat /\ DOMAIN b.prices = 1..Len(b.prices)
  BY <1>1
<1> QED  BY <1>1, <1>2

LEMMA NotNone ==
  None \notin PriceLevel /\ None \notin Order
BY LevelsAssumption

LEMMA LiveInIs ==
  ASSUME NEW b \in BookSide
  PROVE  \A o : o \in LiveIn(b) <=>
           \E p \in Price : b.levels[p] # None /\ o \in LiveAt(b.levels[p])
<1>1. LiveIn(b) = UNION {LiveAt(level) : level \in {b.levels[p] : p \in Price} \ {None}}
  BY DEF LiveIn, LiveAt
<1> QED  BY <1>1

LEMMA LiveInSide ==
  ASSUME NEW side, NEW n, NEW b, SideOK(b, side, n)
  PROVE  /\ \A o : o \in LiveIn(b) <=>
              o.price \in Price /\ b.levels[o.price] # None /\ o \in LiveAt(b.levels[o.price])
         /\ \A o \in LiveIn(b) : /\ o \in Order /\ o.side = side /\ o.type = "limit"
                                 /\ o.qty \in Nat /\ o.qty > 0 /\ o.seq < n
                                 /\ o.price \in Price
         /\ IsFiniteSet(LiveIn(b))
<1>0. b \in BookSide
  BY DEF SideOK
<1>1. ASSUME NEW p \in Price, b.levels[p] # None, NEW o \in LiveAt(b.levels[p])
      PROVE  /\ o \in Order /\ o.side = side /\ o.type = "limit"
             /\ o.qty \in Nat /\ o.qty > 0 /\ o.seq < n /\ o.price = p
  <2>1. QueueOK(b.levels[p], side, p, n) /\ b.levels[p] \in PriceLevel
    BY <1>1 DEF SideOK, QueueOK
  <2>2. PICK k \in 1..Len(b.levels[p].orders) : o = b.levels[p].orders[k]
    BY <2>1, LiveAtIs
  <2>3. o \in Order /\ o.qty \in Nat /\ o.qty > 0
    BY <2>1, LiveAtIs
  <2> QED  BY <2>1, <2>2, <2>3 DEF QueueOK
<1>2. \A o : o \in LiveIn(b) <=>
              o.price \in Price /\ b.levels[o.price] # None /\ o \in LiveAt(b.levels[o.price])
  BY <1>0, <1>1, LiveInIs
<1>3. IsFiniteSet(LiveIn(b))
  <2> DEFINE f == [p \in Price |-> IF b.levels[p] = None THEN {} ELSE LiveAt(b.levels[p])]
  <2>1. IsFiniteSet(Price)
    <3>1. IsFiniteSet(1..MaxPrice)
      BY LevelsAssumption, FS_Interval
    <3> QED  BY <3>1, LevelsAssumption, FS_Subset
  <2>2. \A p \in Price : IsFiniteSet(f[p])
    BY <1>0, SideIs, LiveAtIs, FS_EmptySet
  <2>3. LiveIn(b) = UNION {f[p] : p \in Price}
    <3>1. \A o : o \in LiveIn(b) <=> \E p \in Price : o \in f[p]
      BY <1>0, LiveInIs
    <3> HIDE DEF f
    <3> QED  BY <3>1
  <2> HIDE DEF f
  <2>4. IsFiniteSet({f[p] : p \in Price})
    BY <2>1, ImageFinite
  <2>5. IsFiniteSet(UNION {f[p] : p \in Price})
    BY <2>2, <2>4, FS_UNION
  <2> QED  BY <2>3, <2>5
<1>4. \A o \in LiveIn(b) : /\ o \in Order /\ o.side = side /\ o.type = "limit"
                           /\ o.qty \in Nat /\ o.qty > 0 /\ o.seq < n
                           /\ o.price \in Price
  BY <1>1, <1>2
<1> QED  BY <1>2, <1>3, <1>4

LEMMA SideLater ==
  ASSUME NEW side, NEW n \in Nat, NEW n2 \in Nat, n <= n2, NEW b, SideOK(b, side, n)
  PROVE  SideOK(b, side, n2)
<1>1. ASSUME NEW p \in Price, b.levels[p] # None PROVE QueueOK(b.levels[p], side, p, n2)
  <2>1. QueueOK(b.levels[p], side, p, n) /\ b.levels[p] \in PriceLevel
    BY <1>1 DEF SideOK, QueueOK
  <2>2. \A k \in 1..Len(b.levels[p].orders) :
          b.levels[p].orders[k].seq \in Nat /\ b.levels[p].orders[k].seq < n
    BY <2>1, LevelIs DEF QueueOK
  <2>3. \A k \in 1..Len(b.levels[p].orders) : b.levels[p].orders[k].seq < n2
    <3> SUFFICES ASSUME NEW k \in 1..Len(b.levels[p].orders)
                 PROVE  b.levels[p].orders[k].seq < n2
      OBVIOUS
    <3> DEFINE s == b.levels[p].orders[k].seq
    <3>1. s \in Nat /\ s < n
      BY <2>2
    <3> HIDE DEF s
    <3>2. s < n2
      BY ONLY <3>1, n \in Nat, n2 \in Nat, n <= n2
    <3> QED  BY <3>2 DEF s
  <2> QED  BY <2>1, <2>3 DEF QueueOK
<1> QED  BY <1>1 DEF SideOK

(* A level of the side changes.                                            *)
LEMMA LevelPut ==
  ASSUME NEW side, NEW n, NEW b, SideOK(b, side, n),
         NEW p \in Price, b.levels[p] # None, NEW level, QueueOK(level, side, p, n),
         NEW new, new = SidePut(b, p, level)
  PROVE  /\ SideOK(new, side, n)
         /\ \A q \in Price : new.levels[q] = IF q = p THEN level ELSE b.levels[q]
         /\ new.prices = b.prices
         /\ \A o : o \in LiveIn(new) <=>
                     o \in LiveAt(level) \/ (o \in LiveIn(b) /\ o.price # p)
<1>1. /\ b \in BookSide /\ level \in PriceLevel /\ level # None
      /\ b.prices \in Seq(Price) /\ b.levels \in [Price -> PriceLevel \cup {None}]
  BY SideIs, NotNone DEF SideOK, QueueOK
<1>2. /\ new.prices = b.prices
      /\ new.levels = [b.levels EXCEPT ![p] = level]
      /\ new = [prices |-> new.prices, levels |-> new.levels]
  BY DEF SidePut
<1>3. /\ new.levels \in [Price -> PriceLevel \cup {None}]
      /\ \A q \in Price : new.levels[q] = IF q = p THEN level ELSE b.levels[q]
  BY ONLY <1>1, <1>2
<1>4. new \in BookSide
  BY ONLY <1>1, <1>2, <1>3 DEF BookSide
<1>5. SideOK(new, side, n)
  <2>1. \A q \in Price : new.levels[q] # None <=> b.levels[q] # None
    BY <1>1, <1>3
  <2>2. \A q \in Price : new.levels[q] # None => QueueOK(new.levels[q], side, q, n)
    BY <1>3 DEF SideOK
  <2>3. /\ BestFirst(side, new.prices)
        /\ \A q \in Price : b.levels[q] # None <=> \E i \in DOMAIN new.prices : new.prices[i] = q
    BY <1>2 DEF SideOK
  <2> QED  BY ONLY <1>4, <2>1, <2>2, <2>3 DEF SideOK
<1>6. ASSUME NEW o
      PROVE  o \in LiveIn(new) <=> o \in LiveAt(level) \/ (o \in LiveIn(b) /\ o.price # p)
  <2>1. o \in LiveIn(new) <=> o.price \in Price /\ new.levels[o.price] # None
                                /\ o \in LiveAt(new.levels[o.price])
    BY ONLY <1>5, LiveInSide
  <2>2. o \in LiveIn(b) <=> o.price \in Price /\ b.levels[o.price] # None
                              /\ o \in LiveAt(b.levels[o.price])
    BY LiveInSide
  <2>3. o \in LiveAt(level) => o.price = p
    <3> SUFFICES ASSUME o \in LiveAt(level) PROVE o.price = p
      OBVIOUS
    <3>1. PICK k \in 1..Len(level.orders) : o = level.orders[k]
      BY <1>1, LiveAtIs
    <3> QED  BY <3>1 DEF QueueOK
  <2> QED  BY ONLY p \in Price, <1>1, <1>3, <2>1, <2>2, <2>3
<1> QED  BY <1>2, <1>3, <1>5, <1>6

(* A level of the side goes.                                               *)
LEMMA LevelDropped ==
  ASSUME NEW side, NEW n, NEW b, SideOK(b, side, n),
         NEW p \in Price, b.levels[p] # None, side \in Sides,
         NEW new, new = SideDropped(b, p)
  PROVE  /\ SideOK(new, side, n)
         /\ \A q \in Price : new.levels[q] = IF q = p THEN None ELSE b.levels[q]
         /\ \A o : o \in LiveIn(new) <=> o \in LiveIn(b) /\ o.price # p
<1>1. /\ b \in BookSide /\ BestFirst(side, b.prices) /\ Len(b.prices) \in Nat
      /\ b.prices \in Seq(Price) /\ b.levels \in [Price -> PriceLevel \cup {None}]
      /\ DOMAIN b.prices = 1..Len(b.prices)
  BY SideIs DEF SideOK
<1> DEFINE len == Len(b.prices)
<1>2. PICK i \in 1..len : b.prices[i] = p
  BY <1>1 DEF SideOK
<1>3. ASSUME NEW j \in 1..len, NEW k \in 1..len, b.prices[j] = b.prices[k] PROVE j = k
  <2> SUFFICES ASSUME j # k PROVE FALSE
    OBVIOUS
  <2>1. b.prices[j] \in Int /\ b.prices[k] \in Int
    BY <1>1, Prices
  <2>2. j < k \/ k < j
    OBVIOUS
  <2>3. Better(side, b.prices[j], b.prices[k]) \/ Better(side, b.prices[k], b.prices[j])
    BY <1>1, <2>2 DEF BestFirst
  <2> QED  BY <1>3, <2>1, <2>3 DEF Better
<1>4. /\ new.prices = RemoveAt(b.prices, i)
      /\ new.levels = [b.levels EXCEPT ![p] = None]
      /\ new = [prices |-> new.prices, levels |-> new.levels]
  <2>1. WithoutPrice(b.prices, b.prices[i]) = RemoveAt(b.prices, i)
    BY ONLY <1>1, <1>2, <1>3, PriceRemoved
  <2> QED  BY <1>2, <2>1 DEF SideDropped
<1>5. /\ new.prices \in Seq(Price) /\ Len(new.prices) = len - 1
      /\ \A k \in 1..(len - 1) :
           new.prices[k] = IF k < i THEN b.prices[k] ELSE b.prices[k + 1]
      /\ DOMAIN new.prices = 1..(len - 1)
  <2>1. /\ RemoveAt(b.prices, i) \in Seq(Price) /\ Len(RemoveAt(b.prices, i)) = len - 1
        /\ \A k \in 1..(len - 1) :
             RemoveAt(b.prices, i)[k] = IF k < i THEN b.prices[k] ELSE b.prices[k + 1]
    BY ONLY <1>1, <1>2, RemovedAt
  <2>2. DOMAIN RemoveAt(b.prices, i) = 1..(len - 1)
    BY ONLY <2>1
  <2> QED  BY ONLY <1>4, <2>1, <2>2
<1>6. /\ new.levels \in [Price -> PriceLevel \cup {None}]
      /\ \A q \in Price : new.levels[q] = IF q = p THEN None ELSE b.levels[q]
  BY ONLY <1>1, <1>4
<1>7. new \in BookSide
  BY ONLY <1>4, <1>5, <1>6 DEF BookSide
<1>8. BestFirst(side, new.prices)
  <2> SUFFICES ASSUME NEW j \in 1..(len - 1), NEW k \in 1..(len - 1), j < k
               PROVE  Better(side, new.prices[j], new.prices[k])
    BY <1>5 DEF BestFirst
  <2> DEFINE j2 == IF j < i THEN j ELSE j + 1
             k2 == IF k < i THEN k ELSE k + 1
  <2>1. j2 \in 1..len /\ k2 \in 1..len /\ j2 < k2
    BY ONLY <1>1, <1>2, j \in 1..(len - 1), k \in 1..(len - 1), j < k
  <2>2. new.prices[j] = b.prices[j2] /\ new.prices[k] = b.prices[k2]
    BY ONLY <1>5, j \in 1..(len - 1), k \in 1..(len - 1)
  <2> HIDE DEF j2, k2
  <2> QED  BY <1>1, <2>1, <2>2 DEF BestFirst
<1>9. \A q \in Price : new.levels[q] # None <=> \E k \in DOMAIN new.prices : new.prices[k] = q
  <2> SUFFICES ASSUME NEW q \in Price
               PROVE  new.levels[q] # None <=> \E k \in DOMAIN new.prices : new.prices[k] = q
    OBVIOUS
  <2>0. b.levels[q] # None <=> \E k \in 1..len : b.prices[k] = q
    BY <1>1 DEF SideOK
  <2>1. ASSUME NEW k \in 1..(len - 1), new.prices[k] = q PROVE new.levels[q] # None
    <3> DEFINE k2 == IF k < i THEN k ELSE k + 1
    <3>1. k2 \in 1..len /\ k2 # i
      BY ONLY <1>1, <1>2, k \in 1..(len - 1)
    <3>2. b.prices[k2] = q
      BY ONLY <1>5, <2>1, k \in 1..(len - 1)
    <3> HIDE DEF k2
    <3>3. q # p
      BY <1>2, <1>3, <3>1, <3>2
    <3> QED  BY <1>6, <2>0, <3>1, <3>2, <3>3
  <2>2. ASSUME new.levels[q] # None PROVE \E k \in 1..(len - 1) : new.prices[k] = q
    <3>1. q # p /\ b.levels[q] # None
      BY <1>6, <2>2
    <3>2. PICK k \in 1..len : b.prices[k] = q
      BY <2>0, <3>1
    <3>3. k # i
      BY <1>2, <3>1, <3>2
    <3>4. CASE k < i
      <4>1. k \in 1..(len - 1)
        BY ONLY <1>1, <1>2, <3>4, k \in 1..len
      <4> QED  BY <1>5, <3>2, <3>4, <4>1
    <3>5. CASE k > i
      <4>1. k - 1 \in 1..(len - 1) /\ ~(k - 1 < i) /\ (k - 1) + 1 = k
        BY ONLY <1>1, <1>2, <3>5, k \in 1..len
      <4>2. new.prices[k - 1] = b.prices[k]
        BY ONLY <1>5, <4>1
      <4> QED  BY <3>2, <4>1, <4>2
    <3> QED  BY <1>1, <1>2, <3>3, <3>4, <3>5
  <2> QED  BY <1>5, <2>1, <2>2
<1>10. SideOK(new, side, n)
  <2>1. \A q \in Price : new.levels[q] # None => QueueOK(new.levels[q], side, q, n)
    BY <1>6 DEF SideOK
  <2> QED  BY ONLY <1>7, <1>8, <1>9, <2>1 DEF SideOK
<1>11. ASSUME NEW o PROVE o \in LiveIn(new) <=> o \in LiveIn(b) /\ o.price # p
  <2>1. o \in LiveIn(new) <=> o.price \in Price /\ new.levels[o.price] # None
                                /\ o \in LiveAt(new.levels[o.price])
    BY ONLY <1>10, LiveInSide
  <2>2. o \in LiveIn(b) <=> o.price \in Price /\ b.levels[o.price] # None
                              /\ o \in LiveAt(b.levels[o.price])
    BY LiveInSide
  <2> QED  BY ONLY p \in Price, <1>6, <2>1, <2>2
<1> QED  BY <1>6, <1>10, <1>11

LEMMA KeptSide ==
  ASSUME NEW side \in Sides, NEW n, NEW b, SideOK(b, side, n),
         NEW p \in Price, b.levels[p] # None, NEW level, QueueOK(level, side, p, n),
         NEW new, new = Kept(b, p, level)
  PROVE  /\ SideOK(new, side, n)
         /\ (\A q \in Price : q # p /\ b.levels[q] # None => Clean(b.levels[q]))
              /\ (level.head < Len(level.orders) => Clean(level))
            => AllClean(new)
         /\ \A o : o \in LiveIn(new) <=>
                     o \in LiveAt(level) \/ (o \in LiveIn(b) /\ o.price # p)
<1>1. b \in BookSide /\ level \in PriceLevel /\ level # None
  BY NotNone DEF SideOK, QueueOK
<1>2. CASE level.head < Len(level.orders)
  <2>1. new = [b EXCEPT !.levels = [b.levels EXCEPT ![p] = level]]
    BY <1>2 DEF Kept
  <2>2. b = [prices |-> b.prices, levels |-> b.levels]
    BY <1>1, SideIs
  <2>3. new = SidePut(b, p, level)
    BY ONLY <2>1, <2>2 DEF SidePut
  <2>4. /\ SideOK(new, side, n)
        /\ \A q \in Price : new.levels[q] = IF q = p THEN level ELSE b.levels[q]
        /\ \A o : o \in LiveIn(new) <=>
                    o \in LiveAt(level) \/ (o \in LiveIn(b) /\ o.price # p)
    BY ONLY SideOK(b, side, n), p \in Price, b.levels[p] # None,
            QueueOK(level, side, p, n), <2>3, LevelPut
  <2> QED  BY <1>2, <2>4 DEF AllClean
<1>3. CASE ~(level.head < Len(level.orders))
  <2>1. new = SideDropped(b, p)
    BY <1>3 DEF Kept, SideDropped
  <2>2. /\ SideOK(new, side, n)
        /\ \A q \in Price : new.levels[q] = IF q = p THEN None ELSE b.levels[q]
        /\ \A o : o \in LiveIn(new) <=> o \in LiveIn(b) /\ o.price # p
    BY ONLY SideOK(b, side, n), p \in Price, b.levels[p] # None, side \in Sides,
            <2>1, LevelDropped
  <2>3. \A o : o \notin LiveAt(level)
    <3> SUFFICES ASSUME NEW o \in LiveAt(level) PROVE FALSE
      OBVIOUS
    <3>1. PICK k \in 1..Len(level.orders) : k > level.head
      BY <1>1, LiveAtIs
    <3> QED  BY <1>1, <1>3, <3>1, LevelIs
  <2> QED  BY <2>2, <2>3 DEF AllClean
<1> QED  BY <1>2, <1>3

LEMMA AddedSide ==
  ASSUME NEW side \in Sides, NEW n \in Nat, NEW b, SideOK(b, side, n), AllClean(b),
         NEW o, o.price \in Price, ComesLast(o, side, o.price, n), NEW n2 \in Nat, o.seq < n2,
         NEW new, new = Added(b, o)
  PROVE  /\ SideOK(new, side, n2) /\ AllClean(new)
         /\ LiveIn(new) = LiveIn(b) \cup {o}
<1> DEFINE at == o.price
           empty == [orders |-> <<>>, head |-> 0, total |-> 0]
           old == IF b.levels[at] = None THEN empty ELSE b.levels[at]
           put == [old EXCEPT !.orders = Append(@, o), !.total = @ + o.qty]
           prices == IF b.levels[at] = None THEN InsertPrice(side, b.prices, at) ELSE b.prices
<1>0. /\ b \in BookSide /\ o.side = side /\ o \in Order /\ o.seq \in Nat /\ o.seq >= n
  BY OrderIs DEF SideOK, ComesLast
<1>1. /\ new = [prices |-> prices, levels |-> [b.levels EXCEPT ![at] = put]]
  BY <1>0 DEF Added
<1>2. /\ QueueOK(old, side, at, n)
      /\ Clean(old) \/ old.head = Len(old.orders)
      /\ b.levels[at] = None => LiveAt(old) = {}
  <2>1. CASE b.levels[at] = None
    <3>1. old.orders = <<>> /\ old.head = 0 /\ old.total = 0 /\ Len(old.orders) = 0
      BY <2>1
    <3>2. old \in PriceLevel
      BY <2>1 DEF PriceLevel
    <3> HIDE DEF old, at
    <3>3. LiveAt(old) = {}
      BY <3>1, <3>2, LiveAtIs
    <3>4. QtyOf({}) = 0
      <4>1. QtyOf({}) = SumFunctionOnSet([m \in {} |-> m.qty], {})
        BY DEF QtyOf, SumFunction
      <4> QED  BY <4>1, SumEmpty
    <3> QED  BY <2>1, <3>1, <3>2, <3>3, <3>4 DEF QueueOK
  <2>2. CASE b.levels[at] # None
    BY <2>2 DEF SideOK, AllClean
  <2> QED  BY <2>1, <2>2
<1>3. /\ QueueOK(put, side, at, n2) /\ Clean(put)
      /\ LiveAt(put) = LiveAt(old) \cup {o}
  <2>1. ComesLast(o, side, at, n)
    OBVIOUS
  <2>2. put = LevelAdded(old, o)
    BY DEF LevelAdded
  <2> HIDE DEF old, at, put
  <2>3. n \in Nat /\ n2 \in Nat /\ o.seq < n2
    OBVIOUS
  <2>4. /\ QueueOK(LevelAdded(old, o), side, at, n2)
        /\ Clean(LevelAdded(old, o))
        /\ LiveAt(LevelAdded(old, o)) = LiveAt(old) \cup {o}
    <3>1. QueueOK(old, side, at, n)
      BY <1>2
    <3>2. Clean(old) \/ old.head = Len(old.orders)
      BY <1>2
    <3>3. n \in Nat
      OBVIOUS
    <3>4. n2 \in Nat
      OBVIOUS
    <3>5. o.seq < n2
      OBVIOUS
    <3>6. MayJoin(old, o, side, at, n, n2)
      BY ONLY <2>1, <3>1, <3>2, <3>3, <3>4, <3>5 DEF MayJoin
    <3> QED  BY ONLY <3>6, QueueAdded
  <2> QED  BY <2>2, <2>4
<1>4. SideOK(b, side, n2)
  <2>1. n <= n2
    BY ONLY <1>0, n \in Nat, n2 \in Nat, o.seq < n2
  <2> QED  BY <2>1, SideLater
<1> HIDE DEF put
<1>5. CASE b.levels[at] # None
  <2>1. new = SidePut(b, at, put)
    BY <1>1, <1>5 DEF SidePut
  <2>2. /\ SideOK(new, side, n2)
        /\ \A q \in Price : new.levels[q] = IF q = at THEN put ELSE b.levels[q]
        /\ \A m : m \in LiveIn(new) <=>
                    m \in LiveAt(put) \/ (m \in LiveIn(b) /\ m.price # at)
    <3> HIDE DEF at
    <3>1. at \in Price
      BY DEF at
    <3> QED  BY ONLY <1>3, <1>4, <1>5, <2>1, <3>1, LevelPut
  <2>3. AllClean(new)
    BY <1>3, <2>2 DEF AllClean
  <2>4. ASSUME NEW m PROVE m \in LiveIn(new) <=> m \in LiveIn(b) \/ m = o
    <3>1. m \in LiveIn(b) <=>
            m.price \in Price /\ b.levels[m.price] # None /\ m \in LiveAt(b.levels[m.price])
      BY LiveInSide
    <3>2. m \in LiveAt(put) <=> m \in LiveAt(b.levels[at]) \/ m = o
      BY <1>3, <1>5
    <3>3. m \in LiveAt(b.levels[at]) => m.price = at
      <4> SUFFICES ASSUME m \in LiveAt(b.levels[at]) PROVE m.price = at
        OBVIOUS
      <4>1. QueueOK(b.levels[at], side, at, n) /\ b.levels[at] \in PriceLevel
        BY <1>5 DEF SideOK, QueueOK
      <4>2. PICK k \in 1..Len(b.levels[at].orders) : m = b.levels[at].orders[k]
        BY <4>1, LiveAtIs
      <4> QED  BY <4>1, <4>2 DEF QueueOK
    <3> QED  BY <1>5, <2>2, <3>1, <3>2, <3>3
  <2> QED  BY <2>2, <2>3, <2>4
<1>6. CASE b.levels[at] = None
  <2>0. /\ b.prices \in Seq(Price) /\ BestFirst(side, b.prices) /\ Len(b.prices) \in Nat
        /\ DOMAIN b.prices = 1..Len(b.prices)
        /\ \A k \in 1..Len(b.prices) : b.prices[k] # at
        /\ b.levels \in [Price -> PriceLevel \cup {None}]
    BY <1>0, <1>6, SideIs DEF SideOK
  <2> DEFINE len == Len(b.prices)
  <2>1. new = [prices |-> InsertPrice(side, b.prices, at), levels |-> [b.levels EXCEPT ![at] = put]]
    BY <1>1, <1>6
  <2>2. PICK i \in 1..(len + 1) :
          /\ InsertPrice(side, b.prices, at) = InsertAt(b.prices, i, at)
          /\ \A k \in 1..len : IF k < i THEN Better(side, b.prices[k], at)
                               ELSE Better(side, at, b.prices[k])
    BY <2>0, PricePlaced
  <2>3. /\ new.prices = InsertAt(b.prices, i, at)
        /\ new.levels = [b.levels EXCEPT ![at] = put]
        /\ new = [prices |-> new.prices, levels |-> new.levels]
    BY ONLY <2>1, <2>2
  <2>4. /\ new.prices \in Seq(Price) /\ Len(new.prices) = len + 1
        /\ DOMAIN new.prices = 1..(len + 1)
        /\ \A k \in 1..(len + 1) :
             new.prices[k] = IF k < i THEN b.prices[k] ELSE IF k = i THEN at ELSE b.prices[k - 1]
    <3>1. at \in Price
      OBVIOUS
    <3> HIDE DEF at
    <3>2. /\ InsertAt(b.prices, i, at) \in Seq(Price) /\ Len(InsertAt(b.prices, i, at)) = len + 1
          /\ \A k \in 1..(len + 1) :
               InsertAt(b.prices, i, at)[k]
                 = IF k < i THEN b.prices[k] ELSE IF k = i THEN at ELSE b.prices[k - 1]
      <4>1. b.prices \in Seq(Price)
        BY <2>0
      <4>2. i \in 1..(Len(b.prices) + 1)
        OBVIOUS
      <4>3. PICK ps : ps = b.prices
        OBVIOUS
      <4>4. ps \in Seq(Price) /\ i \in 1..(Len(ps) + 1)
        BY ONLY <4>1, <4>2, <4>3
      <4>5. InsertAt(ps, i, at) \in Seq(Price) /\ Len(InsertAt(ps, i, at)) = Len(ps) + 1
        BY ONLY <3>1, <4>4, PriceInserted
      <4>6. \A k \in 1..(Len(ps) + 1) :
              InsertAt(ps, i, at)[k] = IF k < i THEN ps[k] ELSE IF k = i THEN at ELSE ps[k - 1]
        BY ONLY <3>1, <4>4, PriceInserted
      <4> QED  BY ONLY <4>3, <4>5, <4>6, Zenon
    <3>3. DOMAIN InsertAt(b.prices, i, at) = 1..(len + 1)
      BY ONLY <3>2
    <3> QED  BY ONLY <2>3, <3>2, <3>3
  <2> HIDE DEF at
  <2>5. /\ new.levels \in [Price -> PriceLevel \cup {None}]
        /\ \A q \in Price : new.levels[q] = IF q = at THEN put ELSE b.levels[q]
        /\ put # None /\ at \in Price
    <3>1. put \in PriceLevel /\ put # None /\ at \in Price
      BY <1>3, NotNone DEF QueueOK, at
    <3> QED  BY ONLY <2>0, <2>3, <3>1
  <2>6. new \in BookSide
    BY ONLY <2>3, <2>4, <2>5 DEF BookSide
  <2>7. BestFirst(side, new.prices)
    <3> SUFFICES ASSUME NEW j \in 1..(len + 1), NEW k \in 1..(len + 1), j < k
                 PROVE  Better(side, new.prices[j], new.prices[k])
      BY <2>4 DEF BestFirst
    <3>0. j \in Nat /\ k \in Nat /\ i \in Nat /\ len \in Nat
      BY <2>0
    <3>1. CASE j < i /\ k < i
      <4>1. j \in 1..len /\ k \in 1..len
        BY <3>0, <3>1
      <4>2. new.prices[j] = b.prices[j] /\ new.prices[k] = b.prices[k]
        BY <2>4, <3>1
      <4> QED  BY <2>0, <4>1, <4>2 DEF BestFirst
    <3>2. CASE j < i /\ k = i
      <4>1. j \in 1..len
        BY <3>0, <3>2
      <4>2. new.prices[j] = b.prices[j] /\ new.prices[k] = at
        BY <2>4, <3>2
      <4> QED  BY <2>2, <3>2, <4>1, <4>2
    <3>3. CASE j < i /\ k > i
      <4>1. j \in 1..len /\ k - 1 \in 1..len /\ j < k - 1
        BY <3>0, <3>3
      <4>2. new.prices[j] = b.prices[j] /\ new.prices[k] = b.prices[k - 1]
        BY ONLY <2>4, <3>0, <3>3, j \in 1..(len + 1), k \in 1..(len + 1)
      <4> QED  BY <2>0, <4>1, <4>2 DEF BestFirst
    <3>4. CASE j = i
      <4>1. k - 1 \in 1..len /\ ~(k - 1 < i) /\ k > i
        BY <3>0, <3>4
      <4>2. new.prices[j] = at /\ new.prices[k] = b.prices[k - 1]
        BY <2>4, <3>0, <3>4, <4>1
      <4> QED  BY <2>2, <4>1, <4>2
    <3>5. CASE j > i
      <4>1. j - 1 \in 1..len /\ k - 1 \in 1..len /\ j - 1 < k - 1 /\ k > i
        BY <3>0, <3>5
      <4>2. new.prices[j] = b.prices[j - 1] /\ new.prices[k] = b.prices[k - 1]
        BY ONLY <2>4, <3>0, <3>5, <4>1, j \in 1..(len + 1), k \in 1..(len + 1)
      <4> QED  BY <2>0, <4>1, <4>2 DEF BestFirst
    <3> QED  BY <3>0, <3>1, <3>2, <3>3, <3>4, <3>5
  <2>8. ASSUME NEW q \in Price
        PROVE  new.levels[q] # None <=> \E k \in DOMAIN new.prices : new.prices[k] = q
    <3>1. b.levels[q] # None <=> \E k \in 1..len : b.prices[k] = q
      BY <2>0 DEF SideOK
    <3>2. ASSUME NEW k \in 1..(len + 1), new.prices[k] = q PROVE new.levels[q] # None
      <4>1. CASE k = i
        <5>1. q = at
          BY <2>4, <3>2, <4>1
        <5> QED  BY <2>5, <5>1
      <4>2. CASE k < i
        <5>1. k \in 1..len /\ b.prices[k] = q
          BY <2>0, <2>4, <3>2, <4>2
        <5> QED  BY <2>5, <3>1, <5>1
      <4>3. CASE k > i
        <5>1. k - 1 \in 1..len /\ b.prices[k - 1] = q
          BY <2>0, <2>4, <3>2, <4>3
        <5> QED  BY <2>5, <3>1, <5>1
      <4> QED  BY <4>1, <4>2, <4>3
    <3>3. ASSUME new.levels[q] # None PROVE \E k \in 1..(len + 1) : new.prices[k] = q
      <4>1. CASE q = at
        <5>1. new.prices[i] = at
          BY <2>4
        <5> QED  BY <4>1, <5>1
      <4>2. CASE q # at
        <5>1. PICK k \in 1..len : b.prices[k] = q
          BY <2>5, <3>1, <3>3, <4>2
        <5>2. CASE k < i
          <6>1. k \in 1..(len + 1) /\ new.prices[k] = q
            BY <2>0, <2>4, <5>1, <5>2
          <6> QED  BY <6>1
        <5>3. CASE ~(k < i)
          <6>1. k + 1 \in 1..(len + 1) /\ ~(k + 1 < i) /\ k + 1 # i /\ (k + 1) - 1 = k
            BY ONLY <2>0, <5>3, k \in 1..len, i \in 1..(len + 1)
          <6>2. new.prices[k + 1] = q
            BY <2>4, <5>1, <6>1
          <6> QED  BY <6>1, <6>2
        <5> QED  BY <5>2, <5>3
      <4> QED  BY <4>1, <4>2
    <3> QED  BY <2>4, <3>2, <3>3
  <2>9. SideOK(new, side, n2)
    <3>1. \A q \in Price : new.levels[q] # None => QueueOK(new.levels[q], side, q, n2)
      BY <1>3, <1>4, <2>5 DEF SideOK
    <3> QED  BY ONLY <2>6, <2>7, <2>8, <3>1 DEF SideOK
  <2>10. AllClean(new)
    BY <1>3, <2>5 DEF AllClean
  <2>11. ASSUME NEW m PROVE m \in LiveIn(new) <=> m \in LiveIn(b) \/ m = o
    <3>1. m \in LiveIn(b) <=>
            m.price \in Price /\ b.levels[m.price] # None /\ m \in LiveAt(b.levels[m.price])
      BY LiveInSide
    <3>2. m \in LiveIn(new) <=>
            m.price \in Price /\ new.levels[m.price] # None /\ m \in LiveAt(new.levels[m.price])
      BY ONLY <2>9, LiveInSide
    <3>3. LiveAt(put) = {o} /\ o.price = at
      BY <1>2, <1>3, <1>6 DEF at
    <3> QED  BY ONLY <1>6, <2>5, <3>1, <3>2, <3>3
  <2> QED  BY <2>9, <2>10, <2>11
<1> QED  BY <1>5, <1>6

LEMMA LiveAtPrice ==
  ASSUME NEW side, NEW n, NEW b, SideOK(b, side, n), NEW p \in Price, b.levels[p] # None
  PROVE  \A m : m \in LiveAt(b.levels[p]) <=> m \in LiveIn(b) /\ m.price = p
<1>1. b \in BookSide /\ QueueOK(b.levels[p], side, p, n) /\ b.levels[p] \in PriceLevel
  BY DEF SideOK, QueueOK
<1>2. ASSUME NEW m, m \in LiveAt(b.levels[p]) PROVE m \in LiveIn(b) /\ m.price = p
  <2>1. m \in LiveIn(b)
    BY <1>1, <1>2, LiveInIs
  <2>2. PICK k \in 1..Len(b.levels[p].orders) : m = b.levels[p].orders[k]
    BY <1>1, <1>2, LiveAtIs
  <2> QED  BY <1>1, <2>1, <2>2 DEF QueueOK
<1>3. ASSUME NEW m, m \in LiveIn(b), m.price = p PROVE m \in LiveAt(b.levels[p])
  BY <1>3, LiveInSide
<1> QED  BY <1>2, <1>3

(* remove takes just the order it is given.                                *)
LEMMA TakenSide ==
  ASSUME NEW side \in Sides, NEW n \in Nat, NEW b, SideOK(b, side, n), AllClean(b),
         NEW o, o \in LiveIn(b)
  PROVE  /\ SideOK(Taken(b, RefOf(o)), side, n) /\ AllClean(Taken(b, RefOf(o)))
         /\ LiveIn(Taken(b, RefOf(o))) = LiveIn(b) \ {o}
<1>1. /\ o.price \in Price /\ b.levels[o.price] # None /\ o \in LiveAt(b.levels[o.price])
      /\ b \in BookSide
  <2>1. \A m : m \in LiveIn(b) <=>
          m.price \in Price /\ b.levels[m.price] # None /\ m \in LiveAt(b.levels[m.price])
    BY ONLY SideOK(b, side, n), LiveInSide
  <2>2. b \in BookSide
    BY DEF SideOK
  <2> QED  BY ONLY <2>1, <2>2, o \in LiveIn(b)
<1>2. PICK p, level, new : /\ p = o.price /\ level = b.levels[p]
                           /\ new = Taken(b, RefOf(o))
  OBVIOUS
<1>3. /\ p \in Price /\ b.levels[p] # None /\ QueueOK(level, side, p, n) /\ Clean(level)
      /\ level \in PriceLevel /\ level # None /\ o \in LiveAt(level)
  BY <1>1, <1>2 DEF SideOK, AllClean, QueueOK
<1>4. PICK i \in 1..Len(level.orders) :
        i > level.head /\ level.orders[i].qty > 0 /\ level.orders[i] = o
  BY ONLY <1>3, LiveAtIs
<1>5. /\ level.head \in Nat /\ Len(level.orders) \in Nat
      /\ \A k \in 1..Len(level.orders) : level.orders[k].seq \in Nat
  BY ONLY <1>3, LevelIs
<1> DEFINE found == {k \in (level.head + 1)..Len(level.orders) : level.orders[k].seq = o.seq}
<1>6. found = {i}
  <2>1. i \in found
    BY ONLY <1>4, <1>5
  <2>2. ASSUME NEW k \in found PROVE k = i
    <3>1. k \in 1..Len(level.orders) /\ level.orders[k].seq = level.orders[i].seq
      BY ONLY <1>4, <1>5, k \in found
    <3>2. level.orders[k].seq \in Nat /\ level.orders[i].seq \in Nat
      BY ONLY <1>5, <3>1, i \in 1..Len(level.orders)
    <3>3. \A x, y \in 1..Len(level.orders) :
            x < y => level.orders[x].seq < level.orders[y].seq
      BY ONLY <1>3 DEF QueueOK
    <3> QED  BY ONLY <1>5, <3>1, <3>2, <3>3, i \in 1..Len(level.orders)
  <2> QED  BY ONLY <2>1, <2>2
<1>7. Min(found) = i
  <2>1. found \in SUBSET Nat /\ found # {}
    BY ONLY <1>5, <1>6, i \in 1..Len(level.orders)
  <2> HIDE DEF found
  <2>2. Min(found) \in found
    BY ONLY <2>1, MinOf
  <2> QED  BY ONLY <1>6, <2>2
<1>8. new = Kept(b, p, LevelWithout(level, i))
  <2>1. RefOf(o).price = p /\ RefOf(o).seq = o.seq
    BY <1>2 DEF RefOf
  <2>2. Taken(b, RefOf(o)) = Kept(b, p, LevelWithout(level, Min(found)))
    <3>1. PICK ref : ref = RefOf(o)
      OBVIOUS
    <3>2. level = b.levels[ref.price] /\ ref.price = p /\ ref.seq = o.seq
      BY ONLY <1>2, <2>1, <3>1
    <3>3. found # {}
      BY ONLY <1>6
    <3>4. found = {k \in (level.head + 1)..Len(level.orders) : level.orders[k].seq = ref.seq}
      BY ONLY <3>2
    <3> HIDE DEF found
    <3>5. Taken(b, ref) = Kept(b, p, LevelWithout(level, Min(found)))
      <4> DEFINE lv == b.levels[ref.price]
                 fd == {k \in (lv.head + 1)..Len(lv.orders) : lv.orders[k].seq = ref.seq}
      <4>1. lv # None /\ fd # {}
        BY ONLY <1>3, <3>2, <3>3, <3>4
      <4>2. Taken(b, ref) = Kept(b, ref.price, LevelWithout(lv, Min(fd)))
        <5>1. Taken(b, ref) =
                IF lv = None \/ fd = {} THEN b
                ELSE Kept(b, ref.price, [lv EXCEPT !.orders = RemoveAt(@, Min(fd)),
                                                   !.total = @ - lv.orders[Min(fd)].qty])
          BY ONLY DEF Taken
        <5>2. [lv EXCEPT !.orders = RemoveAt(@, Min(fd)),
                         !.total = @ - lv.orders[Min(fd)].qty] = LevelWithout(lv, Min(fd))
          BY ONLY DEF LevelWithout
        <5> HIDE DEF lv, fd
        <5>3. ~(lv = None \/ fd = {})
          BY ONLY <4>1
        <5> QED  BY ONLY <5>1, <5>2, <5>3, Zenon
      <4>3. lv = level /\ fd = found
        BY ONLY <3>2, <3>4
      <4> HIDE DEF lv, fd
      <4> QED  BY ONLY <3>2, <4>2, <4>3
    <3> QED  BY ONLY <3>1, <3>5
  <2> HIDE DEF found
  <2> QED  BY <1>2, <1>7, <2>2
<1> HIDE DEF found
<1>9. PICK put : put = LevelWithout(level, i)
  OBVIOUS
<1>10. /\ QueueOK(put, side, p, n)
       /\ put.head < Len(put.orders) => Clean(put)
       /\ LiveAt(put) = LiveAt(level) \ {o}
  <2>1. /\ QueueOK(LevelWithout(level, i), side, p, n)
        /\ Clean(level) /\ LevelWithout(level, i).head < Len(LevelWithout(level, i).orders)
             => Clean(LevelWithout(level, i))
        /\ LiveAt(LevelWithout(level, i)) = LiveAt(level) \ {level.orders[i]}
    BY ONLY n \in Nat, <1>3, <1>4, QueueWithout
  <2> QED  BY ONLY <1>3, <1>4, <1>9, <2>1
<1>11. /\ SideOK(new, side, n)
       /\ (\A q \in Price : q # p /\ b.levels[q] # None => Clean(b.levels[q]))
            /\ (put.head < Len(put.orders) => Clean(put))
          => AllClean(new)
       /\ \A m : m \in LiveIn(new) <=> m \in LiveAt(put) \/ (m \in LiveIn(b) /\ m.price # p)
  BY <1>3, <1>8, <1>9, <1>10, KeptSide
<1>12. AllClean(new)
  BY <1>10, <1>11 DEF AllClean
<1>13. \A m : m \in LiveAt(level) <=> m \in LiveIn(b) /\ m.price = p
  BY <1>2, <1>3, LiveAtPrice
<1>14. LiveIn(new) = LiveIn(b) \ {o}
  BY ONLY <1>2, <1>10, <1>11, <1>13
<1> QED  BY <1>2, <1>11, <1>12, <1>14

(* How much of a queue is consumed.                                        *)
LEMMA ConsumedIs ==
  ASSUME NEW level, NEW side, NEW p, NEW n, QueueOK(level, side, p, n)
  PROVE  /\ Consumed(level) \in level.head..Len(level.orders)
         /\ \A k \in 1..Len(level.orders) :
              k <= Consumed(level) => level.orders[k].qty = 0
         /\ Consumed(level) < Len(level.orders) => level.orders[Consumed(level) + 1].qty > 0
<1> DEFINE len == Len(level.orders)
           live == LiveFrom(level, level.head + 1)
<1>1. /\ level.head \in Nat /\ len \in Nat /\ level.head <= len
      /\ \A k \in 1..len : level.orders[k].qty \in Nat
      /\ \A k \in 1..len : k <= level.head => level.orders[k].qty = 0
  BY LevelIs DEF QueueOK
<1>2. \A k : k \in live <=> k \in 1..len /\ k > level.head /\ level.orders[k].qty > 0
  BY ONLY <1>1 DEF LiveFrom
<1>3. Consumed(level) = IF live = {} THEN len ELSE Min(live) - 1
  BY DEF Consumed
<1> HIDE DEF live
<1>4. CASE live = {}
  <2>1. Consumed(level) = len
    BY <1>3, <1>4
  <2>2. \A k \in 1..len : level.orders[k].qty = 0
    BY ONLY <1>1, <1>2, <1>4
  <2> QED  BY ONLY <1>1, <2>1, <2>2
<1>5. CASE live # {}
  <2>1. live \in SUBSET Nat
    BY ONLY <1>1, <1>2
  <2>2. Min(live) \in live /\ \A y \in live : Min(live) <= y
    BY ONLY <1>5, <2>1, MinOf
  <2>3. PICK m : m = Min(live)
    OBVIOUS
  <2>4. /\ m \in 1..len /\ m > level.head /\ level.orders[m].qty > 0
        /\ \A k \in 1..len : k > level.head /\ level.orders[k].qty > 0 => m <= k
    BY ONLY <1>2, <2>2, <2>3
  <2>5. Consumed(level) = m - 1
    BY ONLY <1>3, <1>5, <2>3
  <2>6. ASSUME NEW k \in 1..len, k <= m - 1 PROVE level.orders[k].qty = 0
    <3>1. ~(m <= k)
      BY ONLY <1>1, <2>4, <2>6, k \in 1..len
    <3>2. k > level.head => ~(level.orders[k].qty > 0)
      BY ONLY <2>4, <3>1, k \in 1..len
    <3>3. level.orders[k].qty \in Nat
      BY ONLY <1>1, k \in 1..len
    <3>4. CASE k > level.head
      BY ONLY <3>2, <3>3, <3>4
    <3>5. CASE ~(k > level.head)
      BY ONLY <1>1, <3>5, k \in 1..len
    <3> QED  BY <3>4, <3>5
  <2>7. m - 1 \in level.head..len /\ (m - 1) + 1 = m
    BY ONLY <1>1, <2>4
  <2> QED  BY ONLY <2>4, <2>5, <2>6, <2>7
<1> QED  BY <1>4, <1>5

(* compact consumes what is used up, and may slice it off.                 *)
LEMMA CompactedSide ==
  ASSUME NEW side \in Sides, NEW n \in Nat, NEW b, SideOK(b, side, n),
         NEW p \in Price, b.levels[p] # None,
         \A q \in Price : q # p /\ b.levels[q] # None => Clean(b.levels[q])
  PROVE  /\ SideOK(Compacted(b, p), side, n) /\ AllClean(Compacted(b, p))
         /\ LiveIn(Compacted(b, p)) = LiveIn(b)
<1>1. PICK level, new : level = b.levels[p] /\ new = Compacted(b, p)
  OBVIOUS
<1>2. QueueOK(level, side, p, n) /\ level \in PriceLevel
  BY <1>1 DEF SideOK, QueueOK
<1>3. PICK h, len : h = Consumed(level) /\ len = Len(level.orders)
  OBVIOUS
<1>4. /\ h \in level.head..len
      /\ \A k \in 1..len : k <= h => level.orders[k].qty = 0
      /\ h < len => level.orders[h + 1].qty > 0
  BY ONLY <1>2, <1>3, ConsumedIs
<1>5. /\ len \in Nat /\ level.head \in Nat /\ level.orders \in Seq(Order)
      /\ h \in Nat /\ h <= len
      /\ \A k \in 1..len : level.orders[k] \in Order
  <2>1. /\ len \in Nat /\ level.head \in Nat /\ level.orders \in Seq(Order)
        /\ \A k \in 1..len : level.orders[k] \in Order
    BY ONLY <1>2, <1>3, LevelIs
  <2> QED  BY ONLY <1>4, <2>1
<1> DEFINE slice == h > Slack /\ 2 * h > len
<1>6. PICK os, d : /\ os = (IF slice THEN SubSeq(level.orders, h + 1, len) ELSE level.orders)
                   /\ d = (IF slice THEN h ELSE 0)
  OBVIOUS
<1>7. new = Kept(b, p, LevelShifted(level, os, h - d))
  <2>1. Compacted(b, p) = Kept(b, p, [level EXCEPT !.orders = os, !.head = IF slice THEN 0 ELSE h])
    BY ONLY <1>1, <1>3, <1>6 DEF Compacted
  <2>3. \A x, y : [level EXCEPT !.orders = x, !.head = y]
                    = [orders |-> x, head |-> y, total |-> level.total]
    BY ONLY <1>2, LevelWith, Zenon
  <2>4. (IF slice THEN 0 ELSE h) = h - d
    BY ONLY <1>5, <1>6
  <2>5. [level EXCEPT !.orders = os, !.head = IF slice THEN 0 ELSE h]
          = [orders |-> os, head |-> IF slice THEN 0 ELSE h, total |-> level.total]
    BY ONLY <2>3, Zenon
  <2> HIDE DEF slice
  <2> QED  BY ONLY <1>1, <2>1, <2>4, <2>5, Zenon DEF LevelShifted
<1>8. MayShift(level, h, d, os, side, p, n)
  <2>1. CASE slice
    <3>1. d = h /\ os = SubSeq(level.orders, h + 1, len)
      BY ONLY <1>6, <2>1
    <3>2. \A k \in (h + 1)..len : level.orders[k] \in Order
      BY ONLY <1>5
    <3>3. /\ os \in Seq(Order)
          /\ Len(os) = IF h + 1 <= len THEN len - (h + 1) + 1 ELSE 0
          /\ \A k \in 1..(len - (h + 1) + 1) : os[k] = level.orders[(h + 1) + k - 1]
      BY ONLY <1>3, <1>5, <3>1, <3>2, SubSeqProperties
    <3>4. Len(os) = len - d
      BY ONLY <1>5, <3>1, <3>3
    <3>5. \A k \in 1..(len - d) : os[k] = level.orders[k + d]
      <4>1. \A k \in 1..(len - d) : k \in 1..(len - (h + 1) + 1) /\ (h + 1) + k - 1 = k + d
        BY ONLY <1>5, <3>1
      <4> QED  BY ONLY <3>3, <4>1
    <3>6. d \in 0..h
      BY ONLY <1>5, <3>1
    <3> QED  BY ONLY n \in Nat, <1>2, <1>3, <1>4, <3>3, <3>4, <3>5, <3>6 DEF MayShift
  <2>2. CASE ~slice
    <3>1. d = 0 /\ os = level.orders
      BY ONLY <1>6, <2>2
    <3>2. /\ d \in 0..h /\ Len(os) = len - d
          /\ \A k \in 1..(len - d) : os[k] = level.orders[k + d]
      BY ONLY <1>3, <1>5, <3>1
    <3> QED  BY ONLY n \in Nat, <1>2, <1>3, <1>4, <1>5, <3>1, <3>2 DEF MayShift
  <2> HIDE DEF slice
  <2> QED  BY <2>1, <2>2
<1>9. PICK put : put = LevelShifted(level, os, h - d)
  OBVIOUS
<1>10. /\ QueueOK(put, side, p, n)
       /\ put.head < Len(put.orders) => Clean(put)
       /\ LiveAt(put) = LiveAt(level)
  <2>1. put.head = h - d /\ put.orders = os
    BY ONLY <1>9 DEF LevelShifted
  <2>2. /\ QueueOK(LevelShifted(level, os, h - d), side, p, n)
        /\ h - d < Len(os) => Clean(LevelShifted(level, os, h - d))
        /\ LiveAt(LevelShifted(level, os, h - d)) = LiveAt(level)
    BY ONLY <1>8, QueueShifted
  <2> QED  BY ONLY <1>9, <2>1, <2>2
<1>11. /\ SideOK(new, side, n)
       /\ (\A q \in Price : q # p /\ b.levels[q] # None => Clean(b.levels[q]))
            /\ (put.head < Len(put.orders) => Clean(put))
          => AllClean(new)
       /\ \A m : m \in LiveIn(new) <=> m \in LiveAt(put) \/ (m \in LiveIn(b) /\ m.price # p)
  BY <1>7, <1>9, <1>10, KeptSide
<1>12. \A m : m \in LiveAt(level) <=> m \in LiveIn(b) /\ m.price = p
  BY <1>1, LiveAtPrice
<1>13. AllClean(new)
  BY <1>10, <1>11
<1>14. LiveIn(new) = LiveIn(b)
  BY ONLY <1>10, <1>11, <1>12
<1> QED  BY <1>1, <1>11, <1>13, <1>14

\* The level of price p becomes put, and the side new, by a trade with order i.
MetBy(side, n, b, p, level, i, left, q, put, new) ==
  /\ SideOK(b, side, n) /\ p \in Price /\ b.levels[p] # None
  /\ level = b.levels[p]
  /\ MayMeet(level, i, left, q, side, p, n)
  /\ put = LevelReduced(level, i, left, q)
  /\ new = SidePut(b, p, put)

(* A trade leaves the maker with less, or takes it out of what rests.      *)
LEMMA MetSide ==
  ASSUME NEW side, NEW n, NEW b, NEW p, NEW level, NEW i, NEW left, NEW q, NEW put, NEW new,
         MetBy(side, n, b, p, level, i, left, q, put, new)
  PROVE  /\ SideOK(new, side, n) /\ new.prices = b.prices
         /\ \A x \in Price : new.levels[x] = IF x = p THEN put ELSE b.levels[x]
         /\ put # None /\ put.head = level.head /\ Len(put.orders) = Len(level.orders)
         /\ put.orders[i] = Lessen(level.orders[i], left)
         /\ \A k \in 1..Len(level.orders) : k # i => put.orders[k] = level.orders[k]
         /\ level.orders[i] \in LiveIn(b)
         /\ LiveIn(new) = (LiveIn(b) \ {level.orders[i]})
                            \cup (IF left > 0 THEN {Lessen(level.orders[i], left)} ELSE {})
<1>a. SideOK(b, side, n) /\ p \in Price /\ b.levels[p] # None /\ level = b.levels[p]
  BY Zenon DEF MetBy
<1>b. MayMeet(level, i, left, q, side, p, n)
  BY Zenon DEF MetBy
<1>c. put = LevelReduced(level, i, left, q)
  BY Zenon DEF MetBy
<1>d. new = SidePut(b, p, put)
  BY Zenon DEF MetBy
<1>1. /\ QueueOK(put, side, p, n)
      /\ put.head = level.head /\ Len(put.orders) = Len(level.orders)
      /\ put.orders[i] = Lessen(level.orders[i], left)
      /\ \A k \in 1..Len(level.orders) : k # i => put.orders[k] = level.orders[k]
      /\ LiveAt(put) = (LiveAt(level) \ {level.orders[i]})
                         \cup (IF left > 0 THEN {Lessen(level.orders[i], left)} ELSE {})
  BY ONLY <1>b, <1>c, QueueMet
<1>2. /\ SideOK(new, side, n)
      /\ \A x \in Price : new.levels[x] = IF x = p THEN put ELSE b.levels[x]
      /\ new.prices = b.prices
      /\ \A o : o \in LiveIn(new) <=> o \in LiveAt(put) \/ (o \in LiveIn(b) /\ o.price # p)
  BY ONLY <1>a, <1>d, <1>1, LevelPut
<1>3. \A o : o \in LiveAt(level) <=> o \in LiveIn(b) /\ o.price = p
  BY ONLY <1>a, LiveAtPrice
<1>4. level.orders[i] \in LiveAt(level)
  BY ONLY <1>b, LiveAtIs DEF MayMeet, QueueOK
<1>5. put # None
  BY ONLY <1>1, NotNone DEF QueueOK
<1>6. PICK m, l : m = level.orders[i] /\ l = Lessen(level.orders[i], left)
  OBVIOUS
<1>7. m \in LiveIn(b) /\ m.price = p
  BY ONLY <1>3, <1>4, <1>6
<1>8. LiveIn(new) = (LiveIn(b) \ {m}) \cup (IF left > 0 THEN {l} ELSE {})
  <2>1. \A o : o \in LiveIn(new) <=> \/ o \in LiveIn(b) /\ o # m
                                     \/ left > 0 /\ o = l
    BY ONLY <1>1, <1>2, <1>3, <1>6, <1>7
  <2> QED  BY ONLY <2>1
<1> QED  BY ONLY <1>1, <1>2, <1>5, <1>6, <1>7, <1>8

-----------------------------------------------------------------------------
(* Both sides, and the index of the orders.                                *)

LiveOf(sd) == LiveIn(sd["buy"]) \cup LiveIn(sd["sell"])

SidesOK(sd, n) == sd \in [Sides -> BookSide] /\ \A s \in Sides : SideOK(sd[s], s, n)

SidesClean(sd) == \A s \in Sides : AllClean(sd[s])

\* The index knows just the orders L, and no two of them came at once.
IdsOK(ids, L) ==
  /\ \A id : id \in DOMAIN ids <=> \E o \in L : o.id = id
  /\ \A o \in L : ids[o.id] = RefOf(o)
  /\ \A o, m \in L : o.seq = m.seq => o = m

LEMMA TwoSides == \A s \in Sides : s = "buy" \/ s = "sell"
BY DEF Sides

LEMMA RefIs ==
  \A o : RefOf(o).side = o.side /\ RefOf(o).price = o.price /\ RefOf(o).seq = o.seq
BY DEF RefOf

LEMMA LiveOfSides ==
  ASSUME NEW sd, NEW n, SidesOK(sd, n)
  PROVE  /\ \A s \in Sides : LiveIn(sd[s]) = {o \in LiveOf(sd) : o.side = s}
         /\ \A o \in LiveOf(sd) : /\ o \in Order /\ o.side \in Sides /\ o.type = "limit"
                                  /\ o.qty \in Nat /\ o.qty > 0 /\ o.seq \in Nat /\ o.seq < n
                                  /\ o.price \in Price /\ o.id \in OrderId
         /\ IsFiniteSet(LiveOf(sd))
<1>1. SideOK(sd["buy"], "buy", n) /\ SideOK(sd["sell"], "sell", n)
  BY DEF SidesOK, Sides
<1>2. /\ \A o \in LiveIn(sd["buy"]) : /\ o \in Order /\ o.side = "buy" /\ o.type = "limit"
                                      /\ o.qty \in Nat /\ o.qty > 0 /\ o.seq < n
                                      /\ o.price \in Price
      /\ IsFiniteSet(LiveIn(sd["buy"]))
  BY ONLY <1>1, LiveInSide
<1>3. /\ \A o \in LiveIn(sd["sell"]) : /\ o \in Order /\ o.side = "sell" /\ o.type = "limit"
                                       /\ o.qty \in Nat /\ o.qty > 0 /\ o.seq < n
                                       /\ o.price \in Price
      /\ IsFiniteSet(LiveIn(sd["sell"]))
  BY ONLY <1>1, LiveInSide
<1>4. LiveIn(sd["buy"]) = {o \in LiveOf(sd) : o.side = "buy"}
  BY ONLY <1>2, <1>3 DEF LiveOf
<1>5. LiveIn(sd["sell"]) = {o \in LiveOf(sd) : o.side = "sell"}
  BY ONLY <1>2, <1>3 DEF LiveOf
<1>6. \A s \in Sides : LiveIn(sd[s]) = {o \in LiveOf(sd) : o.side = s}
  BY ONLY <1>4, <1>5, TwoSides
<1>7. \A o \in LiveOf(sd) : /\ o \in Order /\ o.side \in Sides /\ o.type = "limit"
                            /\ o.qty \in Nat /\ o.qty > 0 /\ o.seq \in Nat /\ o.seq < n
                            /\ o.price \in Price /\ o.id \in OrderId
  BY ONLY <1>2, <1>3, OrderIs DEF LiveOf
<1>8. IsFiniteSet(LiveOf(sd))
  BY ONLY <1>2, <1>3, FS_Union DEF LiveOf
<1> QED  BY ONLY <1>6, <1>7, <1>8

LEMMA EmptySideIs ==
  ASSUME NEW side, NEW n
  PROVE  SideOK(EmptySide, side, n) /\ AllClean(EmptySide) /\ LiveIn(EmptySide) = {}
<1>1. /\ EmptySide.prices = <<>> /\ DOMAIN EmptySide.prices = {}
      /\ \A p \in Price : EmptySide.levels[p] = None
      /\ EmptySide \in BookSide
  BY DEF EmptySide, BookSide
<1>2. SideOK(EmptySide, side, n)
  BY <1>1 DEF SideOK, BestFirst
<1>3. LiveIn(EmptySide) = {}
  BY <1>1, LiveInIs
<1> QED  BY <1>1, <1>2, <1>3 DEF AllClean

\* One side changes.
Changes(new, sd, s, b, n) ==
  /\ SidesOK(sd, n) /\ s \in Sides /\ SideOK(b, s, n)
  /\ new = [sd EXCEPT ![s] = b]

LEMMA SideChanged ==
  ASSUME NEW new, NEW sd, NEW s, NEW b, NEW n, Changes(new, sd, s, b, n)
  PROVE  /\ SidesOK(new, n)
         /\ AllClean(b) /\ (\A x \in Sides : x # s => AllClean(sd[x])) => SidesClean(new)
         /\ LiveOf(new) = {o \in LiveOf(sd) : o.side # s} \cup LiveIn(b)
         /\ \A x \in Sides : new[x] = IF x = s THEN b ELSE sd[x]
<1>1. new = [sd EXCEPT ![s] = b]
  BY DEF Changes
<1>a. SidesOK(sd, n) /\ s \in Sides /\ SideOK(b, s, n)
  BY DEF Changes
<1>2. b \in BookSide /\ sd \in [Sides -> BookSide]
  BY ONLY <1>a DEF SideOK, SidesOK
<1>3. /\ new \in [Sides -> BookSide]
      /\ \A x \in Sides : new[x] = IF x = s THEN b ELSE sd[x]
  BY ONLY <1>a, <1>1, <1>2
<1>4. SidesOK(new, n)
  BY ONLY <1>a, <1>3 DEF SidesOK
<1>5. AllClean(b) /\ (\A x \in Sides : x # s => AllClean(sd[x])) => SidesClean(new)
  BY ONLY <1>a, <1>3 DEF SidesClean
<1>6. \A x \in Sides : LiveIn(sd[x]) = {o \in LiveOf(sd) : o.side = x}
  BY ONLY <1>a, LiveOfSides
<1>7. \A x \in Sides : x # s => LiveIn(new[x]) = {o \in LiveOf(sd) : o.side = x}
  BY ONLY <1>3, <1>6
<1>8. \A o \in LiveOf(sd) : o.side \in Sides
  BY ONLY <1>a, LiveOfSides
<1>9. "buy" \in Sides /\ "sell" \in Sides
  BY DEF Sides
<1>10. LiveOf(new) = {o \in LiveOf(sd) : o.side # s} \cup LiveIn(b)
  <2>1. CASE s = "buy"
    <3>1. LiveIn(new["buy"]) = LiveIn(b) /\ LiveIn(new["sell"]) = {o \in LiveOf(sd) : o.side = "sell"}
      BY ONLY <1>a, <1>3, <1>7, <1>9, <2>1
    <3>2. {o \in LiveOf(sd) : o.side # s} = {o \in LiveOf(sd) : o.side = "sell"}
      BY ONLY <1>8, <2>1, TwoSides
    <3> QED  BY ONLY <3>1, <3>2 DEF LiveOf
  <2>2. CASE s = "sell"
    <3>1. LiveIn(new["sell"]) = LiveIn(b) /\ LiveIn(new["buy"]) = {o \in LiveOf(sd) : o.side = "buy"}
      BY ONLY <1>a, <1>3, <1>7, <1>9, <2>2
    <3>2. {o \in LiveOf(sd) : o.side # s} = {o \in LiveOf(sd) : o.side = "buy"}
      BY ONLY <1>8, <2>2, TwoSides
    <3> QED  BY ONLY <3>1, <3>2 DEF LiveOf
  <2> QED  BY <1>a, <2>1, <2>2, TwoSides
<1> QED  BY ONLY <1>1, <1>3, <1>4, <1>5, <1>10

LEMMA SidesLater ==
  ASSUME NEW n \in Nat, NEW n2 \in Nat, n <= n2, NEW sd, SidesOK(sd, n)
  PROVE  SidesOK(sd, n2)
<1>1. ASSUME NEW s \in Sides PROVE SideOK(sd[s], s, n2)
  <2>1. SideOK(sd[s], s, n)
    BY DEF SidesOK
  <2> QED  BY <2>1, SideLater
<1> QED  BY <1>1 DEF SidesOK

\* A book of orders that came before order n, and an order that may rest in it.
BookIsOK(bk, n) ==
  /\ n \in Nat /\ SidesOK(bk.sides, n) /\ SidesClean(bk.sides)
  /\ IdsOK(bk.byId, LiveOf(bk.sides))
  /\ bk = [sides |-> bk.sides, byId |-> bk.byId]

MayRest(bk, o, n, n2) ==
  /\ BookIsOK(bk, n) /\ n2 \in Nat
  /\ o \in Order /\ o.type = "limit" /\ o.qty > 0 /\ o.seq >= n /\ o.seq < n2
  /\ o.id \notin DOMAIN bk.byId

(* restore puts the order into the book, and nothing else.                 *)
LEMMA RestoredBook ==
  ASSUME NEW bk, NEW o, NEW n, NEW n2, MayRest(bk, o, n, n2)
  PROVE  /\ BookIsOK(Restored(bk, o), n2)
         /\ LiveOf(Restored(bk, o).sides) = LiveOf(bk.sides) \cup {o}
<1>0. PICK s : s = o.side
  OBVIOUS
<1>1. /\ n \in Nat /\ n2 \in Nat /\ SidesOK(bk.sides, n) /\ SidesClean(bk.sides)
      /\ IdsOK(bk.byId, LiveOf(bk.sides))
      /\ o \in Order /\ o.type = "limit" /\ o.qty > 0 /\ o.seq >= n /\ o.seq < n2
      /\ o.id \notin DOMAIN bk.byId
  BY DEF MayRest, BookIsOK
<1>2. o.side = s /\ s \in Sides /\ o.seq \in Nat /\ o.price \in Price /\ o.qty # 0 /\ o.qty \in Nat
  BY ONLY <1>0, <1>1, OrderIs
<1>3. PICK new : new = Restored(bk, o)
  OBVIOUS
<1>4. PICK b : b = bk.sides[s]
  OBVIOUS
<1>5. SideOK(b, s, n) /\ AllClean(b)
  BY ONLY <1>1, <1>2, <1>4 DEF SidesOK, SidesClean
<1>6. PICK b2 : b2 = Added(b, o)
  OBVIOUS
<1>7. new = [sides |-> [bk.sides EXCEPT ![s] = b2],
             byId  |-> [id \in DOMAIN bk.byId \cup {o.id} |->
                          IF id = o.id THEN RefOf(o) ELSE bk.byId[id]]]
  BY ONLY <1>1, <1>2, <1>3, <1>4, <1>6 DEF Restored
<1>8. /\ SideOK(b2, s, n2) /\ AllClean(b2)
      /\ LiveIn(b2) = LiveIn(b) \cup {o}
  <2>1. ComesLast(o, s, o.price, n)
    BY ONLY <1>1, <1>2 DEF ComesLast
  <2>3. /\ SideOK(Added(b, o), s, n2) /\ AllClean(Added(b, o))
        /\ LiveIn(Added(b, o)) = LiveIn(b) \cup {o}
    BY <1>1, <1>2, <1>5, <2>1, AddedSide
  <2> QED  BY ONLY <1>6, <2>3
<1>9. SidesOK(bk.sides, n2)
  <2>1. n <= n2
    BY ONLY <1>1, <1>2
  <2> QED  BY ONLY <1>1, <2>1, SidesLater
<1>10. PICK sd, new2 : sd = bk.sides /\ new2 = [bk.sides EXCEPT ![s] = b2]
  OBVIOUS
<1>11. /\ SidesOK(new2, n2) /\ SidesClean(new2)
       /\ LiveOf(new2) = {m \in LiveOf(sd) : m.side # s} \cup LiveIn(b2)
  <2>1. Changes(new2, sd, s, b2, n2)
    BY ONLY <1>2, <1>8, <1>9, <1>10 DEF Changes
  <2>2. /\ SidesOK(new2, n2)
        /\ AllClean(b2) /\ (\A x \in Sides : x # s => AllClean(sd[x])) => SidesClean(new2)
        /\ LiveOf(new2) = {m \in LiveOf(sd) : m.side # s} \cup LiveIn(b2)
    BY ONLY <2>1, SideChanged
  <2>3. \A x \in Sides : AllClean(sd[x])
    BY ONLY <1>1, <1>10 DEF SidesClean
  <2> QED  BY ONLY <1>8, <2>1, <2>2, <2>3
<1>12. LiveOf(new2) = LiveOf(sd) \cup {o}
  <2>1. \A x \in Sides : LiveIn(sd[x]) = {m \in LiveOf(sd) : m.side = x}
    BY ONLY <1>1, <1>10, LiveOfSides
  <2>2. LiveIn(b) = {m \in LiveOf(sd) : m.side = s}
    BY ONLY <1>2, <1>4, <1>10, <2>1
  <2> QED  BY ONLY <1>8, <1>11, <2>2
<1>13. new.sides = new2 /\ DOMAIN new.byId = DOMAIN bk.byId \cup {o.id}
  BY ONLY <1>7, <1>10
<1>14. /\ new.byId[o.id] = RefOf(o)
       /\ \A id \in DOMAIN bk.byId : new.byId[id] = bk.byId[id]
       /\ new = [sides |-> new.sides, byId |-> new.byId]
  BY ONLY <1>1, <1>7
<1>15. IdsOK(new.byId, LiveOf(new2))
  <2>1. \A m \in LiveOf(sd) : m.seq < n /\ m.seq \in Nat
    BY ONLY <1>1, <1>10, LiveOfSides
  <2>2. \A m \in LiveOf(sd) : m.seq # o.seq
    BY ONLY <1>1, <1>2, <2>1
  <2>3. IdsOK(bk.byId, LiveOf(sd))
    BY ONLY <1>1, <1>10
  <2>4. \A id : id \in DOMAIN new.byId <=> \E m \in LiveOf(new2) : m.id = id
    BY ONLY <1>12, <1>13, <2>3 DEF IdsOK
  <2>5. \A m \in LiveOf(new2) : new.byId[m.id] = RefOf(m)
    BY ONLY <1>12, <1>14, <2>3 DEF IdsOK
  <2>6. \A m, l \in LiveOf(new2) : m.seq = l.seq => m = l
    BY ONLY <1>12, <2>2, <2>3 DEF IdsOK
  <2> QED  BY ONLY <2>4, <2>5, <2>6 DEF IdsOK
<1> QED  BY ONLY <1>1, <1>3, <1>10, <1>11, <1>12, <1>13, <1>14, <1>15 DEF BookIsOK

-----------------------------------------------------------------------------
(* The restart.                                                            *)

(* Orders in the order they came: all of them, none twice.                 *)
LEMMA InOrderAll ==
  ASSUME NEW S, IsFiniteSet(S), \A o \in S : o.seq \in Nat,
         \A o, m \in S : o.seq = m.seq => o = m
  PROVE  /\ Cardinality(S) \in Nat
         /\ InOrder(S) \in [1..Cardinality(S) -> S]
         /\ \A o \in S : \E k \in 1..Cardinality(S) : InOrder(S)[k] = o
         /\ \A k, l \in 1..Cardinality(S) : k < l => InOrder(S)[k].seq < InOrder(S)[l].seq
<1> DEFINE n == Cardinality(S)
           R == {ba \in S \X S : ba[1].seq < ba[2].seq}
           rank(a) == Cardinality({b \in S : b.seq < a.seq})
<1>1. n \in Nat
  BY FS_CardinalityType
<1>2. StrictOrder(R, S) /\ \A a, b \in S : <<a, b>> \in R <=> a.seq < b.seq
  <2>1. \A a, b \in S : <<a, b>> \in R <=> a.seq < b.seq
    OBVIOUS
  <2>2. \A a \in S : a.seq \in Nat
    OBVIOUS
  <2>3. \A a, b \in S : a = b \/ a.seq < b.seq \/ b.seq < a.seq
    OBVIOUS
  <2> HIDE DEF R
  <2> QED  BY ONLY <2>1, <2>2, <2>3 DEF StrictOrder
<1>3. ASSUME NEW a \in S PROVE RankIn(R, S, a) = rank(a)
  <2>1. {b \in S : <<b, a>> \in R} = {b \in S : b.seq < a.seq}
    OBVIOUS
  <2> QED  BY <2>1 DEF RankIn
<1>4. \A a \in S : rank(a) \in 0..(n - 1)
  <2> HIDE DEF R, rank
  <2>1. \A a \in S : RankIn(R, S, a) \in 0..(Cardinality(S) - 1)
    BY <1>2, RankBounds
  <2> QED  BY <1>3, <2>1
<1>5. \A k \in 0..(n - 1) : \E a \in S : rank(a) = k
  <2> HIDE DEF R, rank
  <2>1. \A k \in 0..(Cardinality(S) - 1) : \E a \in S : RankIn(R, S, a) = k
    BY ONLY IsFiniteSet(S), <1>2, RankTaken
  <2> QED  BY <1>3, <2>1
<1>6. ASSUME NEW a \in S, NEW b \in S, a.seq < b.seq PROVE rank(a) < rank(b)
  <2> HIDE DEF R, rank
  <2>1. <<a, b>> \in R
    BY <1>2, <1>6
  <2>2. RankIn(R, S, a) < RankIn(R, S, b)
    BY ONLY IsFiniteSet(S), <1>2, <2>1, a \in S, b \in S, RankBounds
  <2> QED  BY <1>3, <2>2
<1>7. InOrder(S) = [k \in 1..n |-> CHOOSE a \in S : rank(a) = k - 1]
  BY DEF InOrder
<1> HIDE DEF R, rank, n
<1>8. ASSUME NEW k \in 1..n PROVE InOrder(S)[k] \in S /\ rank(InOrder(S)[k]) = k - 1
  <2>1. k - 1 \in 0..(n - 1)
    BY <1>1
  <2>2. \E a \in S : rank(a) = k - 1
    BY <1>5, <2>1
  <2> QED  BY <1>7, <2>2
<1>9. \A a, b \in S : rank(a) = rank(b) => a = b
  <2> SUFFICES ASSUME NEW a \in S, NEW b \in S, rank(a) = rank(b), a # b PROVE FALSE
    OBVIOUS
  <2>1. a.seq < b.seq \/ b.seq < a.seq
    OBVIOUS
  <2>2. rank(a) < rank(b) \/ rank(b) < rank(a)
    BY <1>6, <2>1
  <2>3. rank(a) \in Int /\ rank(b) \in Int
    BY <1>1, <1>4
  <2> QED  BY ONLY <2>2, <2>3, rank(a) = rank(b)
<1>10. ASSUME NEW a \in S PROVE \E k \in 1..n : InOrder(S)[k] = a
  <2>1. rank(a) + 1 \in 1..n /\ (rank(a) + 1) - 1 = rank(a)
    BY <1>1, <1>4
  <2>2. InOrder(S)[rank(a) + 1] = a
    BY <1>8, <1>9, <2>1
  <2> QED  BY <2>1, <2>2
<1>11. ASSUME NEW k \in 1..n, NEW l \in 1..n, k < l
       PROVE  InOrder(S)[k].seq < InOrder(S)[l].seq
  <2>1. PICK a \in S, b \in S : /\ a = InOrder(S)[k] /\ b = InOrder(S)[l]
                                /\ rank(a) = k - 1 /\ rank(b) = l - 1
    BY <1>8
  <2>2. a.seq \in Nat /\ b.seq \in Nat /\ (a.seq = b.seq => a = b)
    OBVIOUS
  <2>3. ~(b.seq < a.seq) /\ a # b
    <3>1. rank(a) < rank(b) /\ ~(rank(b) < rank(a))
      BY ONLY <2>1, <1>11, k \in 1..n, l \in 1..n
    <3>2. ~(rank(a) < rank(a))
      BY ONLY <2>1, k \in 1..n
    <3> QED  BY <1>6, <3>1, <3>2
  <2> QED  BY ONLY <2>1, <2>2, <2>3
<1>12. InOrder(S) \in [1..n -> S]
  <2>1. InOrder(S) = [k \in 1..n |-> InOrder(S)[k]]
    BY ONLY <1>7
  <2> QED  BY ONLY <1>8, <2>1
<1> QED  BY <1>1, <1>10, <1>11, <1>12 DEF n

EmptyBook == [sides |-> [side \in Sides |-> EmptySide], byId |-> [id \in {} |-> None]]

\* f tells the book after k of the orders.
Restores(f, orders, n) ==
  f = [k \in 0..n |-> IF k = 0 THEN EmptyBook ELSE Restored(f[k - 1], orders[k])]

LEMMA BookOfIs ==
  ASSUME NEW orders
  PROVE  BookOf(orders) = (CHOOSE f : Restores(f, orders, Len(orders)))[Len(orders)]
  BY Zenon DEF BookOf, Restores, EmptyBook

LEMMA RestoresExists ==
  ASSUME NEW orders, NEW n \in Nat
  PROVE  \E f : Restores(f, orders, n)
<1> DEFINE Bad == {m \in Nat : ~(\E f : Restores(f, orders, m))}
<1>1. ASSUME Bad # {} PROVE FALSE
  <2>1. PICK m \in Bad : \A k \in Bad : m <= k
    <3>1. Bad \in SUBSET Nat
      OBVIOUS
    <3> HIDE DEF Bad
    <3> QED  BY <1>1, <3>1, LeastNat
  <2>2. m \in Nat /\ ~(\E f : Restores(f, orders, m))
    OBVIOUS
  <2>3. CASE m = 0
    <3> DEFINE g == [k \in 0..0 |-> EmptyBook]
    <3>1. g = [k \in 0..0 |-> IF k = 0 THEN EmptyBook ELSE Restored(g[k - 1], orders[k])]
      OBVIOUS
    <3> HIDE DEF g
    <3>2. Restores(g, orders, 0)
      BY ONLY <3>1 DEF Restores
    <3> QED  BY <2>2, <2>3, <3>2
  <2>4. CASE m # 0
    <3>1. m - 1 \in Nat /\ \E f : Restores(f, orders, m - 1)
      <4>1. m - 1 \in Nat /\ m - 1 \notin Bad
        <5> HIDE DEF Bad
        <5> QED  BY <2>1, <2>2, <2>4
      <4> QED  BY <4>1
    <3>2. PICK f : Restores(f, orders, m - 1)
      BY <3>1
    <3> DEFINE g == [k \in 0..m |-> IF k = 0 THEN EmptyBook ELSE Restored(f[k - 1], orders[k])]
    <3>3. ASSUME NEW k \in 0..m, k # 0 PROVE k - 1 \in 0..(m - 1) /\ k - 1 \in 0..m
      BY <2>2, <3>3
    <3>4. ASSUME NEW k \in 0..(m - 1) PROVE g[k] = f[k]
      <4>1. k \in 0..m
        BY <2>2
      <4>2. f[k] = IF k = 0 THEN EmptyBook ELSE Restored(f[k - 1], orders[k])
        BY <3>2 DEF Restores
      <4> QED  BY <4>1, <4>2
    <3>5. ASSUME NEW k \in 0..m
          PROVE  g[k] = IF k = 0 THEN EmptyBook ELSE Restored(g[k - 1], orders[k])
      <4>1. g[k] = IF k = 0 THEN EmptyBook ELSE Restored(f[k - 1], orders[k])
        OBVIOUS
      <4> HIDE DEF g
      <4> QED  BY <3>3, <3>4, <4>1
    <3>6. Restores(g, orders, m)
      <4>1. g = [k \in 0..m |-> g[k]]
        OBVIOUS
      <4> HIDE DEF g
      <4> QED  BY <3>5, <4>1 DEF Restores
    <3> QED  BY <2>2, <3>6
  <2> QED  BY <2>3, <2>4
<1> QED  BY <1>1

(* Restored in the order they came, the orders of a book give that book.   *)
MayRestore(orders, n) ==
  /\ n \in Nat
  /\ \A k \in 1..n : /\ orders[k] \in Order /\ orders[k].type = "limit"
                      /\ orders[k].qty > 0 /\ orders[k].seq \in Nat
  /\ \A k, l \in 1..n : k < l => /\ orders[k].seq < orders[l].seq
                                  /\ orders[k].id # orders[l].id

BoundAt(orders, k) == IF k = 0 THEN 0 ELSE orders[k].seq + 1

LEMMA RestoresAll ==
  ASSUME NEW n, NEW orders, NEW f, Restores(f, orders, n), MayRestore(orders, n)
  PROVE  \A k \in 0..n : /\ BookIsOK(f[k], BoundAt(orders, k))
                         /\ LiveOf(f[k].sides) = {orders[j] : j \in 1..k}
<1>0. /\ n \in Nat
      /\ \A k \in 1..n : /\ orders[k] \in Order /\ orders[k].type = "limit"
                          /\ orders[k].qty > 0 /\ orders[k].seq \in Nat
      /\ \A k, l \in 1..n : k < l => /\ orders[k].seq < orders[l].seq
                                      /\ orders[k].id # orders[l].id
  BY DEF MayRestore
<1> DEFINE B(k) == BoundAt(orders, k)
           Good(k) == /\ BookIsOK(f[k], B(k))
                      /\ LiveOf(f[k].sides) = {orders[j] : j \in 1..k}
           Bad == {k \in 0..n : ~Good(k)}
<1>1. ASSUME Bad # {} PROVE FALSE
  <2>1. PICK k \in Bad : \A j \in Bad : k <= j
    <3>1. Bad \in SUBSET Nat
      BY <1>0
    <3> HIDE DEF Bad
    <3> QED  BY <1>1, <3>1, LeastNat
  <2>2. k \in 0..n /\ ~Good(k)
    OBVIOUS
  <2>3. f[k] = IF k = 0 THEN EmptyBook ELSE Restored(f[k - 1], orders[k])
    BY <2>2 DEF Restores
  <2>4. CASE k = 0
    <3>1. f[k] = EmptyBook /\ B(k) = 0
      BY <2>3, <2>4 DEF BoundAt
    <3>2. /\ EmptyBook.sides = [side \in Sides |-> EmptySide]
          /\ DOMAIN EmptyBook.byId = {}
          /\ EmptyBook = [sides |-> EmptyBook.sides, byId |-> EmptyBook.byId]
      BY DEF EmptyBook
    <3>3. \A s \in Sides : /\ EmptyBook.sides[s] = EmptySide
                           /\ SideOK(EmptyBook.sides[s], s, 0) /\ AllClean(EmptyBook.sides[s])
      BY <3>2, EmptySideIs
    <3>4. SidesOK(EmptyBook.sides, 0) /\ SidesClean(EmptyBook.sides)
      <4>1. EmptySide \in BookSide
        BY EmptySideIs DEF SideOK
      <4>2. EmptyBook.sides \in [Sides -> BookSide]
        BY <3>2, <4>1
      <4> QED  BY <3>3, <4>2 DEF SidesOK, SidesClean
    <3>5. LiveOf(EmptyBook.sides) = {}
      <4>1. "buy" \in Sides /\ "sell" \in Sides
        BY DEF Sides
      <4> QED  BY <3>3, <4>1, EmptySideIs DEF LiveOf
    <3>6. BookIsOK(EmptyBook, 0)
      BY <3>2, <3>4, <3>5 DEF BookIsOK, IdsOK
    <3>7. {orders[j] : j \in 1..0} = {}
      OBVIOUS
    <3> HIDE DEF B
    <3> QED  BY <2>2, <2>4, <3>1, <3>5, <3>6, <3>7
  <2>5. CASE k # 0
    <3>1. k \in 1..n /\ k - 1 \in 0..n /\ k - 1 \notin Bad
      <4>1. k \in 1..n /\ k - 1 \in 0..n /\ ~(k <= k - 1)
        BY <1>0, <2>2, <2>5
      <4> HIDE DEF Bad
      <4> QED  BY <2>1, <4>1
    <3>2. /\ BookIsOK(f[k - 1], B(k - 1))
          /\ LiveOf(f[k - 1].sides) = {orders[j] : j \in 1..(k - 1)}
      BY <3>1
    <3>3. PICK o, bk : o = orders[k] /\ bk = f[k - 1]
      OBVIOUS
    <3>4. o.seq \in Nat /\ B(k - 1) <= o.seq /\ B(k - 1) \in Nat
      <4>1. CASE k - 1 = 0
        BY <1>0, <3>1, <3>3, <4>1 DEF BoundAt
      <4>2. CASE k - 1 # 0
        <5>1. k - 1 \in 1..n /\ k - 1 < k
          BY ONLY <3>1, <4>2
        <5>2. orders[k - 1].seq < orders[k].seq /\ orders[k - 1].seq \in Nat /\ orders[k].seq \in Nat
          BY <1>0, <3>1, <5>1
        <5>3. B(k - 1) = orders[k - 1].seq + 1
          BY <4>2 DEF BoundAt
        <5> HIDE DEF B
        <5> QED  BY ONLY <3>3, <5>2, <5>3
      <4> QED  BY <4>1, <4>2
    <3>5. B(k) = o.seq + 1
      BY <2>5, <3>3 DEF BoundAt
    <3> HIDE DEF B
    <3>6. o.id \notin DOMAIN bk.byId
      <4>1. IdsOK(bk.byId, LiveOf(bk.sides))
        BY <3>2, <3>3 DEF BookIsOK
      <4>2. \A j \in 1..(k - 1) : j \in 1..n /\ j < k
        BY ONLY <1>0, <3>1
      <4>3. \A j \in 1..(k - 1) : orders[j].id # o.id
        BY <1>0, <3>1, <3>3, <4>2
      <4>4. \A m \in LiveOf(bk.sides) : m.id # o.id
        BY ONLY <3>2, <3>3, <4>3
      <4> QED  BY ONLY <4>1, <4>4 DEF IdsOK
    <3>7. MayRest(bk, o, B(k - 1), B(k))
      <4>1. o \in Order /\ o.type = "limit" /\ o.qty > 0
        BY <1>0, <3>1, <3>3
      <4>2. o.seq >= B(k - 1) /\ o.seq < B(k) /\ B(k) \in Nat
        BY ONLY <3>4, <3>5
      <4> QED  BY ONLY <3>2, <3>3, <3>6, <4>1, <4>2 DEF MayRest
    <3>8. /\ BookIsOK(Restored(bk, o), B(k))
          /\ LiveOf(Restored(bk, o).sides) = LiveOf(bk.sides) \cup {o}
      BY ONLY <3>7, RestoredBook
    <3>9. f[k] = Restored(bk, o)
      BY <2>3, <2>5, <3>3
    <3>10. {orders[j] : j \in 1..(k - 1)} \cup {o} = {orders[j] : j \in 1..k}
      <4>1. 1..k = 1..(k - 1) \cup {k}
        BY ONLY <3>1
      <4> QED  BY ONLY <3>3, <4>1
    <3> QED  BY <2>2, <3>2, <3>3, <3>8, <3>9, <3>10
  <2> QED  BY <2>4, <2>5
<1>2. \A k \in 0..n : Good(k)
  BY <1>1
<1> QED  BY <1>2

LEMMA Rebuilt ==
  ASSUME NEW sd, NEW ids, NEW n \in Nat, SidesOK(sd, n), IdsOK(ids, LiveOf(sd))
  PROVE  /\ BookIsOK(BookOf(InOrder(LiveOf(sd))), n)
         /\ LiveOf(BookOf(InOrder(LiveOf(sd))).sides) = LiveOf(sd)
<1>1. PICK L, orders, c : L = LiveOf(sd) /\ orders = InOrder(L) /\ c = Cardinality(L)
  OBVIOUS
<1>2. /\ \A o \in L : /\ o \in Order /\ o.type = "limit" /\ o.qty > 0
                      /\ o.seq \in Nat /\ o.seq < n
      /\ IsFiniteSet(L)
  BY ONLY SidesOK(sd, n), <1>1, LiveOfSides
<1>3. /\ \A o, m \in L : o.seq = m.seq => o = m
      /\ \A o, m \in L : o.id = m.id => o = m
  <2>1. IdsOK(ids, L)
    BY <1>1
  <2>2. \A o \in L : ids[o.id] = RefOf(o)
    BY ONLY <2>1 DEF IdsOK
  <2>3. \A o \in L : RefOf(o).seq = o.seq
    BY ONLY RefIs
  <2> QED  BY ONLY <2>1, <2>2, <2>3 DEF IdsOK
<1>4. /\ c \in Nat /\ orders \in [1..c -> L]
      /\ \A o \in L : \E k \in 1..c : orders[k] = o
      /\ \A k, l \in 1..c : k < l => orders[k].seq < orders[l].seq
  BY <1>1, <1>2, <1>3, InOrderAll
<1>5. Len(orders) = c
  BY ONLY <1>4
<1>6. PICK f : f = CHOOSE g : Restores(g, orders, c)
  OBVIOUS
<1>7. Restores(f, orders, c) /\ BookOf(orders) = f[c]
  BY ONLY <1>4, <1>5, <1>6, BookOfIs, RestoresExists
<1>8. \A k, l \in 1..c : k < l => /\ orders[k].seq < orders[l].seq
                                  /\ orders[k].id # orders[l].id
  <2>1. \A k \in 1..c : orders[k] \in L /\ orders[k].seq \in Nat
    BY ONLY <1>2, <1>4
  <2> SUFFICES ASSUME NEW k \in 1..c, NEW l \in 1..c, k < l
               PROVE  orders[k].seq < orders[l].seq /\ orders[k].id # orders[l].id
    OBVIOUS
  <2>2. orders[k].seq < orders[l].seq /\ orders[k].seq # orders[l].seq
    BY <1>4, <2>1
  <2> QED  BY <1>3, <2>1, <2>2
<1>9. \A k \in 1..c : /\ orders[k] \in Order /\ orders[k].type = "limit"
                      /\ orders[k].qty > 0 /\ orders[k].seq \in Nat /\ orders[k].seq < n
  BY ONLY <1>2, <1>4
<1>10. \A k \in 0..c : /\ BookIsOK(f[k], BoundAt(orders, k))
                       /\ LiveOf(f[k].sides) = {orders[j] : j \in 1..k}
  <2>1. MayRestore(orders, c)
    BY ONLY <1>4, <1>8, <1>9 DEF MayRestore
  <2> QED  BY ONLY <1>7, <2>1, RestoresAll
<1>11. LiveOf(f[c].sides) = L
  <2>1. LiveOf(f[c].sides) = {orders[j] : j \in 1..c}
    <3>1. c \in 0..c
      BY ONLY <1>4
    <3> QED  BY ONLY <1>10, <3>1
  <2> QED  BY ONLY <1>4, <2>1
<1>12. BookIsOK(f[c], n)
  <2> DEFINE last == BoundAt(orders, c)
  <2>1. BookIsOK(f[c], last)
    <3>1. c \in 0..c
      BY ONLY <1>4
    <3> QED  BY ONLY <1>10, <3>1
  <2>2. last \in Nat /\ last <= n
    BY ONLY <1>4, <1>9, n \in Nat DEF BoundAt
  <2> HIDE DEF last
  <2>3. SidesOK(f[c].sides, n)
    <3>1. SidesOK(f[c].sides, last)
      BY <2>1 DEF BookIsOK
    <3> QED  BY ONLY n \in Nat, <2>2, <3>1, SidesLater
  <2> QED  BY <2>1, <2>3 DEF BookIsOK
<1> QED  BY ONLY <1>1, <1>7, <1>11, <1>12

-----------------------------------------------------------------------------
(* What the taker meets.                                                   *)

LEMMA BestOfSide ==
  ASSUME NEW b, NEW side, NEW n, SideOK(b, side, n)
  PROVE  /\ b.prices # <<>> =>
              /\ b.prices[1] \in Price /\ b.levels[b.prices[1]] # None
              /\ QueueOK(b.levels[b.prices[1]], side, b.prices[1], n)
              /\ \A x \in LiveIn(b) :
                   x.price = b.prices[1] \/ Better(side, b.prices[1], x.price)
         /\ b.prices = <<>> => LiveIn(b) = {}
<1>1. /\ b \in BookSide /\ BestFirst(side, b.prices)
      /\ \A p \in Price : b.levels[p] # None <=> \E i \in DOMAIN b.prices : b.prices[i] = p
      /\ \A p \in Price : b.levels[p] # None => QueueOK(b.levels[p], side, p, n)
  BY DEF SideOK
<1>2. /\ b.prices \in Seq(Price) /\ Len(b.prices) \in Nat
      /\ DOMAIN b.prices = 1..Len(b.prices)
  BY ONLY <1>1, SideIs
<1>3. \A x \in LiveIn(b) : x.price \in Price /\ b.levels[x.price] # None
  BY ONLY SideOK(b, side, n), LiveInSide
<1>4. \A x \in LiveIn(b) : \E i \in 1..Len(b.prices) : b.prices[i] = x.price
  BY ONLY <1>1, <1>2, <1>3
<1>5. CASE b.prices = <<>>
  <2>1. Len(b.prices) = 0
    BY <1>5
  <2> QED  BY ONLY <1>4, <1>5, <2>1
<1>6. CASE b.prices # <<>>
  <2>1. 1 \in 1..Len(b.prices)
    BY ONLY <1>2, <1>6
  <2>2. b.prices[1] \in Price
    BY ONLY <1>2, <2>1
  <2>3. b.levels[b.prices[1]] # None
    BY ONLY <1>1, <1>2, <2>1, <2>2
  <2>4. ASSUME NEW x \in LiveIn(b)
        PROVE  x.price = b.prices[1] \/ Better(side, b.prices[1], x.price)
    <3>1. PICK i \in 1..Len(b.prices) : b.prices[i] = x.price
      BY <1>4
    <3>2. i = 1 \/ 1 < i
      BY ONLY <1>2, i \in 1..Len(b.prices)
    <3>3. 1 < i => Better(side, b.prices[1], b.prices[i])
      BY ONLY <1>1, <1>2, <2>1, i \in 1..Len(b.prices) DEF BestFirst
    <3> QED  BY ONLY <3>1, <3>2, <3>3
  <2> QED  BY ONLY <1>1, <1>6, <2>2, <2>3, <2>4
<1> QED  BY <1>5, <1>6

\* Position i of the queue is the first with something left.
FirstLive(level, i) ==
  /\ i \in 1..Len(level.orders) /\ i > level.head /\ level.orders[i].qty > 0
  /\ \A k \in 1..Len(level.orders) : k < i => level.orders[k].qty = 0

LEMMA FrontOfSide ==
  ASSUME NEW b, NEW side, NEW n, SideOK(b, side, n), b.prices # <<>>,
         NEW i, FirstLive(b.levels[b.prices[1]], i)
  PROVE  /\ b.levels[b.prices[1]].orders[i] \in LiveIn(b)
         /\ b.levels[b.prices[1]].orders[i].price = b.prices[1]
         /\ \A x \in LiveIn(b) : \/ x = b.levels[b.prices[1]].orders[i]
                                 \/ Ahead(b.levels[b.prices[1]].orders[i], x)
<1>1. PICK p, level, m : p = b.prices[1] /\ level = b.levels[p] /\ m = level.orders[i]
  OBVIOUS
<1>2. /\ p \in Price /\ b.levels[p] # None /\ QueueOK(level, side, p, n)
      /\ \A x \in LiveIn(b) : x.price = p \/ Better(side, p, x.price)
  BY ONLY SideOK(b, side, n), b.prices # <<>>, <1>1, BestOfSide
<1>3. FirstLive(level, i) /\ level \in PriceLevel
  BY ONLY FirstLive(b.levels[b.prices[1]], i), <1>1, <1>2 DEF QueueOK
<1>4. m \in LiveAt(level)
  BY ONLY <1>1, <1>3, LiveAtIs DEF FirstLive
<1>5. \A x : x \in LiveAt(level) <=> x \in LiveIn(b) /\ x.price = p
  BY ONLY SideOK(b, side, n), <1>1, <1>2, LiveAtPrice
<1>6. m \in LiveIn(b) /\ m.price = p /\ m.side = side
  <2>1. m.side = side
    BY ONLY <1>1, <1>2, <1>3 DEF QueueOK, FirstLive
  <2> QED  BY ONLY <1>4, <1>5, <2>1
<1>7. ASSUME NEW x \in LiveIn(b) PROVE x = m \/ Ahead(m, x)
  <2>1. CASE x.price # p
    BY ONLY <1>2, <1>6, <2>1, x \in LiveIn(b) DEF Ahead
  <2>2. CASE x.price = p
    <3>1. x \in LiveAt(level)
      BY ONLY <1>5, <2>2, x \in LiveIn(b)
    <3>2. PICK k \in 1..Len(level.orders) : level.orders[k].qty > 0 /\ x = level.orders[k]
      BY ONLY <1>3, <3>1, LiveAtIs
    <3>3. i \in 1..Len(level.orders) /\ Len(level.orders) \in Nat
      BY ONLY <1>3, LevelIs DEF FirstLive
    <3>4. ~(k < i)
      <4> SUFFICES ASSUME k < i PROVE FALSE
        OBVIOUS
      <4>1. level.orders[k].qty = 0
        BY <1>3 DEF FirstLive
      <4> QED  BY ONLY <3>2, <4>1
    <3>5. CASE k = i
      BY ONLY <1>1, <3>2, <3>5
    <3>6. CASE i < k
      <4>1. m.seq < x.seq
        BY ONLY <1>1, <1>2, <3>2, <3>3, <3>6, k \in 1..Len(level.orders) DEF QueueOK
      <4> QED  BY ONLY <1>6, <2>2, <4>1 DEF Ahead
    <3> QED  BY ONLY <3>3, <3>4, <3>5, <3>6, k \in 1..Len(level.orders)
  <2> QED  BY <2>1, <2>2
<1> QED  BY ONLY <1>1, <1>6, <1>7

LEMMA CrossesBest ==
  ASSUME NEW t, t.side \in Sides, t.price \in Nat, NEW side, side # t.side, side \in Sides,
         NEW p \in Price, ~Crosses(t, p), NEW q \in Price, q = p \/ Better(side, p, q)
  PROVE  ~Crosses(t, q)
<1>1. p \in Nat /\ q \in Nat
  BY Prices
<1> QED  BY ONLY <1>1, t.side \in Sides, t.price \in Nat, side # t.side, side \in Sides,
                 ~Crosses(t, p), q = p \/ Better(side, p, q) DEF Crosses, Better, Sides

-----------------------------------------------------------------------------
(* The invariant.                                                          *)

\* What rests came before this one.
Bound == IF taker = None THEN nextSeq ELSE taker.seq

LevelsOK == SidesOK(sides, Bound) /\ IdsOK(byId, LiveOf(sides))

CallOK ==
  /\ nextSeq \in Nat /\ inner \in Nat /\ selfTrade \in BOOLEAN
  /\ taker \in Order \cup {None}
  /\ taker = None => inner = 0 /\ selfTrade = FALSE
  /\ taker # None => taker.seq < nextSeq /\ taker.id \notin DOMAIN byId

\* The user's own order that was met is still the first in the queue.
StopOK == selfTrade => taker # None /\ taker.qty > 0 /\ Book!SelfTrade

\* Inside the inner loop, only the best level may have a consumed head to skip.
LoopOK ==
  IF inner = 0 THEN SidesClean(sides)
  ELSE /\ taker # None /\ ~selfTrade
       /\ opposite.prices # <<>> /\ Crosses(taker, best)
       /\ AllClean(sides[taker.side])
       /\ \A p \in Price : p # best /\ opposite.levels[p] # None => Clean(opposite.levels[p])
       /\ opposite.levels[best].head < inner
       /\ taker.qty > 0 =>
            \A k \in 1..Len(opposite.levels[best].orders) :
              k < inner => opposite.levels[best].orders[k].qty = 0

LevelsInv == LevelsOK /\ CallOK /\ StopOK /\ LoopOK

-----------------------------------------------------------------------------
(* The front of the other side of the book.                                *)

LEMMA LiveIs == Live = LiveOf(sides)
BY DEF Live, LiveOn, LiveOf

(* Priority, crossing and reports are those of the book.                   *)
LEMMA BookAhead == \A m, n : Book!Ahead(m, n) <=> Ahead(m, n)
BY Zenon DEF Book!Ahead, Book!Better, Ahead, Better

LEMMA BookCrosses == \A t, p : Book!Crosses(t, p) <=> Crosses(t, p)
BY Zenon DEF Book!Crosses, Crosses

LEMMA BookReports ==
  /\ \A id, status, left : Book!OrderState(id, status, left) = OrderState(id, status, left)
  /\ \A t, m, q : Book!TradeOf(t, m, q) = TradeOf(t, m, q)
  /\ \A t, left : Book!Discarded(t, left) = Discarded(t, left)
BY Zenon DEF Book!OrderState, Book!TradeOf, Book!Discarded, OrderState, TradeOf, Discarded

(* Who can be met next, in the terms of this module.                       *)
LEMMA CandidatesAre ==
  Book!Candidates = {m \in Book!Opposite : /\ \A n \in Book!Opposite : n = m \/ Ahead(m, n)
                                          /\ Crosses(taker, m.price)}
<1>1. Book!Candidates = {m \in Book!Opposite :
                           /\ \A n \in Book!Opposite : n = m \/ Book!Ahead(m, n)
                           /\ Book!Crosses(taker, m.price)}
  BY DEF Book!Candidates
<1> QED  BY <1>1, BookAhead, BookCrosses

LEMMA BoundIs ==
  ASSUME CallOK
  PROVE  /\ Bound \in Nat /\ nextSeq \in Nat /\ Bound <= nextSeq
         /\ taker # None => /\ taker \in Order /\ Bound = taker.seq /\ taker.seq \in Nat
                            /\ taker.side \in Sides /\ taker.price \in Nat
                            /\ taker.qty \in Nat
         /\ taker = None => Bound = nextSeq
<1>1. nextSeq \in Nat /\ taker \in Order \cup {None} /\ (taker # None => taker.seq < nextSeq)
  BY DEF CallOK
<1>2. taker # None => /\ taker \in Order /\ taker.seq \in Nat /\ taker.side \in Sides
                      /\ taker.price \in Nat /\ taker.qty \in Nat
  BY ONLY <1>1, OrderIs, Prices
<1> QED  BY ONLY <1>1, <1>2 DEF Bound

(* What the taker can meet is what rests on the other side.                *)
LEMMA OppositeIs ==
  ASSUME LevelsOK, CallOK, taker # None, NEW s, s = Other(taker.side)
  PROVE  /\ s \in Sides /\ s # taker.side /\ taker.side \in Sides
         /\ \A x \in Sides : x = s \/ x = taker.side
         /\ opposite = sides[s] /\ SideOK(opposite, s, Bound)
         /\ Book!Opposite = LiveIn(opposite)
         /\ \A o \in LiveIn(opposite) : o.side = s /\ o.price \in Price
<1>1. taker.side \in Sides /\ SidesOK(sides, Bound)
  BY BoundIs DEF LevelsOK
<1>2. s \in Sides /\ s # taker.side /\ \A x \in Sides : x = s \/ x = taker.side
  BY <1>1 DEF Other, Sides
<1>3. opposite = sides[s]
  BY DEF opposite
<1>4. SideOK(opposite, s, Bound)
  BY ONLY <1>1, <1>2, <1>3 DEF SidesOK
<1>5. LiveIn(opposite) = {o \in LiveOf(sides) : o.side = s}
  BY ONLY <1>1, <1>2, <1>3, LiveOfSides
<1>6. \A o \in LiveOf(sides) : o.side \in Sides /\ o.price \in Price
  BY ONLY <1>1, LiveOfSides
<1>7. Book!Opposite = {m \in Live : m.side # taker.side}
  BY DEF Book!Opposite
<1>8. Book!Opposite = LiveIn(opposite)
  BY ONLY <1>2, <1>5, <1>6, <1>7, LiveIs
<1> QED  BY ONLY <1>1, <1>2, <1>3, <1>4, <1>5, <1>6, <1>8

(* The first order with something left at the best level is the one that   *)
(* price and time put first.                                               *)
LEMMA FrontIs ==
  ASSUME LevelsOK, CallOK, taker # None, opposite.prices # <<>>, Crosses(taker, best),
         NEW i, FirstLive(opposite.levels[best], i),
         NEW m, m = opposite.levels[best].orders[i]
  PROVE  /\ m \in Book!Candidates /\ m \in LiveIn(opposite)
         /\ \A c \in Book!Candidates : c = m
<1>1. PICK s : s = Other(taker.side)
  OBVIOUS
<1>2. /\ SideOK(opposite, s, Bound) /\ Book!Opposite = LiveIn(opposite)
      /\ \A o \in LiveIn(opposite) : o.side = s /\ o.price \in Price
  BY <1>1, OppositeIs
<1>3. PICK b : b = opposite
  OBVIOUS
<1>4. best = b.prices[1]
  BY <1>3 DEF best
<1>5. /\ m \in LiveIn(b) /\ m.price = best
      /\ \A x \in LiveIn(b) : x = m \/ Ahead(m, x)
  <2>1. SideOK(b, s, Bound) /\ b.prices # <<>> /\ FirstLive(b.levels[b.prices[1]], i)
    BY <1>2, <1>3, <1>4
  <2>2. m = b.levels[b.prices[1]].orders[i]
    BY <1>3, <1>4
  <2> QED  BY ONLY <1>4, <2>1, <2>2, FrontOfSide
<1>6. m \in Book!Candidates
  BY <1>2, <1>3, <1>5, CandidatesAre
<1>7. ASSUME NEW c \in Book!Candidates PROVE c = m
  <2>1. c \in LiveIn(b) /\ \A x \in LiveIn(b) : x = c \/ Ahead(c, x)
    BY ONLY <1>2, <1>3, c \in Book!Candidates, CandidatesAre
  <2>2. c = m \/ (Ahead(c, m) /\ Ahead(m, c))
    BY ONLY <1>5, <2>1
  <2>3. m \in Order /\ c \in Order
    BY ONLY <1>2, <1>3, <1>5, <2>1, LiveInSide
  <2>4. m.price \in Nat /\ c.price \in Nat /\ m.seq \in Nat /\ c.seq \in Nat
    BY ONLY <2>3, OrderIs, Prices
  <2>5. m.side = c.side
    BY ONLY <1>2, <1>3, <1>5, <2>1
  <2> QED  BY ONLY <2>2, <2>4, <2>5 DEF Ahead, Better
<1> QED  BY ONLY <1>3, <1>5, <1>6, <1>7

(* The outer loop stops when the taker is filled, at its own order, or     *)
(* when nothing it could meet is left.                                     *)
LEMMA NothingLeft ==
  ASSUME LevelsOK, CallOK, taker # None, ~GoesOn
  PROVE  taker.qty = 0 \/ selfTrade \/ Book!Candidates = {}
<1>1. PICK s : s = Other(taker.side)
  OBVIOUS
<1>2. /\ SideOK(opposite, s, Bound) /\ Book!Opposite = LiveIn(opposite)
      /\ \A o \in LiveIn(opposite) : o.side = s /\ o.price \in Price
      /\ s \in Sides /\ s # taker.side /\ taker.side \in Sides
  BY <1>1, OppositeIs
<1>3. PICK b : b = opposite
  OBVIOUS
<1>4. best = b.prices[1]
  BY <1>3 DEF best
<1>5. taker.qty \in Nat /\ taker.price \in Nat
  BY BoundIs
<1>6. CASE b.prices = <<>>
  <2>1. LiveIn(b) = {}
    BY ONLY <1>2, <1>3, <1>6, BestOfSide
  <2> QED  BY ONLY <1>2, <1>3, <2>1, CandidatesAre
<1>7. CASE b.prices # <<>> /\ ~Crosses(taker, best)
  <2>1. best \in Price /\ \A x \in LiveIn(b) : x.price = best \/ Better(s, best, x.price)
    BY ONLY <1>2, <1>3, <1>4, <1>7, BestOfSide
  <2>2. ASSUME NEW c \in Book!Candidates PROVE FALSE
    <3>1. c \in LiveIn(b) /\ Crosses(taker, c.price)
      BY ONLY <1>2, <1>3, c \in Book!Candidates, CandidatesAre
    <3>2. PICK q \in Price : q = c.price
      BY ONLY <1>2, <1>3, <3>1
    <3>3. q = best \/ Better(s, best, q)
      BY ONLY <2>1, <3>1, <3>2
    <3>4. ~Crosses(taker, q)
      BY <1>2, <1>5, <1>7, <2>1, <3>3, CrossesBest
    <3> QED  BY ONLY <3>1, <3>2, <3>4
  <2> QED  BY <2>2
<1> QED  BY <1>3, <1>4, <1>5, <1>6, <1>7 DEF GoesOn

(* The order the inner loop looks at is the first with something left.     *)
LEMMA LoopFinds ==
  ASSUME LevelsInv, inner > 0, Meets
  PROVE  /\ taker # None /\ ~selfTrade /\ opposite.prices # <<>> /\ Crosses(taker, best)
         /\ FirstLive(opposite.levels[best], MetAt)
         /\ MetAt \in Nat /\ MetAt >= inner /\ taker.qty > 0
<1>1. inner \in Nat /\ inner # 0
  BY DEF LevelsInv, CallOK
<1>2. /\ taker # None /\ ~selfTrade /\ opposite.prices # <<>> /\ Crosses(taker, best)
      /\ opposite.levels[best].head < inner
      /\ taker.qty > 0 =>
           \A k \in 1..Len(opposite.levels[best].orders) :
             k < inner => opposite.levels[best].orders[k].qty = 0
  BY <1>1 DEF LevelsInv, LoopOK
<1>3. PICK level : level = opposite.levels[best]
  OBVIOUS
<1>4. level \in PriceLevel
  <2>1. PICK s : s = Other(taker.side)
    OBVIOUS
  <2>2. SideOK(opposite, s, Bound)
    BY <1>2, <2>1, OppositeIs DEF LevelsInv
  <2>3. QueueOK(level, s, best, Bound)
    BY ONLY <1>2, <1>3, <2>2, BestOfSide DEF best
  <2> QED  BY ONLY <2>3 DEF QueueOK
<1>5. /\ Len(level.orders) \in Nat /\ level.head \in Nat
      /\ \A k \in 1..Len(level.orders) : level.orders[k].qty \in Nat
  BY ONLY <1>4, LevelIs
<1>6. taker.qty > 0 /\ LiveFrom(level, inner) # {} /\ MetAt = Min(LiveFrom(level, inner))
  BY <1>3 DEF Meets, MetAt
<1>7. LiveFrom(level, inner) = {k \in inner..Len(level.orders) : level.orders[k].qty > 0}
  BY DEF LiveFrom
<1>8. LiveFrom(level, inner) \in SUBSET Nat
  BY ONLY <1>1, <1>5, <1>7
<1>9. PICK i : i = MetAt
  OBVIOUS
<1>10. i \in LiveFrom(level, inner) /\ \A y \in LiveFrom(level, inner) : i <= y
  BY ONLY <1>6, <1>8, <1>9, MinOf
<1>11. i \in inner..Len(level.orders) /\ level.orders[i].qty > 0 /\ i \in Nat
  BY ONLY <1>1, <1>5, <1>7, <1>10
<1>12. ASSUME NEW k \in 1..Len(level.orders), k < i PROVE level.orders[k].qty = 0
  <2>1. CASE k < inner
    BY <1>2, <1>3, <1>6, <2>1
  <2>2. CASE inner <= k
    <3>1. k \in inner..Len(level.orders)
      BY ONLY <1>1, <1>5, <2>2, k \in 1..Len(level.orders)
    <3>2. ~(i <= k)
      BY ONLY <1>11, <1>12, <1>5, k \in 1..Len(level.orders)
    <3>3. level.orders[k].qty \in Nat
      BY ONLY <1>5, k \in 1..Len(level.orders)
    <3> QED  BY ONLY <1>7, <1>10, <3>1, <3>2, <3>3
  <2> QED  BY ONLY <1>1, <1>5, <2>1, <2>2, k \in 1..Len(level.orders)
<1>13. i \in 1..Len(level.orders) /\ i > level.head /\ i >= inner
  BY ONLY <1>1, <1>2, <1>3, <1>5, <1>11
<1>14. FirstLive(level, i)
  BY ONLY <1>11, <1>12, <1>13 DEF FirstLive
<1> QED  BY ONLY <1>2, <1>3, <1>6, <1>9, <1>11, <1>13, <1>14

-----------------------------------------------------------------------------
(* The invariant holds at first and through every step.                    *)

LEMMA InitLevels ==
  ASSUME Init
  PROVE  LevelsInv
<1>1. /\ sides = [side \in Sides |-> EmptySide] /\ byId = [id \in {} |-> None]
      /\ taker = None /\ inner = 0 /\ selfTrade = FALSE /\ nextSeq = 0
  BY DEF Init
<1>2. SideOK(EmptySide, "buy", 0) /\ AllClean(EmptySide) /\ LiveIn(EmptySide) = {}
  BY EmptySideIs
<1>3. \A s \in Sides : SideOK(EmptySide, s, 0)
  BY EmptySideIs
<1>4. EmptySide \in BookSide
  BY ONLY <1>2 DEF SideOK
<1>5. Bound = 0
  BY ONLY <1>1 DEF Bound
<1>6. SidesOK(sides, 0) /\ SidesClean(sides)
  BY ONLY <1>1, <1>2, <1>3, <1>4 DEF SidesOK, SidesClean
<1>7. LiveOf(sides) = {}
  BY ONLY <1>1, <1>2 DEF LiveOf, Sides
<1>8. DOMAIN byId = {}
  BY ONLY <1>1
<1>9. IdsOK(byId, LiveOf(sides))
  BY ONLY <1>7, <1>8 DEF IdsOK
<1> QED  BY ONLY <1>1, <1>5, <1>6, <1>9 DEF LevelsInv, LevelsOK, CallOK, StopOK, LoopOK

(* What does not touch the book or its bound leaves the book in order.     *)
LEMMA SameBook ==
  ASSUME LevelsOK, sides' = sides, byId' = byId, Bound' = Bound
  PROVE  LevelsOK'
BY DEF LevelsOK

LEMMA SameSelfTrade ==
  ASSUME Live' = Live, taker' = taker
  PROVE  Book!Candidates' = Book!Candidates /\ (Book!SelfTrade' <=> Book!SelfTrade)
<1>1. Book!Candidates' = Book!Candidates
  BY DEF Book!Candidates, Book!Opposite, Book!Crosses
<1> QED  BY <1>1 DEF Book!SelfTrade

LEMMA SubmitLevels ==
  ASSUME LevelsInv, NEW id \in OrderId, NEW req \in Asked, Submit(id, req)
  PROVE  LevelsInv' /\ taker' \in Order /\ taker' # None
<1>1. /\ taker = None /\ id \notin DOMAIN byId
      /\ taker' = [id |-> id, user |-> req.user, side |-> req.side, type |-> req.type,
                   price |-> req.price, qty |-> req.qty, orig |-> req.qty, seq |-> nextSeq]
      /\ nextSeq' = nextSeq + 1
      /\ sides' = sides /\ byId' = byId /\ inner' = inner /\ selfTrade' = selfTrade
  BY DEF Submit, bookVars
<1>2. /\ req.user \in User /\ req.side \in Sides /\ req.type \in OrderTypes
      /\ req.price \in Price /\ req.qty \in Qty /\ req.qty \in Nat
  BY LevelsAssumption DEF Request
<1>3. nextSeq \in Nat /\ inner = 0 /\ selfTrade = FALSE
  BY <1>1 DEF LevelsInv, CallOK
<1>4. taker' \in Order
  <2>1. taker'.qty <= taker'.orig
    BY ONLY <1>1, <1>2
  <2>2. taker' \in [id : OrderId, user : User, side : Sides, type : OrderTypes,
                    price : Price, qty : Nat, orig : Qty, seq : Nat]
    BY ONLY <1>1, <1>2, <1>3, id \in OrderId
  <2> QED  BY ONLY <2>1, <2>2 DEF Order
<1>5. taker' # None
  BY ONLY <1>4, NotNone
<1>6. Bound' = Bound
  BY ONLY <1>1, <1>5 DEF Bound
<1>7. LevelsOK'
  BY <1>1, <1>6, SameBook DEF LevelsInv
<1>8. taker'.seq = nextSeq /\ taker'.id = id
  BY ONLY <1>1
<1>9. CallOK'
  <2>1. nextSeq' \in Nat /\ taker'.seq < nextSeq'
    BY ONLY <1>1, <1>3, <1>8
  <2>2. inner' = 0 /\ selfTrade' = FALSE
    BY ONLY <1>1, <1>3
  <2>3. taker'.id \notin DOMAIN byId'
    BY ONLY <1>1, <1>8
  <2> QED  BY ONLY <1>4, <1>5, <2>1, <2>2, <2>3 DEF CallOK
<1>10. SidesClean(sides')
  BY ONLY LevelsInv, <1>1, <1>3 DEF LevelsInv, LoopOK
<1>11. LoopOK'
  BY ONLY <1>1, <1>3, <1>10 DEF LoopOK
<1>12. StopOK'
  BY ONLY <1>1, <1>3 DEF StopOK
<1> QED  BY ONLY <1>4, <1>5, <1>7, <1>9, <1>11, <1>12 DEF LevelsInv

LEMMA EnterLevels ==
  ASSUME LevelsInv, EnterLevel
  PROVE  LevelsInv'
<1>1. /\ taker # None /\ inner = 0 /\ GoesOn
      /\ inner' = opposite.levels[best].head + 1
      /\ sides' = sides /\ byId' = byId /\ taker' = taker /\ selfTrade' = selfTrade
      /\ nextSeq' = nextSeq
  BY DEF EnterLevel, bookVars
<1>2. opposite.prices # <<>> /\ Crosses(taker, best) /\ ~selfTrade
  BY <1>1 DEF GoesOn
<1>3. PICK s : s = Other(taker.side)
  OBVIOUS
<1>4. /\ SideOK(opposite, s, Bound) /\ opposite = sides[s] /\ s \in Sides /\ taker.side \in Sides
  BY <1>1, <1>3, OppositeIs DEF LevelsInv
<1>5. PICK level : level = opposite.levels[best]
  OBVIOUS
<1>6. QueueOK(level, s, best, Bound) /\ level \in PriceLevel
  <2>1. QueueOK(level, s, best, Bound)
    BY ONLY <1>2, <1>4, <1>5, BestOfSide DEF best
  <2> QED  BY ONLY <2>1 DEF QueueOK
<1>7. level.head \in Nat /\ Len(level.orders) \in Nat
  BY ONLY <1>6, LevelIs
<1>8. ASSUME NEW k \in 1..Len(level.orders), k < level.head + 1 PROVE level.orders[k].qty = 0
  <2>1. k <= level.head
    BY ONLY <1>7, <1>8, k \in 1..Len(level.orders)
  <2> QED  BY ONLY <1>6, <2>1, k \in 1..Len(level.orders) DEF QueueOK
<1>9. opposite' = opposite /\ best' = best
  BY ONLY <1>1 DEF opposite, best
<1>10. SidesClean(sides)
  BY ONLY LevelsInv, <1>1 DEF LevelsInv, LoopOK
<1>11. AllClean(opposite) /\ AllClean(sides[taker.side])
  BY ONLY <1>4, <1>10 DEF SidesClean
<1>12. inner' \in Nat /\ inner' # 0 /\ level.head < inner' /\ inner' = level.head + 1
  BY ONLY <1>1, <1>5, <1>7
<1>13. LoopOK'
  <2>1. \A p \in Price : opposite.levels[p] # None => Clean(opposite.levels[p])
    BY ONLY <1>11 DEF AllClean
  <2>2. /\ taker' # None /\ ~selfTrade' /\ opposite'.prices # <<>> /\ Crosses(taker', best')
        /\ AllClean(sides'[taker'.side])
    BY ONLY <1>1, <1>2, <1>9, <1>11
  <2>3. opposite'.levels[best'] = level
    BY ONLY <1>5, <1>9
  <2> QED  BY ONLY <1>8, <1>9, <1>12, <2>1, <2>2, <2>3 DEF LoopOK
<1>14. Bound' = Bound
  BY ONLY <1>1 DEF Bound
<1>15. LevelsOK'
  BY <1>1, <1>14, SameBook DEF LevelsInv
<1>16. CallOK'
  <2>1. CallOK
    BY DEF LevelsInv
  <2> QED  BY ONLY <1>1, <1>12, <2>1 DEF CallOK
<1>17. StopOK'
  BY ONLY <1>1, <1>2 DEF StopOK
<1> QED  BY ONLY <1>13, <1>15, <1>16, <1>17 DEF LevelsInv

\* What one iteration of the inner loop works on, and what it makes of it.
MeetOf(i, s, b, p, level, maker, q, left, put, new) ==
  /\ i = MetAt /\ s = Other(taker.side) /\ b = sides[s] /\ p = best /\ level = b.levels[p]
  /\ maker = level.orders[i]
  /\ q = (IF maker.qty < taker.qty THEN maker.qty ELSE taker.qty)
  /\ left = maker.qty - q
  /\ put = LevelReduced(level, i, left, q)
  /\ new = SidePut(b, p, put)

LEMMA MeetOfExists ==
  \E i, s, b, p, level, maker, q, left, put, new :
    MeetOf(i, s, b, p, level, maker, q, left, put, new)
BY Zenon DEF MeetOf

LEMMA MeetFinds ==
  ASSUME LevelsInv, Meet,
         NEW i, NEW s, NEW b, NEW p, NEW level, NEW maker, NEW q, NEW left, NEW put, NEW new,
         MeetOf(i, s, b, p, level, maker, q, left, put, new)
  PROVE  /\ s \in Sides /\ s # taker.side /\ taker.side \in Sides /\ taker \in Order
         /\ taker.qty \in Nat /\ taker.qty > 0 /\ taker # None /\ ~selfTrade
         /\ Bound \in Nat /\ opposite = b
         /\ SidesOK(sides, Bound) /\ SideOK(b, s, Bound) /\ b.prices # <<>>
         /\ Crosses(taker, p) /\ p \in Price /\ b.levels[p] # None
         /\ QueueOK(level, s, p, Bound) /\ FirstLive(level, i) /\ i \in Nat
         /\ maker \in Order /\ maker.side = s /\ maker.qty \in Nat /\ maker.qty > 0
         /\ maker \in Book!Candidates /\ maker \in LiveOf(sides)
         /\ MayMeet(level, i, left, q, s, p, Bound)
         /\ left \in Nat /\ left <= maker.qty /\ q \in Nat /\ q > 0 /\ q <= taker.qty
         /\ left > 0 => taker.qty - q = 0
<1>1. /\ i = MetAt /\ s = Other(taker.side) /\ b = sides[s] /\ p = best /\ level = b.levels[p]
      /\ maker = level.orders[i]
      /\ q = (IF maker.qty < taker.qty THEN maker.qty ELSE taker.qty)
      /\ left = maker.qty - q
  BY Zenon DEF MeetOf
<1>2. inner > 0 /\ Meets /\ LevelsOK /\ CallOK
  BY DEF Meet, LevelsInv
<1>3. /\ taker # None /\ ~selfTrade /\ opposite.prices # <<>> /\ Crosses(taker, best)
      /\ FirstLive(opposite.levels[best], i)
      /\ i \in Nat /\ i >= inner /\ taker.qty > 0
  BY <1>1, <1>2, LoopFinds
<1>4. /\ Bound \in Nat /\ taker \in Order /\ taker.qty \in Nat /\ taker.price \in Nat
  BY <1>2, <1>3, BoundIs
<1>5. /\ s \in Sides /\ s # taker.side /\ taker.side \in Sides
      /\ opposite = b /\ SideOK(b, s, Bound)
      /\ \A o \in LiveIn(b) : o.side = s /\ o.price \in Price
  BY <1>1, <1>2, <1>3, OppositeIs
<1>6. p = b.prices[1] /\ b.prices # <<>> /\ Crosses(taker, p) /\ FirstLive(level, i)
  BY ONLY <1>1, <1>3, <1>5 DEF best
<1>7. p \in Price /\ b.levels[p] # None /\ QueueOK(level, s, p, Bound)
  BY ONLY <1>1, <1>5, <1>6, BestOfSide
<1>8. maker \in Book!Candidates /\ maker \in LiveIn(b)
  <2>1. maker = opposite.levels[best].orders[i]
    BY ONLY <1>1, <1>5
  <2>2. maker \in Book!Candidates /\ maker \in LiveIn(opposite)
    BY <1>2, <1>3, <2>1, FrontIs
  <2> QED  BY ONLY <1>5, <2>2
<1>9. SidesOK(sides, Bound)
  BY <1>2 DEF LevelsOK
<1>10. maker \in LiveOf(sides)
  <2>1. LiveIn(sides[s]) = {o \in LiveOf(sides) : o.side = s}
    BY ONLY <1>5, <1>9, LiveOfSides
  <2>2. b = sides[s]
    BY Zenon, <1>1
  <2> QED  BY ONLY <1>8, <2>1, <2>2
<1>11. maker \in Order /\ maker.qty \in Nat /\ maker.qty > 0 /\ maker.side = s
  BY ONLY <1>5, <1>8, LiveInSide
<1>12. /\ left \in Nat /\ left <= maker.qty /\ q \in Nat /\ q > 0 /\ q <= taker.qty
       /\ left > 0 => taker.qty - q = 0
       /\ maker.qty = left + q
  <2>1. PICK mq, tq : mq = maker.qty /\ tq = taker.qty
    OBVIOUS
  <2>2. mq \in Nat /\ tq \in Nat /\ mq > 0 /\ tq > 0
    BY ONLY <1>3, <1>4, <1>11, <2>1
  <2>3. q = (IF mq < tq THEN mq ELSE tq) /\ left = mq - q
    BY ONLY <1>1, <2>1
  <2>4. /\ left \in Nat /\ left <= mq /\ q \in Nat /\ q > 0 /\ q <= tq
        /\ left > 0 => tq - q = 0
        /\ mq = left + q
    BY ONLY <2>2, <2>3
  <2> QED  BY ONLY <2>1, <2>4
<1>13. MayMeet(level, i, left, q, s, p, Bound)
  BY ONLY <1>1, <1>4, <1>6, <1>7, <1>12 DEF MayMeet, FirstLive
<1> QED  BY ONLY <1>3, <1>4, <1>5, <1>6, <1>7, <1>8, <1>9, <1>10, <1>11, <1>12, <1>13

LEMMA MeetMakes ==
  ASSUME LevelsInv, Meet,
         NEW i, NEW s, NEW b, NEW p, NEW level, NEW maker, NEW q, NEW left, NEW put, NEW new,
         MeetOf(i, s, b, p, level, maker, q, left, put, new)
  PROVE  /\ SidesOK(sides', Bound) /\ new.prices = b.prices
         /\ \A x \in Sides : sides'[x] = IF x = s THEN new ELSE sides[x]
         /\ \A x \in Price : new.levels[x] = IF x = p THEN put ELSE b.levels[x]
         /\ put.head = level.head /\ Len(put.orders) = Len(level.orders)
         /\ put.orders[i] = Lessen(maker, left)
         /\ \A k \in 1..Len(level.orders) : k # i => put.orders[k] = level.orders[k]
         /\ LiveOf(sides') = (LiveOf(sides) \ {maker})
                               \cup (IF left > 0 THEN {Lessen(maker, left)} ELSE {})
<1>1. /\ s \in Sides /\ Bound \in Nat /\ SidesOK(sides, Bound) /\ SideOK(b, s, Bound)
      /\ p \in Price /\ b.levels[p] # None
      /\ MayMeet(level, i, left, q, s, p, Bound)
      /\ maker \in Order /\ maker.side = s /\ left \in Nat /\ left <= maker.qty
  BY MeetFinds
<1>2. b = sides[s] /\ level = b.levels[p] /\ maker = level.orders[i]
  BY Zenon DEF MeetOf
<1>a. put = LevelReduced(level, i, left, q) /\ new = SidePut(b, p, put)
  BY Zenon DEF MeetOf
<1>3. b \in BookSide /\ sides \in [Sides -> BookSide]
  BY ONLY <1>1 DEF SideOK, SidesOK
<1>4. sides' = [sides EXCEPT ![s] = new]
  <2>1. sides' = [sides EXCEPT ![maker.side].levels[p] = LevelReduced(@, i, left, q)]
    <3>1. PICK mk, qq, lf :
            /\ mk = opposite.levels[best].orders[MetAt]
            /\ qq = (IF mk.qty < taker.qty THEN mk.qty ELSE taker.qty)
            /\ lf = mk.qty - qq
            /\ sides' = [sides EXCEPT ![mk.side].levels[best] = LevelReduced(@, MetAt, lf, qq)]
      BY Zenon DEF Meet
    <3>2. /\ mk = maker /\ best = p /\ MetAt = i
      <4>1. i = MetAt /\ p = best /\ level = b.levels[p] /\ maker = level.orders[i]
        BY Zenon DEF MeetOf
      <4>2. opposite = b
        BY MeetFinds
      <4> QED  BY ONLY <3>1, <4>1, <4>2, Zenon
    <3>3. qq = q /\ lf = left
      <4>1. q = (IF maker.qty < taker.qty THEN maker.qty ELSE taker.qty) /\ left = maker.qty - q
        BY Zenon DEF MeetOf
      <4> QED  BY ONLY <3>1, <3>2, <4>1, Zenon
    <3> QED  BY ONLY <3>1, <3>2, <3>3, Zenon
  <2>2. sides' = [sides EXCEPT ![s].levels[p] = LevelReduced(@, i, left, q)]
    BY ONLY <1>1, <2>1, Zenon
  <2>3. sides' = [sides EXCEPT ![s].levels[p] = LevelReduced(sides[s].levels[p], i, left, q)]
    BY ONLY <2>2, Zenon
  <2>4. sides' = [sides EXCEPT ![s].levels[p] = put]
    BY ONLY <1>2, <1>a, <2>3, Zenon
  <2>5. \A ls : [b EXCEPT !.levels = ls] = [prices |-> b.prices, levels |-> ls]
    <3>1. \A x \in BookSide : \A ls : [x EXCEPT !.levels = ls] = [prices |-> x.prices, levels |-> ls]
      BY ONLY DEF BookSide
    <3> QED  BY ONLY <1>3, <3>1, Zenon
  <2>6. new = [b EXCEPT !.levels = [b.levels EXCEPT ![p] = put]]
    BY ONLY <1>a, <2>5, Zenon DEF SidePut
  <2>7. new = [sides[s] EXCEPT !.levels[p] = put]
    BY ONLY <1>2, <2>6, Zenon
  <2> QED  BY ONLY <2>4, <2>7, Zenon
<1>5. /\ SideOK(new, s, Bound) /\ new.prices = b.prices
      /\ \A x \in Price : new.levels[x] = IF x = p THEN put ELSE b.levels[x]
      /\ put # None /\ put.head = level.head /\ Len(put.orders) = Len(level.orders)
      /\ put.orders[i] = Lessen(level.orders[i], left)
      /\ \A k \in 1..Len(level.orders) : k # i => put.orders[k] = level.orders[k]
      /\ level.orders[i] \in LiveIn(b)
      /\ LiveIn(new) = (LiveIn(b) \ {level.orders[i]})
                         \cup (IF left > 0 THEN {Lessen(level.orders[i], left)} ELSE {})
  <2>1. MetBy(s, Bound, b, p, level, i, left, q, put, new)
    BY ONLY <1>1, <1>2, <1>a, Zenon DEF MetBy
  <2> QED  BY ONLY <2>1, MetSide
<1>6. Changes(sides', sides, s, new, Bound)
  BY ONLY <1>1, <1>4, <1>5 DEF Changes
<1>7. /\ SidesOK(sides', Bound)
      /\ LiveOf(sides') = {o \in LiveOf(sides) : o.side # s} \cup LiveIn(new)
      /\ \A x \in Sides : sides'[x] = IF x = s THEN new ELSE sides[x]
  BY ONLY <1>6, SideChanged
<1>8. LiveIn(b) = {o \in LiveOf(sides) : o.side = s}
  BY ONLY <1>1, <1>2, LiveOfSides
<1>9. PICK rest : rest = IF left > 0 THEN {Lessen(maker, left)} ELSE {}
  OBVIOUS
<1>10. LiveIn(new) = (LiveIn(b) \ {maker}) \cup rest
  BY ONLY <1>2, <1>5, <1>9
<1>11. LiveOf(sides') = (LiveOf(sides) \ {maker}) \cup rest
  BY ONLY <1>1, <1>7, <1>8, <1>10
<1> QED  BY ONLY <1>2, <1>5, <1>7, <1>9, <1>11

(* The index forgets what is gone, and keeps pointing at what is left.     *)
LEMMA IdsLess ==
  ASSUME NEW ids, NEW L, IdsOK(ids, L), NEW m \in L
  PROVE  IdsOK(Restrict(ids, DOMAIN ids \ {m.id}), L \ {m})
<1>1. PICK new : new = Restrict(ids, DOMAIN ids \ {m.id})
  OBVIOUS
<1>2. /\ DOMAIN new = DOMAIN ids \ {m.id}
      /\ \A id \in DOMAIN ids : id # m.id => new[id] = ids[id]
  BY ONLY <1>1 DEF Restrict
<1>3. /\ \A id : id \in DOMAIN ids <=> \E o \in L : o.id = id
      /\ \A o \in L : ids[o.id] = RefOf(o)
      /\ \A o, n \in L : o.seq = n.seq => o = n
  BY DEF IdsOK
<1>4. \A o \in L : o.id = m.id => o = m
  <2> SUFFICES ASSUME NEW o \in L, o.id = m.id PROVE o = m
    OBVIOUS
  <2>1. RefOf(o) = RefOf(m)
    BY ONLY <1>3, o \in L, m \in L, o.id = m.id
  <2>2. o.seq = m.seq
    BY ONLY <2>1, RefIs
  <2> QED  BY ONLY <1>3, <2>2, o \in L, m \in L
<1>5. \A id : id \in DOMAIN new <=> \E o \in L \ {m} : o.id = id
  BY ONLY <1>2, <1>3, <1>4
<1>6. \A o \in L \ {m} : new[o.id] = RefOf(o)
  BY ONLY <1>2, <1>3, <1>4
<1>7. \A o, n \in L \ {m} : o.seq = n.seq => o = n
  BY ONLY <1>3
<1> QED  BY ONLY <1>1, <1>5, <1>6, <1>7 DEF IdsOK

LEMMA IdsLessened ==
  ASSUME NEW ids, NEW L, IdsOK(ids, L), NEW m \in L,
         NEW l, l.id = m.id, l.side = m.side, l.price = m.price, l.seq = m.seq
  PROVE  IdsOK(ids, (L \ {m}) \cup {l})
<1>1. /\ \A id : id \in DOMAIN ids <=> \E o \in L : o.id = id
      /\ \A o \in L : ids[o.id] = RefOf(o)
      /\ \A o, n \in L : o.seq = n.seq => o = n
  BY DEF IdsOK
<1>2. RefOf(l) = RefOf(m)
  BY DEF RefOf
<1>3. PICK K : K = (L \ {m}) \cup {l}
  OBVIOUS
<1>4. l.id = m.id /\ l.seq = m.seq
  OBVIOUS
<1>5. \A id : id \in DOMAIN ids <=> \E o \in K : o.id = id
  BY ONLY <1>1, <1>3, <1>4, m \in L
<1>6. \A o \in K : ids[o.id] = RefOf(o)
  BY ONLY <1>1, <1>2, <1>3, <1>4, m \in L
<1>7. \A o, n \in K : o.seq = n.seq => o = n
  BY ONLY <1>1, <1>3, <1>4, m \in L
<1> QED  BY ONLY <1>3, <1>5, <1>6, <1>7 DEF IdsOK

LEMMA MeetLevels ==
  ASSUME LevelsInv, Meet
  PROVE  LevelsInv'
<1>0. PICK i, s, b, p, level, maker, q, left, put, new :
        MeetOf(i, s, b, p, level, maker, q, left, put, new)
  BY MeetOfExists
<1>1. /\ s \in Sides /\ s # taker.side /\ taker.side \in Sides /\ taker \in Order
      /\ taker.qty \in Nat /\ taker.qty > 0 /\ taker # None /\ ~selfTrade
      /\ Bound \in Nat /\ opposite = b
      /\ SidesOK(sides, Bound) /\ b.prices # <<>>
      /\ Crosses(taker, p) /\ p \in Price
      /\ FirstLive(level, i) /\ i \in Nat
      /\ maker \in Order /\ maker.qty \in Nat
      /\ maker \in LiveOf(sides)
      /\ QueueOK(level, s, p, Bound)
      /\ left \in Nat /\ left <= maker.qty /\ q \in Nat /\ q > 0 /\ q <= taker.qty
      /\ left > 0 => taker.qty - q = 0
  BY <1>0, MeetFinds
<1>2. /\ SidesOK(sides', Bound) /\ new.prices = b.prices
      /\ \A x \in Sides : sides'[x] = IF x = s THEN new ELSE sides[x]
      /\ \A x \in Price : new.levels[x] = IF x = p THEN put ELSE b.levels[x]
      /\ put.head = level.head /\ Len(put.orders) = Len(level.orders)
      /\ put.orders[i] = Lessen(maker, left)
      /\ \A k \in 1..Len(level.orders) : k # i => put.orders[k] = level.orders[k]
      /\ LiveOf(sides') = (LiveOf(sides) \ {maker})
                            \cup (IF left > 0 THEN {Lessen(maker, left)} ELSE {})
  BY <1>0, MeetMakes
<1>3. s = Other(taker.side) /\ p = best /\ i = MetAt
  BY <1>0, Zenon DEF MeetOf
<1>4. /\ taker' = [taker EXCEPT !.qty = @ - q]
      /\ byId' = IF left = 0 THEN Restrict(byId, DOMAIN byId \ {maker.id}) ELSE byId
      /\ inner' = i + 1 /\ selfTrade' = selfTrade /\ nextSeq' = nextSeq
  <2>1. PICK mk, qq, lf :
          /\ mk = opposite.levels[best].orders[MetAt]
          /\ qq = (IF mk.qty < taker.qty THEN mk.qty ELSE taker.qty)
          /\ lf = mk.qty - qq
    BY Zenon
  <2>a. taker' = [taker EXCEPT !.qty = @ - qq]
    BY <2>1, Zenon DEF Meet
  <2>b. byId' = IF lf = 0 THEN Restrict(byId, DOMAIN byId \ {mk.id}) ELSE byId
    BY <2>1, Zenon DEF Meet
  <2>2. mk = maker
    <3>1. level = b.levels[p] /\ maker = level.orders[i]
      BY <1>0, Zenon DEF MeetOf
    <3> QED  BY ONLY <1>1, <1>3, <2>1, <3>1, Zenon
  <2>3. qq = q /\ lf = left
    <3>1. q = (IF maker.qty < taker.qty THEN maker.qty ELSE taker.qty) /\ left = maker.qty - q
      BY <1>0, Zenon DEF MeetOf
    <3> QED  BY ONLY <2>1, <2>2, <3>1, Zenon
  <2>4. inner' = MetAt + 1 /\ selfTrade' = selfTrade /\ nextSeq' = nextSeq
    BY Zenon DEF Meet
  <2> QED  BY ONLY <1>3, <2>1, <2>a, <2>b, <2>2, <2>3, <2>4, Zenon
<1>5. PICK less \in Nat : less = taker.qty - q /\ less <= taker.qty
  <2>1. taker.qty - q \in Nat /\ taker.qty - q <= taker.qty
    BY ONLY <1>1
  <2> QED  BY ONLY <2>1
<1>6. /\ taker' \in Order /\ taker' # None
      /\ taker'.qty = less /\ taker'.seq = taker.seq /\ taker'.id = taker.id
      /\ taker'.side = taker.side /\ taker'.price = taker.price
  <2>1. taker' = Lessen(taker, less)
    BY ONLY <1>4, <1>5 DEF Lessen
  <2>2. /\ taker' \in Order
        /\ taker'.qty = less /\ taker'.seq = taker.seq /\ taker'.id = taker.id
        /\ taker'.side = taker.side /\ taker'.price = taker.price
    BY ONLY <1>1, <1>5, <2>1, LessenIs
  <2> QED  BY ONLY <2>2, NotNone
<1>7. Bound' = Bound
  BY ONLY <1>1, <1>6 DEF Bound
<1>8. IdsOK(byId, LiveOf(sides)) /\ CallOK /\ LoopOK
  BY DEF LevelsInv, LevelsOK
<1>9. IdsOK(byId', LiveOf(sides'))
  <2>1. CASE left = 0
    <3>1. LiveOf(sides') = LiveOf(sides) \ {maker}
      BY ONLY <1>2, <2>1
    <3>2. byId' = Restrict(byId, DOMAIN byId \ {maker.id})
      BY ONLY <1>4, <2>1
    <3> QED  BY ONLY <1>1, <1>8, <3>1, <3>2, IdsLess
  <2>2. CASE left # 0
    <3>1. PICK l : l = Lessen(maker, left)
      OBVIOUS
    <3>2. LiveOf(sides') = (LiveOf(sides) \ {maker}) \cup {l} /\ byId' = byId
      BY ONLY <1>1, <1>2, <1>4, <2>2, <3>1
    <3>3. l.id = maker.id /\ l.side = maker.side /\ l.price = maker.price /\ l.seq = maker.seq
      BY ONLY <1>1, <3>1, LessenIs
    <3>4. IdsOK(byId, (LiveOf(sides) \ {maker}) \cup {l})
      BY ONLY <1>1, <1>8, <3>3, IdsLessened
    <3> QED  BY ONLY <3>2, <3>4
  <2> QED  BY ONLY <2>1, <2>2
<1>10. LevelsOK'
  BY ONLY <1>2, <1>7, <1>9 DEF LevelsOK
<1>11. DOMAIN byId' \subseteq DOMAIN byId
  BY ONLY <1>4 DEF Restrict
<1>12. CallOK'
  <2>1. /\ nextSeq \in Nat /\ selfTrade \in BOOLEAN
        /\ taker.seq < nextSeq /\ taker.id \notin DOMAIN byId
    BY ONLY <1>1, <1>8 DEF CallOK
  <2>2. nextSeq' \in Nat /\ selfTrade' \in BOOLEAN /\ inner' \in Nat
    BY ONLY <1>1, <1>4, <2>1
  <2>3. taker'.seq < nextSeq' /\ taker'.id \notin DOMAIN byId'
    BY ONLY <1>4, <1>6, <1>11, <2>1
  <2> QED  BY ONLY <1>6, <2>2, <2>3 DEF CallOK
<1>13. StopOK'
  BY ONLY <1>1, <1>4 DEF StopOK
<1>14. opposite' = new /\ best' = p
  <2>1. Other(taker'.side) = s
    BY ONLY <1>3, <1>6
  <2>2. opposite' = sides'[Other(taker'.side)]
    BY DEF opposite
  <2>3. opposite' = new
    BY ONLY <1>1, <1>2, <2>1, <2>2
  <2>4. p = b.prices[1]
    BY ONLY <1>1, <1>3 DEF best
  <2>5. best' = opposite'.prices[1]
    BY DEF best
  <2> QED  BY ONLY <1>2, <2>3, <2>4, <2>5
<1>15. LoopOK'
  <2>1. /\ AllClean(sides[taker.side])
        /\ \A x \in Price : x # p /\ b.levels[x] # None => Clean(b.levels[x])
    <3>1. inner # 0
      <4>1. inner > 0
        BY Zenon DEF Meet
      <4> QED  BY ONLY <1>8, <4>1 DEF CallOK
    <3> QED  BY ONLY <1>1, <1>3, <1>8, <3>1 DEF LoopOK
  <2>2. /\ inner' # 0 /\ ~selfTrade' /\ new.prices # <<>>
    BY ONLY <1>1, <1>2, <1>4
  <2>3. Crosses(taker', p)
    BY ONLY <1>1, <1>6 DEF Crosses
  <2>4. sides'[taker'.side] = sides[taker.side]
    BY ONLY <1>1, <1>2, <1>6
  <2>5. \A x \in Price : x # p /\ new.levels[x] # None => Clean(new.levels[x])
    BY ONLY <1>2, <2>1
  <2>6. new.levels[p] = put
    BY ONLY <1>1, <1>2
  <2>7. level \in PriceLevel /\ level.head \in Nat /\ Len(level.orders) \in Nat
    <3>1. level \in PriceLevel
      BY ONLY <1>1 DEF QueueOK
    <3> QED  BY ONLY <3>1, LevelIs
  <2>8. put.head < inner'
    BY ONLY <1>1, <1>2, <1>4, <2>7 DEF FirstLive
  <2>9. ASSUME taker'.qty > 0, NEW k \in 1..Len(put.orders), k < inner'
        PROVE  put.orders[k].qty = 0
    <3>1. left = 0
      BY ONLY <1>1, <1>5, <1>6, <2>9
    <3>2. k \in 1..Len(level.orders) /\ (k = i \/ k < i)
      BY ONLY <1>1, <1>2, <1>4, <2>7, <2>9, k \in 1..Len(put.orders)
    <3>3. CASE k = i
      <4>1. Lessen(maker, left).qty = left
        BY ONLY <1>1, LessenIs
      <4> QED  BY ONLY <1>2, <3>1, <3>3, <4>1
    <3>4. CASE k < i
      <4>1. level.orders[k].qty = 0
        BY ONLY <1>1, <3>2, <3>4 DEF FirstLive
      <4>2. k # i
        BY ONLY <1>1, <3>2, <3>4, <2>7
      <4> QED  BY ONLY <1>2, <3>2, <4>1, <4>2
    <3> QED  BY ONLY <3>2, <3>3, <3>4
  <2> QED  BY ONLY <1>6, <1>14, <2>1, <2>2, <2>3, <2>4, <2>5, <2>6, <2>8, <2>9 DEF LoopOK
<1> QED  BY ONLY <1>10, <1>12, <1>13, <1>15 DEF LevelsInv

LEMMA LeaveLevels ==
  ASSUME LevelsInv, LeaveLevel
  PROVE  LevelsInv' /\ LiveOf(sides') = LiveOf(sides)
<1>1. PICK s, b, p, new : s = Other(taker.side) /\ b = sides[s] /\ p = best /\ new = Compacted(b, p)
  BY Zenon
<1>2. /\ taker # None /\ inner > 0 /\ (selfTrade' <=> MeetsOwn) /\ selfTrade' \in BOOLEAN
      /\ sides' = [sides EXCEPT ![Other(taker.side)] = Compacted(@, best)]
      /\ inner' = 0 /\ byId' = byId /\ taker' = taker /\ nextSeq' = nextSeq
  BY DEF LeaveLevel, MeetsOwn
<1>3. LevelsOK /\ CallOK /\ LoopOK
  BY DEF LevelsInv
<1>4. /\ s \in Sides /\ s # taker.side /\ taker.side \in Sides
      /\ \A x \in Sides : x = s \/ x = taker.side
      /\ opposite = b /\ SideOK(b, s, Bound)
  BY <1>1, <1>2, <1>3, OppositeIs
<1>5. Bound \in Nat /\ SidesOK(sides, Bound) /\ IdsOK(byId, LiveOf(sides))
  <2>1. Bound \in Nat
    BY <1>3, BoundIs
  <2> QED  BY ONLY <1>3, <2>1 DEF LevelsOK
<1>6. /\ b.prices # <<>> /\ Crosses(taker, p) /\ ~selfTrade /\ AllClean(sides[taker.side])
      /\ \A x \in Price : x # p /\ b.levels[x] # None => Clean(b.levels[x])
  <2>1. inner # 0
    BY ONLY <1>2, <1>3 DEF CallOK
  <2> QED  BY ONLY <1>1, <1>3, <1>4, <2>1 DEF LoopOK
<1>7. p \in Price /\ b.levels[p] # None
  <2>1. p = b.prices[1]
    BY ONLY <1>1, <1>4, Zenon DEF best
  <2> QED  BY ONLY <1>4, <1>6, <2>1, BestOfSide
<1>8. SideOK(new, s, Bound) /\ AllClean(new) /\ LiveIn(new) = LiveIn(b)
  <2>1. /\ SideOK(Compacted(b, p), s, Bound) /\ AllClean(Compacted(b, p))
        /\ LiveIn(Compacted(b, p)) = LiveIn(b)
    BY ONLY <1>4, <1>5, <1>6, <1>7, CompactedSide
  <2> QED  BY ONLY <1>1, <2>1, Zenon
<1>9. sides' = [sides EXCEPT ![s] = new]
  BY ONLY <1>1, <1>2, Zenon
<1>10. Changes(sides', sides, s, new, Bound)
  BY ONLY <1>4, <1>5, <1>8, <1>9 DEF Changes
<1>11. /\ SidesOK(sides', Bound)
       /\ AllClean(new) /\ (\A x \in Sides : x # s => AllClean(sides[x])) => SidesClean(sides')
       /\ LiveOf(sides') = {o \in LiveOf(sides) : o.side # s} \cup LiveIn(new)
  BY ONLY <1>10, SideChanged
<1>12. SidesClean(sides')
  BY ONLY <1>4, <1>6, <1>8, <1>11
<1>13. LiveIn(b) = {o \in LiveOf(sides) : o.side = s}
  BY ONLY <1>1, <1>4, <1>5, LiveOfSides
<1>14. LiveOf(sides') = LiveOf(sides)
  BY ONLY <1>8, <1>11, <1>13
<1>15. Bound' = Bound
  BY ONLY <1>2 DEF Bound
<1>16. LevelsOK'
  BY ONLY <1>2, <1>5, <1>11, <1>14, <1>15 DEF LevelsOK
<1>17. CallOK'
  BY ONLY <1>2, <1>3 DEF CallOK
<1>18. LoopOK'
  BY ONLY <1>2, <1>12 DEF LoopOK
<1>19. StopOK'
  <2> SUFFICES ASSUME selfTrade' PROVE taker # None /\ taker.qty > 0 /\ Book!SelfTrade'
    BY <1>2 DEF StopOK
  <2>1. MeetsOwn
    BY ONLY <1>2, selfTrade'
  <2>2. Meets /\ opposite.levels[best].orders[MetAt].user = taker.user
    BY ONLY <2>1 DEF MeetsOwn
  <2>3. PICK i, m : i = MetAt /\ m = opposite.levels[best].orders[i]
    BY Zenon
  <2>4. /\ taker # None /\ opposite.prices # <<>> /\ Crosses(taker, best)
        /\ FirstLive(opposite.levels[best], i) /\ taker.qty > 0
    BY <1>2, <2>2, <2>3, LoopFinds
  <2>5. m \in Book!Candidates
    BY <1>3, <2>3, <2>4, FrontIs
  <2>6. Book!SelfTrade
    BY <2>2, <2>3, <2>5 DEF Book!SelfTrade
  <2>7. Live' = Live
    BY ONLY <1>14 DEF Live, LiveOn, LiveOf
  <2> QED  BY ONLY <1>2, <2>4, <2>6, <2>7, SameSelfTrade
<1> QED  BY ONLY <1>14, <1>16, <1>17, <1>18, <1>19 DEF LevelsInv

\* The loops are over and something is left that may rest.
RestsNow == taker.qty > 0 /\ ~selfTrade /\ taker.type = "limit"

LEMMA FinishLevels ==
  ASSUME LevelsInv, Finish
  PROVE  /\ LevelsInv' /\ taker' = None
         /\ LiveOf(sides') = LiveOf(sides) \cup (IF RestsNow THEN {taker} ELSE {})
<1>1. PICK bk : bk = [sides |-> sides, byId |-> byId]
  OBVIOUS
<1>2. /\ taker # None /\ inner = 0 /\ taker' = None /\ ~selfTrade' /\ selfTrade' \in BOOLEAN
      /\ inner' = inner /\ nextSeq' = nextSeq
  BY DEF Finish
<1>3. /\ sides' = (IF RestsNow THEN Restored(bk, taker) ELSE bk).sides
      /\ byId' = (IF RestsNow THEN Restored(bk, taker) ELSE bk).byId
  BY <1>1, Zenon DEF Finish, RestsNow
<1>4. LevelsOK /\ CallOK /\ SidesClean(sides)
  BY <1>2 DEF LevelsInv, LoopOK
<1>5. /\ Bound \in Nat /\ nextSeq \in Nat /\ Bound <= nextSeq
      /\ taker \in Order /\ Bound = taker.seq
  BY <1>2, <1>4, BoundIs
<1>6. SidesOK(sides, Bound) /\ IdsOK(byId, LiveOf(sides))
  BY ONLY <1>4 DEF LevelsOK
<1>7. taker.seq < nextSeq /\ taker.id \notin DOMAIN byId
  BY ONLY <1>2, <1>4 DEF CallOK
<1>8. Bound' = nextSeq
  BY ONLY <1>2 DEF Bound
<1>9. /\ SidesOK(sides', nextSeq) /\ SidesClean(sides') /\ IdsOK(byId', LiveOf(sides'))
      /\ LiveOf(sides') = LiveOf(sides) \cup (IF RestsNow THEN {taker} ELSE {})
  <2>1. CASE RestsNow
    <3>1. BookIsOK(bk, Bound)
      BY ONLY <1>1, <1>4, <1>5, <1>6 DEF BookIsOK
    <3>2. MayRest(bk, taker, Bound, nextSeq)
      <4>1. taker.seq >= Bound
        BY ONLY <1>5
      <4>2. bk.byId = byId
        BY ONLY <1>1
      <4> QED  BY ONLY <1>5, <1>7, <2>1, <3>1, <4>1, <4>2 DEF MayRest, RestsNow
    <3>3. PICK bk2 : bk2 = Restored(bk, taker)
      OBVIOUS
    <3>4. BookIsOK(bk2, nextSeq) /\ LiveOf(bk2.sides) = LiveOf(bk.sides) \cup {taker}
      BY ONLY <3>2, <3>3, RestoredBook
    <3>5. sides' = bk2.sides /\ byId' = bk2.byId /\ bk.sides = sides
      BY ONLY <1>1, <1>3, <2>1, <3>3
    <3> QED  BY ONLY <2>1, <3>4, <3>5 DEF BookIsOK
  <2>2. CASE ~RestsNow
    <3>1. sides' = sides /\ byId' = byId
      BY ONLY <1>1, <1>3, <2>2
    <3>2. SidesOK(sides, nextSeq)
      BY ONLY <1>5, <1>6, SidesLater
    <3> QED  BY ONLY <1>4, <1>6, <2>2, <3>1, <3>2
  <2> QED  BY ONLY <2>1, <2>2
<1>10. LevelsOK' /\ LoopOK'
  BY ONLY <1>2, <1>8, <1>9 DEF LevelsOK, LoopOK
<1>11. CallOK'
  BY ONLY <1>2, <1>5 DEF CallOK
<1>12. StopOK'
  BY ONLY <1>2 DEF StopOK
<1> QED  BY ONLY <1>2, <1>9, <1>10, <1>11, <1>12 DEF LevelsInv

LEMMA CancelLevels ==
  ASSUME LevelsInv, NEW id \in OrderId, Cancel(id)
  PROVE  /\ LevelsInv' /\ taker = None /\ taker' = None
         /\ LiveOf(sides') = {o \in LiveOf(sides) : o.id # id}
         /\ ~(\E o \in LiveOf(sides) : o.id = id) => reply' = None
         /\ \A o \in LiveOf(sides) : o.id = id =>
              reply' = OrderState(id, "cancelled", o.qty)
<1>1. /\ taker = None /\ taker' = taker /\ inner' = inner /\ selfTrade' = selfTrade
      /\ nextSeq' = nextSeq
  BY DEF Cancel, loopVars
<1>2. LevelsOK /\ CallOK /\ inner = 0 /\ selfTrade = FALSE /\ SidesClean(sides)
  BY <1>1 DEF LevelsInv, CallOK, LoopOK
<1>3. Bound \in Nat /\ SidesOK(sides, Bound) /\ IdsOK(byId, LiveOf(sides))
  <2>1. Bound \in Nat
    BY <1>2, BoundIs
  <2> QED  BY ONLY <1>2, <2>1 DEF LevelsOK
<1>4. \A x : x \in DOMAIN byId <=> \E o \in LiveOf(sides) : o.id = x
  BY ONLY <1>3 DEF IdsOK
<1>5. Bound' = Bound
  BY ONLY <1>1 DEF Bound
<1>6. /\ SidesOK(sides', Bound) /\ SidesClean(sides') /\ IdsOK(byId', LiveOf(sides'))
      /\ DOMAIN byId' \subseteq DOMAIN byId
      /\ LiveOf(sides') = {o \in LiveOf(sides) : o.id # id}
      /\ ~(\E o \in LiveOf(sides) : o.id = id) => reply' = None
      /\ \A o \in LiveOf(sides) : o.id = id =>
           reply' = OrderState(id, "cancelled", o.qty)
  <2>1. CASE id \notin DOMAIN byId
    <3>1. reply' = None /\ sides' = sides /\ byId' = byId
      BY <2>1, Zenon DEF Cancel, bookVars
    <3>2. \A o \in LiveOf(sides) : o.id # id
      BY ONLY <1>4, <2>1
    <3> QED  BY ONLY <1>2, <1>3, <3>1, <3>2
  <2>2. CASE id \in DOMAIN byId
    <3>1. PICK m \in LiveOf(sides) : m.id = id
      BY ONLY <1>4, <2>2
    <3>2. byId[id] = RefOf(m)
      BY ONLY <1>3, <3>1 DEF IdsOK
    <3>3. PICK ref : ref = byId[id]
      OBVIOUS
    <3>4. ref.side = m.side /\ ref.seq = m.seq /\ ref = RefOf(m)
      BY ONLY <3>2, <3>3, RefIs
    <3>5. /\ reply' \in {OrderState(id, "cancelled", o.qty) :
                           o \in {n \in Live : n.seq = ref.seq}}
          /\ sides' = [sides EXCEPT ![ref.side] = Taken(@, ref)]
          /\ byId' = Restrict(byId, DOMAIN byId \ {id})
      BY <2>2, <3>3, Zenon DEF Cancel
    <3>6. PICK s, b, new : s = m.side /\ b = sides[s] /\ new = Taken(b, RefOf(m))
      OBVIOUS
    <3>7. s \in Sides /\ SideOK(b, s, Bound) /\ AllClean(b) /\ m \in LiveIn(b)
          /\ LiveIn(b) = {o \in LiveOf(sides) : o.side = s}
      <4>1. s \in Sides /\ LiveIn(b) = {o \in LiveOf(sides) : o.side = s}
        BY ONLY <1>3, <3>1, <3>6, LiveOfSides
      <4> QED  BY ONLY <1>2, <1>3, <3>1, <3>6, <4>1 DEF SidesOK, SidesClean
    <3>8. SideOK(new, s, Bound) /\ AllClean(new) /\ LiveIn(new) = LiveIn(b) \ {m}
      BY ONLY <1>3, <3>6, <3>7, TakenSide
    <3>9. Changes(sides', sides, s, new, Bound)
      BY ONLY <1>3, <3>4, <3>5, <3>6, <3>7, <3>8 DEF Changes
    <3>10. /\ SidesOK(sides', Bound)
           /\ AllClean(new) /\ (\A x \in Sides : x # s => AllClean(sides[x])) => SidesClean(sides')
           /\ LiveOf(sides') = {o \in LiveOf(sides) : o.side # s} \cup LiveIn(new)
      BY ONLY <3>9, SideChanged
    <3>11. SidesClean(sides')
      BY ONLY <1>2, <3>8, <3>10 DEF SidesClean
    <3>12. LiveOf(sides') = LiveOf(sides) \ {m}
      BY ONLY <3>1, <3>6, <3>7, <3>8, <3>10
    <3>13. IdsOK(byId', LiveOf(sides'))
      <4>1. IdsOK(Restrict(byId, DOMAIN byId \ {m.id}), LiveOf(sides) \ {m})
        BY ONLY <1>3, <3>1, IdsLess
      <4> QED  BY ONLY <3>1, <3>5, <3>12, <4>1
    <3>14. \A o, n \in LiveOf(sides) : o.seq = n.seq => o = n
      BY ONLY <1>3 DEF IdsOK
    <3>15. \A o \in LiveOf(sides) : o.id = id => o = m
      <4> SUFFICES ASSUME NEW o \in LiveOf(sides), o.id = id PROVE o = m
        OBVIOUS
      <4>1. RefOf(o) = RefOf(m)
        BY ONLY <1>3, <3>2, o \in LiveOf(sides), o.id = id DEF IdsOK
      <4>2. o.seq = m.seq
        BY ONLY <4>1, RefIs
      <4> QED  BY ONLY <3>1, <3>14, <4>2, o \in LiveOf(sides)
    <3>16. LiveOf(sides') = {o \in LiveOf(sides) : o.id # id}
      BY ONLY <3>1, <3>12, <3>15
    <3>17. reply' = OrderState(id, "cancelled", m.qty)
      <4>1. PICK o \in Live : o.seq = ref.seq /\ reply' = OrderState(id, "cancelled", o.qty)
        BY ONLY <3>5
      <4>2. o = m
        BY ONLY <3>1, <3>4, <3>14, <4>1, LiveIs
      <4> QED  BY ONLY <4>1, <4>2
    <3> QED  BY ONLY <3>1, <3>5, <3>10, <3>11, <3>13, <3>15, <3>16, <3>17 DEF Restrict
  <2> QED  BY ONLY <2>1, <2>2
<1>7. LevelsOK'
  BY ONLY <1>5, <1>6 DEF LevelsOK
<1>8. CallOK' /\ StopOK' /\ LoopOK'
  <2>1. CallOK'
    BY ONLY <1>1, <1>2 DEF CallOK
  <2> QED  BY ONLY <1>1, <1>2, <1>6, <2>1 DEF StopOK, LoopOK
<1> QED  BY ONLY <1>1, <1>6, <1>7, <1>8 DEF LevelsInv

LEMMA RebuildLevels ==
  ASSUME LevelsInv, Rebuild
  PROVE  LevelsInv' /\ LiveOf(sides') = LiveOf(sides)
<1>1. PICK new : new = BookOf(InOrder(LiveOf(sides)))
  OBVIOUS
<1>2. /\ taker = None /\ taker' = taker /\ inner' = inner /\ selfTrade' = selfTrade
      /\ nextSeq' = nextSeq /\ sides' = new.sides /\ byId' = new.byId
  BY <1>1, LiveIs, Zenon DEF Rebuild, loopVars
<1>3. LevelsOK /\ CallOK /\ inner = 0 /\ selfTrade = FALSE
  BY <1>2 DEF LevelsInv, CallOK
<1>4. Bound \in Nat /\ SidesOK(sides, Bound) /\ IdsOK(byId, LiveOf(sides))
  <2>1. Bound \in Nat
    BY <1>3, BoundIs
  <2> QED  BY ONLY <1>3, <2>1 DEF LevelsOK
<1>5. BookIsOK(new, Bound) /\ LiveOf(new.sides) = LiveOf(sides)
  BY ONLY <1>1, <1>4, Rebuilt
<1>6. Bound' = Bound
  BY ONLY <1>2 DEF Bound
<1>7. LevelsOK'
  BY ONLY <1>2, <1>5, <1>6 DEF LevelsOK, BookIsOK
<1>8. SidesClean(sides') /\ LiveOf(sides') = LiveOf(sides)
  BY ONLY <1>2, <1>5 DEF BookIsOK
<1>9. CallOK'
  BY ONLY <1>2, <1>3 DEF CallOK
<1> QED  BY ONLY <1>2, <1>3, <1>7, <1>8, <1>9 DEF LevelsInv, StopOK, LoopOK

LEMMA StutterLevels ==
  ASSUME LevelsInv, UNCHANGED vars
  PROVE  LevelsInv'
<1>1. /\ sides' = sides /\ byId' = byId /\ taker' = taker /\ inner' = inner
      /\ selfTrade' = selfTrade /\ nextSeq' = nextSeq
  BY DEF vars, bookVars, loopVars
<1>2. Bound' = Bound /\ opposite' = opposite /\ best' = best
  BY ONLY <1>1 DEF Bound, opposite, best
<1>3. LevelsOK'
  BY <1>1, <1>2, SameBook DEF LevelsInv
<1>4. CallOK' /\ LoopOK'
  <2>1. CallOK /\ LoopOK
    BY DEF LevelsInv
  <2> QED  BY ONLY <1>1, <1>2, <2>1 DEF CallOK, LoopOK
<1>5. StopOK'
  <2>1. Live' = Live
    BY ONLY <1>1 DEF Live, LiveOn
  <2>2. Book!SelfTrade' <=> Book!SelfTrade
    BY <1>1, <2>1, SameSelfTrade
  <2>3. StopOK
    BY DEF LevelsInv
  <2> QED  BY ONLY <1>1, <2>2, <2>3 DEF StopOK
<1> QED  BY ONLY <1>3, <1>4, <1>5 DEF LevelsInv

LEMMA NextLevels ==
  ASSUME LevelsInv, [Next]_vars
  PROVE  LevelsInv'
<1>1. ASSUME NEW id \in OrderId, NEW req \in Asked, Submit(id, req) PROVE LevelsInv'
  BY <1>1, SubmitLevels
<1>2. CASE EnterLevel
  BY <1>2, EnterLevels
<1>3. CASE Meet
  BY <1>3, MeetLevels
<1>4. CASE LeaveLevel
  BY <1>4, LeaveLevels
<1>5. CASE Finish
  BY <1>5, FinishLevels
<1>6. ASSUME NEW id \in OrderId, Cancel(id) PROVE LevelsInv'
  BY <1>6, CancelLevels
<1>7. CASE Rebuild
  BY <1>7, RebuildLevels
<1>8. CASE UNCHANGED vars
  BY <1>8, StutterLevels
<1> QED  BY ONLY [Next]_vars, <1>1, <1>2, <1>3, <1>4, <1>5, <1>6, <1>7, <1>8 DEF Next

(* The data structures of the order book keep their order through every    *)
(* call of submit, cancel and rebuildBooks, and between the iterations of  *)
(* submit's loops: sorted prices, queues in arrival order whose consumed   *)
(* orders are at the head, totals, and an index of just what rests.        *)
THEOREM LevelsKeepOrder == Spec => []LevelsInv
<1>1. Init => LevelsInv
  BY InitLevels
<1>2. LevelsInv /\ [Next]_vars => LevelsInv'
  BY NextLevels
<1> QED  BY <1>1, <1>2, PTL DEF Spec

-----------------------------------------------------------------------------
(* The order of the levels between calls.                                  *)

LEMMA BetweenCalls ==
  ASSUME LevelsInv, taker = None, NEW side \in Sides, NEW b, b = sides[side]
  PROVE  SideOK(b, side, nextSeq) /\ AllClean(b) /\ LiveOn(side) = LiveIn(b)
<1>1. LevelsOK /\ Bound = nextSeq /\ SidesClean(sides)
  BY DEF LevelsInv, CallOK, LoopOK, Bound
<1> QED  BY ONLY <1>1, side \in Sides, b = sides[side] DEF LevelsOK, SidesOK, SidesClean, LiveOn

\* What is left of a queue after its consumed head.
QueueOf(level) == SubSeq(level.orders, level.head + 1, Len(level.orders))

LEMMA QueueIs ==
  ASSUME NEW level, NEW side, NEW p, NEW n, QueueOK(level, side, p, n), Clean(level)
  PROVE  /\ QueueOf(level) # <<>>
         /\ \A k \in DOMAIN QueueOf(level) : QueueOf(level)[k].qty > 0
         /\ \A k, l \in DOMAIN QueueOf(level) :
              k < l => QueueOf(level)[k].seq < QueueOf(level)[l].seq
<1>1. PICK os, h, len, queue :
        os = level.orders /\ h = level.head /\ len = Len(level.orders) /\ queue = QueueOf(level)
  OBVIOUS
<1>2. /\ len \in Nat /\ h \in Nat /\ h < len
      /\ \A k \in 1..len : os[k] \in Order /\ os[k].qty \in Nat
      /\ os[h + 1].qty > 0
      /\ \A k, l \in 1..len : k < l => /\ os[k].seq < os[l].seq
                                       /\ os[k].qty > 0 => os[l].qty > 0
  <2>1. level \in PriceLevel
    BY DEF QueueOK
  <2>2. len \in Nat /\ h \in Nat /\ \A k \in 1..len : os[k] \in Order /\ os[k].qty \in Nat
    BY ONLY <1>1, <2>1, LevelIs
  <2>3. h < len /\ os[h + 1].qty > 0
    BY ONLY <1>1, Clean(level) DEF Clean
  <2>4. \A k, l \in 1..len : k < l => /\ os[k].seq < os[l].seq
                                      /\ os[k].qty > 0 => os[l].qty > 0
    BY ONLY <1>1, QueueOK(level, side, p, n) DEF QueueOK
  <2> QED  BY ONLY <2>2, <2>3, <2>4
<1>3. queue = SubSeq(os, h + 1, len)
  BY ONLY <1>1 DEF QueueOf
<1>4. /\ queue \in Seq(Order) /\ Len(queue) = len - h
      /\ \A k \in 1..(len - h) : queue[k] = os[h + k]
  <2>1. h + 1 \in Int /\ len \in Int /\ \A k \in (h + 1)..len : os[k] \in Order
    BY ONLY <1>2
  <2>2. /\ queue \in Seq(Order)
        /\ Len(queue) = IF h + 1 <= len THEN len - (h + 1) + 1 ELSE 0
        /\ \A k \in 1..(len - (h + 1) + 1) : queue[k] = os[h + 1 + k - 1]
    BY ONLY <1>3, <2>1, SubSeqProperties
  <2>3. Len(queue) = len - h /\ len - (h + 1) + 1 = len - h
    BY ONLY <1>2, <2>2
  <2>4. ASSUME NEW k \in 1..(len - h) PROVE queue[k] = os[h + k]
    <3>1. h + 1 + k - 1 = h + k
      BY ONLY <1>2, k \in 1..(len - h)
    <3>2. queue[k] = os[h + 1 + k - 1]
      BY ONLY <2>2, <2>3, k \in 1..(len - h)
    <3> QED  BY ONLY <3>1, <3>2
  <2> QED  BY ONLY <2>2, <2>3, <2>4
<1>5. \A k \in 1..(len - h) : h + k \in 1..len /\ (k = 1 \/ h + 1 < h + k)
  BY ONLY <1>2
<1>6. \A k \in 1..(len - h) : queue[k].qty > 0
  <2>1. h + 1 \in 1..len
    BY ONLY <1>2
  <2> QED  BY ONLY <1>2, <1>4, <1>5, <2>1
<1>7. \A k, l \in 1..(len - h) : k < l => queue[k].seq < queue[l].seq
  <2>1. \A k, l \in 1..(len - h) : k < l => h + k < h + l
    BY ONLY <1>2
  <2> QED  BY ONLY <1>2, <1>4, <1>5, <2>1
<1>8. DOMAIN queue = 1..(len - h) /\ queue # <<>>
  BY ONLY <1>2, <1>4
<1> QED  BY ONLY <1>1, <1>6, <1>7, <1>8

\* What LevelsInOrder asks of a side.
InOrderAs(b, side) ==
  /\ \A i, j \in DOMAIN b.prices : i < j => Better(side, b.prices[i], b.prices[j])
  /\ ToSet(b.prices) = {p \in Price : b.levels[p] # None}
  /\ \A i \in DOMAIN b.prices :
       /\ QueueOf(b.levels[b.prices[i]]) # <<>>
       /\ \A k \in DOMAIN QueueOf(b.levels[b.prices[i]]) :
            QueueOf(b.levels[b.prices[i]])[k].qty > 0
       /\ \A k, l \in DOMAIN QueueOf(b.levels[b.prices[i]]) :
            k < l => QueueOf(b.levels[b.prices[i]])[k].seq < QueueOf(b.levels[b.prices[i]])[l].seq

LEMMA LevelsStayInOrder ==
  ASSUME LevelsInv
  PROVE  LevelsInOrder
<1> SUFFICES ASSUME taker = None, NEW side \in Sides
             PROVE  InOrderAs(sides[side], side)
  BY Zenon DEF LevelsInOrder, InOrderAs, QueueOf
<1>0. PICK b : b = sides[side]
  OBVIOUS
<1>1. SideOK(b, side, nextSeq) /\ AllClean(b)
  BY <1>0, BetweenCalls
<1>2. /\ b \in BookSide /\ BestFirst(side, b.prices)
      /\ \A p \in Price : b.levels[p] # None <=> \E i \in DOMAIN b.prices : b.prices[i] = p
      /\ \A p \in Price : b.levels[p] # None => QueueOK(b.levels[p], side, p, nextSeq)
  BY ONLY <1>1 DEF SideOK
<1>3. \A i \in DOMAIN b.prices : b.prices[i] \in Price
  BY ONLY <1>2, SideIs
<1>4. ToSet(b.prices) = {p \in Price : b.levels[p] # None}
  BY ONLY <1>2, <1>3 DEF ToSet
<1>5. ASSUME NEW i \in DOMAIN b.prices, NEW level, level = b.levels[b.prices[i]]
      PROVE  /\ QueueOf(level) # <<>>
             /\ \A k \in DOMAIN QueueOf(level) : QueueOf(level)[k].qty > 0
             /\ \A k, l \in DOMAIN QueueOf(level) :
                  k < l => QueueOf(level)[k].seq < QueueOf(level)[l].seq
  <2>1. QueueOK(level, side, b.prices[i], nextSeq) /\ Clean(level)
    BY ONLY <1>1, <1>2, <1>3, <1>5 DEF AllClean
  <2> QED  BY ONLY <2>1, QueueIs
<1> QED  BY ONLY <1>0, <1>2, <1>4, <1>5 DEF BestFirst, InOrderAs

(* Between calls, the sorted prices are exactly those of the levels, best  *)
(* first, and every queue holds from its head on at least one order, and   *)
(* only orders with something left, in the order they came (insertPrice,   *)
(* compact, remove).                                                       *)
THEOREM LevelsAreInOrder == Spec => []LevelsInOrder
<1>1. LevelsInv => LevelsInOrder
  BY LevelsStayInOrder
<1> QED  BY <1>1, LevelsKeepOrder, PTL

-----------------------------------------------------------------------------
(* The snapshot.                                                           *)

\* What is out after the level of price p, when out was before it.
NextShown(b, out, p) ==
  IF Len(out) < Depth /\ b.levels[p].total > 0
  THEN Append(out, [price |-> p, qty |-> b.levels[p].total]) ELSE out

\* f tells what is out after i of the prices.
Shows(f, b, n) ==
  f = [i \in 0..n |-> IF i = 0 THEN <<>> ELSE NextShown(b, f[i - 1], b.prices[i])]

LEMMA SnapshotIs ==
  ASSUME NEW b
  PROVE  Snapshot(b) = (CHOOSE f : Shows(f, b, Len(b.prices)))[Len(b.prices)]
BY Zenon DEF Snapshot, Shows, NextShown

LEMMA ShowsExists ==
  ASSUME NEW b, NEW n \in Nat
  PROVE  \E f : Shows(f, b, n)
<1> DEFINE Bad == {m \in Nat : ~(\E f : Shows(f, b, m))}
<1>1. ASSUME Bad # {} PROVE FALSE
  <2>1. PICK m \in Bad : \A k \in Bad : m <= k
    <3>1. Bad \in SUBSET Nat
      OBVIOUS
    <3> HIDE DEF Bad
    <3> QED  BY <1>1, <3>1, LeastNat
  <2>2. m \in Nat /\ ~(\E f : Shows(f, b, m))
    OBVIOUS
  <2>3. CASE m = 0
    <3> DEFINE g == [k \in 0..0 |-> <<>>]
    <3>1. g = [k \in 0..0 |-> IF k = 0 THEN <<>> ELSE NextShown(b, g[k - 1], b.prices[k])]
      OBVIOUS
    <3> HIDE DEF g
    <3>2. Shows(g, b, 0)
      BY ONLY <3>1 DEF Shows
    <3> QED  BY <2>2, <2>3, <3>2
  <2>4. CASE m # 0
    <3>1. m - 1 \in Nat /\ \E f : Shows(f, b, m - 1)
      <4>1. m - 1 \in Nat /\ m - 1 \notin Bad
        <5> HIDE DEF Bad
        <5> QED  BY <2>1, <2>2, <2>4
      <4> QED  BY <4>1
    <3>2. PICK f : Shows(f, b, m - 1)
      BY <3>1
    <3> DEFINE g == [k \in 0..m |-> IF k = 0 THEN <<>> ELSE NextShown(b, f[k - 1], b.prices[k])]
    <3>3. ASSUME NEW k \in 0..m, k # 0 PROVE k - 1 \in 0..(m - 1) /\ k - 1 \in 0..m
      BY <2>2, <3>3
    <3>4. ASSUME NEW k \in 0..(m - 1) PROVE g[k] = f[k]
      <4>1. k \in 0..m
        BY <2>2
      <4>2. f[k] = IF k = 0 THEN <<>> ELSE NextShown(b, f[k - 1], b.prices[k])
        BY <3>2 DEF Shows
      <4> QED  BY <4>1, <4>2
    <3>5. ASSUME NEW k \in 0..m
          PROVE  g[k] = IF k = 0 THEN <<>> ELSE NextShown(b, g[k - 1], b.prices[k])
      <4>1. g[k] = IF k = 0 THEN <<>> ELSE NextShown(b, f[k - 1], b.prices[k])
        OBVIOUS
      <4> HIDE DEF g
      <4> QED  BY <3>3, <3>4, <4>1
    <3>6. Shows(g, b, m)
      <4>1. g = [k \in 0..m |-> g[k]]
        OBVIOUS
      <4> HIDE DEF g
      <4> QED  BY <3>5, <4>1 DEF Shows
    <3> QED  BY <2>2, <3>6
  <2> QED  BY <2>3, <2>4
<1> QED  BY <1>1

(* A level whose queue is not used up has something to show.               *)
LEMMA TotalIs ==
  ASSUME NEW b, NEW side, NEW n, SideOK(b, side, n), AllClean(b),
         NEW p \in Price, b.levels[p] # None
  PROVE  /\ b.levels[p].total \in Nat /\ b.levels[p].total > 0
         /\ b.levels[p].total = QtyOf({m \in LiveIn(b) : m.price = p})
<1>1. PICK level : level = b.levels[p]
  OBVIOUS
<1>2. QueueOK(level, side, p, n) /\ Clean(level)
  BY <1>1 DEF SideOK, AllClean
<1>3. level \in PriceLevel /\ level.total = QtyOf(LiveAt(level))
  BY ONLY <1>2 DEF QueueOK
<1>4. LiveAt(level) = {m \in LiveIn(b) : m.price = p}
  <2>1. \A m : m \in LiveAt(level) <=> m \in LiveIn(b) /\ m.price = p
    BY <1>1, LiveAtPrice
  <2> QED  BY ONLY <2>1
<1>5. level.head \in Nat /\ Len(level.orders) \in Nat /\ level.total \in Nat
  BY ONLY <1>3, LevelIs
<1>6. PICK m : m = level.orders[level.head + 1]
  OBVIOUS
<1>7. m \in LiveAt(level)
  <2>1. /\ level.head + 1 \in 1..Len(level.orders) /\ level.head + 1 > level.head
        /\ level.orders[level.head + 1].qty > 0
    BY ONLY <1>2, <1>5 DEF Clean
  <2> QED  BY ONLY <1>3, <1>6, <2>1, LiveAtIs
<1>8. IsFiniteSet(LiveAt(level)) /\ \A o \in LiveAt(level) : o.qty \in Nat /\ o.qty > 0
  BY ONLY <1>3, LiveAtIs
<1>9. PICK rest : rest = QtyOf(LiveAt(level) \ {m})
  OBVIOUS
<1>10. rest \in Nat /\ level.total = rest + m.qty
  <2>1. /\ \A P \in SUBSET LiveAt(level) : QtyOf(P) \in Nat
        /\ \A o \in LiveAt(level) : QtyOf(LiveAt(level)) = QtyOf(LiveAt(level) \ {o}) + o.qty
    BY ONLY <1>8, QtyFacts
  <2> QED  BY ONLY <1>3, <1>7, <1>9, <2>1
<1>11. level.total > 0
  <2>1. m.qty \in Nat /\ m.qty > 0
    BY ONLY <1>7, <1>8
  <2> QED  BY ONLY <1>10, <2>1
<1> QED  BY ONLY <1>1, <1>3, <1>4, <1>5, <1>11

\* out shows the levels of the first i prices, as far as Depth allows.
OutIs(out, b, i) ==
  LET len == IF i <= Depth THEN i ELSE Depth
  IN  /\ out \in Seq([price : Price, qty : Nat]) /\ Len(out) = len
      /\ \A k \in 1..len : /\ out[k].price = b.prices[k]
                           /\ out[k].qty = b.levels[b.prices[k]].total

\* The level of price p shows t after out.
ShowsMore(b, out, p, t) ==
  /\ p \in Price /\ t = b.levels[p].total /\ t \in Nat /\ t > 0
  /\ out \in Seq([price : Price, qty : Nat])

LEMMA NextShownIs ==
  ASSUME NEW b, NEW out, NEW p, NEW t, ShowsMore(b, out, p, t)
  PROVE  IF Len(out) < Depth
         THEN /\ NextShown(b, out, p) \in Seq([price : Price, qty : Nat])
              /\ Len(NextShown(b, out, p)) = Len(out) + 1
              /\ \A k \in 1..Len(out) : NextShown(b, out, p)[k] = out[k]
              /\ NextShown(b, out, p)[Len(out) + 1] = [price |-> p, qty |-> t]
         ELSE NextShown(b, out, p) = out
<1>1. PICK e : e = [price |-> p, qty |-> t]
  OBVIOUS
<1>2. e \in [price : Price, qty : Nat]
  BY <1>1 DEF ShowsMore
<1>3. NextShown(b, out, p) = IF Len(out) < Depth THEN Append(out, e) ELSE out
  BY <1>1 DEF NextShown, ShowsMore
<1>4. /\ Append(out, e) \in Seq([price : Price, qty : Nat])
      /\ Len(Append(out, e)) = Len(out) + 1
      /\ \A k \in 1..Len(out) : Append(out, e)[k] = out[k]
      /\ Append(out, e)[Len(out) + 1] = e
  <2>1. out \in Seq([price : Price, qty : Nat])
    BY DEF ShowsMore
  <2> QED  BY ONLY <1>2, <2>1, AppendProperties
<1> QED  BY ONLY <1>1, <1>3, <1>4

(* What can be shown of a side: its prices are levels with a positive total. *)
MayShow(b) ==
  /\ b.prices \in Seq(Price)
  /\ \A i \in 1..Len(b.prices) : /\ b.levels[b.prices[i]].total \in Nat
                                 /\ b.levels[b.prices[i]].total > 0

LEMMA ShowsAll ==
  ASSUME NEW b, NEW f, MayShow(b), Shows(f, b, Len(b.prices))
  PROVE  \A i \in 0..Len(b.prices) : OutIs(f[i], b, i)
<1>1. PICK n, ps : n = Len(b.prices) /\ ps = b.prices
  OBVIOUS
<1>2. n \in Nat /\ Depth \in Nat /\ ps \in Seq(Price) /\ n = Len(ps)
  BY <1>1, LevelsAssumption DEF MayShow
<1>3. \A i \in 1..n : /\ ps[i] \in Price /\ b.levels[ps[i]].total \in Nat
                      /\ b.levels[ps[i]].total > 0
  <2>1. \A i \in 1..n : ps[i] \in Price
    BY ONLY <1>2
  <2> QED  BY <1>1, <2>1 DEF MayShow
<1>4. \A i \in 0..n : f[i] = IF i = 0 THEN <<>> ELSE NextShown(b, f[i - 1], ps[i])
  BY <1>1 DEF Shows
<1> DEFINE Bad == {i \in 0..n : ~OutIs(f[i], b, i)}
<1>5. ASSUME Bad # {} PROVE FALSE
  <2>1. PICK i \in Bad : \A j \in Bad : i <= j
    <3>1. Bad \in SUBSET Nat
      BY <1>2
    <3> HIDE DEF Bad
    <3> QED  BY <1>5, <3>1, LeastNat
  <2>2. i \in 0..n /\ ~OutIs(f[i], b, i)
    OBVIOUS
  <2>3. CASE i = 0
    <3>1. f[i] = <<>>
      BY <1>4, <2>2, <2>3
    <3>2. OutIs(<<>>, b, 0)
      BY <1>2 DEF OutIs
    <3> QED  BY ONLY <2>2, <2>3, <3>1, <3>2
  <2>4. CASE i # 0
    <3>1. i - 1 \in 0..n /\ i \in 1..n /\ ~(i <= i - 1)
      BY ONLY <1>2, <2>2, <2>4
    <3>2. i - 1 \notin Bad
      <4> HIDE DEF Bad
      <4> QED  BY ONLY <2>1, <3>1
    <3>3. PICK j \in Nat : j = i - 1
      BY ONLY <1>2, <3>1
    <3>4. OutIs(f[j], b, j)
      BY <3>1, <3>2, <3>3
    <3>5. PICK out, new : out = f[j] /\ new = f[i]
      OBVIOUS
    <3>6. PICK len \in Nat : len = IF j <= Depth THEN j ELSE Depth
      BY ONLY <1>2, <3>3
    <3>7. /\ out \in Seq([price : Price, qty : Nat]) /\ Len(out) = len
          /\ \A k \in 1..len : /\ out[k].price = b.prices[k]
                               /\ out[k].qty = b.levels[b.prices[k]].total
      BY ONLY <3>4, <3>5, <3>6 DEF OutIs
    <3>8. new = NextShown(b, out, ps[i])
      BY ONLY <1>4, <2>2, <2>4, <3>3, <3>5
    <3>9. PICK p \in Price, t \in Nat : p = ps[i] /\ t = b.levels[p].total /\ t > 0
      BY ONLY <1>3, <3>1
    <3>10. IF len < Depth
           THEN /\ new \in Seq([price : Price, qty : Nat]) /\ Len(new) = len + 1
                /\ \A k \in 1..len : new[k] = out[k]
                /\ new[len + 1] = [price |-> p, qty |-> t]
           ELSE new = out
      <4>1. p \in Price /\ t = b.levels[p].total /\ t \in Nat /\ t > 0
        BY ONLY <3>9
      <4>2. out \in Seq([price : Price, qty : Nat]) /\ Len(out) = len
        BY ONLY <3>7
      <4>3. IF Len(out) < Depth
            THEN /\ NextShown(b, out, p) \in Seq([price : Price, qty : Nat])
                 /\ Len(NextShown(b, out, p)) = Len(out) + 1
                 /\ \A k \in 1..Len(out) : NextShown(b, out, p)[k] = out[k]
                 /\ NextShown(b, out, p)[Len(out) + 1] = [price |-> p, qty |-> t]
            ELSE NextShown(b, out, p) = out
        <5>1. ShowsMore(b, out, p, t)
          BY ONLY <4>1, <4>2 DEF ShowsMore
        <5> QED  BY ONLY <5>1, NextShownIs
      <4>4. new = NextShown(b, out, p)
        BY ONLY <3>8, <3>9
      <4> QED  BY ONLY <4>2, <4>3, <4>4
    <3>11. CASE len < Depth
      <4>1. len = j /\ len + 1 = i /\ i <= Depth
        BY ONLY <1>2, <3>3, <3>6, <3>11, <3>1
      <4>2. new[i].price = b.prices[i] /\ new[i].qty = b.levels[b.prices[i]].total
        BY ONLY <1>1, <3>9, <3>10, <3>11, <4>1
      <4>3. \A k \in 1..len : /\ new[k].price = b.prices[k]
                              /\ new[k].qty = b.levels[b.prices[k]].total
        BY ONLY <3>7, <3>10, <3>11
      <4>4. \A k \in 1..i : k \in 1..len \/ k = i
        BY ONLY <4>1, <3>1, len \in Nat
      <4>5. \A k \in 1..i : /\ new[k].price = b.prices[k]
                            /\ new[k].qty = b.levels[b.prices[k]].total
        BY ONLY <4>2, <4>3, <4>4
      <4>6. Len(new) = i /\ new \in Seq([price : Price, qty : Nat])
        BY ONLY <3>10, <3>11, <4>1
      <4>7. OutIs(new, b, i)
        BY ONLY <4>1, <4>5, <4>6 DEF OutIs
      <4> QED  BY ONLY <2>2, <3>5, <4>7
    <3>12. CASE ~(len < Depth)
      <4>1. len = Depth /\ (i <= Depth => FALSE)
        BY ONLY <1>2, <3>3, <3>6, <3>12, <3>1
      <4>2. new = out
        BY ONLY <3>10, <3>12
      <4>3. OutIs(new, b, i)
        BY ONLY <3>7, <4>1, <4>2 DEF OutIs
      <4> QED  BY ONLY <2>2, <3>5, <4>3
    <3> QED  BY <3>11, <3>12
  <2> QED  BY <2>3, <2>4
<1>6. \A i \in 0..n : OutIs(f[i], b, i)
  BY <1>5
<1> QED  BY ONLY <1>1, <1>6

LEMMA SnapshotShows ==
  ASSUME NEW b, MayShow(b), NEW n, n = Len(b.prices)
  PROVE  OutIs(Snapshot(b), b, n)
<1>1. n \in Nat /\ n \in 0..n
  BY DEF MayShow
<1>2. PICK f : f = CHOOSE g : Shows(g, b, n)
  OBVIOUS
<1>3. Shows(f, b, n)
  BY ONLY <1>1, <1>2, ShowsExists
<1>4. Snapshot(b) = f[n]
  BY ONLY <1>2, n = Len(b.prices), SnapshotIs
<1>5. \A i \in 0..n : OutIs(f[i], b, i)
  <2>1. Shows(f, b, Len(b.prices))
    BY ONLY <1>3, n = Len(b.prices)
  <2> QED  BY ONLY MayShow(b), n = Len(b.prices), <2>1, ShowsAll
<1> QED  BY ONLY <1>1, <1>4, <1>5

LEMMA SnapshotTells ==
  ASSUME LevelsInv, taker = None, NEW side \in Sides, NEW shown, shown = Snapshot(sides[side])
  PROVE  /\ \A i \in DOMAIN shown :
              shown[i].qty = QtyOf({m \in LiveOn(side) : m.price = shown[i].price})
         /\ \A m \in LiveOn(side) :
              \/ \E i \in DOMAIN shown : shown[i].price = m.price
              \/ /\ Len(shown) = Depth
                 /\ \A i \in DOMAIN shown : Better(side, shown[i].price, m.price)
<1>1. PICK b : b = sides[side]
  OBVIOUS
<1>2. SideOK(b, side, nextSeq) /\ AllClean(b) /\ LiveOn(side) = LiveIn(b)
  BY <1>1, BetweenCalls
<1>3. /\ b \in BookSide /\ BestFirst(side, b.prices)
      /\ \A p \in Price : b.levels[p] # None <=> \E i \in DOMAIN b.prices : b.prices[i] = p
  BY ONLY <1>2 DEF SideOK
<1>4. b.prices \in Seq(Price) /\ Len(b.prices) \in Nat /\ DOMAIN b.prices = 1..Len(b.prices)
  BY ONLY <1>3, SideIs
<1>5. PICK n, ps : n \in Nat /\ n = Len(b.prices) /\ ps = b.prices
  BY ONLY <1>4
<1>6. \A i \in 1..n : ps[i] \in Price /\ b.levels[ps[i]] # None
  BY ONLY <1>3, <1>4, <1>5
<1>7. \A p \in Price : b.levels[p] # None =>
        /\ b.levels[p].total \in Nat /\ b.levels[p].total > 0
        /\ b.levels[p].total = QtyOf({m \in LiveIn(b) : m.price = p})
  BY ONLY <1>2, TotalIs
<1>8. MayShow(b)
  BY ONLY <1>4, <1>5, <1>6, <1>7 DEF MayShow
<1>9. PICK len \in Nat : len = IF n <= Depth THEN n ELSE Depth
  BY <1>5, LevelsAssumption
<1>10. /\ DOMAIN shown = 1..len /\ Len(shown) = len
       /\ \A k \in 1..len : shown[k].price = ps[k] /\ shown[k].qty = b.levels[ps[k]].total
  <2>1. OutIs(shown, b, n)
    <3>1. OutIs(Snapshot(b), b, n)
      BY ONLY <1>5, <1>8, SnapshotShows
    <3> QED  BY ONLY <1>1, <3>1, shown = Snapshot(sides[side])
  <2>2. /\ shown \in Seq([price : Price, qty : Nat]) /\ Len(shown) = len
        /\ \A k \in 1..len : shown[k].price = b.prices[k] /\ shown[k].qty = b.levels[b.prices[k]].total
    BY ONLY <1>9, <2>1 DEF OutIs
  <2> QED  BY ONLY <1>5, <2>2
<1>11. \A k \in 1..len : k \in 1..n
  BY ONLY <1>9, <1>5, LevelsAssumption
<1>12. ASSUME NEW i \in DOMAIN shown
       PROVE  shown[i].qty = QtyOf({m \in LiveOn(side) : m.price = shown[i].price})
  <2>1. PICK p \in Price : p = ps[i] /\ b.levels[p] # None
    BY ONLY <1>6, <1>10, <1>11, i \in DOMAIN shown
  <2>2. b.levels[p].total = QtyOf({m \in LiveIn(b) : m.price = p})
    BY ONLY <1>7, <2>1
  <2>3. shown[i].price = p /\ shown[i].qty = b.levels[p].total
    BY ONLY <1>10, <2>1, i \in DOMAIN shown
  <2> QED  BY ONLY <1>2, <2>2, <2>3
<1>13. ASSUME NEW m \in LiveOn(side), ~(\E i \in DOMAIN shown : shown[i].price = m.price)
       PROVE  /\ Len(shown) = Depth
              /\ \A i \in DOMAIN shown : Better(side, shown[i].price, m.price)
  <2>1. m \in LiveIn(b)
    BY ONLY <1>2, m \in LiveOn(side)
  <2>2. m.price \in Price /\ b.levels[m.price] # None
    BY ONLY <1>2, <2>1, LiveInSide
  <2>3. PICK j \in 1..n : ps[j] = m.price
    BY ONLY <1>3, <1>4, <1>5, <2>2
  <2>4. ~(j \in 1..len)
    BY ONLY <1>10, <1>13, <2>3
  <2>5. len = Depth /\ \A k \in 1..len : k < j
    BY ONLY <1>9, <2>4, <1>5, len \in Nat, j \in 1..n
  <2>6. \A k \in 1..len : Better(side, ps[k], ps[j])
    BY ONLY <1>3, <1>4, <1>5, <1>11, <2>5, j \in 1..n DEF BestFirst
  <2> QED  BY ONLY <1>10, <2>3, <2>5, <2>6
<1> QED  BY ONLY <1>12, <1>13

(* Between calls a snapshot shows, best price first, what rests at each    *)
(* price: the running totals of the levels never drift from their queues   *)
(* (add, reduce, remove, snapshot).                                        *)
THEOREM SnapshotsTellTheBook == Spec => []SnapshotTellsTheBook
<1>1. LevelsInv => SnapshotTellsTheBook
  BY SnapshotTells, Zenon DEF SnapshotTellsTheBook
<1> QED  BY <1>1, LevelsKeepOrder, PTL

-----------------------------------------------------------------------------
(* The levels implement the book.                                          *)

LEMMA InitMaps ==
  ASSUME Init
  PROVE  Book!Init
<1>1. sides = [side \in Sides |-> EmptySide]
  BY DEF Init
<1>2. LiveIn(EmptySide) = {}
  BY EmptySideIs
<1>3. Live = {}
  BY ONLY <1>1, <1>2 DEF Live, LiveOn, Sides
<1> QED  BY <1>3 DEF Init, Book!Init

LEMMA HasIs ==
  ASSUME LevelsOK
  PROVE  \A id : Book!Has(id) <=> id \in DOMAIN byId
<1>1. \A id : id \in DOMAIN byId <=> \E o \in LiveOf(sides) : o.id = id
  BY ONLY LevelsOK DEF LevelsOK, IdsOK
<1>2. \A id : Book!Has(id) <=> \E o \in Live : o.id = id
  BY DEF Book!Has
<1> QED  BY ONLY <1>1, <1>2, LiveIs

LEMMA SubmitMaps ==
  ASSUME LevelsInv, NEW id \in OrderId, NEW req \in Asked, Submit(id, req)
  PROVE  Book!Next
<1>1. /\ req.user \in User /\ req.side \in Sides /\ req.type \in OrderTypes
      /\ req.price \in Price /\ req.qty \in Qty
  BY LevelsAssumption DEF Request
<1>2. ~Book!Has(id)
  BY HasIs DEF LevelsInv, Submit
<1>3. Live' = Live
  BY DEF Submit, bookVars, Live, LiveOn
<1>4. Book!Submit(id, req.user, req.side, req.type, req.price, req.qty)
  BY ONLY <1>2, <1>3, Submit(id, req), Zenon DEF Submit, Book!Submit
<1>5. req.side \in Book!Sides /\ req.type \in Book!OrderTypes
  BY <1>1 DEF Sides, OrderTypes, Book!Sides, Book!OrderTypes
<1> QED  BY ONLY <1>1, <1>4, <1>5, id \in OrderId DEF Book!Next

LEMMA MeetMaps ==
  ASSUME LevelsInv, Meet
  PROVE  Book!Next
<1>1. PICK i, s, b, p, level, m, q, left, put, new :
        MeetOf(i, s, b, p, level, m, q, left, put, new)
  BY MeetOfExists
<1>2. /\ taker # None /\ taker.qty > 0 /\ m \in Book!Candidates /\ m \in LiveOf(sides)
      /\ m.qty \in Nat /\ left \in Nat /\ q \in Nat /\ opposite = b
  BY <1>1, MeetFinds
<1>3. LiveOf(sides') = (LiveOf(sides) \ {m})
                         \cup (IF left > 0 THEN {Lessen(m, left)} ELSE {})
  BY <1>1, MeetMakes
<1>4. q = (IF m.qty < taker.qty THEN m.qty ELSE taker.qty) /\ left = m.qty - q
  BY <1>1, Zenon DEF MeetOf
<1>5. (left > 0 <=> m.qty > q) /\ (left = 0 <=> ~(m.qty > q))
  <2>1. PICK mq \in Nat : mq = m.qty
    BY ONLY <1>2
  <2>2. (left > 0 <=> mq > q) /\ (left = 0 <=> ~(mq > q))
    BY ONLY <1>2, <1>4, <2>1
  <2> QED  BY ONLY <2>1, <2>2
<1>6. Live' = (Live \ {m}) \cup Book!Reduce(m, q)
  <2>1. Book!Reduce(m, q) = IF left > 0 THEN {Lessen(m, left)} ELSE {}
    BY ONLY <1>4, <1>5 DEF Book!Reduce, Lessen
  <2>2. Live' = LiveOf(sides')
    BY DEF Live, LiveOn, LiveOf
  <2> QED  BY ONLY <1>3, <2>1, <2>2, LiveIs
<1>7. PICK mk, qq, lf :
        /\ mk = opposite.levels[best].orders[MetAt]
        /\ qq = (IF mk.qty < taker.qty THEN mk.qty ELSE taker.qty)
        /\ lf = mk.qty - qq
  BY Zenon
<1>8. mk = m /\ qq = q /\ lf = left
  <2>1. i = MetAt /\ p = best /\ level = b.levels[p] /\ m = level.orders[i]
    BY <1>1, Zenon DEF MeetOf
  <2>2. mk = m
    BY ONLY <1>2, <1>7, <2>1, Zenon
  <2> QED  BY ONLY <1>4, <1>7, <2>2, Zenon
<1>9. /\ m.user # taker.user
      /\ taker' = [taker EXCEPT !.qty = @ - q]
      /\ trades' = Append(trades, TradeOf(taker, m, q))
      /\ makers' = {x \in makers : x.orderId # m.id}
                     \cup {OrderState(m.id, IF left = 0 THEN "filled" ELSE "partial", left)}
  <2>1. mk.user # taker.user
    BY <1>7, Zenon DEF Meet
  <2>2. taker' = [taker EXCEPT !.qty = @ - qq]
    BY <1>7, Zenon DEF Meet
  <2>3. trades' = Append(trades, TradeOf(taker, mk, qq))
    BY <1>7, Zenon DEF Meet
  <2>4. makers' = {x \in makers : x.orderId # mk.id}
                    \cup {OrderState(mk.id, IF lf = 0 THEN "filled" ELSE "partial", lf)}
    BY <1>7, Zenon DEF Meet
  <2> QED  BY ONLY <1>8, <2>1, <2>2, <2>3, <2>4, Zenon
<1>10. reply' = reply /\ nextSeq' = nextSeq /\ before' = before
  BY Zenon DEF Meet
<1>11. trades' = Append(trades, Book!TradeOf(taker, m, q))
  BY ONLY <1>9, BookReports
<1>12. (IF left = 0 THEN "filled" ELSE "partial") = (IF m.qty > q THEN "partial" ELSE "filled")
  BY ONLY <1>5
<1>13. makers' = {x \in makers : x.orderId # m.id} \cup
                   {Book!OrderState(m.id, IF m.qty > q THEN "partial" ELSE "filled", m.qty - q)}
  BY ONLY <1>4, <1>9, <1>12, BookReports, Zenon
<1>14. Book!Match(m)
  BY ONLY <1>2, <1>4, <1>6, <1>9, <1>10, <1>11, <1>13, Zenon DEF Book!Match
<1>15. m \in Live
  BY ONLY <1>2, LiveIs
<1> QED  BY ONLY <1>14, <1>15 DEF Book!Next

LEMMA FinishMaps ==
  ASSUME LevelsInv, Finish
  PROVE  Book!Next
<1>1. /\ taker # None /\ ~GoesOn /\ taker' = None /\ LevelsOK /\ CallOK /\ StopOK
      /\ trades' = trades /\ makers' = makers /\ nextSeq' = nextSeq /\ before' = before
  BY DEF Finish, LevelsInv
<1>2. taker.qty = 0 \/ selfTrade \/ Book!Candidates = {}
  BY <1>1, NothingLeft
<1>3. taker.qty \in Nat /\ (selfTrade => Book!SelfTrade)
  BY <1>1, BoundIs DEF StopOK
<1>4. Book!Candidates = {} => ~Book!SelfTrade
  BY DEF Book!SelfTrade
<1>5. RestsNow <=> Book!Remains
  BY ONLY <1>2, <1>3, <1>4 DEF RestsNow, Book!Remains
<1>6. LiveOf(sides') = LiveOf(sides) \cup (IF RestsNow THEN {taker} ELSE {})
  BY FinishLevels
<1>7. Live' = Live \cup (IF Book!Remains THEN {taker} ELSE {})
  <2>1. Live' = LiveOf(sides')
    BY DEF Live, LiveOn, LiveOf
  <2> QED  BY ONLY <1>5, <1>6, <2>1, LiveIs
<1>8. reply' = OrderState(taker.id,
        CASE taker.qty = 0                       -> "filled"
          [] taker.qty > 0 /\ ~RestsNow          -> Discarded(taker, taker.qty)
          [] RestsNow /\ taker.qty < taker.orig  -> "partial"
          [] RestsNow /\ taker.qty = taker.orig  -> "open",
        taker.qty)
  BY Zenon DEF Finish, RestsNow
<1>9. reply' = Book!OrderState(taker.id,
        CASE taker.qty = 0                           -> "filled"
          [] taker.qty > 0 /\ ~Book!Remains          -> Book!Discarded(taker, taker.qty)
          [] Book!Remains /\ taker.qty < taker.orig  -> "partial"
          [] Book!Remains /\ taker.qty = taker.orig  -> "open",
        taker.qty)
  BY ONLY <1>5, <1>8, BookReports
<1>10. Book!Finish
  BY ONLY <1>1, <1>2, <1>3, <1>7, <1>9 DEF Book!Finish
<1> QED  BY ONLY <1>10 DEF Book!Next

LEMMA CancelMaps ==
  ASSUME LevelsInv, NEW id \in OrderId, Cancel(id)
  PROVE  Book!Next
<1>1. /\ taker = None /\ taker' = None
      /\ LiveOf(sides') = {o \in LiveOf(sides) : o.id # id}
      /\ ~(\E o \in LiveOf(sides) : o.id = id) => reply' = None
      /\ \A o \in LiveOf(sides) : o.id = id => reply' = OrderState(id, "cancelled", o.qty)
  BY CancelLevels
<1>2. /\ trades' = <<>> /\ makers' = {} /\ before' = None /\ nextSeq' = nextSeq
  BY DEF Cancel, loopVars
<1>3. Live' = {o \in Live : o.id # id}
  <2>1. Live' = LiveOf(sides')
    BY DEF Live, LiveOn, LiveOf
  <2> QED  BY ONLY <1>1, <2>1, LiveIs
<1>4. Book!Has(id) <=> \E o \in Live : o.id = id
  BY DEF Book!Has
<1>5. reply' \in IF Book!Has(id)
                 THEN {Book!OrderState(id, "cancelled", o.qty) : o \in Live \ Live'}
                 ELSE {None}
  <2>1. CASE Book!Has(id)
    <3>1. PICK o \in Live : o.id = id
      BY ONLY <1>4, <2>1
    <3>2. o \in Live \ Live'
      BY ONLY <1>3, <3>1
    <3>3. reply' = Book!OrderState(id, "cancelled", o.qty)
      BY ONLY <1>1, <3>1, LiveIs, BookReports
    <3> QED  BY ONLY <2>1, <3>2, <3>3
  <2>2. CASE ~Book!Has(id)
    BY ONLY <1>1, <1>4, <2>2, LiveIs
  <2> QED  BY ONLY <2>1, <2>2
<1>6. Book!Cancel(id)
  BY ONLY <1>1, <1>2, <1>3, <1>5 DEF Book!Cancel
<1> QED  BY ONLY <1>6, id \in OrderId DEF Book!Next

LEMMA StepMaps ==
  ASSUME LevelsInv, [Next]_vars
  PROVE  [Book!Next]_(Book!vars)
<1>0. ASSUME Live' = Live,
             UNCHANGED <<taker, trades, makers, reply, nextSeq, before>>
      PROVE  UNCHANGED Book!vars
  BY ONLY <1>0 DEF Book!vars
<1>s. ASSUME LiveOf(sides') = LiveOf(sides)
      PROVE  Live' = Live
  BY ONLY <1>s DEF Live, LiveOn, LiveOf
<1>1. ASSUME NEW id \in OrderId, NEW req \in Asked, Submit(id, req) PROVE Book!Next
  BY <1>1, SubmitMaps
<1>2. CASE EnterLevel
  <2>1. /\ sides' = sides
        /\ UNCHANGED <<taker, trades, makers, reply, nextSeq, before>>
    BY <1>2 DEF EnterLevel, bookVars
  <2> QED  BY <1>0, <1>s, <2>1
<1>3. CASE Meet
  BY <1>3, MeetMaps
<1>4. CASE LeaveLevel
  <2>1. UNCHANGED <<taker, trades, makers, reply, nextSeq, before>>
    BY <1>4 DEF LeaveLevel
  <2>2. LiveOf(sides') = LiveOf(sides)
    BY <1>4, LeaveLevels
  <2> QED  BY <1>0, <1>s, <2>1, <2>2
<1>5. CASE Finish
  BY <1>5, FinishMaps
<1>6. ASSUME NEW id \in OrderId, Cancel(id) PROVE Book!Next
  BY <1>6, CancelMaps
<1>7. CASE Rebuild
  <2>1. UNCHANGED <<taker, trades, makers, reply, nextSeq, before>>
    BY <1>7 DEF Rebuild, loopVars
  <2>2. LiveOf(sides') = LiveOf(sides)
    BY <1>7, RebuildLevels
  <2> QED  BY <1>0, <1>s, <2>1, <2>2
<1>8. CASE UNCHANGED vars
  <2>1. /\ sides' = sides
        /\ UNCHANGED <<taker, trades, makers, reply, nextSeq, before>>
    BY <1>8 DEF vars, bookVars, loopVars
  <2> QED  BY <1>0, <1>s, <2>1
<1> QED  BY ONLY [Next]_vars, <1>1, <1>2, <1>3, <1>4, <1>5, <1>6, <1>7, <1>8 DEF Next

(* Whatever was consumed, sliced off, cancelled in the middle of a queue   *)
(* or rebuilt, the levels behave as the plain set of resting orders served *)
(* by price and time (class BookSide and submit's loops against module     *)
(* OrderBook).                                                             *)
THEOREM LevelsImplementBook == Spec => ImplementsBook
<1>1. Init => Book!Init
  BY InitMaps
<1>2. LevelsInv /\ [Next]_vars => [Book!Next]_(Book!vars)
  BY StepMaps
<1> QED  BY <1>1, <1>2, LevelsKeepOrder, PTL DEF Spec, ImplementsBook, Book!Spec

=============================================================================
