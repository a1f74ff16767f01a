----------------------------- MODULE Settlement -----------------------------
(***************************************************************************)
(* What one side of a trade does to the account it belongs to.  Pure       *)
(* operators on the account as settleSide sees it: a record [balance,      *)
(* locked, pool, position, fees, insurance], where pool is what is left of *)
(* the margin the order reserved, and position is None or a record [side,  *)
(* qty, entry, margin, lev].                                               *)
(*                                                                         *)
(* Money counts millionths: a price tick times a quantity step is one of   *)
(* them, so a notional is exact and roundMoney only matters after a        *)
(* division.  The entry price, which the code never rounds, is a fraction  *)
(* [num, den] in lowest terms.                                             *)
(***************************************************************************)
EXTENDS Optional, Integers, FiniteSetsExt

CONSTANTS FeeNum, FeeDen   \* FEE_RATE

Position ==
  [side : {"long", "short"}, qty : Nat \ {0}, entry : [num : Nat, den : Nat \ {0}],
   margin : Nat, lev : Nat \ {0}]

ASSUME SettlementAssumption ==
  /\ FeeNum \in Nat /\ FeeDen \in Nat \ {0}
  /\ None \notin Position

\* Math.round of n / d: halves go up.
Round(n, d) == (2 * n + d) \div (2 * d)

Lower(a, b) == IF a < b THEN a ELSE b

Positive(a) == IF a > 0 THEN a ELSE 0

Sign(side) == IF side = "long" THEN 1 ELSE -1

LowestTerms(n, d) ==
  LET g == Max({k \in 1..d : n % k = 0 /\ d % k = 0})
  IN  [num |-> n \div g, den |-> d \div g]

\* roundMoney of the profit of k units of a position at price p.
Realized(pos, p, k) ==
  Round(Sign(pos.side) * (p * pos.entry.den - pos.entry.num) * k, pos.entry.den)

MarginOf(pos) == IF pos = None THEN 0 ELSE pos.margin

Exposure(pos) == IF pos = None THEN 0 ELSE Sign(pos.side) * pos.qty

Fee(p, q) == Round(p * q * FeeNum, FeeDen)

\* How much of a trade of q in direction dir closes a position.
ReduceQty(pos, q, dir) ==
  IF pos # None /\ Sign(pos.side) # dir THEN Lower(pos.qty, q) ELSE 0

Released(pos, k) ==
  IF k = pos.qty THEN pos.margin ELSE Round(pos.margin * k, pos.qty)

\* Broken: a loss the user cannot pay is nobody's.
Reduced_Forgiven(a, p, k, liquidation) ==
  LET pos      == a.position
      released == Released(pos, k)
      credit   == released + Realized(pos, p, k)
  IN  [a EXCEPT !.locked = @ - released,
                !.balance = IF liquidation THEN @ ELSE Positive(@ + credit),
                !.insurance = @ + (IF liquidation THEN credit ELSE 0),
                !.position = IF k = pos.qty THEN None
                             ELSE [pos EXCEPT !.qty = @ - k, !.margin = @ - released]]

\* Broken: a position that is closed stays, with nothing in it.
Reduced_Open(a, p, k, liquidation) ==
  LET pos      == a.position
      released == Released(pos, k)
      credit   == released + Realized(pos, p, k)
      balance  == IF liquidation THEN a.balance ELSE a.balance + credit
  IN  [a EXCEPT !.locked = @ - released,
                !.balance = Positive(balance),
                !.insurance = @ + (IF liquidation THEN credit
                                   ELSE balance - Positive(balance)),
                !.position = [pos EXCEPT !.qty = @ - k, !.margin = @ - released]]

\* The closing part of a trade; a loss the user cannot pay is the insurance fund's.
Reduced(a, p, k, liquidation) ==
  LET pos      == a.position
      released == Released(pos, k)
      credit   == released + Realized(pos, p, k)
      balance  == IF liquidation THEN a.balance ELSE a.balance + credit
  IN  [a EXCEPT !.locked = @ - released,
                !.balance = Positive(balance),
                !.insurance = @ + (IF liquidation THEN credit
                                   ELSE balance - Positive(balance)),
                !.position = IF k = pos.qty THEN None
                             ELSE [pos EXCEPT !.qty = @ - k, !.margin = @ - released]]

\* The fee: from what the order reserved, then from the balance, then waived.
Charged(a, p, q, liquidation) ==
  LET due         == IF liquidation THEN 0 ELSE Fee(p, q)
      fromPool    == Lower(a.pool, due)
      fromBalance == Lower(Positive(a.balance), due - fromPool)
  IN  [a EXCEPT !.pool = @ - fromPool,
                !.locked = @ - fromPool,
                !.balance = @ - fromBalance,
                !.fees = @ + fromPool + fromBalance]

\* Broken: nothing is opened without its full margin.
Opened_FullMargin(a, p, k, lev, dir) ==
  LET required == Round(p * k, lev)
      fromPool == Lower(a.pool, required)
      pos      == a.position
      margin   == required
  IN  IF Positive(a.balance) < required - fromPool THEN a
      ELSE [a EXCEPT
             !.pool = @ - fromPool,
             !.balance = @ - (required - fromPool),
             !.locked = @ + (required - fromPool),
             !.position =
               IF pos = None
               THEN [side |-> IF dir = 1 THEN "long" ELSE "short", qty |-> k,
                     entry |-> [num |-> p, den |-> 1], margin |-> margin, lev |-> lev]
               ELSE [pos EXCEPT
                       !.qty = @ + k,
                       !.margin = @ + margin,
                       !.entry = LowestTerms(@.num * pos.qty + p * k * @.den,
                                             @.den * (pos.qty + k))]]

\* The opening part: margin from the reserve, then from the balance, or less than due.
Opened(a, p, k, lev, dir) ==
  LET required    == Round(p * k, lev)
      fromPool    == Lower(a.pool, required)
      fromBalance == Lower(Positive(a.balance), required - fromPool)
      margin      == fromPool + fromBalance
      pos         == a.position
  IN  [a EXCEPT !.pool = @ - fromPool,
                !.balance = @ - fromBalance,
                !.locked = @ + fromBalance,
                !.position =
                  IF pos = None
                  THEN [side |-> IF dir = 1 THEN "long" ELSE "short", qty |-> k,
                        entry |-> [num |-> p, den |-> 1], margin |-> margin, lev |-> lev]
                  ELSE [pos EXCEPT
                          !.qty = @ + k,
                          !.margin = @ + margin,
                          !.entry = LowestTerms(@.num * pos.qty + p * k * @.den,
                                                @.den * (pos.qty + k))]]

SettleSide(a, p, q, lev, liquidation, dir) ==
  LET k       == ReduceQty(a.position, q, dir)
      reduced == IF k > 0 THEN Reduced(a, p, k, liquidation) ELSE a
      charged == Charged(reduced, p, q, liquidation)
  IN  IF q > k THEN Opened(charged, p, q - k, lev, dir) ELSE charged

\* Broken: the locked balance is not lowered.
Refunded_Locked(a) == [a EXCEPT !.balance = @ + a.pool, !.pool = 0]

\* An order that ends gives back what is left of its reserve.
Refunded(a) ==
  [a EXCEPT !.balance = @ + a.pool, !.locked = @ - a.pool, !.pool = 0]
=============================================================================
