------------------------------ MODULE Funding ------------------------------
(***************************************************************************)
(* What one funding period moves between the holders of positions of a     *)
(* market (the money part of runMarket, apps/funding-service/src/index.ts).*)
(* Pure operators on functions from users to [balance, locked] and to      *)
(* positions; units of money are those of Settlement.                      *)
(***************************************************************************)
EXTENDS Settlement

CONSTANT FundDen   \* a period's rate is num / FundDen; longs pay when num > 0

ASSUME FundingAssumption == FundDen \in Nat \ {0}

Paying(num) == IF num > 0 THEN "long" ELSE "short"

Magnitude(num) == IF num > 0 THEN num ELSE -num

\* What a payer pays from the balance, and what then from the margin.
PaymentOf(balance, pos, mark, num) ==
  LET due  == Round(pos.qty * mark * Magnitude(num), FundDen)
      cash == Lower(Positive(balance), due)
  IN  [cash |-> cash, margin |-> Lower(pos.margin, due - cash)]

QtyHeld(positions, us) == SumFunction([u \in us |-> positions[u].qty])

\* A receiver's share of what was collected; the last one gets what rounding leaves.
Share(u, last, collected, positions, receivers) ==
  LET floor(v) == (collected * positions[v].qty) \div QtyHeld(positions, receivers)
  IN  IF u # last THEN floor(u)
      ELSE collected - SumFunction([v \in receivers \ {last} |-> floor(v)])

AfterPaying(pos, payment) == [pos EXCEPT !.margin = @ - payment.margin]

Payers(positions, holders, num) == {u \in holders : positions[u].side = Paying(num)}

\* Users and positions after a period among holders; last is the receiver whose
\* position has the greatest id.
Funded(users, positions, holders, mark, num, last) ==
  LET payers    == Payers(positions, holders, num)
      receivers == holders \ payers
      pay(u)    == PaymentOf(users[u].balance, positions[u], mark, num)
      collected == SumFunction([u \in payers |-> pay(u).cash + pay(u).margin])
  IN  [users |-> [u \in DOMAIN users |->
         CASE u \in payers    -> [balance |-> Positive(users[u].balance - pay(u).cash),
                                  locked  |-> Positive(users[u].locked - pay(u).margin)]
           [] u \in receivers ->
                [users[u] EXCEPT !.balance = @ + Share(u, last, collected, positions, receivers)]
           [] u \notin holders -> users[u]],
       positions |-> [u \in DOMAIN positions |->
         IF u \in payers THEN AfterPaying(positions[u], pay(u)) ELSE positions[u]]]
=============================================================================
