--------------------------- MODULE MCTransactions ---------------------------
(***************************************************************************)
(* A small instance of Transactions for TLC: one user places an order and  *)
(* one has one resting, the worker settles, two funding services charge    *)
(* one period, and the liquidator closes a position.                       *)
(***************************************************************************)
EXTENDS Transactions

CONSTANTS f1, f2

Pos(side, qty, margin) ==
  [side |-> side, qty |-> qty, entry |-> [num |-> 10, den |-> 1], margin |-> margin, lev |-> 2]

\* User 2, whose sell rests, gets a position only by a trade: between the read of the
\* holders and the locks of a funding period, or before or after.
MCHoldings == <<Pos("long", 1, 5), None, Pos("short", 1, 5)>>
MCRates == {1, -2}
MCDeposits == <<7, 15, 9>>

\* The short of user 3 is closed by an order the user places or by the liquidator's,
\* whichever trades first with the sell that rests.
MCAsks ==
  <<[user |-> 3, side |-> "buy"], [user |-> 2, side |-> "sell"], [user |-> 3, side |-> "buy"]>>
=============================================================================
