------------------------------ MODULE MCLedger ------------------------------
(***************************************************************************)
(* Small instances of Ledger for TLC.                                      *)
(***************************************************************************)
EXTENDS Ledger

CONSTANTS u1, u2

Req(user, side, type, price, qty, lev) ==
  [user |-> user, side |-> side, type |-> type, price |-> price, qty |-> qty, lev |-> lev]

MCPercent == [market |-> 5, liquidation |-> 10]

\* u1 trades with u2, who also bids low; u1 can pay for little more than one unit,
\* and selling two at the low price flips the position at a loss beyond the balance.
MCRequests ==
  [id \in OrderId |->
     {Req(u1, "buy", "limit", 100, 1, 10), Req(u2, "sell", "limit", 100, 2, 1),
      Req(u1, "sell", "market", 0, 2, 10), Req(u2, "buy", "limit", 80, 3, 1)}]

\* A position to close, and a bid for twice as much.
MCRace ==
  [id \in OrderId |->
     {Req(u1, "buy", "limit", 100, 1, 10), Req(u2, "sell", "limit", 100, 1, 1),
      Req(u2, "buy", "limit", 80, 2, 1)}]

MCDeposits == [u \in User |-> IF u = u1 THEN 20 ELSE 400]
=============================================================================
