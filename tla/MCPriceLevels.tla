---------------------------- MODULE MCPriceLevels ----------------------------
(***************************************************************************)
(* A small instance of PriceLevels for TLC.                                *)
(***************************************************************************)
EXTENDS PriceLevels

CONSTANTS u1, u2, u3

Ask(user, side, type, price, qty) ==
  [user |-> user, side |-> side, type |-> type, price |-> price, qty |-> qty]

\* Two users fill the queues, a third takes from them, one meets an order of its own.
MCAsked ==
  {Ask(u1, "sell", "limit", 2, 1), Ask(u2, "sell", "limit", 2, 1),
   Ask(u1, "sell", "limit", 1, 2), Ask(u2, "sell", "limit", 3, 1),
   Ask(u3, "buy", "limit", 2, 2), Ask(u2, "buy", "market", 3, 3),
   Ask(u3, "buy", "limit", 1, 1), Ask(u1, "sell", "market", 1, 2)}

Symmetry == Permutations(OrderId)
=============================================================================
