----------------------------- MODULE MCPipeline -----------------------------
(***************************************************************************)
(* Small instances of Pipeline for TLC.                                    *)
(***************************************************************************)
EXTENDS Pipeline, TLC

CONSTANTS u1, u2, o1, o2, o3

Req(user, side, type, price, qty) ==
  [user |-> user, side |-> side, type |-> type, price |-> price, qty |-> qty]

\* A maker of two units; a market order for one, discarded when it comes first; a
\* bid for two that takes what is left, or rests.
MCRequests ==
  (o1 :> {Req(u1, "sell", "limit", 1, 2)})
  @@ (o2 :> {Req(u2, "buy", "market", 1, 1)})
  @@ (o3 :> {Req(u2, "buy", "limit", 1, 2)})

\* A maker, and an order that takes it all and rests, or is discarded when it is first.
MCTrade ==
  (o1 :> {Req(u1, "sell", "limit", 1, 1)})
  @@ (o2 :> {Req(u2, "buy", "limit", 1, 2), Req(u2, "buy", "market", 1, 1)})

\* A maker, and a market order that wants more than it has.
MCPair ==
  (o1 :> {Req(u1, "sell", "limit", 1, 2), Req(u1, "sell", "limit", 1, 1)})
  @@ (o2 :> {Req(u2, "buy", "limit", 1, 1), Req(u2, "buy", "market", 1, 2)})
=============================================================================
