----------------------------- MODULE MCOrderBook -----------------------------
(***************************************************************************)
(* Small instance of OrderBook for TLC.                                    *)
(***************************************************************************)
EXTENDS OrderBook, TLC

Symmetry == Permutations(OrderId) \cup Permutations(User)
=============================================================================
