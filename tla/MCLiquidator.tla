---------------------------- MODULE MCLiquidator ----------------------------
(***************************************************************************)
(* A small instance of Liquidator for TLC.                                 *)
(***************************************************************************)
EXTENDS Liquidator

CONSTANTS u1, o1

\* Longs and, when one is flipped, shorts may be in danger at the low price.
MCRisks == {{"low"}}
=============================================================================
