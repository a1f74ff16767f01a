------------------------------ MODULE MCWsFanout ------------------------------
(* Two markets and two clients.                                            *)
EXTENDS WsFanout

CONSTANTS btc, eth, c1, c2
=============================================================================
