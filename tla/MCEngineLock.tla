----------------------------- MODULE MCEngineLock -----------------------------
(* Two processes that may both run as engine.                              *)
EXTENDS EngineLock

CONSTANTS e1, e2
=============================================================================
