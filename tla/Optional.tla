------------------------------ MODULE Optional ------------------------------
(***************************************************************************)
(* What a row, a column or a position that does not exist is: the null of  *)
(* the database and of the services' types.                                *)
(***************************************************************************)
CONSTANT None
=============================================================================
