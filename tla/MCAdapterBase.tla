--------------------------- MODULE MCAdapterBase ---------------------------
(* The adapter on a small instance. *)
EXTENDS AdapterBase, TLC
=============================================================================
