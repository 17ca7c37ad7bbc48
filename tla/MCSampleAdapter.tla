-------------------------- MODULE MCSampleAdapter --------------------------
(* The sample adapter on a small instance. *)
EXTENDS SampleAdapter, TLC
=============================================================================
