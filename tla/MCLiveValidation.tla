-------------------------- MODULE MCLiveValidation --------------------------
(***************************************************************************)
(* One terminal and three buckets: a first, a middle and a last one.  One  *)
(* credit used by others, one write to a protected table, one new billing  *)
(* cycle and one midnight are enough to meet each kind of disagreement at  *)
(* each point of a phase; phases are repeated without bound.               *)
(***************************************************************************)
EXTENDS LiveValidation
=============================================================================
