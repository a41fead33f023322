------------------------------- MODULE Totals -------------------------------
(***************************************************************************)
(* The total of a function from a finite set to naturals: how many units   *)
(* there are when each unit is told apart.  It is defined without a fold   *)
(* over the set, so that sums of credits can be reasoned about by counting. *)
(***************************************************************************)
EXTENDS Integers, FiniteSets

Units(f) == UNION {{x} \X (1 .. f[x]) : x \in DOMAIN f}
Total(f) == Cardinality(Units(f))
==============================================================================
