----------------------------- MODULE MCJobCache -----------------------------
(***************************************************************************)
(* A small instance of JobCache: two mutations of a job that has two       *)
(* statuses, beside the details a list that shows one of them.  The entry  *)
(* of a list depends on no other list.                                     *)
(***************************************************************************)
EXTENDS JobCache, TLC

CONSTANTS m1, m2, scheduled, running

MCLists  == {{running}}
Symmetry == Permutations({m1, m2})
=============================================================================
