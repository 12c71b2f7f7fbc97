---------------------------- MODULE MCSolverRuns ----------------------------
(***************************************************************************)
(* A small instance of SolverRuns: the solver of s3 never ends by itself.  *)
(***************************************************************************)
EXTENDS SolverRuns

CONSTANTS s1, s2, s3
=============================================================================
