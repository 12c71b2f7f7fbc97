--------------------------- MODULE MCRequestLimits ---------------------------
(***************************************************************************)
(* Small instances of RequestLimits.                                       *)
(***************************************************************************)
EXTENDS RequestLimits

CONSTANTS ip1
=============================================================================
