----------------------------- MODULE MCFetchRes -----------------------------
(* Values for the constants of FetchRes, for TLC. *)
EXTENDS FetchRes

CONSTANTS k1, k2, k3, f1, f2
=============================================================================
