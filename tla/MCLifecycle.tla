---------------------------- MODULE MCLifecycle ----------------------------
(* Values for the constants of Lifecycle, for TLC. *)
EXTENDS Lifecycle

CONSTANTS w1
=============================================================================
