----------------------------- MODULE MCIdlePark -----------------------------
(***************************************************************************)
(* TLC instance of IdlePark: enough idle periods for a wake to be followed *)
(* by another mark before the proxy has run.                               *)
(***************************************************************************)
EXTENDS IdlePark
=============================================================================
