-------------------------- MODULE MCEngramStreams --------------------------
(***************************************************************************)
(* TLC instance of EngramStreams: the model's two Engram layers.           *)
(***************************************************************************)
EXTENDS EngramStreams
=============================================================================
