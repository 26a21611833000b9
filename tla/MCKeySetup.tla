----------------------------- MODULE MCKeySetup -----------------------------
(* Instance of KeySetup for TLC. *)
EXTENDS KeySetup
=============================================================================
