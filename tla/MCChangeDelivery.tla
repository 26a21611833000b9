-------------------------- MODULE MCChangeDelivery --------------------------
(***************************************************************************)
(* ChangeDelivery on small sets.  Files and server goroutines are          *)
(* interchangeable; the symmetry is used in runs of invariants only.       *)
(***************************************************************************)
EXTENDS ChangeDelivery, TLC

Symmetry == Permutations(Files) \cup Permutations(Txs)
=============================================================================
