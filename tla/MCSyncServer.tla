---------------------------- MODULE MCSyncServer ----------------------------
(***************************************************************************)
(* SyncServer on small sets.  Requests, handlers and ciphertexts are       *)
(* interchangeable as long as every request is treated alike (all keyed).  *)
(***************************************************************************)
EXTENDS SyncServer, TLC

Symmetry == Permutations(Requests) \cup Permutations(Handlers)
            \cup Permutations(Blobs) \cup Permutations(Files)
=============================================================================
