----------------------------- MODULE MCShmChat -----------------------------
(* Without temporal properties the clients are interchangeable. *)
EXTENDS ShmChat, TLC

ClientSymmetry == Permutations(Clients)
=============================================================================
