----------------------------- MODULE MCMqChat ------------------------------
(* Without temporal properties the clients are interchangeable. *)
EXTENDS MqChat, TLC

ClientSymmetry == Permutations(Clients)
=============================================================================
