---------------------------- MODULE MCExercises -----------------------------
(* Bounds and symmetry for the exercises. *)
EXTENDS Exercises, TLC

\* The more clients come the fewer lines each of them types; the server may be
\* started again once.
MCBounds ==
    {[clients |-> come, lines |-> 3 - Cardinality(come), starts |-> 2] :
        come \in SUBSET PoolClients \ {{}}}

\* Of the pool's clients only: every set more multiplies the permutations of a state.
Symmetry == Permutations(PoolClients)
=============================================================================
