--------------------------- MODULE MCPoolRotation ---------------------------
(* Model-checking instances of ConnectionPool with the history of PoolRotation. *)
EXTENDS PoolRotation

\* All the sets of model values are interchangeable: the specification never
\* orders or names their members.
Symmetry ==
    Permutations(InstanceIDs) \union Permutations(Keys)
    \union Permutations(Conns) \union Permutations(Calls)

=============================================================================
