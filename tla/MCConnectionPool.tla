-------------------------- MODULE MCConnectionPool --------------------------
(* Model-checking instances of ConnectionPool. *)
EXTENDS ConnectionPool

\* All the sets of model values are interchangeable: the specification never
\* orders or names their members.
Symmetry ==
    Permutations(InstanceIDs) \union Permutations(Keys)
    \union Permutations(Conns) \union Permutations(Calls)

=============================================================================
