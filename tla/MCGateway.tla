----------------------------- MODULE MCGateway -----------------------------
EXTENDS Gateway, TLC

\* Sessions, instances, clients and calls are told apart by nothing but their names.
Symmetry ==
    Permutations(Instances) \union Permutations(Keys) \union
    Permutations(Clients) \union Permutations(Calls)

=============================================================================
