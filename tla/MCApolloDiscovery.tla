-------------------------- MODULE MCApolloDiscovery --------------------------
(* Instances of ApolloDiscovery for TLC.                                    *)
EXTENDS ApolloDiscovery, TLC

Interchangeable == Permutations(People) \cup Permutations(Operations)
=============================================================================
