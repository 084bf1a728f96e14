-------------------------- MODULE MCDiscoverySuite --------------------------
EXTENDS DiscoverySuite, TLC

CONSTANTS p1, a, b

MCProcessOf == a :> p1 @@ b :> p1
Interchangeable == Permutations({a, b}) \cup Permutations(Tenants)
==============================================================================
