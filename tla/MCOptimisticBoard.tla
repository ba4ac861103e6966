-------------------------- MODULE MCOptimisticBoard --------------------------
EXTENDS OptimisticBoard, TLC

CONSTANTS a, b, v1, v2, k1, k2

Symmetry == Permutations({a, b}) \union Permutations({v1, v2}) \union Permutations({k1, k2})
=============================================================================
