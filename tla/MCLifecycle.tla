---------------------------- MODULE MCLifecycle ----------------------------
EXTENDS Lifecycle, TLC

Sym == Permutations(Conns)
=============================================================================
