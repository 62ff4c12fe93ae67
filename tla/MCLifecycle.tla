---------------------------- MODULE MCLifecycle ----------------------------
\* Lifecycle on small instances.
EXTENDS Lifecycle, TLC

\* No action and no property tells two guids, two extends or two sweeps apart,
\* if all sweeps are one-shot or none is.
GuidSymmetry == Permutations(Guid)
ProcessSymmetry == Permutations(Sweeper) \cup Permutations(Extender)

=============================================================================
