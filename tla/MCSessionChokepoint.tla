------------------------ MODULE MCSessionChokepoint ------------------------
\* Two interchangeable observers, so that one can be outrun by the other's own
\* settlement.  No liveness is checked here, so the symmetry is sound.
EXTENDS SessionChokepoint, TLC

ObserverSymmetry == Permutations(Observers)
=============================================================================
