-------------------------- MODULE MCTimedFileLock --------------------------
\* TLC instance of TimedFileLock: interchangeable processes.
EXTENDS TimedFileLock, TLC

Symmetry == Permutations(Procs)
=============================================================================
