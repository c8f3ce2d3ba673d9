------------------------ MODULE MCExclusiveFileLock ------------------------
\* TLC instance of ExclusiveFileLock: three processes, one of which takes the
\* lock twice.
EXTENDS ExclusiveFileLock

CONSTANTS p1, p2, p3

MCProcs == {p1, p2, p3}
MCSerial == [p \in MCProcs |-> IF p = p1 THEN 2 ELSE 1]
=============================================================================
