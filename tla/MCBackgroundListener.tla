------------------------ MODULE MCBackgroundListener ------------------------
EXTENDS BackgroundListener

CONSTANTS s1, s2, t1, f1

MCStarts == {s1, s2}
MCStops == {t1}
=============================================================================
