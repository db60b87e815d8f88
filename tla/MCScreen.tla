------------------------------ MODULE MCScreen ------------------------------
EXTENDS Screen
CONSTANTS b1, t1, t2
Both == b1 :> {t1, t2}
=============================================================================
