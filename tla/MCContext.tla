----------------------------- MODULE MCContext -----------------------------
EXTENDS Context, TLC

CONSTANTS m1, m2, t1, t2

\* The first turn prefers one record, the second matches only the other.
MCScore == (t1 :> (m1 :> 1 @@ m2 :> 2)) @@ (t2 :> (m1 :> 2 @@ m2 :> 0))
=============================================================================
