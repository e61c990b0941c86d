------------------------- MODULE MCCartesianMotion -------------------------
EXTENDS CartesianMotion

CONSTANTS x, r   \* a translation and the rotation

MCAxis == {x, r}
Pose(p, q) == [a \in MCAxis |-> IF a = x THEN p ELSE q]
MCStart == {Pose(0, 0)}
MCTarget == {Pose(1, 1), Pose(1, -9)}
=============================================================================
