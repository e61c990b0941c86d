------------------------------ MODULE MCMotion ------------------------------
EXTENDS JointMotion

CONSTANT j1

MCJoint == {j1}
All(x) == [j \in MCJoint |-> x]
MCQMin == All(-6)
MCQMax == All(6)
MCVelStep == All(7)
MCStart == {All(-6), All(0)}
MCTarget == {All(1), All(-9)}

ASSUME RoomForLateCallbacks
=============================================================================
