------------------------------ MODULE MCJoint ------------------------------
EXTENDS JointPositionControl
=============================================================================
