------------------------------ MODULE MCSession ------------------------------
EXTENDS RobotSession
=============================================================================
