---------------------------- MODULE MCCartesian ----------------------------
EXTENDS CartesianControl
=============================================================================
