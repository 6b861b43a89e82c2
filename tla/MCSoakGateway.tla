---------------------------- MODULE MCSoakGateway ----------------------------
\* Instances of SoakGateway for TLC.
EXTENDS SoakGateway, TLC
=============================================================================
