------------------------------ MODULE MCRasSync ------------------------------
\* Instances of RasSync for TLC.
EXTENDS RasSync, TLC
=============================================================================
