---------------------------- MODULE MCReflCentral ----------------------------
\* Instances of ReflCentral alone, for TLC.
EXTENDS ReflCentral, TLC
=============================================================================
