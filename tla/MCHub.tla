-------------------------------- MODULE MCHub --------------------------------
\* Instances of FreeCentral, and of ReflCentral with it, for TLC.
EXTENDS FreeCentral, TLC
=============================================================================
