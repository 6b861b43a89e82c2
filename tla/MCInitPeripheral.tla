--------------------------- MODULE MCInitPeripheral ---------------------------
\* Instances of FreePeripheral, and of InitPeripheral with it, for TLC: one
\* peripheral, as they share nothing.
EXTENDS FreePeripheral
=============================================================================
