--------------------------- MODULE MCAnchorInitiator ---------------------------
\* Instances of AnchorInitiator for TLC.
EXTENDS AnchorInitiator
=============================================================================
