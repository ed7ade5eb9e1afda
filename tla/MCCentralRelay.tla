--------------------------- MODULE MCCentralRelay ---------------------------
\* CentralRelay for TLC.
EXTENDS CentralRelay
=============================================================================
