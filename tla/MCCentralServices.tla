------------------------- MODULE MCCentralServices -------------------------
\* CentralServices for TLC.
EXTENDS CentralServices

\* Two of the five centres
MCCenterIds == <<"SEOUL", "BUSAN">>
=============================================================================
