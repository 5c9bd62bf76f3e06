--------------------------- MODULE MCButtonEvents ---------------------------
\* Two buttons of one remote on endpoints 6 and 7.
EXTENDS ButtonEvents

MCEndpointOf == <<6, 7>>
=============================================================================
