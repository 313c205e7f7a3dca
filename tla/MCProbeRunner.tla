--------------------------- MODULE MCProbeRunner ----------------------------
EXTENDS ProbeRunner

MCConcurrencies == {0, 2}
MCPorts == {0, 80}
MCTimeouts == {0, 10, 11}
=============================================================================
