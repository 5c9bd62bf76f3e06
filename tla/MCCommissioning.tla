--------------------------- MODULE MCCommissioning ---------------------------
\* The documented discriminator and passcode and another pair, and a controller
\* that starts with a node of another vendor and an old node
\* of the bridge and can commission once more.
EXTENDS Commissioning

MCDevice == [discriminator |-> 3840, passcode |-> 20202021]
MCConfigs == {MCDevice, [discriminator |-> 1234, passcode |-> 99999998]}
\* Of each field of the code the least and the greatest value, and those where a
\* chunk ends.
MCPairs ==
  MCConfigs \cup [discriminator : {0, 255, 256, 1023, 1024, 4095},
                 passcode : {1, 16383, 16384, 65536, 134217727}]
MCForeign == {1}
=============================================================================
