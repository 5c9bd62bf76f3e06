---------------------------- MODULE MCOnOffBridge ----------------------------
\* An instance of OnOffBridge with one device that has a plain outlet and an
\* outlet the hardware also drives, and one device with a sensor: two devices,
\* two switches of one device, and children with and without a switch.
EXTENDS OnOffBridge, TLC

CONSTANTS d1, d2, plain, driven, sensor

MCDevices == {d1, d2}
MCSwitches == {plain, driven}
MCSensors == {sensor}
MCParent == (plain :> d1) @@ (driven :> d1) @@ (sensor :> d2)
MCHardwareDriven == {driven}
=============================================================================
