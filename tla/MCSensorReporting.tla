-------------------------- MODULE MCSensorReporting --------------------------
\* A temperature cell, whose handler advances its Dataver, and a contact cell,
\* which DynamicHandler serves, each updated up to MaxVersion times.
EXTENDS SensorReporting

CONSTANTS temperature, contact

MCCells == {temperature, contact}
MCSynced == {temperature}
MCValues == {0, 1}
=============================================================================
