-------------------------- MODULE MCCameraSessions ---------------------------
\* Two requests; ids come round after two, so that an id is used again while
\* the stream or session that had it before still lives.
EXTENDS CameraSessions

CONSTANTS r1, r2
=============================================================================
