------------------------- MODULE MCSchemaPersistence -------------------------
\* Two device configurations the bridge may be started with, and a third one:
\* a fabric of one, a hash of another and a start with the third can meet.
EXTENDS SchemaPersistence

CONSTANTS s1, s2, s3

MCSchemas == {s1, s2, s3}
=============================================================================
