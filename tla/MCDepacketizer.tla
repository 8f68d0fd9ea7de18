--------------------------- MODULE MCDepacketizer ---------------------------
EXTENDS Depacketizer
CONSTANTS s1, s2
=============================================================================
