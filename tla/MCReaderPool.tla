---------------------------- MODULE MCReaderPool ----------------------------
(* Three claims over two addresses.  A claim references one reader at a    *)
(* time, so three reader objects are as many as can be live together.      *)
EXTENDS ReaderPool
CONSTANTS c1, c2, c3, a1, a2, e1, e2, e3
MCClaims == {c1, c2, c3}
MCAddrs == {a1, a2}
MCEntries == {e1, e2, e3}
=============================================================================
