---------------------------- MODULE MCPersistence ----------------------------
EXTENDS Persistence
CONSTANTS w1, w2, w3
=============================================================================
