------------------------------ MODULE MCPppoe ------------------------------
EXTENDS Pppoe, TLC
CONSTANTS t1, t2
CallersSymmetry == Permutations(Callers)
=============================================================================
