----------------------------- MODULE MCRuntime ------------------------------
EXTENDS Runtime

CONSTANTS p, q, r, f, g, c, d
=============================================================================
