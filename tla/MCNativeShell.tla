---------------------------- MODULE MCNativeShell ----------------------------
EXTENDS NativeShell, TLC

CONSTANTS f, g, p, q, y, n, left, right
=============================================================================
