------------------------------ MODULE MCClient ------------------------------
(* Client for TLC: model values for the keys, policies and waiters.        *)
EXTENDS Client

CONSTANTS k1, k2, also, never, w1, w2, v1, v2

=============================================================================
