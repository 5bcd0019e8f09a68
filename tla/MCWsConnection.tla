--------------------------- MODULE MCWsConnection ---------------------------
(* Small instances of WsConnection for TLC.                                *)
EXTENDS WsConnection

CONSTANTS s1, s2, s3, k1, k2, also, never

=============================================================================
