------------------------------ MODULE MCBridge ------------------------------
(* Small instances of BridgeDelivery for TLC.                              *)
EXTENDS BridgeDelivery

CONSTANTS d1, d2, n1, n2, s1, s2, f1, f2

OneKey == {<<d1, n1>>}

=============================================================================
