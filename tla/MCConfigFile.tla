---------------------------- MODULE MCConfigFile ----------------------------
(* ConfigFile for TLC: model values for the processes and the documents.   *)
EXTENDS ConfigFile

CONSTANTS p1, p2, d1, d2

=============================================================================
