------------------------------ MODULE MCMount -------------------------------
(* MountSession for TLC: a small sky, two speeds, two tracking modes.      *)
EXTENDS MountSession

CONSTANTS slow, fast, sidereal, solar

MCSpeed == [r \in SlewRates |-> IF r = slow THEN 1 ELSE 2]
MCDrift == [m \in TrackModes |-> IF m = sidereal THEN 0 ELSE 1]
MCDestination == [ra |-> 2, dec |-> 0]

=============================================================================
