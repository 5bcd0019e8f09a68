-------------------------------- MODULE Mount --------------------------------
(***************************************************************************)
(* The telescope simulator (src/examples/telescope_device.py), a driver    *)
(* written on Device: goto, slew and sync, the motion paddles, guiding,    *)
(* parking, tracking.                                                      *)
(*                                                                         *)
(* A handler and a tick hold the device's guard and never await, so each   *)
(* is one step.  A write that a guard refuses is only logged, and changes  *)
(* nothing.                                                                *)
(*                                                                         *)
(* Right ascension is a circle of Circle units, one for each second of     *)
(* drift; declination runs from -Pole to Pole in the same units.  Of the   *)
(* site only the hemisphere matters, and of the guide rates what a pulse   *)
(* comes to.                                                               *)
(***************************************************************************)
EXTENDS Integers

CONSTANTS
  Circle,     \* 24 hours
  Pole,       \* 90 degrees
  SlewRates,  \* SLEW_RATES: the names
  Speed,      \* ... and their units a second
  TrackModes, \* TRACK_RATES: the names
  Drift,      \* ... and the drift that is left, in units a second
  SlewMax,    \* the slew rate at first
  Sidereal,   \* the tracking mode at first, which follows the sky
  AskedRa,    \* the right ascensions clients ask for
  AskedDec,   \* the declinations clients ask for
  Pulses,     \* the offsets guide pulses come to
  NoTarget    \* None: not slewing

Axes == {"ns", "we"}
Position == [ra : 0 .. Circle - 1, dec : -Pole .. Pole]

ASSUME MountAssumption ==
  /\ Circle \in Nat \ {0} /\ Pole \in Nat
  /\ Speed \in [SlewRates -> Nat \ {0}] /\ Drift \in [TrackModes -> Nat]
  /\ SlewMax \in SlewRates /\ Sidereal \in TrackModes /\ Drift[Sidereal] = 0
  /\ AskedRa \subseteq Int /\ AskedDec \subseteq Int /\ Pulses \subseteq Int
  /\ NoTarget \notin Position

VARIABLES
  connected,  \* CONNECTION
  at,         \* _ra, _dec, and what EQUATORIAL_EOD_COORD says of them
  coord,      \* the state of EQUATORIAL_EOD_COORD
  target,     \* _target
  trackAfter, \* _track_after_slew
  parking,    \* _parking
  park,       \* TELESCOPE_PARK: is PARK on, and its state
  paddle,     \* _ns_rate, _we_rate
  pressed,    \* the axes whose TELESCOPE_MOTION vector is Busy
  tracking,   \* TELESCOPE_TRACK_STATE
  trackMode,  \* TELESCOPE_TRACK_MODE
  slewRate,   \* TELESCOPE_SLEW_RATE
  onCoordSet, \* ON_COORD_SET
  south       \* is GEOGRAPHIC_COORD's latitude negative?

slewing == <<target, trackAfter, parking>>
paddles == <<paddle, pressed>>
settings == <<trackMode, slewRate, onCoordSet, south>>
mount == <<connected, at, coord, slewing, park, paddles, tracking, settings>>

Released == [a \in Axes |-> 0]

\* setup: at the pole, unparked, not tracking, and not connected.
MountInit ==
  /\ connected = FALSE /\ coord = "Idle"
  /\ at = [ra |-> 0, dec |-> Pole]
  /\ target = NoTarget /\ trackAfter = FALSE /\ parking = FALSE
  /\ park = [on |-> FALSE, state |-> "Idle"]
  /\ paddle = Released /\ pressed = {} /\ tracking = FALSE
  /\ trackMode = Sidereal /\ slewRate = SlewMax
  /\ onCoordSet = "TRACK" /\ south = FALSE

-----------------------------------------------------------------------------
(* The axes.                                                               *)

Clamped(dec) == IF dec > Pole THEN Pole ELSE IF dec < -Pole THEN -Pole ELSE dec
Wrapped(ra) == ra % Circle

\* _tick_slew, on the circle: the shortest way around.
RaToward(ra, goal, step) ==
  LET delta == (goal - ra) % Circle
  IN  IF delta <= step \/ Circle - delta <= step THEN goal
      ELSE IF 2 * delta <= Circle THEN Wrapped(ra + step) ELSE Wrapped(ra - step)

\* Mutant: the last step is a whole one.
DecTowardWholeSteps(dec, goal, step) ==
  IF goal = dec THEN goal ELSE IF goal > dec THEN dec + step ELSE dec - step
\* _tick_slew, on the bounded axis.
DecToward(dec, goal, step) ==
  IF goal - dec <= step /\ dec - goal <= step THEN goal
  ELSE IF goal > dec THEN dec + step ELSE dec - step

\* _tick_manual_motion
Driven == [ra |-> Wrapped(at.ra + paddle["we"]), dec |-> Clamped(at.dec + paddle["ns"])]

\* _tick_drift: tracking sidereally follows the sky; a parked mount stays where it is.
Drifted(p) ==
  IF park.on THEN p
  ELSE [p EXCEPT !.ra = Wrapped(@ + IF tracking THEN Drift[trackMode] ELSE 1)]

Resting == IF tracking THEN "Ok" ELSE "Idle"

-----------------------------------------------------------------------------
(* TelescopeSimulator.tick                                                 *)

\* Mutant: only a slew that is to track settles its coordinates.
SettledIfTracking == IF trackAfter THEN "Ok" ELSE coord
\* The state of the coordinates of a slew that is complete.
Settled == IF trackAfter THEN "Ok" ELSE "Idle"

SlewTick ==
  LET p == [ra |-> RaToward(at.ra, target.ra, Speed[slewRate]),
            dec |-> DecToward(at.dec, target.dec, Speed[slewRate])]
  IN  /\ connected /\ target # NoTarget
      /\ at' = p
      /\ \/ /\ p # target
            /\ coord' = "Busy"
            /\ UNCHANGED <<slewing, park, tracking>>
         \/ /\ p = target /\ parking
            /\ target' = NoTarget /\ parking' = FALSE /\ UNCHANGED trackAfter
            /\ tracking' = FALSE
            /\ park' = [on |-> TRUE, state |-> "Ok"]
            /\ coord' = "Idle"
         \/ /\ p = target /\ ~parking
            /\ target' = NoTarget /\ UNCHANGED <<trackAfter, parking, park>>
            /\ tracking' = (tracking \/ trackAfter)
            /\ coord' = Settled
      /\ UNCHANGED <<connected, paddles, settings>>

\* The paddles, then the sky: published if either moved the mount.
RestTick ==
  LET p == Drifted(IF paddle = Released THEN at ELSE Driven)
  IN  /\ connected /\ target = NoTarget
      /\ at' = p
      /\ coord' = IF p = at /\ paddle = Released THEN coord ELSE Resting
      /\ UNCHANGED <<connected, slewing, park, paddles, tracking, settings>>

Tick == SlewTick \/ RestTick

-----------------------------------------------------------------------------
(* The writes of clients.                                                  *)

\* require_connected, _require_unparked
MayMove == connected /\ ~park.on

\* _start_slew
StartSlew(ra, dec, track) ==
  /\ target' = [ra |-> Wrapped(ra), dec |-> Clamped(dec)]
  /\ trackAfter' = track
  /\ coord' = "Busy"

\* _coords
Goto(ra, dec) ==
  /\ MayMove
  /\ \/ /\ onCoordSet = "SYNC"
        /\ at' = [ra |-> Wrapped(ra), dec |-> Clamped(dec)]
        /\ target' = NoTarget /\ coord' = "Ok"
        /\ UNCHANGED trackAfter
     \/ /\ onCoordSet # "SYNC"
        /\ StartSlew(ra, dec, onCoordSet = "TRACK")
        /\ UNCHANGED at
  /\ UNCHANGED <<connected, parking, park, paddles, tracking, settings>>

\* _track_state
TrackState(on) ==
  /\ MayMove
  /\ tracking' = on
  /\ UNCHANGED <<connected, at, coord, slewing, park, paddles, settings>>

\* _motion_ns, _motion_we: a paddle is pressed one way, the other, or let go.
Motion(axis, way) ==
  /\ MayMove
  /\ paddle' = [paddle EXCEPT ![axis] = way * Speed[slewRate]]
  /\ pressed' = IF way = 0 THEN pressed \ {axis} ELSE pressed \cup {axis}
  /\ UNCHANGED <<connected, at, coord, slewing, park, tracking, settings>>

\* _guide_ns, _guide_we: the pulse completes at once.
Guide(axis, offset) ==
  /\ MayMove
  /\ at' = IF axis = "ns" THEN [at EXCEPT !.dec = Clamped(@ + offset)]
           ELSE [at EXCEPT !.ra = Wrapped(@ + offset)]
  /\ coord' = Resting
  /\ UNCHANGED <<connected, slewing, park, paddles, tracking, settings>>

\* Mutant: the paddles stay pressed.
ParkStillDriven ==
  /\ connected /\ ~park.on
  /\ parking' = TRUE
  /\ park' = [on |-> TRUE, state |-> "Busy"]
  /\ StartSlew(at.ra, IF south THEN -Pole ELSE Pole, FALSE)
  /\ UNCHANGED <<connected, at, paddles, tracking, settings>>
\* _park, PARK: PARK is on from here on, and Busy until the mount is at its pole.
Park ==
  /\ connected /\ ~park.on
  /\ parking' = TRUE
  /\ paddle' = Released
  /\ park' = [on |-> TRUE, state |-> "Busy"]
  /\ StartSlew(at.ra, IF south THEN -Pole ELSE Pole, FALSE)
  /\ UNCHANGED <<connected, at, pressed, tracking, settings>>

\* _park, anything else.  A slew to the pole goes on.
Unpark ==
  /\ connected
  /\ parking' = FALSE
  /\ park' = [on |-> FALSE, state |-> "Ok"]
  /\ UNCHANGED <<connected, at, coord, target, trackAfter, paddles, tracking, settings>>

Halt == target' = NoTarget /\ parking' = FALSE /\ paddle' = Released /\ pressed' = {}

\* _abort: TELESCOPE_PARK is left as it is.
Abort ==
  /\ connected
  /\ Halt
  /\ coord' = Resting
  /\ UNCHANGED <<connected, at, trackAfter, park, tracking, settings>>

Unmoved == UNCHANGED <<connected, at, coord, slewing, park, paddles, tracking>>

\* _on_coord_set
OnCoordSet(action) ==
  connected /\ onCoordSet' = action /\ Unmoved /\ UNCHANGED <<trackMode, slewRate, south>>
\* _track_mode
TrackMode(mode) ==
  connected /\ trackMode' = mode /\ Unmoved /\ UNCHANGED <<onCoordSet, slewRate, south>>
\* _slew_rate
SlewRate(rate) ==
  connected /\ slewRate' = rate /\ Unmoved /\ UNCHANGED <<onCoordSet, trackMode, south>>
\* _location
Location(below) ==
  connected /\ south' = below /\ Unmoved /\ UNCHANGED <<onCoordSet, trackMode, slewRate>>

\* Device._on_connection_write: on_connect does nothing here.
Connect ==
  /\ connected' = TRUE
  /\ UNCHANGED <<at, coord, slewing, park, paddles, tracking, settings>>

\* ... and on_disconnect.
Disconnect ==
  /\ connected' = FALSE
  /\ Halt
  /\ park' = IF parking THEN [on |-> FALSE, state |-> "Idle"] ELSE park
  /\ coord' = "Idle"
  /\ UNCHANGED <<at, trackAfter, tracking, settings>>

\* What is missing from a write of coordinates is where the mount is.
Moves ==
  \/ \E ra \in AskedRa \cup {at.ra}, dec \in AskedDec \cup {at.dec} : Goto(ra, dec)
  \/ \E axis \in Axes :
       (\E way \in {-1, 0, 1} : Motion(axis, way)) \/ (\E offset \in Pulses : Guide(axis, offset))
Orders == Park \/ Unpark \/ Abort \/ \E on \in BOOLEAN : TrackState(on)
Settings ==
  \/ \E action \in {"TRACK", "SLEW", "SYNC"} : OnCoordSet(action)
  \/ \E mode \in TrackModes : TrackMode(mode)
  \/ \E rate \in SlewRates : SlewRate(rate)
  \/ \E below \in BOOLEAN : Location(below)
Links == Connect \/ Disconnect
Write == Moves \/ Orders \/ Settings \/ Links

MountNext == Tick \/ Write
MountSpec == MountInit /\ [][MountNext]_mount

-----------------------------------------------------------------------------
MountTypeOK ==
  /\ connected \in BOOLEAN /\ at \in Position /\ coord \in {"Idle", "Ok", "Busy"}
  /\ target \in Position \cup {NoTarget} /\ trackAfter \in BOOLEAN /\ parking \in BOOLEAN
  /\ park \in [on : BOOLEAN, state : {"Idle", "Ok", "Busy"}]
  /\ paddle \in [Axes -> Int] /\ pressed \subseteq Axes /\ tracking \in BOOLEAN
  /\ trackMode \in TrackModes /\ slewRate \in SlewRates
  /\ onCoordSet \in {"TRACK", "SLEW", "SYNC"} /\ south \in BOOLEAN

\* PARK that is on and Ok means what it says: the mount is at a pole, its tracking is off
\* and nothing moves it.
ParkedIsParked ==
  park = [on |-> TRUE, state |-> "Ok"] =>
    /\ at.dec \in {Pole, -Pole}
    /\ ~tracking /\ ~parking /\ target = NoTarget /\ paddle = Released

\* Behind a dead link nothing drives the mount, its paddles are let go, its coordinates are
\* not Busy and no parking is under way.  (on_disconnect.)
DeadLinkIsStill ==
  ~connected => target = NoTarget /\ ~parking /\ paddle = Released /\ pressed = {} /\ coord # "Busy"

\* Coordinates that are Busy are those of a mount that is slewing, and a parking mount has
\* a pole to go to.
BusyIsSlewing ==
  /\ coord = "Busy" => target # NoTarget
  /\ parking => park = [on |-> TRUE, state |-> "Busy"] /\ target # NoTarget

\* PARK that is Busy is on, and under way - or was aborted, and then nothing moves the
\* mount until it is unparked, over a lost link too.
BusyParkHolds ==
  park.state = "Busy" => park.on /\ (parking \/ (target = NoTarget /\ paddle = Released))

\* What TELESCOPE_PARK and the coordinates claim of a mount is so, whatever was written to
\* it in whatever order.  (on_disconnect, _park, _abort and _tick_slew.)  The motion vectors
\* claim less: a park stops the motion of a paddle that is pressed, and leaves its vector
\* Busy until it is let go or the motion is aborted or the link is lost.
AtRest == ParkedIsParked /\ DeadLinkIsStill /\ BusyIsSlewing /\ BusyParkHolds

\* on_disconnect: "Halt all motion so nothing is left Busy behind a dead link."
\* The code does otherwise of a park that was aborted (README, section 7): no
\* configuration checks this.
NothingBusyBehindDeadLink ==
  ~connected => coord # "Busy" /\ pressed = {} /\ park.state # "Busy"

\* A mount that is parking gets there, whatever else its clients write: nothing but an
\* unpark, an abort or a disconnect can turn it away.  (_require_unparked, _tick_slew.)
ParkingEnds == parking ~> ~parking

=============================================================================
