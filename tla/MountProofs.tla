----------------------------- MODULE MountProofs -----------------------------
(***************************************************************************)
(* What a mount at rest says of itself is so, for every sky, speed and     *)
(* drift: AtRest, for the mount alone and for the mount of a session.      *)
(***************************************************************************)
EXTENDS MountSession, TLAPS

\* A mount that is parking is driven by nothing else, and to a pole.  With it AtRest is
\* inductive: the slew that ends a parking is the one step that makes PARK Ok.
ParkingSlew ==
  parking => target.dec \in {Pole, -Pole} /\ paddle = Released

MountInv == MountTypeOK /\ AtRest /\ ParkingSlew

-----------------------------------------------------------------------------
(* The axes.                                                               *)

\* Positions stay on the circle and between the poles.
LEMMA WrappedIsRa == ASSUME NEW ra \in Int PROVE Wrapped(ra) \in 0 .. Circle - 1
BY MountAssumption DEF Wrapped

LEMMA ClampedIsDec == ASSUME NEW dec \in Int PROVE Clamped(dec) \in -Pole .. Pole
BY MountAssumption DEF Clamped

LEMMA RaTowardIsRa ==
  ASSUME NEW ra \in 0 .. Circle - 1, NEW goal \in 0 .. Circle - 1, NEW step \in Nat \ {0}
  PROVE  RaToward(ra, goal, step) \in 0 .. Circle - 1
<1>1. ra + step \in Int /\ ra - step \in Int
  OBVIOUS
<1> QED BY <1>1, WrappedIsRa DEF RaToward

\* A step toward a declination between the poles does not go past it, so not past a pole.
LEMMA DecTowardIsDec ==
  ASSUME NEW dec \in -Pole .. Pole, NEW goal \in -Pole .. Pole, NEW step \in Nat \ {0}
  PROVE  DecToward(dec, goal, step) \in -Pole .. Pole
BY MountAssumption DEF DecToward

\* The sky and the paddles leave the mount at a position, and a parked one where it is.
LEMMA DriftedIsPosition ==
  ASSUME MountTypeOK, NEW p \in Position
  PROVE  Drifted(p) \in Position /\ (park.on => Drifted(p) = p)
<1> DEFINE drift == IF tracking THEN Drift[trackMode] ELSE 1
<1>1. drift \in Int
  BY MountAssumption DEF MountTypeOK
<1>2. p.ra + drift \in Int
  BY <1>1 DEF Position
<1>3. Wrapped(p.ra + drift) \in 0 .. Circle - 1
  BY <1>2, WrappedIsRa
<1> HIDE DEF drift
<1>4. [p EXCEPT !.ra = Wrapped(@ + drift)] \in Position
  BY <1>3 DEF Position
<1> QED BY <1>4 DEF Drifted, drift

LEMMA DrivenIsPosition == ASSUME MountTypeOK PROVE Driven \in Position
<1>1. at.ra + paddle["we"] \in Int /\ at.dec + paddle["ns"] \in Int
  BY DEF MountTypeOK, Position, Axes
<1> QED BY <1>1, WrappedIsRa, ClampedIsDec DEF Driven, Position

-----------------------------------------------------------------------------
(* The steps.                                                              *)

LEMMA InitHolds == MountInit => MountInv
<1> SUFFICES ASSUME MountInit PROVE MountInv
  OBVIOUS
<1>1. at \in Position
  BY MountAssumption DEF MountInit, Position
<1>2. paddle \in [Axes -> Int]
  BY DEF MountInit, Released
<1>3. MountTypeOK
  BY <1>1, <1>2, MountAssumption DEF MountInit, MountTypeOK
<1> QED
  BY <1>3 DEF MountInit, MountInv, AtRest, ParkedIsParked, DeadLinkIsStill, BusyIsSlewing, BusyParkHolds, ParkingSlew

LEMMA SlewTickKeeps == MountInv /\ SlewTick => MountInv'
<1> SUFFICES ASSUME MountInv, SlewTick PROVE MountInv'
  OBVIOUS
<1> DEFINE step == Speed[slewRate]
           p == [ra |-> RaToward(at.ra, target.ra, step), dec |-> DecToward(at.dec, target.dec, step)]
<1>1. target \in Position /\ at \in Position /\ step \in Nat \ {0}
  BY MountAssumption DEF MountInv, MountTypeOK, SlewTick
<1>2. /\ at.ra \in 0 .. Circle - 1 /\ at.dec \in -Pole .. Pole
      /\ target.ra \in 0 .. Circle - 1 /\ target.dec \in -Pole .. Pole
  BY <1>1 DEF Position
<1>3. p \in Position
  <2>1. RaToward(at.ra, target.ra, step) \in 0 .. Circle - 1
    BY <1>1, <1>2, RaTowardIsRa
  <2>2. DecToward(at.dec, target.dec, step) \in -Pole .. Pole
    BY <1>1, <1>2, DecTowardIsDec
  <2> QED BY <2>1, <2>2 DEF Position
<1>4. at' = p
  BY DEF SlewTick
<1> HIDE DEF p, step
<1>5. CASE UNCHANGED <<slewing, park, tracking>> /\ coord' = "Busy"
  BY <1>1, <1>3, <1>4, <1>5
     DEF SlewTick, MountInv, MountTypeOK, AtRest, ParkedIsParked, DeadLinkIsStill, BusyIsSlewing, BusyParkHolds,
         ParkingSlew, slewing, paddles, settings
<1>6. CASE /\ p = target /\ parking
           /\ target' = NoTarget /\ parking' = FALSE /\ UNCHANGED trackAfter
           /\ tracking' = FALSE /\ park' = [on |-> TRUE, state |-> "Ok"] /\ coord' = "Idle"
  BY <1>1, <1>3, <1>4, <1>6
     DEF SlewTick, MountInv, MountTypeOK, AtRest, ParkedIsParked, DeadLinkIsStill, BusyIsSlewing, BusyParkHolds,
         ParkingSlew, paddles, settings
<1>7. CASE /\ p = target /\ ~parking
           /\ target' = NoTarget /\ UNCHANGED <<trackAfter, parking, park>>
           /\ tracking' = (tracking \/ trackAfter) /\ coord' = Settled
  BY <1>1, <1>3, <1>4, <1>7
     DEF SlewTick, MountInv, MountTypeOK, AtRest, ParkedIsParked, DeadLinkIsStill, BusyIsSlewing, BusyParkHolds,
         ParkingSlew, paddles, settings, Settled
<1> QED BY <1>5, <1>6, <1>7 DEF SlewTick, p, step

LEMMA RestTickKeeps == MountInv /\ RestTick => MountInv'
<1> SUFFICES ASSUME MountInv, RestTick PROVE MountInv'
  OBVIOUS
<1> DEFINE q == IF paddle = Released THEN at ELSE Driven
<1>1. q \in Position
  BY DrivenIsPosition DEF MountInv, MountTypeOK
<1>2. at' = Drifted(q)
  BY DEF RestTick
<1> HIDE DEF q
<1>3. at' \in Position /\ (park.on => at' = q)
  BY <1>1, <1>2, DriftedIsPosition DEF MountInv
<1>4. park.on /\ paddle = Released => at' = at
  BY <1>3 DEF q
<1>5. coord' \in {coord, "Ok", "Idle"} /\ coord # "Busy"
  BY DEF RestTick, Resting, MountInv, AtRest, BusyIsSlewing
<1> QED
  BY <1>3, <1>4, <1>5
     DEF RestTick, MountInv, MountTypeOK, AtRest, ParkedIsParked, DeadLinkIsStill, BusyIsSlewing, BusyParkHolds,
         ParkingSlew, slewing, paddles, settings

\* Where a slew is sent is a position.
LEMMA AimIsPosition ==
  ASSUME NEW ra \in Int, NEW dec \in Int
  PROVE  [ra |-> Wrapped(ra), dec |-> Clamped(dec)] \in Position
BY WrappedIsRa, ClampedIsDec DEF Position

LEMMA GotoKeeps ==
  ASSUME MountInv, NEW ra \in Int, NEW dec \in Int, Goto(ra, dec)
  PROVE  MountInv'
<1>1. [ra |-> Wrapped(ra), dec |-> Clamped(dec)] \in Position
  BY AimIsPosition
<1>2. connected /\ ~park.on /\ ~parking
  BY DEF Goto, MayMove, MountInv, AtRest, BusyIsSlewing
<1>3. CASE onCoordSet = "SYNC"
  BY <1>1, <1>2, <1>3
     DEF Goto, MountInv, MountTypeOK, AtRest, ParkedIsParked, DeadLinkIsStill, BusyIsSlewing, BusyParkHolds,
         ParkingSlew, slewing, paddles, settings
<1>4. CASE onCoordSet # "SYNC"
  <2>1. /\ target' = [ra |-> Wrapped(ra), dec |-> Clamped(dec)] /\ coord' = "Busy"
        /\ trackAfter' = (onCoordSet = "TRACK")
        /\ UNCHANGED <<at, connected, parking, park, paddles, tracking, settings>>
    BY <1>4 DEF Goto, StartSlew
  <2>2. target' \in Position /\ target' # NoTarget
    BY <1>1, <2>1, MountAssumption
  <2> QED
    BY <1>2, <2>1, <2>2
       DEF MountInv, MountTypeOK, AtRest, ParkedIsParked, DeadLinkIsStill, BusyIsSlewing, BusyParkHolds,
         ParkingSlew, slewing, paddles, settings
<1> QED BY <1>3, <1>4

LEMMA MotionKeeps ==
  ASSUME MountInv, NEW axis \in Axes, NEW way \in {-1, 0, 1}, Motion(axis, way)
  PROVE  MountInv'
<1>1. Speed[slewRate] \in Int
  BY MountAssumption DEF MountInv, MountTypeOK
<1>2. way * Speed[slewRate] \in Int
  BY <1>1
<1>3. paddle' \in [Axes -> Int] /\ pressed' \subseteq Axes
  BY <1>2 DEF Motion, MountInv, MountTypeOK
<1> QED
  BY <1>3
     DEF Motion, MayMove, MountInv, MountTypeOK, AtRest, ParkedIsParked, DeadLinkIsStill, BusyIsSlewing, BusyParkHolds,
         ParkingSlew, slewing, paddles, settings

LEMMA GuideKeeps ==
  ASSUME MountInv, NEW axis \in Axes, NEW offset \in Int, Guide(axis, offset)
  PROVE  MountInv'
<1>1. at.ra + offset \in Int /\ at.dec + offset \in Int /\ at \in Position
  BY DEF MountInv, MountTypeOK, Position
<1>2. Wrapped(at.ra + offset) \in 0 .. Circle - 1 /\ Clamped(at.dec + offset) \in -Pole .. Pole
  BY <1>1, WrappedIsRa, ClampedIsDec
<1>3. at' \in Position
  BY <1>1, <1>2 DEF Guide, Position
<1> QED
  BY <1>3
     DEF Guide, MayMove, Resting, MountInv, MountTypeOK, AtRest, ParkedIsParked, DeadLinkIsStill, BusyIsSlewing, BusyParkHolds,
         ParkingSlew, slewing, paddles, settings

\* The one step that begins a parking: to a pole, with the paddles let go.
LEMMA ParkKeeps == MountInv /\ Park => MountInv'
<1> SUFFICES ASSUME MountInv, Park PROVE MountInv'
  OBVIOUS
<1> DEFINE pole == IF south THEN -Pole ELSE Pole
<1>1. at.ra \in Int /\ pole \in Int /\ Clamped(pole) \in {Pole, -Pole}
  BY MountAssumption DEF MountInv, MountTypeOK, Position, Clamped
<1>2. [ra |-> Wrapped(at.ra), dec |-> Clamped(pole)] \in Position
  BY <1>1, AimIsPosition
<1>3. target' = [ra |-> Wrapped(at.ra), dec |-> Clamped(pole)]
  BY DEF Park, StartSlew
<1>4. target'.dec \in {Pole, -Pole} /\ target' \in Position /\ target' # NoTarget
  BY <1>1, <1>2, <1>3, MountAssumption
<1>5. paddle' \in [Axes -> Int]
  BY DEF Park, Released
<1> HIDE DEF pole
<1>6. /\ coord' = "Busy" /\ trackAfter' = FALSE /\ parking' = TRUE /\ paddle' = Released
      /\ park' = [on |-> TRUE, state |-> "Busy"] /\ connected /\ connected' = connected
      /\ UNCHANGED <<at, pressed, tracking, settings>>
  BY DEF Park, StartSlew
<1> QED
  BY <1>4, <1>5, <1>6
     DEF MountInv, MountTypeOK, AtRest, ParkedIsParked, DeadLinkIsStill, BusyIsSlewing, BusyParkHolds,
         ParkingSlew, slewing, paddles, settings

LEMMA OrdersKeep == MountInv /\ (Unpark \/ Abort \/ \E on \in BOOLEAN : TrackState(on)) => MountInv'
<1> SUFFICES ASSUME MountInv, Unpark \/ Abort \/ \E on \in BOOLEAN : TrackState(on)
             PROVE  MountInv'
  OBVIOUS
<1>0. Released \in [Axes -> Int]
  BY DEF Released
<1>1. CASE Unpark
  BY <1>1 DEF Unpark, MountInv, MountTypeOK, AtRest, ParkedIsParked, DeadLinkIsStill, BusyIsSlewing, BusyParkHolds,
         ParkingSlew, slewing, paddles, settings
<1>2. CASE Abort
  BY <1>0, <1>2 DEF Abort, Halt, Resting, MountInv, MountTypeOK, AtRest, ParkedIsParked, DeadLinkIsStill, BusyIsSlewing, BusyParkHolds,
         ParkingSlew, slewing, paddles, settings
<1>3. CASE \E on \in BOOLEAN : TrackState(on)
  BY <1>3 DEF TrackState, MayMove, MountInv, MountTypeOK, AtRest, ParkedIsParked, DeadLinkIsStill, BusyIsSlewing, BusyParkHolds,
         ParkingSlew, slewing, paddles, settings
<1> QED BY <1>1, <1>2, <1>3

LEMMA SettingsKeep == MountInv /\ Settings => MountInv'
BY DEF Settings, OnCoordSet, TrackMode, SlewRate, Location, Unmoved,
       MountInv, MountTypeOK, AtRest, ParkedIsParked, DeadLinkIsStill, BusyIsSlewing, BusyParkHolds,
         ParkingSlew, slewing, paddles, settings

LEMMA LinksKeep == MountInv /\ Links => MountInv'
<1> SUFFICES ASSUME MountInv, Links PROVE MountInv'
  OBVIOUS
<1>0. Released \in [Axes -> Int]
  BY DEF Released
<1>1. CASE Connect
  BY <1>1 DEF Connect, MountInv, MountTypeOK, AtRest, ParkedIsParked, DeadLinkIsStill, BusyIsSlewing, BusyParkHolds,
         ParkingSlew, slewing, paddles, settings
<1>2. CASE Disconnect
  BY <1>0, <1>2 DEF Disconnect, Halt, MountInv, MountTypeOK, AtRest, ParkedIsParked, DeadLinkIsStill, BusyIsSlewing, BusyParkHolds,
         ParkingSlew, slewing, paddles, settings
<1> QED BY <1>1, <1>2 DEF Links

LEMMA MovesKeep == MountInv /\ Moves => MountInv'
<1> SUFFICES ASSUME MountInv, Moves PROVE MountInv'
  OBVIOUS
<1>1. at.ra \in Int /\ at.dec \in Int
  BY DEF MountInv, MountTypeOK, Position
<1>2. AskedRa \cup {at.ra} \subseteq Int /\ AskedDec \cup {at.dec} \subseteq Int /\ Pulses \subseteq Int
  BY <1>1, MountAssumption
<1>3. CASE \E ra \in AskedRa \cup {at.ra}, dec \in AskedDec \cup {at.dec} : Goto(ra, dec)
  BY <1>2, <1>3, GotoKeeps
<1>4. CASE \E axis \in Axes :
             (\E way \in {-1, 0, 1} : Motion(axis, way)) \/ (\E offset \in Pulses : Guide(axis, offset))
  BY <1>2, <1>4, MotionKeeps, GuideKeeps
<1> QED BY <1>3, <1>4 DEF Moves

LEMMA NextKeeps == MountInv /\ [MountNext]_mount => MountInv'
<1> SUFFICES ASSUME MountInv, [MountNext]_mount PROVE MountInv'
  OBVIOUS
<1>1. CASE Tick
  BY <1>1, SlewTickKeeps, RestTickKeeps DEF Tick
<1>2. CASE Write
  BY <1>2, MovesKeep, ParkKeeps, OrdersKeep, SettingsKeep, LinksKeep DEF Write, Orders
<1>3. CASE UNCHANGED mount
  BY <1>3 DEF mount, MountInv, MountTypeOK, AtRest, ParkedIsParked, DeadLinkIsStill, BusyIsSlewing, BusyParkHolds,
         ParkingSlew, slewing, paddles, settings
<1> QED BY <1>1, <1>2, <1>3 DEF MountNext

-----------------------------------------------------------------------------
\* What the vectors of a mount at rest claim is so: PARK that is Ok is a mount at a pole
\* that nothing moves; Busy coordinates are a slew; PARK that is Busy is a mount on its way
\* to a pole or, when that was aborted, one that nothing moves; and behind a dead link
\* nothing moves the mount, its paddles are let go and its coordinates are not Busy.
\* (on_disconnect, _park, _abort and _tick_slew: telescope_device.py.)
THEOREM MountAtRest == MountSpec => []AtRest
<1>1. MountInv => AtRest
  BY DEF MountInv
<1> QED BY InitHolds, NextKeeps, <1>1, PTL DEF MountSpec

\* Nothing a session adds to the mount - a destination nobody else asks for, frames on
\* their way, a script that gives up - is more than the mount takes.
LEMMA SessionKeeps == MountInv /\ [Next]_vars => MountInv'
<1> SUFFICES ASSUME MountInv, [Next]_vars PROVE MountInv'
  OBVIOUS
<1>1. CASE MountTicks
  BY <1>1, NextKeeps DEF MountTicks, MountNext
<1>2. CASE OthersWrite
  BY <1>2, NextKeeps DEF OthersWrite, MountNext
<1>3. CASE ConnectArrives
  BY <1>3, LinksKeep DEF ConnectArrives, Links
<1>4. UNCHANGED mount => MountInv'
  BY NextKeeps
<1>5. CASE GotoArrives
  <2>1. Destination.ra \in Int /\ Destination.dec \in Int
    BY SessionAssumption, MountAssumption DEF Position
  <2> QED BY <1>4, <1>5, <2>1, GotoKeeps DEF GotoArrives
<1>6. CASE Begins \/ Event \/ AlreadyConnected \/ TimesOut \/ UNCHANGED vars
  BY <1>4, <1>6 DEF Begins, Event, AlreadyConnected, TimesOut, vars
<1> QED BY <1>1, <1>2, <1>3, <1>5, <1>6 DEF Next, Handled, Script

\* So the mount a session points is as true to its word as one alone.
THEOREM SessionAtRest == Spec => []AtRest
<1>1. Init => MountInv
  BY InitHolds DEF Init
<1>2. MountInv => AtRest
  BY DEF MountInv
<1> QED BY <1>1, <1>2, SessionKeeps, PTL DEF Spec

-----------------------------------------------------------------------------
(* What the script is told.                                                *)

\* A goto that was taken while the mount was to track, and that nobody has meddled with, is
\* under way to the destination or was completed there, and the sky is followed: the wait's
\* predicate need not look at who moved the mount.
Pointed ==
  ~meddled /\ goto = "taken" /\ onCoordSet = "TRACK" /\ paddle = Released =>
    \/ target = Destination /\ trackAfter /\ ~parking
    \/ /\ target = NoTarget /\ tracking /\ at.dec = Destination.dec
       /\ Drift[trackMode] = 0 => at.ra = Destination.ra

\* The goto is not written before the script is there to be meddled with, and slew() returns
\* what its predicate accepted.
ScriptInv ==
  /\ session \in {"absent", "appearing"} => goto = "unsent" /\ sent = <<>>
  /\ session = "arrived" => ArrivedAt(answer)

TruthInv == MountInv /\ ScriptInv /\ Pointed

LEMMA ScriptInvKept == ScriptInv /\ [Next]_vars => ScriptInv'
<1> SUFFICES ASSUME ScriptInv, [Next]_vars PROVE ScriptInv'
  OBVIOUS
<1> USE DEF ScriptInv
<1>1. CASE UNCHANGED script
  BY <1>1 DEF script, ArrivedAt, Near
<1>2. CASE MountTicks \/ OthersWrite \/ UNCHANGED vars
  BY <1>1, <1>2 DEF MountTicks, OthersWrite, vars
<1>3. CASE Handled
  BY <1>3 DEF Handled, ConnectArrives, GotoArrives, ArrivedAt, Near
<1>4. CASE Begins \/ TimesOut
  BY <1>4 DEF Begins, TimesOut, ArrivedAt, Near
<1>5. ASSUME NEW seen, Answered(seen), session \notin {"absent", "appearing"} PROVE ScriptInv'
  BY <1>5 DEF Answered, ArrivedAt, Near
<1>6. CASE Script
  BY <1>5, <1>6 DEF Script, Event, AlreadyConnected, ArrivedAt, Near
<1> QED BY <1>2, <1>3, <1>4, <1>6 DEF Next

\* A tick carries the mount on to the destination, or leaves it there under a sky it follows.
LEMMA TickPoints == MountInv /\ Pointed /\ MountTicks => Pointed'
<1> SUFFICES ASSUME MountInv, Pointed, MountTicks,
                    ~meddled, goto = "taken", onCoordSet' = "TRACK", paddle' = Released
             PROVE  \/ target' = Destination /\ trackAfter' /\ ~parking'
                    \/ /\ target' = NoTarget /\ tracking' /\ at'.dec = Destination.dec
                       /\ Drift[trackMode'] = 0 => at'.ra = Destination.ra
  BY DEF MountTicks, script, others, Pointed
<1>1. MountTypeOK /\ Destination \in Position /\ Destination # NoTarget
  BY SessionAssumption, MountAssumption DEF MountInv
<1>2. UNCHANGED <<onCoordSet, paddle, trackMode>>
  BY DEF MountTicks, Tick, SlewTick, RestTick, paddles, settings
<1>3. CASE SlewTick
  <2>1. target = Destination /\ trackAfter /\ ~parking
    BY <1>2, <1>3 DEF Pointed, SlewTick
  <2>2. CASE UNCHANGED <<slewing, park, tracking>>
    BY <2>1, <2>2 DEF slewing
  <2>3. CASE /\ at' = target /\ target' = NoTarget
             /\ tracking' = (tracking \/ trackAfter)
    BY <2>1, <2>3
  <2> QED
    BY <1>3, <2>1, <2>2, <2>3 DEF SlewTick
<1>4. CASE RestTick
  <2>1. /\ tracking /\ at.dec = Destination.dec
        /\ Drift[trackMode] = 0 => at.ra = Destination.ra
    BY <1>1, <1>2, <1>4 DEF Pointed, RestTick
  <2>2. at' = Drifted(at) /\ UNCHANGED <<target, tracking>> /\ target = NoTarget
    BY <1>2, <1>4 DEF RestTick, slewing
  <2>3. /\ at'.dec = at.dec
        /\ at' = at \/ at'.ra = Wrapped(at.ra + Drift[trackMode])
    BY <1>1, <2>1, <2>2 DEF Drifted, MountTypeOK, Position
  <2>4. Drift[trackMode] = 0 => at'.ra = at.ra
    BY <1>1, <2>3, MountAssumption DEF MountTypeOK, Position, Wrapped
  <2> QED
    BY <1>2, <2>1, <2>2, <2>3, <2>4
<1> QED BY <1>3, <1>4 DEF MountTicks, Tick

\* The handler points the mount where it was asked to: the destination is a position already.
LEMMA GotoPoints == MountInv /\ GotoArrives => Pointed'
<1> SUFFICES ASSUME MountInv, GotoArrives, goto' = "taken", onCoordSet' = "TRACK"
             PROVE  target' = Destination /\ trackAfter' /\ ~parking'
  BY DEF Pointed
<1>1. Goto(Destination.ra, Destination.dec)
  BY DEF GotoArrives
<1>2. /\ Destination = [ra |-> Destination.ra, dec |-> Destination.dec]
      /\ Wrapped(Destination.ra) = Destination.ra /\ Clamped(Destination.dec) = Destination.dec
  BY SessionAssumption, MountAssumption DEF Position, Wrapped, Clamped
<1>3. StartSlew(Destination.ra, Destination.dec, onCoordSet = "TRACK") /\ onCoordSet = "TRACK"
  BY <1>1 DEF Goto, settings
<1>4. ~parking
  BY <1>1 DEF Goto, MayMove, MountInv, AtRest, BusyIsSlewing
<1> QED BY <1>1, <1>2, <1>3, <1>4 DEF Goto, StartSlew

LEMMA PointedKept == MountInv /\ ScriptInv /\ Pointed /\ [Next]_vars => Pointed'
<1> SUFFICES ASSUME MountInv, ScriptInv, Pointed, [Next]_vars PROVE Pointed'
  OBVIOUS
<1>1. CASE UNCHANGED <<mount, goto, meddled>>
  BY <1>1 DEF Pointed, mount, slewing, paddles, settings
<1>2. CASE Begins \/ TimesOut \/ UNCHANGED vars
  BY <1>1, <1>2 DEF Begins, TimesOut, vars, script, others
<1>3. CASE OthersWrite
  BY <1>3 DEF OthersWrite, script, ScriptInv, Pointed
<1>4. CASE ConnectArrives
  BY <1>4 DEF ConnectArrives, Connect, others, Pointed, slewing, paddles, settings
<1>5. CASE Script
  <2>1. goto' = "sent" \/ UNCHANGED goto
    BY <1>5 DEF Script, Event, AlreadyConnected
  <2>2. CASE goto' = "sent"
    BY <2>2 DEF Pointed
  <2> QED
    BY <1>1, <1>5, <2>1, <2>2 DEF Script, Event, AlreadyConnected, others
<1> QED BY <1>2, <1>3, <1>4, <1>5, TickPoints, GotoPoints DEF Next, Handled

\* Whatever the sky's speed and drift, whoever else commands the mount and however late its
\* vectors arrive: a slew() that returned saw the mount at rest within the tolerance of the
\* destination; and if nobody else meddled, it is there and tracks, or its own goto is on
\* its way.  (slew's "_arrived_at", telescope_device.py's _start_slew and _tick_slew.)
THEOREM SlewReturnsTheTruth == Spec => []SlewTellsTheTruth
<1>1. Init => TruthInv
  <2>1. Init => MountInv
    BY InitHolds DEF Init
  <2> QED
    BY <2>1 DEF Init, TruthInv, ScriptInv, Pointed
<1>2. TruthInv /\ [Next]_vars => TruthInv'
  BY SessionKeeps, ScriptInvKept, PointedKept DEF TruthInv
<1>3. TruthInv => SlewTellsTheTruth
  BY DEF TruthInv, ScriptInv, Pointed, SlewTellsTheTruth, ArrivedAt
<1> QED BY <1>1, <1>2, <1>3, PTL DEF Spec

=============================================================================
