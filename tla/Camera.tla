------------------------------- MODULE Camera --------------------------------
(***************************************************************************)
(* The camera simulator (src/examples/ccd_device.py), a driver written on  *)
(* Device: exposures that are counted down tick by tick and rendered in a  *)
(* thread, and a cooler.                                                   *)
(*                                                                         *)
(* A tick holds the device's guard while the frame is rendered, so writes  *)
(* wait behind it (Device.serialize_dispatch), and no handler awaits.  A   *)
(* write to a camera that is not connected is only logged.                 *)
(*                                                                         *)
(* The length of an exposure is in ticks, the temperature in tenths of a   *)
(* degree.  What CCD_FRAME_TYPE and CCD_BINNING hold is one framing; what  *)
(* CCD_GAIN, CCD_OFFSET and SIMULATOR_SETTINGS hold is one level.  With    *)
(* some settings a frame cannot be rendered: SIM_SKYGLOW is not limited,   *)
(* its product with the duration of a light frame may overflow, and an     *)
(* infinite background cannot be rounded.  Which product overflows is data *)
(* that is left out: the duration is taken to be one with which those      *)
(* settings overflow.  So are the pixels left out, and the cooler's log.   *)
(***************************************************************************)
EXTENDS Integers, Sequences, SequencesExt

CONSTANTS
  Lengths,      \* requested duration times SIM_TIME_FACTOR, in ticks
  Framings,     \* the frame types and binnings
  LightFrame,   \* ... at first
  Levels,       \* the gains, offsets and simulator settings
  Unrenderable, \* the pairs of both with which rendering overflows and raises
  Ambient,      \* AMBIENT_C
  MinTec,       \* MIN_TEC_C
  CoolingStep,  \* COOLING_STEP_C
  SetPoints,    \* the temperatures clients ask for
  Holding,      \* None: the TEC is holding
  MaxExposures  \* bound: exposures started

ASSUME CameraAssumption ==
  /\ Lengths \subseteq Nat /\ MaxExposures \in Nat
  /\ LightFrame \in Framings /\ \E l \in Levels : <<LightFrame, l>> \notin Unrenderable
  /\ Ambient \in Int /\ MinTec \in Int /\ MinTec < Ambient /\ CoolingStep \in Nat \ {0}
  /\ SetPoints \subseteq Int /\ Holding \notin Int

VARIABLES
  connected,   \* CONNECTION
  exposing,    \* _exposing
  left,        \* _exposure_left; what is below zero is zero
  rendering,   \* _rendering
  exposure,    \* the state of CCD_EXPOSURE
  framing,     \* CCD_FRAME_TYPE, CCD_BINNING
  levels,      \* CCD_GAIN, CCD_OFFSET, SIMULATOR_SETTINGS
  target,      \* _temperature_target
  temperature, \* CCD_TEMPERATURE: its value and state
  cooler,      \* CCD_COOLER: is COOLER_ON on, and its state
  (* history *)
  started,     \* exposures started, of which the last is the one that runs
  images,      \* the exposures whose frames CCD1 published
  spoiled      \* the exposures that were aborted, dropped or replaced

sensor == <<target, temperature, cooler>>
shutter == <<exposing, left, exposure>>
settings == <<framing, levels>>
camera == <<connected, shutter, rendering, settings, sensor, started, images, spoiled>>

\* setup
CameraInit ==
  /\ connected = FALSE
  /\ exposing = FALSE /\ left = 0 /\ rendering = FALSE /\ exposure = "Idle"
  /\ framing = LightFrame /\ levels \in Levels /\ <<framing, levels>> \notin Unrenderable
  /\ target = Holding /\ temperature = [value |-> Ambient, state |-> "Idle"]
  /\ cooler = [on |-> FALSE, state |-> "Idle"]
  /\ started = 0 /\ images = <<>> /\ spoiled = {}

-----------------------------------------------------------------------------
(* CCDSimulator.tick                                                       *)

Lower(a, b) == IF a < b THEN a ELSE b
Higher(a, b) == IF a > b THEN a ELSE b

\* Cooling is steady, warming slows down toward ambient (to a tenth a tick, here).
Cooled(t) == Higher(target, t - CoolingStep)
Warmed(t) == Lower(target, t + Lower(5, Higher(1, (Ambient - t) \div 5)))

\* _tick_temperature
TickTemperature ==
  LET now == temperature.value
      next == IF target < now THEN Cooled(now) ELSE Warmed(now)
  IN  \/ target = Holding /\ UNCHANGED sensor
      \/ /\ target # Holding /\ next # target
         /\ temperature' = [value |-> next, state |-> "Busy"]
         /\ UNCHANGED <<target, cooler>>
      \/ /\ target # Holding /\ next = target
         /\ target' = Holding
         /\ temperature' = [value |-> next, state |-> "Ok"]
         /\ cooler' = IF next >= Ambient - 1 THEN [on |-> FALSE, state |-> "Idle"] ELSE cooler

Ticking == connected /\ ~rendering

IdleTick ==
  /\ Ticking /\ ~exposing
  /\ TickTemperature
  /\ UNCHANGED <<connected, shutter, rendering, settings, started, images, spoiled>>

CountdownTick ==
  /\ Ticking /\ exposing /\ left > 1
  /\ left' = left - 1 /\ exposure' = "Busy"
  /\ TickTemperature
  /\ UNCHANGED <<connected, exposing, rendering, settings, started, images, spoiled>>

\* The thread begins; the tick keeps the guard.
RenderBegins ==
  /\ Ticking /\ exposing /\ left <= 1
  /\ left' = 0 /\ rendering' = TRUE
  /\ UNCHANGED <<connected, exposing, exposure, settings, sensor, started, images, spoiled>>

\* _render_frame, in its thread: the settings as they are when the exposure ends.
CanRender == <<framing, levels>> \notin Unrenderable

RenderEnds ==
  /\ rendering /\ CanRender
  /\ rendering' = FALSE
  /\ exposing' = FALSE
  /\ images' = Append(images, started)
  /\ exposure' = "Ok"
  /\ TickTemperature
  /\ UNCHANGED <<connected, left, settings, started, spoiled>>

\* Mutant: _rendering is not reset in a finally.
RenderFailsForGood ==
  rendering /\ ~CanRender /\ UNCHANGED camera
\* The tick raises, and the next one renders again.
RenderFails ==
  /\ rendering /\ ~CanRender
  /\ rendering' = FALSE
  /\ UNCHANGED <<connected, shutter, settings, sensor, started, images, spoiled>>

Tick == IdleTick \/ CountdownTick \/ RenderBegins \/ RenderEnds \/ RenderFails

-----------------------------------------------------------------------------
(* The writes of clients, once the guard is free.                          *)

Handles == connected /\ ~rendering
Spoils == IF exposing THEN spoiled \cup {started} ELSE spoiled

\* _expose: one that runs is replaced.
Expose(length) ==
  /\ Handles /\ started < MaxExposures
  /\ exposing' = TRUE /\ left' = length /\ exposure' = "Busy"
  /\ started' = started + 1 /\ spoiled' = Spoils
  /\ UNCHANGED <<connected, rendering, settings, sensor, images>>

Drop ==
  /\ exposing' = FALSE
  /\ left' = IF exposing THEN 0 ELSE left
  /\ exposure' = IF exposing THEN "Idle" ELSE exposure
  /\ spoiled' = Spoils

\* Mutant: the abort only shows.
AbortShownOnly ==
  /\ Handles
  /\ exposure' = IF exposing THEN "Idle" ELSE exposure
  /\ spoiled' = Spoils
  /\ UNCHANGED <<connected, exposing, left, rendering, settings, sensor, started, images>>
\* _abort
Abort ==
  /\ Handles
  /\ Drop
  /\ UNCHANGED <<connected, rendering, settings, sensor, started, images>>

\* _frame_type, _binning
Frame(value) ==
  /\ Handles
  /\ framing' = value
  /\ UNCHANGED <<connected, shutter, rendering, levels, sensor, started, images, spoiled>>
\* _gain, _offset, _settings
Level(value) ==
  /\ Handles
  /\ levels' = value
  /\ UNCHANGED <<connected, shutter, rendering, framing, sensor, started, images, spoiled>>

\* _temperature
SetPoint(asked) ==
  LET goal == Lower(Ambient, Higher(MinTec, asked))
      cools == goal < temperature.value
  IN  /\ Handles
      /\ \/ /\ goal = temperature.value
            /\ temperature' = [value |-> goal, state |-> "Ok"]
            /\ UNCHANGED <<target, cooler>>
         \/ /\ goal # temperature.value
            /\ target' = goal
            /\ cooler' = [on |-> cools, state |-> IF cools THEN "Busy" ELSE "Idle"]
            /\ temperature' = [temperature EXCEPT !.state = "Busy"]
      /\ UNCHANGED <<connected, shutter, rendering, settings, started, images, spoiled>>

\* _cooler: off warms a cold sensor, on only says so.
Cooler(on) ==
  /\ Handles
  /\ cooler' = [on |-> on, state |-> IF on THEN "Busy" ELSE "Idle"]
  /\ IF ~on /\ temperature.value < Ambient - 1
     THEN target' = Ambient /\ temperature' = [temperature EXCEPT !.state = "Busy"]
     ELSE UNCHANGED <<target, temperature>>
  /\ UNCHANGED <<connected, shutter, rendering, settings, started, images, spoiled>>

\* Device._on_connection_write: on_connect does nothing here.
Connect ==
  /\ ~rendering
  /\ connected' = TRUE
  /\ UNCHANGED <<shutter, rendering, settings, sensor, started, images, spoiled>>

\* ... and on_disconnect: the cooler is left as it is.
Disconnect ==
  /\ ~rendering
  /\ connected' = FALSE
  /\ Drop
  /\ target' = Holding
  /\ temperature' = [temperature EXCEPT !.state = "Idle"]
  /\ cooler' = [cooler EXCEPT !.state = "Idle"]
  /\ UNCHANGED <<rendering, settings, started, images>>

Exposes == \E length \in Lengths : Expose(length)
Adjusts ==
  \/ \E value \in Framings : Frame(value)
  \/ \E value \in Levels : Level(value)
  \/ \E asked \in SetPoints : SetPoint(asked)
  \/ \E on \in BOOLEAN : Cooler(on)
Write == Exposes \/ Abort \/ Adjusts \/ Connect \/ Disconnect

CameraNext == Tick \/ Write
CameraSpec == CameraInit /\ [][CameraNext]_camera

-----------------------------------------------------------------------------
CameraTypeOK ==
  /\ connected \in BOOLEAN /\ exposing \in BOOLEAN /\ rendering \in BOOLEAN /\ left \in Nat
  /\ exposure \in {"Idle", "Busy", "Ok"} /\ framing \in Framings /\ levels \in Levels
  /\ target \in MinTec .. Ambient \cup {Holding}
  /\ temperature \in [value : MinTec .. Ambient, state : {"Idle", "Busy", "Ok"}]
  /\ cooler \in [on : BOOLEAN, state : {"Idle", "Busy"}]
  /\ started \in Nat /\ images \in Seq(Nat) /\ spoiled \subseteq Nat

\* An exposure has at most one image, the images come in the order of the exposures, and
\* one that was aborted, replaced or dropped with the link leaves none behind.  ("Abort the
\* running exposure, leaving no image behind.")
OneImageEach ==
  /\ \A m, n \in DOMAIN images : m < n => images[m] < images[n]
  /\ \A n \in DOMAIN images : images[n] \notin spoiled

\* What is Busy is being worked on: CCD_EXPOSURE exactly while the camera exposes, and the
\* temperature while the TEC has a target, neither of them behind a dead link.
\* (on_disconnect: "so nothing is left Busy behind a dead link".)
BusyIsWorking ==
  /\ exposure = "Busy" <=> exposing
  /\ temperature.state = "Busy" => target # Holding
  /\ rendering => exposing
  /\ ~connected => ~exposing /\ target = Holding

\* Both halves of a camera that tells its clients the truth.
CameraTruthful == OneImageEach /\ BusyIsWorking

\* An exposure ends, with its image or without; or the settings are such that no frame can
\* be rendered, and then the camera listens to who corrects them, between two attempts.
\* (_tick_exposure's finally, and the guard.)
ExposureEnds == exposing ~> ~exposing \/ (~CanRender /\ ~rendering)

=============================================================================
