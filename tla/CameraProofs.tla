---------------------------- MODULE CameraProofs -----------------------------
(***************************************************************************)
(* One image for each exposure and none for a spoiled one, nothing Busy    *)
(* that nobody works on, and a receiver that saves its own frame: for all  *)
(* exposure lengths, settings, temperatures and numbers of exposures.      *)
(***************************************************************************)
EXTENDS CameraReceiver, TLAPS

\* The exposures are numbered from 1, what has an image or is spoiled was started, and the
\* one that runs has and is neither.  With it OneImageEach is inductive.
RunningIsLast ==
  /\ \A n \in DOMAIN images : images[n] >= 1 /\ images[n] <= started
  /\ spoiled \subseteq 1 .. started
  /\ exposing => started >= 1 /\ started \notin spoiled /\ \A n \in DOMAIN images : images[n] < started

CameraInv == CameraTypeOK /\ CameraTruthful /\ RunningIsLast

LEMMA CameraInitHolds == CameraInit => CameraInv
<1> SUFFICES ASSUME CameraInit PROVE CameraInv
  OBVIOUS
<1>1. temperature \in [value : MinTec .. Ambient, state : {"Idle", "Busy", "Ok"}]
  BY CameraAssumption DEF CameraInit
<1>2. cooler \in [on : BOOLEAN, state : {"Idle", "Busy"}]
  BY DEF CameraInit
<1>3. images = <<>> /\ images \in Seq(Nat) /\ DOMAIN images = {}
  BY DEF CameraInit
<1>4. CameraTypeOK
  BY <1>1, <1>2, <1>3, CameraAssumption DEF CameraInit, CameraTypeOK
<1> QED
  BY <1>3, <1>4 DEF CameraInit, CameraInv, CameraTruthful, OneImageEach, BusyIsWorking, RunningIsLast

-----------------------------------------------------------------------------
(* The cooler.                                                             *)

SensorTypeOK ==
  /\ target \in MinTec .. Ambient \cup {Holding}
  /\ temperature \in [value : MinTec .. Ambient, state : {"Idle", "Busy", "Ok"}]
  /\ cooler \in [on : BOOLEAN, state : {"Idle", "Busy"}]

\* The sensor stays between what the TEC can do and the ambient.
LEMMA TemperatureStays ==
  ASSUME SensorTypeOK, target # Holding
  PROVE  /\ target < temperature.value => Cooled(temperature.value) \in MinTec .. Ambient
         /\ target >= temperature.value => Warmed(temperature.value) \in MinTec .. Ambient
<1> DEFINE t == temperature.value
<1>1. t \in MinTec .. Ambient /\ target \in MinTec .. Ambient /\ MinTec \in Int /\ Ambient \in Int
  BY CameraAssumption DEF SensorTypeOK
<1> HIDE DEF t
<1>2. t \in Int /\ target \in Int /\ MinTec <= t /\ t <= Ambient /\ MinTec <= target /\ target <= Ambient
  BY <1>1
<1>3. target < t => Cooled(t) \in MinTec .. Ambient
  BY <1>1, <1>2, CameraAssumption DEF Cooled, Higher
<1>4. ASSUME target >= t PROVE Warmed(t) \in MinTec .. Ambient
  <2> DEFINE rise == Lower(5, Higher(1, (Ambient - t) \div 5))
  <2>1. rise \in Nat
    BY <1>1, <1>2 DEF Lower, Higher
  <2> HIDE DEF rise
  <2>2. Lower(target, t + rise) \in MinTec .. Ambient
    BY <1>1, <1>2, <1>4, <2>1 DEF Lower
  <2> QED BY <2>2 DEF Warmed, rise
<1> QED BY <1>3, <1>4 DEF t

LEMMA TickTemperatureKeeps ==
  ASSUME SensorTypeOK, temperature.state = "Busy" => target # Holding, TickTemperature
  PROVE  /\ SensorTypeOK' /\ (temperature'.state = "Busy" => target' # Holding)
         /\ target = Holding => target' = Holding
<1> DEFINE now == temperature.value
           next == IF target < now THEN Cooled(now) ELSE Warmed(now)
<1>1. CASE target = Holding /\ UNCHANGED sensor
  BY <1>1 DEF sensor, SensorTypeOK
<1>2. CASE target # Holding
  <2>1. target \in Int /\ now \in Int
    BY <1>2, CameraAssumption DEF SensorTypeOK
  <2>2. next \in MinTec .. Ambient
    BY <1>2, <2>1, TemperatureStays
  <2> HIDE DEF next
  <2>3. \/ temperature' = [value |-> next, state |-> "Busy"] /\ UNCHANGED <<target, cooler>>
        \/ /\ target' = Holding /\ temperature' = [value |-> next, state |-> "Ok"]
           /\ cooler' \in {[on |-> FALSE, state |-> "Idle"], cooler}
    BY <1>2 DEF TickTemperature, next
  <2>4. temperature' \in [value : MinTec .. Ambient, state : {"Idle", "Busy", "Ok"}]
    BY <2>2, <2>3
  <2>5. cooler' \in [on : BOOLEAN, state : {"Idle", "Busy"}]
    <3>1. [on |-> FALSE, state |-> "Idle"] \in [on : BOOLEAN, state : {"Idle", "Busy"}]
      OBVIOUS
    <3> QED BY <2>3, <3>1 DEF SensorTypeOK
  <2>6. target' \in MinTec .. Ambient \cup {Holding}
    BY <2>3 DEF SensorTypeOK
  <2>7. temperature'.state = "Busy" => target' # Holding
    BY <1>2, <2>3
  <2> QED BY <1>2, <2>4, <2>5, <2>6, <2>7 DEF SensorTypeOK
<1> QED BY <1>1, <1>2 DEF TickTemperature

-----------------------------------------------------------------------------
(* The steps.                                                              *)

LEMMA IdleTickKeeps == CameraInv /\ IdleTick => CameraInv'
<1> SUFFICES ASSUME CameraInv, IdleTick PROVE CameraInv'
  OBVIOUS
<1>1. SensorTypeOK' /\ (temperature'.state = "Busy" => target' # Holding)
  BY TickTemperatureKeeps
     DEF CameraInv, CameraTypeOK, CameraTruthful, BusyIsWorking, SensorTypeOK, IdleTick
<1> QED
  BY <1>1 DEF IdleTick, Ticking, CameraInv, CameraTypeOK, CameraTruthful, OneImageEach, BusyIsWorking,
         RunningIsLast, SensorTypeOK, shutter, settings, sensor

LEMMA CountdownTickKeeps == CameraInv /\ CountdownTick => CameraInv'
<1> SUFFICES ASSUME CameraInv, CountdownTick PROVE CameraInv'
  OBVIOUS
<1>1. SensorTypeOK' /\ (temperature'.state = "Busy" => target' # Holding)
  BY TickTemperatureKeeps
     DEF CameraInv, CameraTypeOK, CameraTruthful, BusyIsWorking, SensorTypeOK, CountdownTick
<1>2. left' \in Nat
  BY DEF CameraInv, CameraTypeOK, CountdownTick
<1> QED
  BY <1>1, <1>2 DEF CountdownTick, Ticking, CameraInv, CameraTypeOK, CameraTruthful, OneImageEach, BusyIsWorking,
         RunningIsLast, SensorTypeOK, shutter, settings, sensor

LEMMA RenderStepsKeep == CameraInv /\ (RenderBegins \/ RenderFails) => CameraInv'
<1> SUFFICES ASSUME CameraInv, RenderBegins \/ RenderFails PROVE CameraInv'
  OBVIOUS
<1>1. /\ left' \in Nat /\ rendering' \in BOOLEAN /\ (rendering' => exposing)
      /\ UNCHANGED <<connected, exposing, exposure, settings, sensor, started, images, spoiled>>
  <2>1. CASE RenderBegins
    BY <2>1 DEF RenderBegins
  <2>2. CASE RenderFails
    BY <2>2 DEF RenderFails, shutter, CameraInv, CameraTypeOK
  <2> QED BY <2>1, <2>2
<1> QED
  BY <1>1
     DEF CameraInv, CameraTypeOK, CameraTruthful, OneImageEach, BusyIsWorking, RunningIsLast,
         shutter, settings, sensor

\* The one step that takes an image: of the exposure that ran, and later than all others.
LEMMA RenderEndsKeeps == CameraInv /\ RenderEnds => CameraInv'
<1> SUFFICES ASSUME CameraInv, RenderEnds PROVE CameraInv'
  OBVIOUS
<1>1. exposing /\ connected
  BY DEF RenderEnds, CameraInv, CameraTruthful, BusyIsWorking
<1>2. SensorTypeOK' /\ (temperature'.state = "Busy" => target' # Holding)
  BY TickTemperatureKeeps
     DEF CameraInv, CameraTypeOK, CameraTruthful, BusyIsWorking, SensorTypeOK, RenderEnds
<1>3. /\ images \in Seq(Nat) /\ started \in Nat /\ images' = Append(images, started)
      /\ spoiled' = spoiled /\ started' = started /\ exposing' = FALSE /\ exposure' = "Ok"
      /\ UNCHANGED <<connected, left, settings>> /\ rendering' = FALSE
  BY DEF CameraInv, CameraTypeOK, RenderEnds
<1>4. /\ images' \in Seq(Nat) /\ DOMAIN images' = 1 .. Len(images) + 1
      /\ \A n \in DOMAIN images : images'[n] = images[n]
      /\ images'[Len(images) + 1] = started /\ DOMAIN images = 1 .. Len(images)
  BY <1>3
<1>5. \A n \in DOMAIN images : images[n] < started /\ images[n] >= 1 /\ images[n] \in Nat
  BY <1>1, <1>3 DEF CameraInv, RunningIsLast
<1>6. OneImageEach'
  <2>1. started \notin spoiled /\ OneImageEach
    BY <1>1 DEF CameraInv, RunningIsLast, CameraTruthful
  <2>2. \A n \in DOMAIN images' : images'[n] \notin spoiled
    BY <1>3, <1>4, <2>1 DEF OneImageEach
  <2>3. ASSUME NEW m \in DOMAIN images', NEW n \in DOMAIN images', m < n
        PROVE  images'[m] < images'[n]
    <3>1. Len(images) \in Nat /\ m \in Nat /\ n \in Nat
      BY <1>3, <1>4
    <3>2. m \in DOMAIN images
      BY <1>4, <2>3, <3>1
    <3>3. CASE n \in DOMAIN images
      BY <1>4, <2>1, <2>3, <3>2, <3>3 DEF OneImageEach
    <3>4. CASE n = Len(images) + 1
      BY <1>4, <1>5, <3>2, <3>4
    <3> QED BY <1>4, <3>1, <3>3, <3>4
  <2> QED BY <1>3, <2>2, <2>3 DEF OneImageEach
<1>7. RunningIsLast'
  <2>1. started >= 1 /\ spoiled \subseteq 1 .. started
    BY <1>1 DEF CameraInv, RunningIsLast
  <2>2. \A n \in DOMAIN images' : images'[n] >= 1 /\ images'[n] <= started
    BY <1>3, <1>4, <1>5, <2>1
  <2> QED BY <1>3, <2>1, <2>2 DEF RunningIsLast
<1>8. BusyIsWorking'
  BY <1>1, <1>2, <1>3 DEF BusyIsWorking
<1>9. CameraTypeOK'
  BY <1>2, <1>3, <1>4 DEF CameraInv, CameraTypeOK, SensorTypeOK, settings
<1> QED BY <1>6, <1>7, <1>8, <1>9 DEF CameraInv, CameraTruthful

\* A new exposure has a number of its own; the one it replaces is spoiled.
LEMMA ExposeKeeps ==
  ASSUME CameraInv, NEW length \in Nat, Expose(length)
  PROVE  CameraInv'
<1>1. /\ started \in Nat /\ started' = started + 1 /\ images' = images /\ exposing' = TRUE
      /\ spoiled' = Spoils /\ spoiled \subseteq 1 .. started /\ (exposing => started >= 1)
  BY DEF Expose, CameraInv, CameraTypeOK, RunningIsLast
<1>2. spoiled' \subseteq 1 .. started
  BY <1>1 DEF Spoils
<1>3. \A n \in DOMAIN images : images[n] \notin spoiled'
  BY <1>1 DEF Spoils, CameraInv, RunningIsLast, CameraTruthful, OneImageEach, CameraTypeOK
<1>4. OneImageEach'
  BY <1>1, <1>3 DEF CameraInv, CameraTruthful, OneImageEach
<1>5. RunningIsLast'
  <2>1. \A n \in DOMAIN images : images[n] >= 1 /\ images[n] <= started /\ images[n] \in Nat
    BY DEF CameraInv, CameraTypeOK, RunningIsLast
  <2>2. \A n \in DOMAIN images' :
          images'[n] >= 1 /\ images'[n] <= started' /\ images'[n] < started'
    BY <1>1, <2>1
  <2>3. spoiled' \subseteq 1 .. started' /\ started' \notin spoiled' /\ started' >= 1
    BY <1>1, <1>2
  <2> QED BY <2>2, <2>3 DEF RunningIsLast
<1>6. CameraTypeOK'
  BY <1>1, <1>2 DEF Expose, CameraInv, CameraTypeOK, settings, sensor
<1>7. BusyIsWorking'
  BY DEF Expose, Handles, CameraInv, CameraTruthful, BusyIsWorking, sensor
<1> QED BY <1>4, <1>5, <1>6, <1>7 DEF CameraInv, CameraTruthful

\* What was dropped is spoiled, and had no image yet.
LEMMA DropKeeps ==
  ASSUME CameraInv, Drop, UNCHANGED <<started, images>>
  PROVE  /\ OneImageEach' /\ RunningIsLast' /\ spoiled' \subseteq Nat /\ left' \in Nat
         /\ exposure' \in {"Idle", "Ok"} /\ exposing' = FALSE
<1>1. /\ started \in Nat /\ spoiled' = Spoils /\ spoiled \subseteq 1 .. started
      /\ (exposing => started >= 1) /\ exposing' = FALSE
  BY DEF Drop, CameraInv, CameraTypeOK, RunningIsLast
<1>2. spoiled' \subseteq 1 .. started
  BY <1>1 DEF Spoils
<1>3. \A n \in DOMAIN images : images[n] \notin spoiled'
  BY <1>1 DEF Spoils, CameraInv, RunningIsLast, CameraTruthful, OneImageEach, CameraTypeOK
<1>4. OneImageEach'
  BY <1>3 DEF CameraInv, CameraTruthful, OneImageEach
<1>5. RunningIsLast'
  BY <1>1, <1>2 DEF CameraInv, RunningIsLast
<1>6. left' \in Nat /\ exposure' \in {"Idle", "Ok"}
  BY DEF Drop, CameraInv, CameraTypeOK, CameraTruthful, BusyIsWorking
<1> QED BY <1>1, <1>2, <1>4, <1>5, <1>6

LEMMA AbortKeeps == CameraInv /\ Abort => CameraInv'
<1> SUFFICES ASSUME CameraInv, Abort PROVE CameraInv'
  OBVIOUS
<1>1. /\ OneImageEach' /\ RunningIsLast' /\ spoiled' \subseteq Nat /\ left' \in Nat
      /\ exposure' \in {"Idle", "Ok"} /\ exposing' = FALSE
  BY DropKeeps DEF Abort
<1> QED
  BY <1>1 DEF Abort, Handles, CameraInv, CameraTypeOK, CameraTruthful, BusyIsWorking, settings, sensor

LEMMA DisconnectKeeps == CameraInv /\ Disconnect => CameraInv'
<1> SUFFICES ASSUME CameraInv, Disconnect PROVE CameraInv'
  OBVIOUS
<1>1. /\ OneImageEach' /\ RunningIsLast' /\ spoiled' \subseteq Nat /\ left' \in Nat
      /\ exposure' \in {"Idle", "Ok"} /\ exposing' = FALSE
  BY DropKeeps DEF Disconnect
<1>2. SensorTypeOK' /\ temperature'.state = "Idle"
  BY DEF Disconnect, CameraInv, CameraTypeOK, SensorTypeOK
<1> QED
  BY <1>1, <1>2
     DEF Disconnect, CameraInv, CameraTypeOK, SensorTypeOK, CameraTruthful, BusyIsWorking, settings

LEMMA ConnectKeeps == CameraInv /\ Connect => CameraInv'
BY DEF Connect, CameraInv, CameraTypeOK, CameraTruthful, OneImageEach, BusyIsWorking, RunningIsLast,
         shutter, settings, sensor

\* A set point is one the TEC can hold.
LEMMA SetPointKeeps ==
  ASSUME CameraInv, NEW asked \in Int, SetPoint(asked)
  PROVE  CameraInv'
<1> DEFINE goal == Lower(Ambient, Higher(MinTec, asked))
           cools == goal < temperature.value
<1>1. goal \in MinTec .. Ambient
  BY CameraAssumption DEF Lower, Higher
<1>2. goal # Holding
  BY <1>1, CameraAssumption
<1>3. \/ /\ temperature' = [value |-> goal, state |-> "Ok"]
         /\ UNCHANGED <<target, cooler>>
      \/ /\ target' = goal /\ temperature' = [temperature EXCEPT !.state = "Busy"]
         /\ cooler' = [on |-> cools, state |-> IF cools THEN "Busy" ELSE "Idle"]
  BY DEF SetPoint
<1> HIDE DEF goal, cools
<1>4. cools \in BOOLEAN
  BY DEF cools
<1>5. [on |-> cools, state |-> IF cools THEN "Busy" ELSE "Idle"] \in [on : BOOLEAN, state : {"Idle", "Busy"}]
  BY <1>4
<1>6. /\ target' \in MinTec .. Ambient \cup {Holding}
      /\ temperature' \in [value : MinTec .. Ambient, state : {"Idle", "Busy", "Ok"}]
      /\ temperature'.state = "Busy" => target' # Holding
  BY <1>1, <1>2, <1>3 DEF CameraInv, CameraTypeOK
<1>7. cooler' \in [on : BOOLEAN, state : {"Idle", "Busy"}]
  BY <1>3, <1>5 DEF CameraInv, CameraTypeOK
<1> QED
  BY <1>6, <1>7
     DEF SetPoint, Handles, CameraInv, CameraTypeOK, CameraTruthful, OneImageEach, BusyIsWorking, RunningIsLast,
         shutter, settings, sensor

LEMMA CoolerKeeps ==
  ASSUME CameraInv, NEW on \in BOOLEAN, Cooler(on)
  PROVE  CameraInv'
<1>1. [on |-> on, state |-> IF on THEN "Busy" ELSE "Idle"] \in [on : BOOLEAN, state : {"Idle", "Busy"}]
  OBVIOUS
<1>2. Ambient \in MinTec .. Ambient /\ Ambient # Holding
  BY CameraAssumption
<1>3. \/ target' = Ambient /\ temperature' = [temperature EXCEPT !.state = "Busy"]
      \/ target' = target /\ temperature' = temperature
  BY DEF Cooler
<1>4. /\ target' \in MinTec .. Ambient \cup {Holding}
      /\ temperature' \in [value : MinTec .. Ambient, state : {"Idle", "Busy", "Ok"}]
      /\ temperature'.state = "Busy" => target' # Holding
  BY <1>2, <1>3 DEF CameraInv, CameraTypeOK, CameraTruthful, BusyIsWorking
<1>5. cooler' \in [on : BOOLEAN, state : {"Idle", "Busy"}]
  BY <1>1 DEF Cooler
<1> QED
  BY <1>4, <1>5
     DEF Cooler, Handles, SensorTypeOK, CameraInv, CameraTypeOK, CameraTruthful, OneImageEach, BusyIsWorking, RunningIsLast,
         shutter, settings, sensor

LEMMA AdjustsKeep == CameraInv /\ Adjusts => CameraInv'
<1> SUFFICES ASSUME CameraInv, Adjusts PROVE CameraInv'
  OBVIOUS
<1>1. ASSUME NEW value \in Framings, Frame(value) PROVE CameraInv'
  BY <1>1
     DEF Frame, Handles, CameraInv, CameraTypeOK, CameraTruthful, OneImageEach, BusyIsWorking, RunningIsLast,
         shutter, settings, sensor
<1>2. ASSUME NEW value \in Levels, Level(value) PROVE CameraInv'
  BY <1>2
     DEF Level, Handles, CameraInv, CameraTypeOK, CameraTruthful, OneImageEach, BusyIsWorking, RunningIsLast,
         shutter, settings, sensor
<1>3. SetPoints \subseteq Int
  BY CameraAssumption
<1> QED BY <1>1, <1>2, <1>3, SetPointKeeps, CoolerKeeps DEF Adjusts

LEMMA CameraNextKeeps == CameraInv /\ [CameraNext]_camera => CameraInv'
<1> SUFFICES ASSUME CameraInv, [CameraNext]_camera PROVE CameraInv'
  OBVIOUS
<1>1. CASE Tick
  BY <1>1, IdleTickKeeps, CountdownTickKeeps, RenderStepsKeep, RenderEndsKeeps DEF Tick
<1>2. CASE Exposes
  <2>1. Lengths \subseteq Nat
    BY CameraAssumption
  <2> QED BY <1>2, <2>1, ExposeKeeps DEF Exposes
<1>3. CASE Abort \/ Adjusts \/ Connect \/ Disconnect
  BY <1>3, AbortKeeps, AdjustsKeep, ConnectKeeps, DisconnectKeeps
<1>4. CASE UNCHANGED camera
  BY <1>4
     DEF camera, CameraInv, CameraTypeOK, CameraTruthful, OneImageEach, BusyIsWorking, RunningIsLast,
         shutter, settings, sensor
<1> QED BY <1>1, <1>2, <1>3, <1>4 DEF CameraNext, Write

\* One image for each exposure, in their order, none for one that was spoiled; and what is
\* Busy is being worked on.
THEOREM CameraTellsTheTruth == CameraSpec => []CameraTruthful
<1>1. CameraInv => CameraTruthful
  BY DEF CameraInv
<1> QED BY CameraInitHolds, CameraNextKeeps, <1>1, PTL DEF CameraSpec

-----------------------------------------------------------------------------
(* The receiver.                                                           *)

Message == [connected : BOOLEAN, image : Nat]
Taken(i, pictures) == \E n \in DOMAIN pictures : pictures[n] = i

\* What the script may see: no image, or one the camera took, and its own if nobody else
\* exposed.
Entitled(i, pictures, alone, mine) == i = NoImage \/ (Taken(i, pictures) /\ (alone => i = mine))
Accounted(i) == Entitled(i, images, ~shared, own)
AccountedLater(i) == Entitled(i, images', ~shared', own')

ReceiverTypeOK ==
  /\ receiver \in {"absent", "connecting", "waiting", "saved", "gave up"}
  /\ sent \in Seq({"ENABLE", "CONNECT", "EXPOSE"}) /\ stream \in Seq(Message)
  /\ cache \in Message /\ frame \in Nat /\ own \in Nat /\ shared \in BOOLEAN

\* The script asks for one exposure, as the last thing it asks for.
AsksOnce ==
  /\ \A n \in DOMAIN sent : sent[n] = "EXPOSE" => n = Len(sent)
  /\ receiver \in {"absent", "connecting"} => \A n \in DOMAIN sent : sent[n] # "EXPOSE"
  /\ own # NoImage => \A n \in DOMAIN sent : sent[n] # "EXPOSE"
  /\ receiver \in {"absent", "connecting"} => own = NoImage

\* Before the script there is nothing to see, and nothing that is on its way or seen later
\* is unaccounted for; an exposure that runs beside it is its own, or shared says so.
SeenIsAccounted ==
  /\ receiver = "absent" => stream = <<>> /\ frame = NoImage
  /\ Accounted(frame) /\ Accounted(cache.image)
  /\ \A n \in DOMAIN stream : Accounted(stream[n].image)
  /\ receiver # "absent" /\ ~shared /\ exposing => started = own
  /\ receiver = "saved" => frame # NoImage

ReceiverInv == CameraInv /\ ReceiverTypeOK /\ AsksOnce /\ SeenIsAccounted

\* An image more is that of the exposure that ran.
Photographs == images' = images \/ (exposing /\ images' = Append(images, started))

LEMMA PhotographsOnly ==
  ASSUME CameraInv, CameraNext
  PROVE  /\ Photographs /\ (exposing' => exposing \/ started' # started)
         /\ Tick => started' = started
<1>1. CASE IdleTick \/ CountdownTick \/ RenderBegins \/ RenderFails
  BY <1>1 DEF Photographs, IdleTick, CountdownTick, RenderBegins, RenderFails, shutter
<1>2. CASE RenderEnds
  BY <1>2 DEF Photographs, RenderEnds, CameraInv, CameraTruthful, BusyIsWorking
<1>3. CASE Write
  <2>1. images' = images /\ (exposing' => exposing \/ started' # started)
    <3>1. CASE Exposes
      <4>1. started' = started + 1 /\ started \in Nat /\ images' = images
        BY <3>1 DEF Exposes, Expose, CameraInv, CameraTypeOK
      <4> QED BY <4>1
    <3>2. CASE Abort \/ Disconnect
      BY <3>2 DEF Abort, Disconnect, Drop
    <3>3. CASE Adjusts
      BY <3>3 DEF Adjusts, Frame, Level, SetPoint, Cooler, shutter
    <3>4. CASE Connect
      BY <3>4 DEF Connect, shutter
    <3> QED BY <1>3, <3>1, <3>2, <3>3, <3>4 DEF Write
  <2>2. Tick => started' = started
    BY DEF Tick, IdleTick, CountdownTick, RenderBegins, RenderEnds, RenderFails
  <2> QED BY <2>1, <2>2 DEF Photographs
<1>4. Tick => started' = started
  BY DEF Tick, IdleTick, CountdownTick, RenderBegins, RenderEnds, RenderFails
<1> QED BY <1>1, <1>2, <1>3, <1>4 DEF CameraNext, Tick

\* What is accounted for stays so, whatever images there are to come.
LEMMA AccountedStays ==
  ASSUME CameraInv, Photographs, own' = own, shared => shared', NEW i \in Nat, Accounted(i)
  PROVE  AccountedLater(i)
<1>1. images \in Seq(Nat) /\ started \in Nat
  BY DEF CameraInv, CameraTypeOK
<1>2. Taken(i, images) => Taken(i, images')
  <2> SUFFICES ASSUME NEW n \in DOMAIN images, images[n] = i PROVE Taken(i, images')
    BY DEF Taken
  <2>1. n \in DOMAIN images' /\ images'[n] = i
    BY <1>1, SMTT(60) DEF Photographs
  <2> QED BY <2>1 DEF Taken
<1> QED BY <1>2 DEF Accounted, AccountedLater, Entitled, NoImage

\* What the camera publishes is accounted for when it is published.
LEMMA StreamKeeps ==
  ASSUME ReceiverInv, CameraInv', Photographs, Publish, own' = own, shared' \in BOOLEAN, shared => shared'
  PROVE  /\ stream' \in Seq(Message) /\ \A n \in DOMAIN stream' : AccountedLater(stream'[n].image)
         /\ receiver = "absent" => stream' = <<>>
<1>1. /\ stream \in Seq(Message) /\ images \in Seq(Nat) /\ started \in Nat /\ connected' \in BOOLEAN
      /\ CameraInv
  BY DEF ReceiverInv, ReceiverTypeOK, CameraInv, CameraTypeOK
<1>2. ASSUME NEW n \in DOMAIN stream PROVE AccountedLater(stream[n].image)
  <2>1. stream[n].image \in Nat /\ Accounted(stream[n].image)
    <3>1. stream[n] \in Message
      BY <1>1
    <3>2. Accounted(stream[n].image)
      BY DEF ReceiverInv, SeenIsAccounted
    <3> QED BY <3>1, <3>2 DEF Message
  <2> QED BY <1>1, <2>1, AccountedStays
<1>3. CASE stream' = stream
  BY <1>1, <1>2, <1>3 DEF ReceiverInv, SeenIsAccounted
<1>4. CASE stream' = Append(stream, Says) /\ receiver # "absent"
  <2>1. Says \in Message /\ AccountedLater(Says.image)
    <3>1. CASE Says.image = NoImage
      <4>1. Says \in Message
        BY <1>1, <3>1 DEF Says, Message, NoImage
      <4> QED BY <3>1, <4>1 DEF AccountedLater, Entitled
    <3>2. CASE Says.image # NoImage
      <4>1. images' = Append(images, started) /\ exposing /\ Says.image = Last(images')
        BY <3>2 DEF Says, Photographs
      <4>2. /\ Len(images) + 1 \in DOMAIN images' /\ images'[Len(images) + 1] = started
            /\ Len(images') = Len(images) + 1
        BY <1>1, <4>1
      <4>3. Says.image = started
        BY <4>1, <4>2 DEF Last
      <4>4. Taken(started, images')
        BY <4>2 DEF Taken
      <4>5. ~shared' => started = own'
        BY <1>4, <4>1 DEF ReceiverInv, SeenIsAccounted
      <4>6. Taken(Says.image, images') /\ (~shared' => Says.image = own')
        BY <1>1, <4>2, <4>3, <4>5 DEF Taken
      <4>7. Says \in Message
        BY <1>1, <4>3 DEF Says, Message
      <4> QED BY <4>6, <4>7 DEF AccountedLater, Entitled
    <3> QED BY <3>1, <3>2
  <2> DEFINE said == Says
  <2> HIDE DEF said
  <2>2. stream' = Append(stream, said) /\ said \in Message /\ AccountedLater(said.image)
    BY <1>4, <2>1 DEF said
  <2>3. /\ stream' \in Seq(Message) /\ DOMAIN stream' = 1 .. Len(stream) + 1
        /\ \A n \in DOMAIN stream : stream'[n] = stream[n]
        /\ stream'[Len(stream) + 1] = said /\ DOMAIN stream = 1 .. Len(stream)
    BY <1>1, <2>2
  <2>4. ASSUME NEW n \in DOMAIN stream' PROVE AccountedLater(stream'[n].image)
    <3>1. CASE n \in DOMAIN stream
      BY <1>2, <2>3, <3>1
    <3>2. CASE n = Len(stream) + 1
      BY <2>2, <2>3, <3>2
    <3> QED
      <4>1. Len(stream) \in Nat
        BY <1>1
      <4> QED BY <2>3, <2>4, <3>1, <3>2, <4>1
  <2> QED BY <1>4, <2>3, <2>4
<1> QED BY <1>3, <1>4 DEF Publish

LEMMA ReceiverInitHolds == Init => ReceiverInv
<1> SUFFICES ASSUME Init PROVE ReceiverInv
  OBVIOUS
<1>1. CameraInv
  BY CameraInitHolds DEF Init
<1>2. ReceiverTypeOK
  <2>1. Nothing \in Message
    BY DEF Nothing, NoImage, Message
  <2>2. sent \in Seq({"ENABLE", "CONNECT", "EXPOSE"}) /\ stream \in Seq(Message)
    BY DEF Init
  <2> QED BY <2>1, <2>2 DEF Init, ReceiverTypeOK, NoImage
<1>3. Accounted(NoImage)
  BY DEF Accounted, Entitled
<1> QED BY <1>1, <1>2, <1>3 DEF Init, ReceiverInv, AsksOnce, SeenIsAccounted, Nothing

\* Other clients and the ticks of the camera.
LEMMA OthersKeep == ReceiverInv /\ (CameraTicks \/ OthersWrite) => ReceiverInv'
<1> SUFFICES ASSUME ReceiverInv, CameraTicks \/ OthersWrite PROVE ReceiverInv'
  OBVIOUS
<1>1. CameraNext
  BY DEF CameraTicks, OthersWrite, CameraNext
<1>2. /\ CameraInv' /\ Photographs /\ (exposing' => exposing \/ started' # started)
      /\ Tick => started' = started
  BY <1>1, CameraNextKeeps, PhotographsOnly DEF ReceiverInv
<1>3. /\ Publish /\ UNCHANGED <<script, own>> /\ shared' \in BOOLEAN /\ (shared => shared')
      /\ receiver # "absent" /\ started' # started => shared'
  BY <1>2 DEF CameraTicks, OthersWrite, others, ReceiverInv, ReceiverTypeOK
<1>4. /\ stream' \in Seq(Message) /\ \A n \in DOMAIN stream' : AccountedLater(stream'[n].image)
      /\ receiver = "absent" => stream' = <<>>
  BY <1>2, <1>3, StreamKeeps
<1>5. AccountedLater(frame) /\ AccountedLater(cache.image)
  <2>1. frame \in Nat /\ cache.image \in Nat /\ Accounted(frame) /\ Accounted(cache.image)
    BY DEF ReceiverInv, ReceiverTypeOK, SeenIsAccounted, Message
  <2> QED BY <1>2, <1>3, <2>1, AccountedStays DEF ReceiverInv
<1>6. ReceiverTypeOK' /\ AsksOnce'
  BY <1>3, <1>4 DEF ReceiverInv, ReceiverTypeOK, AsksOnce, script
<1>7. receiver' # "absent" /\ ~shared' /\ exposing' => started' = own'
  BY <1>2, <1>3 DEF ReceiverInv, SeenIsAccounted, script
<1>8. SeenIsAccounted'
  BY <1>3, <1>4, <1>5, <1>7
     DEF ReceiverInv, SeenIsAccounted, script, Accounted, AccountedLater
<1> QED BY <1>2, <1>6, <1>8 DEF ReceiverInv

\* What the script sent reaches the hub and the camera.
LEMMA TailAsksOnce ==
  ASSUME ReceiverInv, sent # <<>>, sent' = Tail(sent)
  PROVE  /\ sent' \in Seq({"ENABLE", "CONNECT", "EXPOSE"})
         /\ \A n \in DOMAIN sent' : n + 1 \in DOMAIN sent /\ sent'[n] = sent[n + 1]
         /\ \A n \in DOMAIN sent' : sent'[n] = "EXPOSE" => n = Len(sent')
         /\ Head(sent) = "EXPOSE" => sent' = <<>>
<1>1. sent \in Seq({"ENABLE", "CONNECT", "EXPOSE"}) /\ \A n \in DOMAIN sent : sent[n] = "EXPOSE" => n = Len(sent)
  BY DEF ReceiverInv, ReceiverTypeOK, AsksOnce
<1>2. /\ sent' \in Seq({"ENABLE", "CONNECT", "EXPOSE"}) /\ Len(sent') = Len(sent) - 1
      /\ Len(sent) \in Nat \ {0} /\ DOMAIN sent' = 1 .. Len(sent) - 1 /\ DOMAIN sent = 1 .. Len(sent)
      /\ \A n \in DOMAIN sent' : sent'[n] = sent[n + 1]
  BY <1>1
<1>3. Head(sent) = "EXPOSE" => Len(sent) = 1
  BY <1>1, <1>2
<1>4. Head(sent) = "EXPOSE" => sent' = <<>>
  BY <1>2, <1>3
<1>5. ASSUME NEW n \in DOMAIN sent'
      PROVE  /\ n + 1 \in DOMAIN sent /\ sent'[n] = sent[n + 1]
             /\ sent'[n] = "EXPOSE" => n = Len(sent')
  <2>1. n \in Nat /\ n + 1 \in DOMAIN sent
    BY <1>2
  <2> QED BY <1>1, <1>2, <2>1
<1> QED BY <1>2, <1>4, <1>5

LEMMA EnableArrivesKeeps == ReceiverInv /\ EnableArrives => ReceiverInv'
<1> SUFFICES ASSUME ReceiverInv, EnableArrives PROVE ReceiverInv'
  OBVIOUS
<1>1. /\ sent # <<>> /\ sent' = Tail(sent) /\ UNCHANGED camera
      /\ UNCHANGED <<receiver, cache, frame, stream, own, shared>>
  BY DEF EnableArrives, others
<1>2. CameraInv'
  BY <1>1, CameraNextKeeps DEF ReceiverInv
<1>3. ReceiverTypeOK' /\ AsksOnce'
  BY <1>1, TailAsksOnce DEF ReceiverInv, ReceiverTypeOK, AsksOnce
<1>4. SeenIsAccounted'
  BY <1>1 DEF ReceiverInv, SeenIsAccounted, Accounted, camera, shutter
<1> QED BY <1>2, <1>3, <1>4 DEF ReceiverInv

LEMMA ConnectArrivesKeeps == ReceiverInv /\ ConnectArrives => ReceiverInv'
<1> SUFFICES ASSUME ReceiverInv, ConnectArrives PROVE ReceiverInv'
  OBVIOUS
<1>1. /\ sent # <<>> /\ sent' = Tail(sent) /\ Publish
      /\ UNCHANGED <<receiver, cache, frame, own, shared, exposing, started, images>>
  BY DEF ConnectArrives, Connect, others, shutter
<1>2. CameraInv' /\ Photographs
  BY <1>1, ConnectKeeps DEF ReceiverInv, ConnectArrives, Photographs
<1>3. /\ stream' \in Seq(Message) /\ \A n \in DOMAIN stream' : AccountedLater(stream'[n].image)
      /\ receiver = "absent" => stream' = <<>>
  BY <1>1, <1>2, StreamKeeps DEF ReceiverInv, ReceiverTypeOK
<1>4. ReceiverTypeOK' /\ AsksOnce'
  BY <1>1, <1>3, TailAsksOnce DEF ReceiverInv, ReceiverTypeOK, AsksOnce
<1>5. SeenIsAccounted'
  BY <1>1, <1>3 DEF ReceiverInv, SeenIsAccounted, Accounted, AccountedLater
<1> QED BY <1>2, <1>4, <1>5 DEF ReceiverInv

\* The script's own exposure: nothing it could see by then is anybody's, or shared says so.
LEMMA ExposeArrivesKeeps == ReceiverInv /\ ExposeArrives => ReceiverInv'
<1> SUFFICES ASSUME ReceiverInv, ExposeArrives PROVE ReceiverInv'
  OBVIOUS
<1>1. /\ sent # <<>> /\ sent' = Tail(sent) /\ Head(sent) = "EXPOSE" /\ Publish
      /\ UNCHANGED <<receiver, cache, frame, shared>>
  BY DEF ExposeArrives, others
<1>2. CASE ~connected /\ UNCHANGED <<camera, own>>
  <2>1. stream' = stream
    BY <1>1, <1>2 DEF Publish, Says, camera, NoImage
  <2>2. CameraInv'
    BY <1>2, CameraNextKeeps DEF ReceiverInv
  <2>3. ReceiverTypeOK' /\ AsksOnce'
    BY <1>1, <1>2, <2>1, TailAsksOnce DEF ReceiverInv, ReceiverTypeOK, AsksOnce
  <2>4. SeenIsAccounted'
    BY <1>1, <1>2, <2>1 DEF ReceiverInv, SeenIsAccounted, Accounted, camera, shutter
  <2> QED BY <2>2, <2>3, <2>4 DEF ReceiverInv
<1>3. CASE Expose(Length) /\ own' = started'
  <2>1. images' = images /\ connected' = connected /\ started' = started + 1 /\ started \in Nat
    BY <1>3 DEF Expose, ReceiverInv, CameraInv, CameraTypeOK
  <2>2. stream' = stream
    BY <1>1, <2>1 DEF Publish, Says, NoImage
  <2>3. CameraInv'
    BY <1>3, ExposeKeeps, ReceiverAssumption DEF ReceiverInv
  <2>4. 1 \in DOMAIN sent /\ sent[1] = "EXPOSE"
    <3>1. sent \in Seq({"ENABLE", "CONNECT", "EXPOSE"})
      BY DEF ReceiverInv, ReceiverTypeOK
    <3>2. Len(sent) \in Nat \ {0} /\ DOMAIN sent = 1 .. Len(sent) /\ Head(sent) = sent[1]
      BY <1>1, <3>1
    <3> QED BY <1>1, <3>2
  <2>5. own = NoImage /\ receiver \notin {"absent", "connecting"}
    BY <2>4 DEF ReceiverInv, AsksOnce
  <2>6. sent' = <<>>
    BY <1>1, TailAsksOnce
  <2>7. ReceiverTypeOK' /\ AsksOnce'
    <3>1. own' \in Nat /\ sent' \in Seq({"ENABLE", "CONNECT", "EXPOSE"})
      BY <1>1, <1>3, <2>1, TailAsksOnce
    <3>2. ReceiverTypeOK'
      BY <1>1, <2>2, <3>1 DEF ReceiverInv, ReceiverTypeOK
    <3>3. DOMAIN sent' = {}
      BY <2>6
    <3>4. AsksOnce'
      BY <1>1, <2>5, <3>3 DEF AsksOnce
    <3> QED BY <3>2, <3>4
  <2>8. \A i \in Nat : Accounted(i) => AccountedLater(i)
    BY <1>1, <2>1, <2>5 DEF Accounted, AccountedLater, Entitled
  <2>9. Accounted(frame)' /\ Accounted(cache.image)' /\ \A n \in DOMAIN stream' : AccountedLater(stream'[n].image)
    <3>1. /\ frame \in Nat /\ cache.image \in Nat /\ \A n \in DOMAIN stream : stream[n] \in Message
          /\ \A n \in DOMAIN stream : stream[n].image \in Nat
      <4>1. frame \in Nat /\ cache \in Message /\ stream \in Seq(Message)
        BY DEF ReceiverInv, ReceiverTypeOK
      <4>2. \A n \in DOMAIN stream : stream[n] \in Message
        BY <4>1
      <4> QED BY <4>1, <4>2 DEF Message
    <3>2. AccountedLater(frame) /\ AccountedLater(cache.image)
      BY <2>8, <3>1 DEF ReceiverInv, SeenIsAccounted
    <3>3. \A n \in DOMAIN stream : AccountedLater(stream[n].image)
      BY <2>8, <3>1 DEF ReceiverInv, SeenIsAccounted
    <3> QED BY <1>1, <2>2, <3>2, <3>3 DEF Accounted, AccountedLater
  <2>10. SeenIsAccounted'
    BY <1>1, <1>3, <2>2, <2>5, <2>9 DEF ReceiverInv, SeenIsAccounted, Accounted, AccountedLater
  <2> QED BY <2>3, <2>7, <2>10 DEF ReceiverInv
<1> QED BY <1>2, <1>3 DEF ExposeArrives

\* What the script looks at is accounted for, so is what it saves.
LEMMA AwaitsKeeps ==
  ASSUME ReceiverTypeOK, NEW seen \in Message, Accounted(seen.image), Accounted(frame), Awaits(seen)
  PROVE  /\ receiver' \in {"waiting", "saved"} /\ frame' \in Nat /\ Accounted(frame')
         /\ receiver' = "saved" => frame' # NoImage
<1>1. CASE CarriesPayload(seen)
  BY <1>1 DEF Awaits, SaveFrame, CarriesPayload, Message
<1>2. CASE ~CarriesPayload(seen)
  BY <1>2 DEF Awaits, ReceiverTypeOK
<1> QED BY <1>1, <1>2

LEMMA BeginsKeeps == ReceiverInv /\ Begins => ReceiverInv'
<1> SUFFICES ASSUME ReceiverInv, Begins PROVE ReceiverInv'
  OBVIOUS
<1>1. /\ receiver = "absent" /\ receiver' = "connecting" /\ sent' = <<"ENABLE", "CONNECT">>
      /\ cache' = [Nothing EXCEPT !.connected = connected] /\ shared' = exposing
      /\ UNCHANGED <<camera, frame, stream, own>>
  BY DEF Begins
<1>2. stream = <<>> /\ frame = NoImage /\ own = NoImage /\ connected \in BOOLEAN /\ exposing \in BOOLEAN
  BY <1>1 DEF ReceiverInv, SeenIsAccounted, AsksOnce, CameraInv, CameraTypeOK
<1>3. CameraInv'
  BY <1>1, CameraNextKeeps DEF ReceiverInv
<1>4. cache' \in Message /\ cache'.image = NoImage
  BY <1>1, <1>2 DEF Nothing, Message, NoImage
<1>5. /\ sent' \in Seq({"ENABLE", "CONNECT", "EXPOSE"}) /\ DOMAIN sent' = 1 .. 2
      /\ sent'[1] = "ENABLE" /\ sent'[2] = "CONNECT"
  BY <1>1
<1>6. ReceiverTypeOK'
  BY <1>1, <1>2, <1>4, <1>5 DEF ReceiverInv, ReceiverTypeOK
<1>7. \A n \in DOMAIN sent' : sent'[n] # "EXPOSE"
  <2> SUFFICES ASSUME NEW n \in DOMAIN sent' PROVE sent'[n] # "EXPOSE"
    OBVIOUS
  <2>1. n = 1 \/ n = 2
    BY <1>5
  <2> QED BY <1>5, <2>1
<1>8. AsksOnce'
  BY <1>1, <1>2, <1>7 DEF AsksOnce
<1>9. SeenIsAccounted'
  <2>1. DOMAIN stream' = {} /\ frame' = NoImage /\ exposing' = exposing
    BY <1>1, <1>2 DEF camera, shutter
  <2> QED BY <1>1, <1>4, <2>1 DEF SeenIsAccounted, Accounted, Entitled
<1> QED BY <1>3, <1>6, <1>8, <1>9 DEF ReceiverInv

LEMMA ConnectedKeeps == ReceiverInv /\ Connected => ReceiverInv'
<1> SUFFICES ASSUME ReceiverInv, Connected PROVE ReceiverInv'
  OBVIOUS
<1>1. /\ receiver = "connecting" /\ sent' = Append(sent, "EXPOSE") /\ Awaits(cache)
      /\ UNCHANGED <<camera, cache, stream, own, shared>>
  BY DEF Connected, others
<1>2. CameraInv'
  BY <1>1, CameraNextKeeps DEF ReceiverInv
<1>3. cache \in Message /\ Accounted(cache.image) /\ Accounted(frame) /\ ReceiverTypeOK
  BY DEF ReceiverInv, ReceiverTypeOK, SeenIsAccounted
<1>4. /\ receiver' \in {"waiting", "saved"} /\ frame' \in Nat /\ Accounted(frame')
      /\ receiver' = "saved" => frame' # NoImage
  BY <1>1, <1>3, AwaitsKeeps
<1>5. /\ sent \in Seq({"ENABLE", "CONNECT", "EXPOSE"}) /\ own = NoImage
      /\ \A n \in DOMAIN sent : sent[n] # "EXPOSE"
  BY <1>1 DEF ReceiverInv, ReceiverTypeOK, AsksOnce
<1>6. /\ sent' \in Seq({"ENABLE", "CONNECT", "EXPOSE"}) /\ Len(sent') = Len(sent) + 1
      /\ DOMAIN sent' = 1 .. Len(sent) + 1 /\ DOMAIN sent = 1 .. Len(sent) /\ Len(sent) \in Nat
      /\ \A n \in DOMAIN sent : sent'[n] = sent[n]
  BY <1>1, <1>5
<1>7. ReceiverTypeOK'
  BY <1>1, <1>4, <1>6 DEF ReceiverInv, ReceiverTypeOK
<1>8. \A n \in DOMAIN sent' : sent'[n] = "EXPOSE" => n = Len(sent')
  BY <1>5, <1>6
<1>9. AsksOnce'
  BY <1>1, <1>4, <1>5, <1>8 DEF AsksOnce
<1>10. UNCHANGED <<images, exposing, started>>
  BY <1>1 DEF camera, shutter
<1>11. Accounted(frame)' /\ Accounted(cache.image)' /\ \A n \in DOMAIN stream' : Accounted(stream[n].image)'
  BY <1>1, <1>3, <1>4, <1>10 DEF ReceiverInv, SeenIsAccounted, Accounted
<1>12. SeenIsAccounted'
  BY <1>1, <1>4, <1>10, <1>11 DEF ReceiverInv, SeenIsAccounted
<1> QED BY <1>2, <1>7, <1>9, <1>12 DEF ReceiverInv

LEMMA EventKeeps == ReceiverInv /\ Event => ReceiverInv'
<1> SUFFICES ASSUME ReceiverInv, Event PROVE ReceiverInv'
  OBVIOUS
<1> DEFINE says == Head(stream)
<1>1. /\ stream # <<>> /\ stream' = Tail(stream)
      /\ cache' = [connected |-> says.connected,
                   image |-> IF says.image = NoImage THEN cache.image ELSE says.image]
      /\ (receiver = "waiting" /\ Awaits(cache')) \/ (receiver # "waiting" /\ UNCHANGED <<receiver, frame>>)
      /\ UNCHANGED <<camera, sent, own, shared>>
  BY DEF Event, others
<1>2. CameraInv' /\ UNCHANGED <<images, exposing, started>>
  BY <1>1, CameraNextKeeps DEF ReceiverInv, camera, shutter
<1>3. /\ stream \in Seq(Message) /\ ReceiverTypeOK /\ Accounted(frame) /\ Accounted(cache.image)
      /\ cache \in Message /\ receiver # "absent"
      /\ \A n \in DOMAIN stream : Accounted(stream[n].image)
  BY <1>1 DEF ReceiverInv, ReceiverTypeOK, SeenIsAccounted
<1>4. /\ stream' \in Seq(Message) /\ 1 \in DOMAIN stream /\ says = stream[1] /\ says \in Message
      /\ \A n \in DOMAIN stream' : n + 1 \in DOMAIN stream /\ stream'[n] = stream[n + 1]
  BY <1>1, <1>3
<1> HIDE DEF says
<1>5. cache' \in Message /\ Accounted(cache'.image)
  <2>1. Accounted(says.image)
    BY <1>3, <1>4
  <2>2. says.connected \in BOOLEAN /\ says.image \in Nat /\ cache.image \in Nat
    BY <1>3, <1>4 DEF Message
  <2>3. cache' \in Message
    BY <1>1, <2>2 DEF Message
  <2>4. cache'.image = cache.image \/ cache'.image = says.image
    BY <1>1
  <2> QED BY <1>3, <2>1, <2>3, <2>4
<1>6. /\ receiver' = receiver \/ (receiver = "waiting" /\ receiver' \in {"waiting", "saved"})
      /\ frame' \in Nat /\ Accounted(frame') /\ (receiver' = "saved" => frame' # NoImage)
  <2>1. CASE receiver = "waiting" /\ Awaits(cache')
    BY <1>3, <1>5, <2>1, AwaitsKeeps
  <2>2. CASE receiver # "waiting" /\ UNCHANGED <<receiver, frame>>
    BY <1>3, <2>2 DEF ReceiverInv, ReceiverTypeOK, SeenIsAccounted
  <2> QED BY <1>1, <2>1, <2>2
<1>7. ReceiverTypeOK'
  BY <1>1, <1>3, <1>4, <1>5, <1>6 DEF ReceiverTypeOK
<1>8. AsksOnce'
  BY <1>1, <1>6 DEF ReceiverInv, AsksOnce
<1>9. \A n \in DOMAIN stream' : Accounted(stream'[n].image)
  BY <1>3, <1>4
<1>10. SeenIsAccounted'
  <2>1. Accounted(frame)' /\ Accounted(cache.image)' /\ \A n \in DOMAIN stream' : Accounted(stream[n].image)'
    BY <1>1, <1>2, <1>5, <1>6, <1>9 DEF Accounted
  <2>2. receiver' # "absent"
    BY <1>3, <1>6
  <2>3. ~shared' /\ exposing' => started' = own'
    BY <1>1, <1>2, <1>3 DEF ReceiverInv, SeenIsAccounted
  <2> QED BY <1>6, <2>1, <2>2, <2>3 DEF SeenIsAccounted
<1> QED BY <1>2, <1>7, <1>8, <1>10 DEF ReceiverInv

LEMMA TimesOutKeeps == ReceiverInv /\ TimesOut => ReceiverInv'
<1> SUFFICES ASSUME ReceiverInv, TimesOut PROVE ReceiverInv'
  OBVIOUS
<1>1. /\ receiver \in {"connecting", "waiting"} /\ receiver' = "gave up"
      /\ UNCHANGED <<camera, sent, cache, frame, stream, own, shared>>
  BY DEF TimesOut, others
<1>2. CameraInv'
  BY <1>1, CameraNextKeeps DEF ReceiverInv
<1>3. ReceiverTypeOK' /\ AsksOnce'
  BY <1>1 DEF ReceiverInv, ReceiverTypeOK, AsksOnce
<1>4. SeenIsAccounted'
  BY <1>1 DEF ReceiverInv, SeenIsAccounted, Accounted, camera, shutter
<1> QED BY <1>2, <1>3, <1>4 DEF ReceiverInv

LEMMA ReceiverNextKeeps == ReceiverInv /\ [Next]_vars => ReceiverInv'
<1>1. ASSUME ReceiverInv, UNCHANGED vars PROVE ReceiverInv'
  <2>1. CameraInv'
    BY <1>1, CameraNextKeeps DEF ReceiverInv, vars
  <2>2. ReceiverTypeOK' /\ AsksOnce'
    BY <1>1 DEF ReceiverInv, ReceiverTypeOK, AsksOnce, vars, script, others
  <2>3. SeenIsAccounted'
    BY <1>1 DEF ReceiverInv, SeenIsAccounted, Accounted, vars, script, others, camera, shutter
  <2> QED BY <2>1, <2>2, <2>3 DEF ReceiverInv
<1> QED
  BY <1>1, OthersKeep, EnableArrivesKeeps, ConnectArrivesKeeps, ExposeArrivesKeeps, BeginsKeeps,
     ConnectedKeeps, EventKeeps, TimesOutKeeps
     DEF Next, Handled, Script

\* What the script saves is an image of an exposure that was not spoiled, and its own if
\* nobody else exposed meanwhile.
THEOREM ReceiverSavesItsOwn == Spec => []FrameIsItsOwn
<1>1. ReceiverInv => FrameIsItsOwn
  <2> SUFFICES ASSUME ReceiverInv, receiver = "saved"
               PROVE  frame # NoImage /\ frame \notin spoiled /\ (~shared => frame = own)
    BY DEF FrameIsItsOwn
  <2>1. frame # NoImage /\ Taken(frame, images) /\ (~shared => frame = own)
    BY DEF ReceiverInv, SeenIsAccounted, Accounted, Entitled
  <2>2. PICK n \in DOMAIN images : images[n] = frame
    BY <2>1 DEF Taken
  <2>3. images[n] \notin spoiled
    BY DEF ReceiverInv, CameraInv, CameraTruthful, OneImageEach
  <2> QED BY <2>1, <2>2, <2>3
<1> QED BY ReceiverInitHolds, ReceiverNextKeeps, <1>1, PTL DEF Spec

=============================================================================
