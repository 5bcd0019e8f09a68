--------------------------- MODULE CameraReceiver ----------------------------
(***************************************************************************)
(* A script that takes one picture (src/examples/blob_receiver.py): the    *)
(* camera, a hub that forwards images only to who asked for them, and the  *)
(* script's client, whose cache is its own and empty at first.  Both ways  *)
(* are FIFO.  Other clients use the camera too.                            *)
(***************************************************************************)
EXTENDS Camera

CONSTANTS
  Length,   \* what the script asks for
  MaxLag,   \* bound: frames on their way to the script
  MaxWrites \* bound: the writes of other clients

ASSUME ReceiverAssumption == Length \in Nat /\ MaxLag \in Nat \ {0} /\ MaxWrites \in Nat

VARIABLES
  receiver, \* where the script is
  blobs,    \* does the hub forward the camera's images?
  sent,     \* the script's messages on their way to hub and camera
  stream,   \* the camera's messages on their way to the script
  cache,    \* the script's cache: CONNECTION, and the image CCD1 carries, if any
  frame,    \* the image that was saved
  (* history *)
  own,      \* the exposure the script's write started
  writes,   \* the writes of other clients so far
  shared    \* did another client expose since the script began?

script == <<receiver, sent, cache, frame>>
others == <<writes, shared>>
vars == <<camera, script, blobs, stream, own, others>>

NoImage == 0
Nothing == [connected |-> FALSE, image |-> NoImage]

Init ==
  /\ CameraInit
  /\ receiver = "absent" /\ blobs = FALSE /\ sent = <<>> /\ stream = <<>>
  /\ cache = Nothing /\ frame = NoImage
  /\ own = NoImage /\ writes = 0 /\ shared = FALSE

\* The camera publishes an image, or a transition of its link.
Says ==
  [connected |-> connected',
   image |-> IF images' # images /\ blobs THEN Last(images') ELSE NoImage]
Publish ==
  stream' =
    IF receiver = "absent" \/ (connected' = connected /\ Says.image = NoImage)
    THEN stream ELSE Append(stream, Says)
Room == Len(stream) < MaxLag

CameraTicks == Room /\ Tick /\ Publish /\ UNCHANGED <<script, blobs, own, others>>
OthersWrite ==
  /\ Room /\ Write /\ Publish
  /\ writes < MaxWrites /\ writes' = writes + 1
  /\ shared' = (shared \/ (receiver # "absent" /\ started' # started))
  /\ UNCHANGED <<script, blobs, own>>

\* Mutant: the hub has not been asked for images.
EnableLost ==
  /\ sent # <<>> /\ Head(sent) = "ENABLE"
  /\ sent' = Tail(sent)
  /\ UNCHANGED <<camera, receiver, cache, frame, blobs, stream, own, others>>
\* The hub takes enableBLOB.
EnableArrives ==
  /\ sent # <<>> /\ Head(sent) = "ENABLE"
  /\ blobs' = TRUE
  /\ sent' = Tail(sent)
  /\ UNCHANGED <<camera, receiver, cache, frame, stream, own, others>>
ConnectArrives ==
  /\ Room /\ sent # <<>> /\ Head(sent) = "CONNECT"
  /\ Connect /\ Publish
  /\ sent' = Tail(sent)
  /\ UNCHANGED <<receiver, cache, frame, blobs, own, others>>
\* The camera refuses an exposure while it is not connected.
ExposeArrives ==
  /\ Room /\ sent # <<>> /\ Head(sent) = "EXPOSE" /\ ~rendering
  /\ \/ Expose(Length) /\ own' = started'
     \/ ~connected /\ UNCHANGED <<camera, own>>
  /\ Publish
  /\ sent' = Tail(sent)
  /\ UNCHANGED <<receiver, cache, frame, blobs, others>>

-----------------------------------------------------------------------------
(* blob_receiver.receive                                                   *)

\* Mutant: any CCD1 will do.
IsThere(seen) == TRUE
\* _carries_payload
CarriesPayload(seen) == seen.image # NoImage

\* save_frame
SaveFrame(seen) == receiver' = "saved" /\ frame' = seen.image

\* wait_for looks at the cache at once, and then at every event.
Awaits(seen) ==
  IF CarriesPayload(seen) THEN SaveFrame(seen)
  ELSE receiver' = "waiting" /\ UNCHANGED frame

\* The script's client asks for the properties, and CCD1 and CONNECTION are announced.
Begins ==
  /\ receiver = "absent"
  /\ receiver' = "connecting" /\ sent' = <<"ENABLE", "CONNECT">>
  /\ cache' = [Nothing EXCEPT !.connected = connected]
  /\ shared' = exposing
  /\ UNCHANGED <<camera, frame, blobs, stream, own, writes>>

\* The wait for CONNECTION is over: the script asks for its exposure.
Connected ==
  /\ receiver = "connecting" /\ cache.connected
  /\ sent' = Append(sent, "EXPOSE")
  /\ Awaits(cache)
  /\ UNCHANGED <<camera, cache, blobs, stream, own, others>>

\* A message reaches the script.
Event ==
  /\ stream # <<>> /\ stream' = Tail(stream)
  /\ LET says == Head(stream)
     IN  cache' = [connected |-> says.connected,
                   image |-> IF says.image = NoImage THEN cache.image ELSE says.image]
  /\ IF receiver = "waiting" THEN Awaits(cache') ELSE UNCHANGED <<receiver, frame>>
  /\ UNCHANGED <<camera, sent, blobs, own, others>>

\* A wait's timeout elapses.
TimesOut ==
  /\ receiver \in {"connecting", "waiting"}
  /\ receiver' = "gave up"
  /\ UNCHANGED <<camera, sent, cache, frame, blobs, stream, own, others>>

Handled == EnableArrives \/ ConnectArrives \/ ExposeArrives
Script == Connected \/ Event

Next == Begins \/ CameraTicks \/ OthersWrite \/ Handled \/ Script \/ TimesOut
Spec == Init /\ [][Next]_vars

\* The event loops of both ends run what is ready, and the thread that renders ends; nothing
\* says that others ever write, or that a timeout is short.
FairSpec == Spec /\ WF_vars(CameraTicks) /\ WF_vars(Handled) /\ WF_vars(Script)

-----------------------------------------------------------------------------
\* What the script saves is an image; its own, if nobody else exposed while it ran or just
\* before; and never that of an exposure that was aborted or replaced.
FrameIsItsOwn ==
  receiver = "saved" =>
    /\ frame # NoImage /\ frame \notin spoiled
    /\ ~shared => frame = own

\* The image of the script's exposure reaches it, unless the exposure is spoiled, no frame
\* can be rendered or the script gives up: it asked the hub for images before anything
\* could produce one.  ("Ask for BLOBs before anything can produce one.")
ReceiverIsServed ==
  own # NoImage ~>
    receiver \in {"saved", "gave up"} \/ own \in spoiled \/ ~CanRender

=============================================================================
