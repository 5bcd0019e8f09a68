------------------------------- MODULE Bridge -------------------------------
(***************************************************************************)
(* The web bridge of indikit (src/src/indikit/web/bridge.py), together     *)
(* with what it is wired to:                                               *)
(*                                                                         *)
(*   upstream  the IndiClient's single connection task, which folds every  *)
(*             inbound message into the PropertyStore and then calls the   *)
(*             bridge's three callbacks (client/client.py, client/store.py)*)
(*   bridge    one Subscription per attached browser, each with a bounded, *)
(*             coalescing queue and a pump task of its own                 *)
(*   route     the WebSocket route that attaches a browser and closes it   *)
(*             (web/app.py)                                                *)
(*   browser   the cache the TypeScript client builds from the frames it   *)
(*             is sent (web/packages/client/src/store.ts, client.ts)       *)
(*                                                                         *)
(* Everything on the server runs on one asyncio loop, so an action is the  *)
(* code between two awaits.                                                *)
(*                                                                         *)
(* Abstractions.  A vector's elements, state, timestamp and message are    *)
(* all "fields" that a set may or may not carry; the value of a field is   *)
(* the number of the event that last wrote it, so that an older value can  *)
(* be told from a newer one.  Frames are records, not JSON text; the order *)
(* of the seeded vectors and the error lines in a page's log are left out. *)
(* Frames the upstream client accepts from a browser leave no trace here.  *)
(***************************************************************************)
EXTENDS Integers, Sequences, FiniteSets

CONSTANTS
  Devices,          \* device names
  Names,            \* property names
  None,             \* Python's None
  Fields,           \* the fields of a vector that a set may carry
  Blobs,            \* the keys whose vector is a BLOBVector
  Subs,             \* browsers
  Prompt,           \* the browsers whose socket eventually takes every frame
  MaxBacklog,       \* Bridge(max_backlog=...)
  HistoryLen,       \* Bridge(message_history=...)
  SlowSubscribers,  \* is an async subscriber registered ahead of the bridge?
  MaxEvents,        \* bound: upstream events and refused frames in one behaviour
  MaxAttaches       \* bound: sockets one browser opens in one behaviour

Key == Devices \X Names

ASSUME BridgeAssumption ==
  /\ None \notin Names /\ None \notin Key /\ None \notin Nat
  /\ None \notin [Fields -> Nat]
  /\ Blobs \subseteq Key
  /\ IsFiniteSet(Subs) /\ Prompt \subseteq Subs
  /\ MaxBacklog \in Nat
  /\ HistoryLen \in Nat
  /\ SlowSubscribers \in BOOLEAN
  /\ MaxEvents \in Nat
  /\ MaxAttaches \in Nat

-----------------------------------------------------------------------------
(* Frames.  A frame is what one text frame on the socket says.             *)

Value == [Fields -> Nat]

VectorFrame(tag, k, v) == [tag |-> tag, key |-> k, val |-> v]
DelFrame(d, n) == [tag |-> "del", dev |-> d, name |-> n]
MessageFrame(i) == [tag |-> "message", id |-> i]
ConnectionFrame(up) == [tag |-> "connection", up |-> up]
HelloFrame == [tag |-> "hello"]
ErrorFrame == [tag |-> "error"]
NoFrame == [tag |-> "none"]

\* A delProperty without a name takes every property of the device.
DelKeys(d, n) == IF n = None THEN {d} \X Names ELSE {<<d, n>>}

Frame ==
  [tag : {"def", "set"}, key : Key, val : Value]
    \cup [tag : {"del"}, dev : Devices, name : Names \cup {None}]
    \cup [tag : {"message"}, id : Nat]
    \cup [tag : {"connection"}, up : BOOLEAN]
    \cup {HelloFrame, ErrorFrame}

\* A queued frame, and the key a later set may replace it under.
Slot == [frame : Frame, key : Key \cup {None}]

-----------------------------------------------------------------------------
VARIABLES
  (* upstream: the client and its PropertyStore *)
  objects,      \* every vector object ever cached; a set mutates one in place
  cache,        \* the store: key -> index into objects
  devices,      \* the devices the store lists, with or without properties
  connected,    \* IndiClient._connected
  pending,      \* the event applied to the store but not yet handed to the bridge
  clock,        \* upstream events and refused frames so far
  (* bridge *)
  phase,        \* "serving", "stopping" (in Bridge.aclose), "closed"
  subs,         \* Bridge._subs
  sub,          \* each browser's Subscription
  messages,     \* Bridge._messages: the ids of the retained messages
  logged,       \* messages received so far
  dropped_slow_sinks,
  coalesced_blobs,
  (* route and browser *)
  route,        \* the WebSocket route of each browser
  code,         \* the close code it ended with
  attaches,     \* sockets each browser has opened
  view,         \* what each browser shows
  (* history *)
  turned_away,  \* the sockets closed with 1013 so far
  exposures     \* BLOB frames broadcast to browsers, less those their pumps took

upstream == <<objects, cache, devices, connected, pending, clock>>
bridge == <<phase, messages, logged, dropped_slow_sinks, coalesced_blobs>>
closes == <<code, turned_away>>
browser == <<route, closes, attaches, view>>
vars == <<upstream, bridge, subs, sub, browser, exposures>>

\* The events the client hands to the bridge's callbacks.
NoEvent == [type |-> "none"]
PropertyEvent(type, d, n) == [type |-> type, dev |-> d, name |-> n]
ConnectionEvent(up) == [type |-> "connection", up |-> up]
Event ==
  [type : {"def", "set"}, dev : Devices, name : Names]
    \cup [type : {"del"}, dev : Devices, name : Names \cup {None}]
    \cup [type : {"connection"}, up : BOOLEAN]

-----------------------------------------------------------------------------
(* Dictionaries keyed by (device, name): None stands for an absent key.    *)

Empty == [k \in Key |-> None]
Held(dict) == {k \in Key : dict[k] # None}
Without(dict, keys) == [k \in Key |-> IF k \in keys THEN None ELSE dict[k]]

-----------------------------------------------------------------------------
(* Subscription.  The pump is "none" before the first attach, "created"    *)
(* until its task first runs, "sending" while it awaits the sink with the  *)
(* frame in flight, "waiting" while it awaits ready, "done" once its task  *)
(* has ended.  cancelled: its task.cancel() has not been delivered yet.    *)
(* coalescible gives the position of a slot in the queue; 0 would be a     *)
(* slot that has already left it.                                          *)

NotAttached ==
  [preamble |-> <<>>, seed_vectors |-> {}, seed_frames |-> <<>>,
   queue |-> <<>>, coalescible |-> Empty, ready |-> FALSE,
   closed |-> TRUE, dropped_for_backlog |-> FALSE,
   inflight |-> NoFrame, pump |-> "none", cancelled |-> FALSE]

\* Subscription.enqueue
Overwrite(queue, n, f) ==
  [i \in DOMAIN queue |-> IF i = n THEN [queue[i] EXCEPT !.frame = f] ELSE queue[i]]
Replace(u, f, k) == [u EXCEPT !.queue = Overwrite(@, u.coalescible[k], f)]
\* Mutant: the pump is not woken.
JoinWithoutWaking(u, f, k) ==
  [u EXCEPT !.queue = Append(@, [frame |-> f, key |-> k]),
            !.coalescible = IF k = None THEN @ ELSE [@ EXCEPT ![k] = Len(u.queue) + 1]]
Join(u, f, k) ==
  [u EXCEPT !.queue = Append(@, [frame |-> f, key |-> k]),
            !.coalescible = IF k = None THEN @ ELSE [@ EXCEPT ![k] = Len(u.queue) + 1],
            !.ready = TRUE]
\* Mutant: every set joins the queue.
EnqueueWithoutCoalescing(u, f, k) == Join(u, f, k)
Enqueue(u, f, k) ==
  IF k \in Held(u.coalescible) THEN Replace(u, f, k) ELSE Join(u, f, k)

\* Mutant: only the property of the frame's own name, never the device's.
InvalidateOne(u, keys) ==
  [u EXCEPT !.coalescible = IF Cardinality(keys) = 1 THEN Without(@, keys) ELSE @]
\* Subscription.invalidate
Invalidate(u, keys) == [u EXCEPT !.coalescible = Without(@, keys)]

\* Mutant: the popped slot stays replaceable.
PopStillReplaceable(u) ==
  LET Shift(n) == IF n \in {None, 0} THEN n ELSE n - 1
  IN  [u EXCEPT !.queue = Tail(@),
                !.coalescible = [k \in Key |-> Shift(@[k])]]
\* Subscription.pop: the popped slot may no longer be replaced.
Pop(u) ==
  LET popped == {k \in Key : k = Head(u.queue).key /\ u.coalescible[k] = 1}
      Shift(n) == IF n \in {None, 0} THEN n ELSE n - 1
  IN  [u EXCEPT !.queue = Tail(@),
                !.coalescible = [k \in Key |-> Shift(Without(@, popped)[k])]]

\* Task.cancel(): nothing to do for a task that has ended.
Cancel(u) == [u EXCEPT !.cancelled = u.pump \in {"created", "sending", "waiting"}]

\* Bridge._deliver and Bridge._drop, for one subscription
Overflows(u, f, k) == ~u.closed /\ Len(Enqueue(u, f, k).queue) > MaxBacklog
Drop(u) == Cancel([u EXCEPT !.closed = TRUE, !.dropped_for_backlog = TRUE])
Deliver(u, f, k) ==
  IF u.closed THEN u
  ELSE IF Overflows(u, f, k) THEN Drop(Enqueue(u, f, k)) ELSE Enqueue(u, f, k)

\* The exposures waiting in a queue.
IsExposure(f) == f.tag = "set" /\ f.key \in Blobs
QueuedExposures(u) ==
  Cardinality({i \in DOMAIN u.queue : IsExposure(u.queue[i].frame)})

\* Mutant: the first exposure in a queue is counted too.
FoldsAlways(u, f, k) == IsExposure(f)
\* Does delivering f fold it into a queued exposure?
Folds(u, f, k) == IsExposure(f) /\ k \in Held(u.coalescible)

-----------------------------------------------------------------------------
(* Bridge: what it does to all subscriptions at once.                      *)

\* Bridge._broadcast: gone are the keys whose queued set may no longer be
\* replaced, k the key this frame may be folded under.
Broadcast(f, k, gone) ==
  LET ready == [s \in Subs |-> Invalidate(sub[s], gone)]
      late == {s \in subs : Overflows(ready[s], f, k)}
      folded == {s \in subs : Folds(ready[s], f, k)}
  IN  /\ sub' = [s \in Subs |->
                  IF s \in subs THEN Deliver(ready[s], f, k) ELSE sub[s]]
      /\ subs' = subs \ late
      /\ dropped_slow_sinks' = dropped_slow_sinks + Cardinality(late)
      /\ coalesced_blobs' = coalesced_blobs + Cardinality(folded)
      /\ exposures' = exposures + IF IsExposure(f) THEN Cardinality(subs) ELSE 0

\* Bridge._on_event and Bridge._on_connection, reading the store they are
\* called with: the vector of a def or set event is the cached object.
OnCallback(event, objs, props) ==
  LET k == <<event.dev, event.name>>
      val == objs[props[k]].val
  IN  CASE event.type = "set" -> Broadcast(VectorFrame("set", k, val), k, {})
        [] event.type = "def" -> Broadcast(VectorFrame("def", k, val), None, {k})
        [] event.type = "del" ->
             Broadcast(DelFrame(event.dev, event.name), None,
                       DelKeys(event.dev, event.name))
        [] event.type = "connection" ->
             Broadcast(ConnectionFrame(event.up), None, {})

-----------------------------------------------------------------------------
(* Upstream.  IndiClient._handle folds a message into the store and awaits *)
(* the subscribers in turn.  The bridge's own callbacks never suspend, so  *)
(* fold and broadcast are one step unless an async subscriber registered   *)
(* ahead of the bridge suspends in between: then pending holds the event.  *)

Listening == connected /\ pending = NoEvent /\ phase # "closed" /\ clock < MaxEvents
Tick == clock' = clock + 1

Dispatch(event, objs, props) ==
  IF SlowSubscribers
    THEN pending' = event
         /\ UNCHANGED <<sub, subs, dropped_slow_sinks, coalesced_blobs, exposures>>
    ELSE OnCallback(event, objs, props) /\ UNCHANGED pending

\* PropertyStore.apply, a def: the new vector replaces the cached object.
ReceiveDef(k) ==
  /\ Listening /\ Tick
  /\ objects' = Append(objects, [key |-> k, val |-> [f \in Fields |-> clock + 1]])
  /\ cache' = [cache EXCEPT ![k] = Len(objects) + 1]
  /\ devices' = devices \cup {k[1]}
  /\ Dispatch(PropertyEvent("def", k[1], k[2]), objects', cache')
  /\ UNCHANGED <<connected, phase, messages, logged, browser>>

\* PropertyStore.apply, a set: the fields it carries are merged into the
\* cached object in place.  A set for an unknown property is ignored.
ReceiveSet(k, carried) ==
  /\ Listening /\ Tick
  /\ k \in Held(cache)
  /\ objects' = [objects EXCEPT ![cache[k]].val =
                   [f \in Fields |-> IF f \in carried THEN clock + 1 ELSE @[f]]]
  /\ Dispatch(PropertyEvent("set", k[1], k[2]), objects', cache)
  /\ UNCHANGED <<cache, devices, connected, phase, messages, logged, browser>>

\* PropertyStore._delete: of one property, or of the whole device.
ReceiveDel(d, n) ==
  /\ Listening /\ Tick
  /\ d \in devices
  /\ n = None \/ <<d, n>> \in Held(cache)
  /\ cache' = Without(cache, DelKeys(d, n))
  /\ devices' = IF n = None THEN devices \ {d} ELSE devices
  /\ Dispatch(PropertyEvent("del", d, n), objects, cache')
  /\ UNCHANGED <<objects, connected, phase, messages, logged, browser>>

\* Mutant: a full history keeps the oldest messages.
ReceiveMessageKeepsOldest ==
  LET longer == Append(messages, logged + 1)
  IN  /\ Listening /\ Tick
      /\ logged' = logged + 1
      /\ messages' = IF Len(longer) > HistoryLen THEN messages ELSE longer
      /\ Broadcast(MessageFrame(logged + 1), None, {})
      /\ UNCHANGED <<objects, cache, devices, connected, pending, phase, browser>>

\* Bridge._on_message: the history is a deque(maxlen=HistoryLen).
ReceiveMessage ==
  LET longer == Append(messages, logged + 1)
  IN  /\ Listening /\ Tick
      /\ logged' = logged + 1
      /\ messages' = IF Len(longer) > HistoryLen THEN Tail(longer) ELSE longer
      /\ Broadcast(MessageFrame(logged + 1), None, {})
      /\ UNCHANGED <<objects, cache, devices, connected, pending, phase, browser>>

\* IndiClient._connection_loop: a connection comes up ...
UpstreamUp ==
  /\ ~connected /\ pending = NoEvent /\ phase # "closed" /\ clock < MaxEvents /\ Tick
  /\ connected' = TRUE
  /\ Dispatch(ConnectionEvent(TRUE), objects, cache)
  /\ UNCHANGED <<objects, cache, devices, phase, messages, logged, browser>>

\* ... and goes down.  The loop awaits close() before it tells anyone.
UpstreamDown ==
  /\ Listening /\ Tick
  /\ connected' = FALSE
  /\ pending' = ConnectionEvent(FALSE)
  /\ UNCHANGED <<objects, cache, devices, phase, messages, logged, browser,
                 sub, subs, dropped_slow_sinks, coalesced_blobs, exposures>>

\* The bridge's callback for the event the client is still dispatching.
OnEvent ==
  /\ pending # NoEvent
  /\ OnCallback(pending, objects, cache)
  /\ pending' = NoEvent
  /\ UNCHANGED <<objects, cache, devices, connected, clock, phase, messages,
                 logged, browser>>

Upstream ==
  \/ \E k \in Key : ReceiveDef(k)
  \/ \E k \in Key, carried \in (SUBSET Fields) \ {{}} : ReceiveSet(k, carried)
  \/ \E d \in Devices, n \in Names \cup {None} : ReceiveDel(d, n)
  \/ ReceiveMessage
  \/ UpstreamUp
  \/ UpstreamDown

-----------------------------------------------------------------------------
(* Browser: IndiClient.handleMessage and PropertyStore.apply in TypeScript.*)

NewPage == [props |-> Empty, devs |-> {}, up |-> FALSE, protocol |-> "unknown",
            log |-> <<>>]

\* The version latch: the first frame on a socket decides.
Latch(v, f) ==
  [v EXCEPT !.protocol = IF f.tag = "hello" THEN "current"
                         ELSE IF @ = "unknown" THEN "legacy" ELSE @]

Apply(v, f) ==
  CASE f.tag = "def" ->
         [v EXCEPT !.props[f.key] = f.val, !.devs = @ \cup {f.key[1]}]
    [] f.tag = "set" /\ f.key \in Held(v.props) -> [v EXCEPT !.props[f.key] = f.val]
    [] f.tag = "del" ->
         [v EXCEPT !.props = Without(@, DelKeys(f.dev, f.name)),
                   !.devs = IF f.name = None THEN @ \ {f.dev} ELSE @]
    [] f.tag = "message" -> [v EXCEPT !.log = Append(@, f.id)]
    [] f.tag = "connection" -> [v EXCEPT !.up = f.up]
    [] OTHER -> v

Show(v, f) == Apply(Latch(v, f), f)

\* handleClose: with the socket down neither link is known to be up.
SocketClosed(v) == [v EXCEPT !.up = FALSE, !.protocol = "unknown"]

-----------------------------------------------------------------------------
(* The pump: Bridge._pump.  Proceed(s) is the code from where the pump     *)
(* resumes to its next await.                                              *)

SendPreamble(s) ==
  /\ sub[s].preamble # <<>>
  /\ sub' = [sub EXCEPT ![s].preamble = Tail(@), ![s].pump = "sending",
                        ![s].inflight = Head(sub[s].preamble)]
  /\ UNCHANGED exposures

\* A cached property is serialised only now: it may have changed since attach.
SendSeedVector(s) ==
  /\ sub[s].preamble = <<>>
  /\ \E i \in sub[s].seed_vectors :
       sub' = [sub EXCEPT ![s].seed_vectors = @ \ {i}, ![s].pump = "sending",
                 ![s].inflight = VectorFrame("def", objects[i].key, objects[i].val)]
  /\ UNCHANGED exposures

Seeded(u) == u.preamble = <<>> /\ u.seed_vectors = {}

SendSeedFrame(s) ==
  /\ Seeded(sub[s]) /\ sub[s].seed_frames # <<>>
  /\ sub' = [sub EXCEPT ![s].seed_frames = Tail(@), ![s].pump = "sending",
                        ![s].inflight = Head(sub[s].seed_frames)]
  /\ UNCHANGED exposures

SendQueued(s) ==
  LET slot == Head(sub[s].queue)
  IN  /\ Seeded(sub[s]) /\ sub[s].seed_frames = <<>> /\ sub[s].queue # <<>>
      /\ sub' = [sub EXCEPT ![s] = [Pop(@) EXCEPT !.pump = "sending",
                                                  !.inflight = slot.frame]]
      /\ exposures' = exposures - IF IsExposure(slot.frame) THEN 1 ELSE 0

AwaitReady(s) ==
  /\ Seeded(sub[s]) /\ sub[s].seed_frames = <<>> /\ sub[s].queue = <<>>
  /\ sub' = [sub EXCEPT ![s].ready = FALSE, ![s].pump = "waiting",
                        ![s].inflight = NoFrame]
  /\ UNCHANGED exposures

Proceed(s) ==
  SendPreamble(s) \/ SendSeedVector(s) \/ SendSeedFrame(s) \/ SendQueued(s) \/ AwaitReady(s)

Running(s, at) == sub[s].pump = at /\ ~sub[s].cancelled

PumpStart(s) ==
  /\ Running(s, "created")
  /\ Proceed(s)
  /\ UNCHANGED <<upstream, bridge, subs, browser>>

\* The sink returns: the browser has the frame, and the pump goes on.
PumpSent(s) ==
  /\ Running(s, "sending")
  /\ view' = [view EXCEPT ![s] = Show(@, sub[s].inflight)]
  /\ Proceed(s)
  /\ UNCHANGED <<upstream, bridge, subs, route, closes, attaches>>

PumpWake(s) ==
  /\ Running(s, "waiting") /\ sub[s].ready
  /\ Proceed(s)
  /\ UNCHANGED <<upstream, bridge, subs, browser>>

\* Bridge._detach
Detach(s) == subs' = subs \ {s}
EndPump(s) ==
  [sub EXCEPT ![s].pump = "done", ![s].inflight = NoFrame,
              ![s].cancelled = FALSE, ![s].closed = TRUE]

\* The sink raises: this browser is over, nobody else is.
SinkFailed(s) ==
  /\ Running(s, "sending")
  /\ sub' = EndPump(s)
  /\ Detach(s)
  /\ UNCHANGED <<upstream, bridge, browser, exposures>>

\* The cancellation is delivered.  The frame in flight may have got out.
PumpCancelled(s) ==
  /\ sub[s].cancelled /\ sub[s].pump \in {"sending", "waiting"}
  /\ sub' = EndPump(s)
  /\ Detach(s)
  /\ \/ UNCHANGED view
     \/ /\ sub[s].pump = "sending"
        /\ view' = [view EXCEPT ![s] = Show(@, sub[s].inflight)]
  /\ UNCHANGED <<upstream, bridge, route, closes, attaches, exposures>>

\* A task cancelled before its first step never runs its body: no _detach.
PumpNeverRan(s) ==
  /\ sub[s].cancelled /\ sub[s].pump = "created"
  /\ sub' = [sub EXCEPT ![s].pump = "done", ![s].cancelled = FALSE]
  /\ UNCHANGED <<upstream, bridge, subs, browser, exposures>>

-----------------------------------------------------------------------------
(* The route, and shutdown.                                                *)

\* Bridge.attach: snapshot, seed and registration in one step.  A page keeps
\* its cache from one socket to the next.
Attach(s) ==
  /\ phase = "serving" /\ route[s] \in {"none", "ended"} /\ attaches[s] < MaxAttaches
  /\ sub' = [sub EXCEPT ![s] =
       [preamble |-> <<HelloFrame>>,
        seed_vectors |-> {cache[k] : k \in Held(cache)},
        seed_frames |-> Append([i \in DOMAIN messages |-> MessageFrame(messages[i])],
                               ConnectionFrame(connected)),
        queue |-> <<>>, coalescible |-> Empty, ready |-> FALSE,
        closed |-> FALSE, dropped_for_backlog |-> FALSE,
        inflight |-> NoFrame, pump |-> "created", cancelled |-> FALSE]]
  /\ subs' = subs \cup {s}
  /\ route' = [route EXCEPT ![s] = "serving"]
  /\ attaches' = [attaches EXCEPT ![s] = @ + 1]
  /\ exposures' = exposures - QueuedExposures(sub[s])
  /\ UNCHANGED <<upstream, bridge, closes, view>>

\* Bridge.handle_incoming refuses a frame: the sender alone is told.
Refuse(s) ==
  LET over == Overflows(sub[s], ErrorFrame, None)
  IN  /\ route[s] = "serving" /\ clock < MaxEvents /\ Tick
      /\ sub' = [sub EXCEPT ![s] = Deliver(@, ErrorFrame, None)]
      /\ subs' = IF over THEN subs \ {s} ELSE subs
      /\ dropped_slow_sinks' = dropped_slow_sinks + (IF over THEN 1 ELSE 0)
      /\ UNCHANGED <<objects, cache, devices, connected, pending, phase, messages,
                     logged, coalesced_blobs, browser, exposures>>

\* The route stops waiting, because the receive loop ended ...
EndRoute(s) ==
  /\ route[s] = "serving"
  /\ route' = [route EXCEPT ![s] = "closing"]
  /\ sub' = [sub EXCEPT ![s] = Cancel(@)]
  /\ UNCHANGED <<upstream, bridge, subs, closes, attaches, view, exposures>>
BrowserLeaves(s) == EndRoute(s)
\* Mutant: the route waits for its receive loop only.
RouteIgnoresClosed(s) == FALSE /\ EndRoute(s)
\* ... or because the subscription closed.
RouteSeesClosed(s) == sub[s].closed /\ EndRoute(s)

\* Subscription.aclose has awaited the pump: detach, then close the socket.
RouteFinishes(s) ==
  /\ route[s] = "closing" /\ sub[s].pump = "done"
  /\ sub' = [sub EXCEPT ![s].closed = TRUE]
  /\ Detach(s)
  /\ route' = [route EXCEPT ![s] = "ended"]
  /\ code' = [code EXCEPT ![s] = IF sub[s].dropped_for_backlog THEN 1013 ELSE 1000]
  /\ turned_away' = turned_away + IF sub[s].dropped_for_backlog THEN 1 ELSE 0
  /\ view' = [view EXCEPT ![s] = SocketClosed(@)]
  /\ UNCHANGED <<upstream, bridge, attaches, exposures>>

\* Bridge.aclose: cancel every pump ...
Stop ==
  /\ phase = "serving"
  /\ phase' = "stopping"
  /\ sub' = [s \in Subs |-> IF s \in subs THEN Cancel(sub[s]) ELSE sub[s]]
  /\ UNCHANGED <<upstream, messages, logged, dropped_slow_sinks, coalesced_blobs,
                 subs, browser, exposures>>

\* ... await them, and close the client, whose loop is cancelled where it is:
\* in the dispatch of a connection it never gets to its finally.
StopClient ==
  /\ phase = "stopping" /\ \A s \in subs : sub[s].pump = "done"
  /\ phase' = "closed"
  /\ IF connected /\ pending # ConnectionEvent(TRUE)
       THEN connected' = FALSE /\ pending' = ConnectionEvent(FALSE)
       ELSE pending' = NoEvent /\ UNCHANGED connected
  /\ UNCHANGED <<objects, cache, devices, clock, messages, logged,
                 dropped_slow_sinks, coalesced_blobs, subs, sub, browser, exposures>>

Pump(s) ==
  PumpStart(s) \/ PumpSent(s) \/ PumpWake(s) \/ SinkFailed(s) \/ PumpCancelled(s) \/ PumpNeverRan(s)

Route(s) ==
  Attach(s) \/ Refuse(s) \/ BrowserLeaves(s) \/ RouteSeesClosed(s) \/ RouteFinishes(s)

-----------------------------------------------------------------------------
Init ==
  /\ objects = <<>> /\ cache = Empty /\ devices = {}
  /\ connected = FALSE /\ pending = NoEvent /\ clock = 0
  /\ phase = "serving" /\ subs = {} /\ sub = [s \in Subs |-> NotAttached]
  /\ messages = <<>> /\ logged = 0
  /\ dropped_slow_sinks = 0 /\ coalesced_blobs = 0
  /\ route = [s \in Subs |-> "none"] /\ code = [s \in Subs |-> 0]
  /\ attaches = [s \in Subs |-> 0]
  /\ view = [s \in Subs |-> NewPage]
  /\ turned_away = 0 /\ exposures = 0

Next ==
  \/ Upstream
  \/ OnEvent
  \/ \E s \in Subs : Pump(s) \/ Route(s)
  \/ Stop
  \/ StopClient

Spec == Init /\ [][Next]_vars

\* The event loop runs every ready task; a prompt browser's socket takes what
\* it is sent, or fails.
Fairness ==
  /\ WF_vars(OnEvent)
  /\ \A s \in Subs :
       /\ WF_vars(PumpStart(s)) /\ WF_vars(PumpWake(s))
       /\ WF_vars(PumpCancelled(s)) /\ WF_vars(PumpNeverRan(s))
       /\ WF_vars(RouteSeesClosed(s)) /\ WF_vars(RouteFinishes(s))
  /\ \A s \in Prompt : WF_vars(PumpSent(s))

FairSpec == Spec /\ Fairness

-----------------------------------------------------------------------------
(* Type invariant.                                                         *)

Dict(V) == [Key -> V \cup {None}]

Subscription ==
  [preamble : {<<>>, <<HelloFrame>>}, seed_vectors : SUBSET Nat,
   seed_frames : Seq(Frame), queue : Seq(Slot), coalescible : Dict(Nat),
   ready : BOOLEAN, closed : BOOLEAN, dropped_for_backlog : BOOLEAN,
   inflight : Frame \cup {NoFrame},
   pump : {"none", "created", "sending", "waiting", "done"}, cancelled : BOOLEAN]

Page ==
  [props : Dict(Value), devs : SUBSET Devices, up : BOOLEAN,
   protocol : {"unknown", "legacy", "current"}, log : Seq(Nat)]

TypeOK ==
  /\ objects \in Seq([key : Key, val : Value])
  /\ cache \in Dict(DOMAIN objects)
  /\ devices \in SUBSET Devices
  /\ connected \in BOOLEAN
  /\ pending \in Event \cup {NoEvent}
  /\ clock \in Nat
  /\ phase \in {"serving", "stopping", "closed"}
  /\ subs \in SUBSET Subs
  /\ sub \in [Subs -> Subscription]
  /\ \A s \in Subs : sub[s].seed_vectors \subseteq DOMAIN objects
  /\ messages \in Seq(Nat)
  /\ logged \in Nat
  /\ dropped_slow_sinks \in Nat
  /\ coalesced_blobs \in Nat
  /\ route \in [Subs -> {"none", "serving", "closing", "ended"}]
  /\ code \in [Subs -> {0, 1000, 1013}]
  /\ attaches \in [Subs -> Nat]
  /\ view \in [Subs -> Page]
  /\ turned_away \in Nat
  /\ exposures \in Int

\* The object a def or set event is about is in the cache until the bridge has
\* been told.
PendingIsCached ==
  pending # NoEvent /\ pending.type \in {"def", "set"} =>
    cache[<<pending.dev, pending.name>>] # None

-----------------------------------------------------------------------------
(* Properties of the queues.                                               *)

Concerns(f, k) ==
  \/ f.tag \in {"def", "set"} /\ f.key = k
  \/ f.tag = "del" /\ k \in DelKeys(f.dev, f.name)

SlotsSound(u) ==
  \A k \in Held(u.coalescible) :
    LET i == u.coalescible[k]
    IN  /\ i \in DOMAIN u.queue
        /\ u.queue[i].frame.tag = "set" /\ u.queue[i].frame.key = k /\ u.queue[i].key = k
        /\ \A j \in DOMAIN u.queue : j > i => ~Concerns(u.queue[j].frame, k)
\* "The correctness condition the whole coalescing rests on": a slot that a
\* later set may still replace is a set for that property, is still queued,
\* and nothing behind it concerns the property, so that replacing it moves
\* nothing across a redefinition or a retraction.
CoalescingSound == \A s \in Subs : SlotsSound(sub[s])

\* Every browser dropped for its backlog is counted once, and it is exactly
\* those browsers that are told to try again later: the count is that of the
\* sockets closed so, and of the dropped ones whose route has yet to close.
DropsCounted ==
  /\ dropped_slow_sinks = turned_away
       + Cardinality({s \in Subs : sub[s].dropped_for_backlog /\ route[s] # "ended"})
  /\ \A s \in Subs : route[s] = "ended" =>
       (code[s] = 1013 <=> sub[s].dropped_for_backlog)

=============================================================================
