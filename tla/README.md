# A TLA+ development of indikit

indikit is an INDI (Instrument Neutral Distributed Interface) toolkit for
astronomical instruments: a framework for writing *drivers*, an asynchronous
*client* that mirrors the properties those drivers publish, and a *web bridge*
that relays one client to many browsers, with a TypeScript client and React
components on the other side. This directory models the parts of it that are
hard to test - everything that happens between two awaits - checks them with
TLC, and proves the central invariants with TLAPS.

Paths below are relative to the repository.

## 1. The system

```
 browser (React)                         web server                    INDI server / drivers
 ┌──────────────────────┐   WebSocket   ┌───────────────────┐   TCP   ┌───────────────────┐
 │ StatusAnnouncer, ... │               │ ws route (app.py) │         │ DriverRuntime     │
 │ IndiClient (TS)      │ <-----------> │ Bridge            │         │  reader / writer  │
 │ PropertyStore (TS)   │    frames     │  Subscription x n │         │  periodic ticks   │
 │ ReconnectingConn.    │               │ IndiClient        │ <-----> │ Device            │
 └──────────────────────┘               │ PropertyStore     │   XML   │  BoundProperty    │
                                        └───────────────────┘         │  config file      │
                                                                      └───────────────────┘
```

| part | state | operations | who calls it |
|---|---|---|---|
| `PropertyStore` (client/store.py) | vectors by device and name, subscribers | `apply` (def replaces, set merges *in place*, del removes one or all) | the client's reader |
| `IndiClient` (client/client.py) | connected, outbox, blob policies, waiters, stats | `start`, connection loop, reader, writer, `send`, `wait_for`, `aclose` | applications, the bridge |
| `Bridge`, `Subscription` (web/bridge.py) | registered subscriptions, message history, counters; per browser a seed, a coalescing queue and a pump task | `attach`, `_on_event`/`_on_message`/`_on_connection`, `_broadcast`, `_deliver`, `_drop`, `_pump`, `handle_incoming`, `aclose` | the client's callbacks, the ws route |
| ws route (web/app.py) | a receive task and a wait on `closed` per browser | accept, race, close with a code | the browser |
| `Device` (driver/device.py) | registry of property handles, setup latch, hooks, persisted values | `setup` with roll-back, `define`/`delete`, dispatch of getProperties/new*, connection and configuration switches | the runtime |
| `BoundProperty` (driver/property.py) | one vector, `retracted` | `set`, `replace`, busy/ok/alert | driver code |
| configuration (driver/config.py) | a JSON file per device | load, save (temporary file, fsync, rename), purge | Device |
| `DriverRuntime` (driver/runtime.py, scheduling.py, dispatch.py) | an unbounded outbox, a reader, a writer and a tick task per device and interval | serve, dispatch under the device's lock, shutdown | asyncio |
| `InProcessHub` (hub.py, transport.py) | memory pipes | splice | demos, tests |
| `XMLStreamParser` (protocol/xml.py) | open element, dropped bytes, resets | feed | reader of client and runtime |
| `ReconnectingConnection` (TS) | current socket, timer, outbox | start, close, send, reconnect | TS client |
| `IndiClient`, `PropertyStore` (TS) | link state, version latch, cache, log | handleOpen/Message/Close | the socket |
| telescope simulator, scripted session (examples/) | axes, target, park and motion vectors; a script in five waits | goto, sync, paddles, guiding, park, abort, ticks; `slew` | clients; the user |
| camera simulator, BLOB receiver (examples/) | the exposure, a thread that renders, a cooler; a script | expose, abort, set point, ticks; `receive` | clients; the user |
| React components | announcements, edits in progress | hooks over the store | the user |

All Python concurrency is asyncio: one thread, and another task can run only at
an `await`. An action of these models is the code from one await to the next.

## 2. What makes it hard, part by part

**Bridge.** A browser is attached while the cache keeps changing: its *seed* is
references to live vectors, later `set` frames for one property replace a queued
one in place, `def` and `del` forbid that replacement, a backlog that overflows
drops the browser, and a pump can end in three ways. Correct means: when a page
has drained its queue it shows the store (`Converges`); nothing replaceable has
anything behind it that concerns the same property (`CoalescingSound`); `hello`
comes first; no message is lost or repeated; every BLOB exposure is sent, queued,
counted as coalesced or gone with its browser; a drop happens once, is counted
once, and ends the browser's route.

**Device.** A `setup()` that raises is undone while ticks and handlers may have
run in between; handles outlive their properties; the outcome of a connection or
configuration request is published after an await during which the property may
have been deleted or redefined. Correct means: a client that has read everything
shows exactly what the device has; a failed attempt leaves nothing behind and,
behind the guard, takes nothing it did not make; no switch stays Busy; a persisted
value is never lost; with `serialize_dispatch` one handler or tick at a time.

**IndiClient.** The connection loop can be cancelled at any of its eight awaits, and
callers queue messages at any moment of a connection's life. Correct means: what
was queued on one connection is never written on another; every connection is
greeted and learns every BLOB policy; no wait misses a value; a closed client
answers its waiters and refuses sends.

**Page connection.** A socket closes asynchronously, so several may be alive at
once; a timer booked for a lost one may fire beside its replacement; the
application may call back into the client from inside its callbacks. Correct
means: the only live socket is the one held; what is said of the link belongs to
it; what was sent while it was down goes out once, in order, on the next one; and
a link that is wanted is made again.

**Runtime.** Several devices share one reader, one writer and one outbox, and any of
their handlers may hang or raise; `serve()` can end from three sides at once.
Correct means: a device's jobs keep ticking whatever another device does; an overrun
is forgotten, never caught up; a stream that yields nothing any more is noticed
within a threshold; what was said before the end is written before the end, last
words of cancelled tasks included; and the driver does end when its transport does.

**Config file.** Two processes, a kill, a failing call or a power cut between any
two system calls of a save. Correct means: whoever looks, and whatever is left after
the cut, is one whole document, the one before, or none - what `SavedDocument` says.

**Mount.** A dozen handlers write overlapping state (`_target`, `_parking`, the paddle
rates, four vectors' states), in any order, and a tick finishes what they began.
Correct means: what the vectors claim of a mount at rest is so; a park ends; and a
script's `slew()`, which can see only a lagging cache, returns when the mount is
where it was sent.

**Camera.** A frame is rendered in a thread while the tick holds the guard; an
exposure may be replaced, aborted or dropped at any tick before. Correct means: one
image for each exposure and none for a spoiled one; nothing Busy that nobody works
on; and a script that takes a picture saves its own, if nobody else is exposing.

## 3. The modules

| module | what it is | code |
|---|---|---|
| `BridgeDelivery` | the frames a browser may be sent and what the page makes of them | control_frames.py, client.ts, store.ts |
| `Bridge` | store, bridge, pumps, ws routes and pages | bridge.py, store.py, app.py |
| `BridgeProofs` | its types and all its safety properties proved | |
| `Device` | one device, its properties, configuration and ticks, with the runtime's reader and writer | device.py, property.py, runtime.py |
| `DeviceProofs` | its types, `OneAtATime` and all its safety properties proved | |
| `Client` | the Python client's connection loop, writer and callers | client.py |
| `ClientProofs` | five of its invariants proved | |
| `WsConnection` | the page's link: sockets, reconnect timer, outbox, version latch, policies | connection.ts, client.ts |
| `WsConnectionProofs` | its types, `NoOrphan`, `StateOfThisSocket` and `SendsAreKept` proved | |
| `SavedDocument` | what a saved configuration promises: the abstract specification | config.py's docstrings |
| `ConfigFile` | write, remove and read system call by system call, kills and power cuts | config.py |
| `ConfigFileProofs` | `ConfigFile` implements `SavedDocument`, and `NoLitter`, proved | |
| `StreamParser` | framing, depth, resets, resync and the stall counter, as operators | xml.py |
| `Runtime` | reader, jobs, writer and `serve()` over several devices | runtime.py, scheduling.py |
| `RuntimeProofs` | deadlines, stall detection and the drained end proved | |
| `Mount` | the telescope simulator | telescope_device.py |
| `MountSession` | `Mount`, the script that points it, and the streams between them | scripted_session.py, client.py |
| `MountProofs` | `AtRest` proved, for the mount and for the session, and `SlewTellsTheTruth` | |
| `Camera` | the camera simulator | ccd_device.py, device.py |
| `CameraReceiver` | `Camera`, a hub's BLOB policy, the script that takes a picture | blob_receiver.py, client.py |
| `CameraProofs` | `CameraTruthful` and `FrameIsItsOwn` proved | |

Each `MC` module gives the module it is named for the constants TLC needs.
`Device`, `Runtime`, `Mount` and `Camera` look at one architecture from four sides:
`Device` has the whole of one device and one reader, `Runtime` has many devices and
knows of each only that it emits, raises, returns or hangs, and `Mount` and `Camera`
are devices whose author's code is known.

The mutant operators in the component modules (each marked `Mutant:`, standing
beside the definition they alter) are what a plausible bug of that definition
would look like. They are not part of the specification; each one has been shown
to break the property it is listed with in PROJECT.json.

### 3.1 Bridge

`objects` and `cache` are the `PropertyStore`: the cached vector is an object with
an identity, `cache` says which object a property is, and a `set` changes the
object in place, so that a seed that refers to it changes too. `sub` is one
`Subscription` per browser: the remaining seed, the queue of slots, the slots
that may still be replaced, whether it is closed, and where its pump is. `subs`
is the bridge's set of registered subscriptions. `browser` is the page: what it
shows, its log, its link state.

Actions are handlers: `ReceiveDef`, `ReceiveSet`, `ReceiveDel`, `ReceiveMessage`,
`UpstreamUp`/`UpstreamDown` change the store and then call the bridge - in the same
step, or, with `SlowSubscribers`, in a later one (`OnEvent`), since a subscriber
called before the bridge may await. `Attach` is one step because the code has no
await in it. `PumpStart`, `PumpSent`, `PumpWake` are the pump from one await to
the next; `SinkFailed`, `PumpCancelled`, `PumpNeverRan` are its three other ends.
`Refuse` is a client frame that is answered with an error, `BrowserLeaves`,
`RouteSeesClosed` and `RouteFinishes` are the ws route, `Stop` and `StopClient`
are `Bridge.aclose`.

Three histories the code does not keep are there for what the properties say:
`logged` counts the messages the driver sent, `exposures` the BLOB frames broadcast
less those a pump took, `turned_away` the sockets closed with 1013. `Final(s)` is
what the page of `s` will show once everything on its way to it has been sent: the
frame in flight, the preamble, the seed as it reads now, and the queue, shown one
after the other (`ShowAll`). `Converges` compares it with the store.

### 3.2 Device

`handles` is every `BoundProperty` ever made, `registry` the names that are
defined, as indexes into it - the code compares handles by identity, and so does
the model. `config_values`, `document` and `file` are the captured map, the
document `save_config` is writing in its thread, and what is on disk. `guard` is
the `asyncio.Lock` with its FIFO of waiters. `pc` says where the reader and
each tick are; the author's code (`setup`, hooks, handlers, `on_config_loaded`,
ticks) takes steps of its own there: `DefineOwn`, `SetOwn`, `SetOwnHalfway` (a
set one of whose later elements is refused), `DeleteHandle`, `SetupLoads` - through
any handle that was ever made. A redefinition leaves the handle it supersedes alive:
`set` refuses a handle that was deleted and no other (`_require_live`), so a
`Superseded` one still publishes its own vector in the name of its successor, while
its `delete` says nothing. `outbox` and `Write` are the runtime's queue and writer;
`view` is what a client that has read from the start makes of the stream, and
`late_view` what one makes of it that joined later (`NewcomerJoins`) with nothing
kept from before. `Reannounce` answers a getProperties in the order of the registry,
where a name that is redefined keeps its place: `behind` says of a handle that its
name came in after INDIKIT_CONFIG_PERSISTED.

Four histories the code does not keep are there for what the properties say: `kept`
is the value a persisted property was last given, `due` what `kept` was when the
running save was asked for, `unsaid` the handles whose contents are not the last
thing said of their name (a set raised halfway, or a superseded handle spoke), and
`informed` whether the newcomer has been answered with all there was.

Two reductions keep the state space small and lose nothing the properties see.
Elements are one number. And the driver takes its next step only when the writer
has caught up (`CaughtUp`): the queue is FIFO, nobody reads its length, and the
writer changes nothing but the client's view, so any order of writes and driver
steps shows the client the same sequence of frames; the properties about single
frames (`ListIsVisible`, `NoUpdateAfterRetraction`) are still looked at between
any two of them.

### 3.3 Client

`loop` names the await the connection loop is suspended in, `cancelled` says that
a `CancelledError` will come up there, `unwinding` that one is on its way out
through the `finally` clauses. `writer` and `writing` are the writer task.
`Connects` includes the handshake: there is no await between the two. A message
carries the number of the connection it was queued on (`on`), a history the code
does not keep. A `wait_for` is `out`, `parked`, `matched` or `failed`; `uncalled`
are the subscribers the present event has still to reach, since any of them may
await.

### 3.4 WsConnection

An action is one callback or call, run to its end, as JavaScript does. `socket`,
`outbox`, `closing`, `reconnectTimer`, `sawFrame` and `blobPolicies` are the
fields of that name; `readyState` is what the browser says of every socket, the
dropped ones included. A subscriber may call `connect` or `close` from inside a
callback: where nothing follows in the code this is an action of its own (`Start`,
`Close`); `ClosesAndStarts` and `ClosesForGood` are `onclose` with the call between
`handlers.onClose` and the test of `closing`, and `ReceiveAndClose` is
`handleMessage` with the call between the version latch and the rest.
`version`, `spoken` and `in_force` are the bridge behind the current socket.

### 3.5 ConfigFile and SavedDocument

`pc` names the system call a process is about to make, `temp` its temporary file,
`names` what the final name has been since the directory was last on the disk,
newest last - a rename is visible at once and durable only when the operating system
writes the directory back, which `Settle` does and the code never asks for. `Fails`
is an OSError anywhere in the try block, `Abandon` its except clause. `PowerCut`
takes any of `names`, and of a file nobody synced either its bytes or something
`Torn`. `ImplementsSavedDocument` maps `past` to the bodies of `names`: `Replace` is
`Save`, the system calls before it are stutters.

### 3.6 StreamParser and Runtime

A chunk is a number of bytes and the tags that end in it; `Lex` is what lxml makes
of a tag, external; `Fed`, `Yielded`, `Stalled` and `Resynced` are the parser. In
`Runtime`, the reader hands a message to one device after the other
(`NextMessage`, `HandTo`), under that device's guard; `Gate`, `Wake`, `Skip`,
`TickBegins` and `TickEnds` are a job from one await to the next; `Take` and `Write`
are the writer, with a message that cannot be serialised replaced by a report at the
end of the outbox; `Stops`, `CancelReader`, `CancelJob`, `Drains` and `Ends` are
`serve()`. `left` and `ago` are times relative to now, cut off where the code no
longer tells them apart, so the clock needs no bound. `silence` counts what the
parser's own counter is meant to count, independently of it.

### 3.7 Mount and MountSession

One action per handler, one tick in two cases (`SlewTick`, `RestTick`). No handler
and no tick of the simulator awaits, so each is one step. Right ascension is a circle
and declination a bounded axis of a few units; `RaToward` is the shortest way around
on the circle, `Clamped` and `Wrapped` are what the code does at their ends. The
script's cache lags the mount by `stream`, its writes lag by `sent`.
`Begins`, `Event`, `AlreadyConnected` and `TimesOut` are `session`, with `wait_for`
looking at the cache first and then at every event (`Answered`).

### 3.8 Camera and CameraReceiver

A tick that renders is two steps, `RenderBegins` and `RenderEnds` or `RenderFails`,
with the guard held in between: every write has `~rendering`. An exposure has a
number, `started`, and an image is the number of the exposure it is of; `spoiled`
keeps the ones that were aborted, dropped or replaced. The hub forwards an image to
the script once it has asked (`blobs`).

## 4. The runs

| run | instance | what it shows |
|---|---|---|
| `bridge_converge` | 2 properties (one a BLOB), 1 browser, 5 upstream events, backlog 3, history 1 | the page ends on the store; coalescing sound; log gapless; every drop and every exposure accounted for; a page never goes backwards |
| `bridge_reconnect` | 1 property with 2 fields, partial sets, 2 attaches, suspended subscribers, 4 events | `Converges` for a page that reconnects with an old cache |
| `bridge_live` | 2 browsers, one whose sink may never return, backlog 1, 2 events, fairness | the other one catches up; a dropped one has its route end |
| `device_setup` | 2 own properties, a persisted list, 1 tick, no guard, failing setups, a newcomer | the client mirrors the device, and so does one that joined later; the list is true; failed attempts leave no property |
| `device_config` | 1 persisted property, save/load/purge that fail, 1 tick, no guard | values survive and a save has them as of one moment; nothing stuck Busy |
| `device_live` | 1 own property, the connection switch, 2 ticks, guard on, failing setups, fairness | Ok means linked; nothing is said of what was retracted but through a superseded handle; a failed setup takes back what it did and nothing else; requests are served and ticks run |
| `client_link` | 2 policy keys, 1 waiter, outbox 3, 2 connections, 3 sends, fairness | nothing outlives its connection; policies in force; no missed wait; aclose answers |
| `ws_connection` | 3 sockets, 2 policy keys, 5 calls of connect/close, 3 sends, bridges old and new, fairness | no socket orphaned; the state is the present socket's; commands kept, once and in order, policies in force; the link comes back |
| `config_file` | 2 processes, 2 documents, 3 names not yet durable | every step is one of `SavedDocument`'s, or none; no litter without a reason |
| `runtime_serve` | 2 devices, one that may hang, 1 job, interval 2, 7 kinds of chunk, stall threshold 2, 2 messages emitted, fairness | a silent stream is noticed; the end is drained; no backlog; others keep ticking; serve ends |
| `mount` | a circle of 5, a pole at 1, 2 speeds, 2 drifts, 4 writes of others, 1 frame in flight, fairness | what is said at rest is so; a park ends; `slew` tells the truth and answers |
| `camera` | exposures of 0 or 2 ticks, a level no light frame can be rendered with, 4 exposures, 6 writes of others, 2 frames in flight, fairness | one image each; nothing falsely Busy; exposures end; the script gets its own image |

**Why the bounds are enough.** Every bound is a constant named in its module.
*Bridge*: the hazards are about two frames of one property with something between
them; five events are a definition, two sets around a deletion or a redefinition,
and one more, with a second property to be confused with; a backlog of 3 lets a
queue hold a replaceable slot, a barrier and a later set, and still overflow
within 5 events. *Device*: `MaxOps` author operations are enough for define, set,
delete and redefine in one attempt and for a tick to do one of them in the middle
of it (in `device_live`, two: one of the setup and one of a tick); setups, requests,
ticks and newcomers are not bounded at all. `device_config` is about what the driver
holds and looks at its states through the VIEW `WithoutClient`, which leaves out what
no action reads: what the client shows and what a frame in the outbox says. *Client*: two
connections are what it takes for something to outlive the first; an outbox of 3
is the smallest that has room for a handshake with two policies, and the third
send finds it full. The number of requests, reconnect attempts that fail, waits
and received messages is not bounded.

*WsConnection*: an orphan takes a socket that closed, a timer, and a second socket
made meanwhile; three sockets let one more be closing beside those. Five calls are
connect, close, connect and one of each from inside a callback. Failures, closings,
received frames and the timer are not bounded.

*ConfigFile*: two processes are what a race takes; `MaxBehind` 3 lets the name be
two things the disk does not know of. Requests, kills and cuts are not bounded.
*Runtime*: a device that hangs and one that does not; an interval of 2 and a job that
may be any number of units late, so that an overrun of one and of several intervals
differ; the threshold lets one chunk be silent, two be tolerated and the third be
noticed. Chunks, ticks and time are not bounded, `MaxEmits` bounds what devices say.
*Mount*: on a circle of 5 both ways around differ, both speeds overshoot somewhere,
and the session's goto asks for 6, beyond the circle's end; four writes are a
connection and three more, enough for park, unpark, goto or a paddle in between.
*Camera*: an exposure that has to be counted down and one that is due at once; four
exposures are the script's and three that replace, spoil or follow it.

**Deadlock.** Checked in the client's, the config file's and the device's runs. The
bridge's runs stop when the events and attaches they allow are used up;
`ws_connection` stops where the application has closed the client and has no calls
left; `runtime_serve` stops because the driver does; `mount` and `camera` stop where
the device is disconnected and the bound on writes is reached. Each cfg says so.

## 5. Fairness

Only what asyncio gives: a ready task runs (weak fairness of each task's
steps). In `Bridge`, the pump, the client's callbacks and the routes are fair,
and a browser in `Prompt` is one whose `send_text` returns; nothing is assumed of
the others. In `Device`, the reader, each tick and the writer are fair: this is
where "the author's code and the disk come to an end, and a sleep ends" is
assumed - `RequestsAreServed` is false for a handler that never returns, as it is
in the program. Fairness says nothing about who comes first: that requests do
not starve ticks (`GuardIsFair`) follows from the lock's FIFO, which is modelled.
In `Client`, the loop and `aclose` are fair: `close()` and
the subscribers return. No message has to arrive and no connection to succeed.
In `WsConnection` a timeout fires and a socket that is closing closes; nothing
else happens for certain, an `open` least of all - `LinkComesBack` promises the
attempt. In `Runtime` time passes and every task runs when it is ready, but the input
may stay silent for ever and a handler or a tick of a `Hanging` device may never end;
`OthersKeepTicking` is about the other devices, and `ServeEnds` holds because a
cancelled task ends. In `MountSession` and `CameraReceiver` the ticks, the handling
of what arrives and the script are fair; others need never write, a timeout need
never elapse, and a render that raises is tried again for ever, as the code does.
`ConfigFile` assumes none.

## 6. What is proved

For every value of the constants the named assumptions allow (`BridgeAssumption`,
`DeviceAssumption`, `ClientAssumption`, `WsAssumption`, `RuntimeAssumption`,
`MountAssumption`, `CameraAssumption`, ...: disjointness of names and model values,
finite sets of browsers, keys and own names, limits that are naturals;
`Cardinality(Keys) < MaxOutbox` is the code's own argument that the handshake fits -
`_OUTBOX_MAXSIZE` is 256 - and the theorems hold under it only). Two theorems assume more, and say so:
`PagesNeverGoBack` (no subscriber before the bridge suspends) and `RollBackIsExact`
(`serialize_dispatch`, which is the code's default).

Every safety property that a run checks is proved, as is the refinement.

Some invariants are proved and no longer checked by a run: the types of `Bridge`,
`Client`, `ConfigFile`, `Device`, `WsConnection` and `Runtime`'s output,
`GreetedFirst` of `Client`, `OneAtATime` of `Device` and `DropsCounted` of `Bridge`
for itself (it is a part of `CountersAreTrue`).

- **BridgeProofs** - everything the runs check of the bridge, in four arguments.
  - *Coalescing.* `CoalescingSound` is per subscription: a slot in `coalescible` is
    in the queue, is for its key, and no slot behind it concerns that key. It is
    inductive together with the type invariant and `PendingIsCached` (an event still
    to be relayed names an object that was cached). The lemmas follow one
    subscription through `Enqueue`, `Invalidate`, `Pop` and `Cancel`;
    `BroadcastKeeps` lifts them to every registered browser; then there is one lemma
    per action. The heart is `EnqueueSetSound`: appending a set is sound for its own
    key because there was no replaceable slot for it, and for the other keys because
    it does not concern them; `EnqueueOtherSound` needs `Invalidate` to have run
    first, which is what "the correctness condition the whole coalescing rests on"
    says in the code.
  - *Counting.* `DropsCounted` and `CountersAreTrue` say that a counter is the size
    of a set. One broadcast may drop several browsers and fold several exposures, so
    the lemmas add up over all of them at once (`BroadcastDrops`, and the sets
    `Late` and `Folded` of the browsers it happens to). An exposure is one queued
    frame, named by its browser and its slot: the only ways for it to leave are that
    a pump takes it, that another takes its place, and that its browser goes.
  - *Convergence.* What is invariant is about the end of the pipeline: `AllDue` says
    that the page a served browser is going to have - `Final(s)`, and then the event
    the bridge has still to be told of (`Settled`) - is the store and the link as they
    are now, and has the log without a gap if it is the page's first attach. A change
    of the store changes both sides in the same way (`EventDue`), and a step of the
    pump changes neither (`QuietDue`). That a set put in the place of an older one
    shows the same in the end is `FoldingShows`, which rests on `CoalescingSound`:
    nothing between the two concerns the key. `Orderly` collects what the argument
    needs of the seeds, the cache and the pumps: a seed has one object of each
    property, the cache holds an object under its own key, a page that has opened no
    socket is empty, a pending deletion is still true of the store, and the retained
    messages are the latest.
  - *Never backwards.* `Forwards`: all that is said of a property - shown, in flight,
    still to be seeded, queued - is in order of age, and none of it is newer than what
    the store has. The subtle part is `SeedsFresh`. A seed refers to the cached object,
    and a set changes that in place, so a seed can overtake a frame queued before the
    set; it does not, because as long as the seed's object is the cached one, the one
    queued frame for its property is replaceable, and the set that makes the object
    newer makes that frame newer too. The theorem assumes `~SlowSubscribers`: with such
    a subscriber the property is false (section 8). The server
    of web/app.py, where the bridge is the client's only subscriber, has none.
- **DeviceProofs** - `DeviceInv` is the inductive invariant of the whole device.
  - `GuardInv`, for `OneAtATime`: nobody stands in the lock's queue twice, an actor
    stands in it exactly while it is queued or inside, and whoever is inside stands
    first. `JoinKeeps`, `MoveKeeps` and `ReleaseKeeps` are the three things that can
    happen to a place in the queue. It holds with `Serialize` false too, where it says
    nothing.
  - `HandlesSound` (what is registered under a name has it and is not retracted) and
    `AttemptSound` (nothing that was there when a setup began had been defined by
    setup), for `FailedAttemptLeavesNoProperty`: nothing that the attempt defined is
    left, with ticks defining properties meanwhile or not, guard or no guard. That
    nothing else is taken (`FailedAttemptUndone`) needs `Serialize`: then nobody but
    the attempt defines anything while it runs, and `OthersWereFirst` is inductive -
    what somebody else has defined was there when the attempt began. `RollBackIsExact`
    therefore assumes it; without it the statement is false of the code (section 7).
  - `SwitchesSound`, for `NothingStuckBusy` and `OkMeansLinked`: a property that is
    Busy, or a CONFIG_PROCESS that is pressed, is the one whose handle the built-in
    handler that runs holds across its await - the owner of the name still, or
    retracted and then nobody owns the name.
  - `StreamSound`, for `ClientMirrorsDevice`, `NoUpdateAfterRetraction` and
    `ListIsTrue`: the frames in the outbox speak of a property once and are true of
    it, what they are silent about is shown as it is, a list comes behind the
    definitions of what it names and before the deletions of what it no longer names.
    The lemmas are about the few forms the frames of one step have: one definition,
    one set, a withdrawal with its list, a roll-back, the answer to getProperties, the
    sets of a load. A superseded handle that speaks puts the owner of the name into
    `unsaid`; `NoUpdateAfterRetraction` excepts it, as the code does.
  - `NewcomerSound`, for the newcomer's half of `ClientMirrorsDevice`: of every
    property, an informed newcomer shows what the first client shows or the outbox
    still has a frame that tells both (`Tells`). What an update leaves alone for one it
    leaves alone for the other; the roll-back and the answer to getProperties tell of
    everything that is defined, in whatever order.
  - `NoValueIsLost` (`ConfigurationKept`) adds `SavedComplete`: the document being
    written is a copy, taken in the step that notes what is due, so whatever runs
    while the thread writes - with the guard or without - cannot take a value from it.
    A redefinition gives a live persisted property the value last captured or loaded;
    that is a value it is given, not one that is lost (section 8).
- **ClientProofs** - `InvariantHolds` strengthens the types with `Shape`: outside
  a connection nothing is queued and nobody writes, inside one the client is
  connected. The outbox bound needs it: the handshake is put in without asking
  for room, and fits because the outbox is empty. On it rest
  `OutlivesCorrect`; `Greeted` (with `Greeting`: until something has been written
  the getProperties is next, in the writer's hands or first in the outbox);
  `PoliciesCorrect` (with `Replaying`: for every recorded policy, the last
  enableBLOB for its key that is queued or being written, or else what the
  server has, is that policy); and `NoneMissed` (a parked wait either does not
  match the cache or its callback is due).

- **WsConnectionProofs** - `NeverOrphans` and `StateIsOfThisSocket`, from one
  invariant, `LinkInv`: `NoOrphan` and `StateOfThisSocket` need that a held socket
  has not closed (`HeldIsAlive`) and that the latch is set exactly when the present
  bridge has spoken (`LatchIsOfThisSocket`). What can happen to the link is three
  things - nothing (`LinkStutters`), a socket in the place of none (`LinkOpens`)
  and a socket let go (`LinkLets`) - and most actions are one of them.
  `SendsReachABridge` is `SendsAreKept`, with `SendInv`: nothing is kept while there is
  an open socket (`NothingWaits`), a policy in the outbox is of a key that is
  remembered (`KeptIsRemembered`), and a bridge not reached yet has been sent nothing
  (`FreshBridge`). What a socket makes of the outbox it is handed is a function of the
  frames by recursion on their number; that the commands come out of it in their order
  and the policies end as remembered is argued about the least number of frames for
  which it fails (`NatLessThanWellFounded`), since there is no induction.
- **ConfigFileProofs** - `FilesAreWhole`: everything the final name has been since
  the directory was last durable is synced and whole, and what is about to replace it
  is the body that was asked for. `SavesAreAtomic` is the refinement: with that
  invariant, each system call is one step of `SavedDocument` or a stutter, the power
  cut included - the point of the fsync is that `Survives` leaves a synced file as it
  is. One lemma per action. `FailedSavesCleanUp` is `NoLitter`: of all the ways a save
  can end, only a kill, a refused unlink and a power cut leave a temporary file.
- **RuntimeProofs** - `NoBacklogEver` needs to tie three relative times together
  (`Deadlines`: the deadline is never earlier than the last tick but one plus an
  interval, up to the cut-off); `SilenceIsNoticed` compares the parser's counter with
  the independent one (`CountsSilence`), for any chunks; `NothingSaidIsLost` keeps
  that the outbox is a suffix of what was said, with the sentinel last and the
  written before it (`OutInv`), over every way `serve()` can end.
- **MountProofs** - `AtRest` is four facts: PARK that is On and Ok is a mount at a
  pole; behind a dead link nothing drives the mount and its coordinates are not Busy;
  coordinates that are Busy are those of a slew; PARK that is Busy is on, and under way
  or aborted. It does not say that nothing is Busy behind a dead link, which is false
  (section 7), nor that a motion vector that is Busy moves the mount: a park stops the
  motion and leaves the vector. It is inductive with `ParkingSlew`: a mount that is parking
  goes to a pole and nothing else drives it, so the slew that ends a parking ends it
  at a pole. `RaTowardIsRa` and its kin keep positions on the circle and between the
  poles. `SessionAtRest` carries it over to the session, whose steps are steps of the
  mount or leave it alone. `SlewReturnsTheTruth` is `SlewTellsTheTruth`: a goto that was
  taken while tracking and that nobody has meddled with is under way to the destination
  or was completed there with the sky followed (`Pointed`), so what the wait accepts is
  where the mount is, however old the cached vectors are.
- **CameraProofs** - `CameraTruthful` is inductive with `RunningIsLast`: exposures
  are numbered, the one that runs has no image and is not spoiled. `ReceiverSavesItsOwn`
  follows an image from the camera over the stream into the cache and the file:
  everything on the way is `Accounted` for - taken by the camera, and the script's own
  if nobody else exposed (`SeenIsAccounted`) - which needs that the script asks once
  and last (`AsksOnce`), so that nothing taken before its exposure can count as its
  own. `MaxLag` and `MaxWrites` play no part in it.

Only model-checked: the liveness properties (`CatchesUp`, `DroppedRouteEnds`,
`GuardIsFair`, `CloseAnswers`, `LinkComesBack`, `OthersKeepTicking`, `ServeEnds`,
`ParkingEnds`, `SlewAnswers`, `ExposureEnds`, `ReceiverIsServed`). They are out of the
prover's reach for good: it has no reasoning under fairness and no `ENABLED`. No module
that a proof reaches declares a RECURSIVE operator; the parser is a fold, and what is
proved of it does not depend on what the fold computes. The induction theorems of the
library take an operator as a parameter, which the provers cannot instantiate; where an
argument is by induction over a sequence (the pages, the outbox), it is put as one about
a least counterexample among the naturals.

## 7. Where the code and its words differ

Nine formulas state what a docstring, a comment or a test says, and are false of the
model because they are false of the code. No configuration checks them so; to see the
counterexample, put the formula into a configuration of the instance named.

1. `NeverClaimsMissingLink` (`Device`; INVARIANT, with only the connection switch,
   no own names, no ticks, requests getProperties, CONNECT and DISCONNECT, `MaxOps`
   2). device.py:307 rolls a failed DISCONNECT back to CONNECT whatever the switch
   said before, so a device that was never connected claims a link; the docstring at
   device.py:290-293 says this never happens.
2. `ClosedClientRefuses` (`Client`; INVARIANT, `ClientLink.cfg` with `MaxConnects` 1
   and `MaxSends` 0). client.py:328 tells the subscribers of the connection outside
   the `try` that releases it, so a client cancelled there is closed and says it is
   connected; client.py:343-344 and test_client.py:1208-1209 have it disconnected.
3. `AcceptedIsServed` (`Client`; PROPERTY, `ClientLink.cfg` with `MaxConnects` 1).
   client.py:492: a message `to_xml` refuses kills the writer of a connection that
   stays up, and sends go on being accepted (client.py:721-722).
4. `BothDown` (`WsConnection`; INVARIANT, `WsConnection.cfg`). client.ts:471: a
   subscriber that closes the client on hearing that the bridge is an old one has the
   rest of `handleMessage` set `upstream` on a link that is gone; the comment at
   client.ts:446 asks that both be down.
5. `RetractionIsFinal` (`Device`; INVARIANT, `DeviceSetup.cfg`). property.py:227 asks
   whether this handle was deleted, not whether it still owns the name: keep a handle,
   redefine the property, delete the new one, and a set through the kept handle is
   published for a name the client has been told is gone. property.py:504 (`Refuse to
   publish through a handle whose property has been retracted`) has it refused. While
   the successor lives, the set is published in its name.
6. `NewcomerCanSeeItsList` (`Device`; INVARIANT, `DeviceSetup.cfg`). device.py:1486
   announces in the order of the registry, so a newcomer is sent
   INDIKIT_CONFIG_PERSISTED ahead of the persisted properties that were defined after
   it; device.py:723 has the list never name a property the client has not been told
   about yet, and device.py:1118-1120 that no client holds one that does. It mends
   itself with the rest of the announcement (`ClientMirrorsDevice`).
7. `FailedAttemptUndone` without the guard (`Device`; PROPERTY, `DeviceSetup.cfg`).
   device.py:1526-1527 compares with the registry as it was before the attempt, so
   what a tick defined while setup() awaited is deleted with the rest; device.py:1505
   says that what rolls back is what the attempt defined. With the guard it is true:
   `DeviceLive.cfg` checks it.
8. `FirstComersSurvive` (`Device`; PROPERTY, `DeviceSetup.cfg` or `DeviceLive.cfg`).
   device.py:1520-1522 keeps what the registry has under the same handle; a property a
   tick had defined and the attempt redefined is under another, and the name is gone
   after the roll-back. device.py:1500-1503 says it must survive "whether or not the
   attempt happened to redefine its name".
9. `NothingBusyBehindDeadLink` (`Mount`; INVARIANT, `Mount.cfg`). Park, abort,
   disconnect: telescope_device.py:490 clears what telescope_device.py:242 looks at, so
   PARK stays On and Busy behind the dead link; the docstring at
   telescope_device.py:228 says that nothing is.

## 8. Other observations

Met while modelling. Where a model has the part concerned it does what the code does;
where it leaves it out, the item says so.

- property.py:494: under `emit="on_change"`, a set that raised after assigning
  some elements leaves them unsaid, and a later set to the same values is
  suppressed (`unsaid` in `Device`; `ClientMirrorsDevice` excepts it).
- device.py:1525-1527: a roll-back captures the values of the persisted properties it
  deletes, so what a failed setup had assigned to them stays for the next attempt.
- device.py:717-720: redefining a persisted property without deleting it first gives
  it the value last captured or loaded, or its default, and not the one it had
  (`DefineOwn`). device.py:722: redefining a persisted name without `persist=True`
  leaves the name in the published list until the membership next changes; this is
  outside `Device`, which fixes `persist` per name.
- device.py:1464-1484: the getProperties that starts an attempt is answered with what
  the attempt defines. What ticks had defined before is not announced then, so a client
  that joined in between learns of it at the next getProperties or not at all
  (`informed` in `Device`).
- bridge.py:423: devices the store knows without any property are not seeded (`Bridge`
  has properties only).
- A page behind a subscriber that suspends may see an older value after a newer
  one before it converges; `NeverBackwards` is checked and proved without such
  subscribers.
- `start()` of the Python client called while `aclose` awaits the loop (outside
  `Client`, which starts once), and a `wait_for` begun after `aclose`, wait for ever; the Python client's cache, like
  the page's, survives a reconnect.
- runtime.py:335 looks at `connected` before the wait for the guard: a
  `when_connected` tick that waited behind a DISCONNECT runs on the disconnected
  device, while scheduling.py:70 says ticks are skipped then.
- client.ts:445 keeps the store over a reconnect and the seed has no deletions: a
  property deleted while the socket was down stays on the page (PRODUCT.md:205 asks
  that no stale reading pass as live). The page's log survives too, while the bridge
  sends its history again: a reconnect repeats messages in it.
- client.ts:569 tells subscribers in a loop: one that closes or connects in it has
  the later ones told of the newer state first (`WsConnection` has one subscriber).
- connection.ts:7 likens its outbox to the Python one, which is emptied when a
  connection ends; the TypeScript one is sent on the next socket.
- config.py:285: the directory is not synced after the rename, so a power cut may take
  back a save that was answered Ok (to a whole older document; `SavedDocument` allows
  it).
- runtime.py:291: the report of a message that cannot be serialised goes behind the
  sentinel when the driver is already ending, and is lost (`Drained` is about what
  devices said).
- telescope_device.py, `_abort`: an abort while parking leaves PARK on and Busy (section
  7); from then on motion is refused as parked until an unpark. `_park` releases the
  paddles and leaves their vectors Busy. An unpark while parking lets the slew to the
  pole go on. A guide pulse during a slew publishes Ok or Idle until the next tick.
- scripted_session.py, `slew`: a vector cached from before the goto satisfies the wait
  when it shows the destination at rest, and a goto the mount refuses leaves the
  script waiting until its timeout (`SlewTellsTheTruth` and `SlewAnswers` say when).
- ccd_device.py: COOLER_OFF before the first cooling tick leaves the cold target in
  place, and a set point equal to the present temperature is answered Ok while an older
  target keeps driving the sensor. An abort sent while a frame is rendered waits behind
  the guard, and the image is published. The frame type is said to apply to subsequent
  exposures, and applies to the one that runs. A finite SIM_SKYGLOW whose product with
  the duration overflows (ccd_device.py:375-380; an infinite one is refused on the
  wire, numbers.py:61-64) makes every attempt to render raise, tick after tick, until
  it is corrected. In `Camera` the settings alone decide it (`Unrenderable`): the
  duration that takes part in the product is data it leaves out.
- blob_receiver.py, `receive`: the wait takes any image CCD1 carries, so another
  client's exposure satisfies it (`FrameIsItsOwn` says when it is the script's).

## 9. The plan

Done: `Bridge`, `Device`, `Client`, `WsConnection`, `ConfigFile` with its abstract
specification, `StreamParser`, `Runtime`, `Mount` and `Camera` with their scripts, each
with its proofs module, in which every safety property its runs check is proved.

| next | module | what it is for | theorems worth proving |
|---|---|---|---|
| 1 | `Mirror` | the abstract promise of every mirroring part - a replica that lags and converges - refined by `Bridge`'s page and by `Device`'s client | every step of `Bridge` maps to a step of `Mirror` or a stutter |
| 2 | `Session` | `Client` and `Bridge` in one server | composition invariants |
| 3 | `Numbers` | sexagesimal parsing and formatting over bounded inputs | none (recursive data) |

## 10. Not modelled, and why

The XML codec, the JSON of the web protocol, the pydantic models, the number formats
and BLOB compression are translations of data without state or control; TLC would
evaluate them on strings for nothing, and the repository tests them over tables.
Security checks are stateless predicates evaluated before a socket is accepted. The
REST endpoints read the store. The React components render it. The command line,
settings and logging are I/O. The in-process hub is two queues, which are the FIFO
channels of `MountSession` and `CameraReceiver`. The other examples are drivers:
`Device` leaves the author's code free to do whatever they do. Of the two simulators,
the pixels, the optics and the clock are left out. PROJECT.json lists every part with
its status.

## 11. Running it

```
tlc -workers 2 -config BridgeConverge.cfg MCBridge.tla     # any .cfg, with the MC module it is for
tlapm ClientProofs.tla                                     # any *Proofs module
```
