------------------------------- MODULE Client -------------------------------
(***************************************************************************)
(* IndiClient (src/src/indikit/client/client.py), the reconnecting client  *)
(* of an indiserver, as asyncio tasks that run until their next await:     *)
(*                                                                         *)
(*   the loop    _connection_loop: connect, greet, tell the subscribers,   *)
(*               read until the connection ends, release it, sleep, again  *)
(*   the writer  _writer_loop: one task per connection                     *)
(*   callers     of send, enable_blob and wait_for                         *)
(*   one caller  of start and aclose                                       *)
(*                                                                         *)
(* Abstractions.  The cache is one property with one value, a predicate    *)
(* asks for a value, and a chunk is one message.  A message carries the    *)
(* number of the connection that was up when it was queued, which the code *)
(* does not do.  Statistics, message subscribers and the parser's inside   *)
(* are left out: a stalled parser ends the connection like an EOF.         *)
(***************************************************************************)
EXTENDS Integers, Sequences, FiniteSets, SequencesExt

CONSTANTS
  Keys,         \* what a BLOB policy is recorded under: a device, a property
  Policies,     \* the BLOB policies
  Waiters,      \* the coroutines that call wait_for
  Values,       \* the values of the property
  None,         \* Python's None
  MaxOutbox,    \* _OUTBOX_MAXSIZE
  MaxConnects,  \* bound: connections in one behaviour
  MaxSends      \* bound: calls of send and enable_blob in one behaviour

\* The messages a client sends, with the connection they were queued on.
Message ==
  [tag : {"getProperties", "new"}, on : Nat]
    \cup [tag : {"enableBLOB"}, key : Keys, policy : Policies, on : Nat]

\* "One message plus one per recorded BLOB policy" is what the outbox has room for.
ASSUME ClientAssumption ==
  /\ MaxOutbox \in Nat /\ MaxConnects \in Nat /\ MaxSends \in Nat
  /\ IsFiniteSet(Keys) /\ Cardinality(Keys) < MaxOutbox
  /\ None \notin Policies /\ None \notin Values /\ None \notin Message

VARIABLES
  (* the client *)
  loop,          \* where the connection loop is suspended
  cancelled,     \* is a CancelledError on its way to it?
  unwinding,     \* is it on its way out?
  phase,         \* of aclose: "open", "closing" (it awaits the loop), "closed"
  connected,     \* IndiClient._connected
  outbox,        \* IndiClient._outbox
  writer,        \* the writer task
  writing,       \* the message it has taken
  policies,      \* IndiClient._blob_policies
  (* the cache and those who wait for it *)
  store,         \* the property's value, None while it is not defined
  waiting,       \* where each wait_for is
  want,          \* what its predicate asks for
  uncalled,      \* the waiters whose callback this event has still to reach
  (* the connection *)
  conn,          \* connections made, IndiClient._connections
  wire,          \* the last message written on the current connection
  in_force,      \* the BLOB policies its server has been sent
  (* history *)
  sends,         \* calls of send and enable_blob
  asked,         \* the last policy the application asked for
  refused        \* the keys whose last policy found the outbox full

tasks == <<loop, cancelled, unwinding, phase>>
link == <<connected, outbox, writer, writing, policies>>
cache == <<store, waiting, want, uncalled>>
socket == <<conn, wire, in_force>>
history == <<sends, asked, refused>>
vars == <<tasks, link, cache, socket, history>>

-----------------------------------------------------------------------------
(* Messages.                                                               *)

New == [tag |-> "new", on |-> conn]
EnableBlob(k, p, c) == [tag |-> "enableBLOB", key |-> k, policy |-> p, on |-> c]

Recorded == {k \in Keys : policies[k] # None}

\* _enqueue_handshake: what connection c begins with.  The order is that of a
\* dict, which is as good as any.
Handshake(order, c) ==
  <<[tag |-> "getProperties", on |-> c]>>
    \o [i \in DOMAIN order |-> EnableBlob(order[i], policies[order[i]], c)]

-----------------------------------------------------------------------------
(* The connection loop.  A step runs from one await to the next, so none is *)
(* taken while a cancellation is on its way.                               *)

At(where) == loop = where /\ ~cancelled
Goto(where) == loop' = where /\ UNCHANGED <<cancelled, phase>>

\* start()
Start ==
  /\ loop = "unstarted" /\ phase = "open"
  /\ Goto("connecting")
  /\ UNCHANGED <<unwinding, link, cache, socket, history>>

\* An OSError or a timeout is tried again; anything else ends the loop.
ConnectFails ==
  /\ At("connecting")
  /\ Goto("sleeping") \/ Goto("done")
  /\ UNCHANGED <<unwinding, link, cache, socket, history>>

\* The connection is up; the handshake is queued before anybody else can run.
Connects(order) ==
  /\ At("connecting") /\ conn < MaxConnects
  /\ connected' = TRUE
  /\ conn' = conn + 1
  /\ wire' = None
  /\ in_force' = [k \in Keys |-> None]
  /\ refused' = {}
  /\ outbox' = outbox \o Handshake(order, conn + 1)
  /\ Goto("announcing")
  /\ UNCHANGED <<unwinding, writer, writing, policies, cache, sends, asked>>

\* Every on_connection subscriber has been told True; _run_connection.
Announced ==
  /\ At("announcing")
  /\ Goto("reading")
  /\ writer' = "idle"
  /\ UNCHANGED <<unwinding, connected, outbox, writing, policies, cache, socket, history>>

\* _reader_loop, _handle: one message is folded into the store, and its
\* subscribers are called in turn, any of which may await.
Receive(v) ==
  /\ At("reading")
  /\ store' = v
  /\ uncalled' = {w \in Waiters : waiting[w] = "parked"}
  /\ Goto("dispatching")
  /\ UNCHANGED <<unwinding, link, waiting, want, socket, history>>

\* wait_for's on_event
CallWaiter(w) ==
  /\ At("dispatching") /\ w \in uncalled
  /\ uncalled' = uncalled \ {w}
  /\ waiting' = [waiting EXCEPT ![w] = IF store = want[w] THEN "matched" ELSE @]
  /\ UNCHANGED <<tasks, link, store, want, socket, history>>

Dispatched ==
  /\ At("dispatching") /\ uncalled = {}
  /\ Goto("reading")
  /\ UNCHANGED <<unwinding, link, cache, socket, history>>

\* EOF, an OSError or a stalled parser ends the connection; anything else ends
\* the loop with it.  The writer is cancelled and awaited.
ReadEnds ==
  /\ At("reading")
  /\ unwinding' \in BOOLEAN
  /\ Goto("stopping")
  /\ UNCHANGED <<link, cache, socket, history>>

\* Mutant: what is queued is left for the next connection.
DropsLinkUndrained ==
  /\ connected' = FALSE
  /\ writer' = "none" /\ writing' = None
  /\ UNCHANGED <<outbox, policies>>
\* The writer is gone and the finally of _connection_loop runs to its close().
DropsLink ==
  /\ connected' = FALSE
  /\ outbox' = <<>>
  /\ writer' = "none" /\ writing' = None
  /\ UNCHANGED policies

Stopped ==
  /\ At("stopping")
  /\ DropsLink
  /\ Goto("closing")
  /\ UNCHANGED <<unwinding, cache, socket, history>>

\* The socket is closed; the subscribers are told False.
Closed ==
  /\ At("closing")
  /\ Goto("unannouncing")
  /\ UNCHANGED <<unwinding, link, cache, socket, history>>

Unannounced ==
  /\ At("unannouncing")
  /\ Goto(IF unwinding \/ phase # "open" THEN "done" ELSE "sleeping")
  /\ UNCHANGED <<unwinding, link, cache, socket, history>>

Slept ==
  /\ At("sleeping")
  /\ Goto("connecting")
  /\ UNCHANGED <<unwinding, link, cache, socket, history>>

(* A CancelledError comes up at the await the loop is suspended in.        *)

\* Outside the try block, or at one of its finally's own awaits.
CancelEnds ==
  /\ cancelled /\ loop \in {"connecting", "announcing", "closing", "unannouncing", "sleeping"}
  /\ loop' = "done"
  /\ cancelled' = FALSE
  /\ UNCHANGED <<unwinding, phase, link, cache, socket, history>>

\* In the reader, or in a subscriber it is calling.
CancelReader ==
  /\ cancelled /\ loop \in {"reading", "dispatching"}
  /\ loop' = "stopping"
  /\ cancelled' = FALSE
  /\ unwinding' = TRUE
  /\ uncalled' = {}
  /\ UNCHANGED <<phase, link, store, waiting, want, socket, history>>

\* While the writer is awaited.
CancelStopping ==
  /\ cancelled /\ loop = "stopping"
  /\ DropsLink
  /\ loop' = "closing"
  /\ cancelled' = FALSE
  /\ unwinding' = TRUE
  /\ UNCHANGED <<phase, cache, socket, history>>

Loop ==
  \/ ConnectFails \/ Announced
  \/ \E order \in SetToSeqs(Recorded) : Connects(order)
  \/ \E v \in Values \cup {None} : Receive(v)
  \/ \E w \in Waiters : CallWaiter(w)
  \/ Dispatched \/ ReadEnds \/ Stopped \/ Closed \/ Unannounced \/ Slept
  \/ CancelEnds \/ CancelReader \/ CancelStopping

-----------------------------------------------------------------------------
(* The writer.                                                             *)

Take ==
  /\ writer = "idle" /\ loop \in {"reading", "dispatching"} /\ outbox # <<>>
  /\ writing' = Head(outbox)
  /\ outbox' = Tail(outbox)
  /\ writer' = "writing"
  /\ UNCHANGED <<tasks, connected, policies, cache, socket, history>>

Write ==
  /\ writer = "writing" /\ loop \in {"reading", "dispatching"}
  /\ wire' = writing
  /\ in_force' = IF writing.tag = "enableBLOB"
                   THEN [in_force EXCEPT ![writing.key] = writing.policy] ELSE in_force
  /\ writer' = "idle" /\ writing' = None
  /\ UNCHANGED <<tasks, connected, outbox, policies, cache, conn, history>>

\* to_xml or the write raises: the task is dead, and nobody looks at it before
\* the connection ends.
WriterDies ==
  /\ writer = "writing" /\ loop \in {"reading", "dispatching"}
  /\ writer' = "dead" /\ writing' = None
  /\ UNCHANGED <<tasks, connected, outbox, policies, cache, socket, history>>

-----------------------------------------------------------------------------
(* The callers.                                                            *)

HasRoom == Len(outbox) < MaxOutbox
Enqueue(m) == outbox' = IF connected /\ HasRoom THEN Append(outbox, m) ELSE outbox

\* send(): without a connection, or without room, it raises.
Send ==
  /\ sends < MaxSends /\ sends' = sends + 1
  /\ Enqueue(New)
  /\ UNCHANGED <<tasks, connected, writer, writing, policies, cache, socket, asked, refused>>

\* enable_blob(): the policy is recorded even when the send fails.
\* Mutant: it is recorded only when there is a connection.
RecordWhileConnected(k, p) ==
  policies' = IF connected THEN [policies EXCEPT ![k] = p] ELSE policies
Record(k, p) == policies' = [policies EXCEPT ![k] = p]

EnableBLOB(k, p) ==
  /\ sends < MaxSends /\ sends' = sends + 1
  /\ Record(k, p)
  /\ Enqueue(EnableBlob(k, p, conn))
  /\ asked' = [asked EXCEPT ![k] = p]
  /\ refused' = IF connected /\ ~HasRoom THEN refused \cup {k} ELSE refused \ {k}
  /\ UNCHANGED <<tasks, connected, writer, writing, cache, socket>>

\* Mutant: only what comes in later is looked at.
WaitForTheNext(w, v) ==
  /\ waiting[w] = "out"
  /\ want' = [want EXCEPT ![w] = v]
  /\ waiting' = [waiting EXCEPT ![w] = "parked"]
  /\ UNCHANGED <<tasks, link, store, uncalled, socket, history>>
\* wait_for(): it returns at once, or parks on a future.
WaitFor(w, v) ==
  /\ waiting[w] = "out"
  /\ want' = [want EXCEPT ![w] = v]
  /\ waiting' = [waiting EXCEPT ![w] = IF store = v THEN "matched" ELSE "parked"]
  /\ UNCHANGED <<tasks, link, store, uncalled, socket, history>>

\* It returns, it raises NotConnectedError, or its timeout elapses first.
WaitEnds(w) ==
  /\ waiting[w] # "out"
  /\ waiting' = [waiting EXCEPT ![w] = "out"]
  /\ want' = [want EXCEPT ![w] = None]
  /\ uncalled' = uncalled \ {w}
  /\ UNCHANGED <<tasks, link, store, socket, history>>

(* aclose(): the loop is cancelled and awaited, then the waiters are failed. *)
Aclose ==
  /\ phase = "open"
  /\ phase' = "closing"
  /\ cancelled' = (loop \notin {"unstarted", "done"})
  /\ UNCHANGED <<loop, unwinding, link, cache, socket, history>>

\* Mutant: it leaves the waiters alone.
AcloseEndsAlone ==
  /\ phase = "closing" /\ loop \in {"unstarted", "done"}
  /\ phase' = "closed"
  /\ UNCHANGED <<loop, cancelled, unwinding, link, cache, socket, history>>
AcloseEnds ==
  /\ phase = "closing" /\ loop \in {"unstarted", "done"}
  /\ phase' = "closed"
  /\ waiting' = [w \in Waiters |-> IF waiting[w] = "parked" THEN "failed" ELSE waiting[w]]
  /\ UNCHANGED <<loop, cancelled, unwinding, link, store, want, uncalled, socket, history>>

-----------------------------------------------------------------------------
Init ==
  /\ loop = "unstarted" /\ cancelled = FALSE /\ unwinding = FALSE /\ phase = "open"
  /\ connected = FALSE /\ outbox = <<>> /\ writer = "none" /\ writing = None
  /\ policies = [k \in Keys |-> None]
  /\ store = None /\ uncalled = {}
  /\ waiting = [w \in Waiters |-> "out"] /\ want = [w \in Waiters |-> None]
  /\ conn = 0 /\ wire = None /\ in_force = [k \in Keys |-> None]
  /\ sends = 0 /\ asked = [k \in Keys |-> None] /\ refused = {}

Next ==
  \/ Start \/ Loop \/ Aclose \/ AcloseEnds
  \/ Take \/ Write \/ WriterDies
  \/ Send
  \/ \E k \in Keys, p \in Policies : EnableBLOB(k, p)
  \/ \E w \in Waiters : WaitEnds(w) \/ \E v \in Values : WaitFor(w, v)

Spec == Init /\ [][Next]_vars

\* The event loop runs every ready task, close() and the subscribers return.
FairSpec == Spec /\ WF_vars(Loop) /\ WF_vars(AcloseEnds)

-----------------------------------------------------------------------------
(* Type invariant.                                                         *)

TypeOK ==
  /\ loop \in {"unstarted", "connecting", "announcing", "reading", "dispatching",
               "stopping", "closing", "unannouncing", "sleeping", "done"}
  /\ cancelled \in BOOLEAN /\ unwinding \in BOOLEAN
  /\ phase \in {"open", "closing", "closed"}
  /\ connected \in BOOLEAN
  /\ outbox \in Seq(Message) /\ Len(outbox) <= MaxOutbox
  /\ writer \in {"none", "idle", "writing", "dead"}
  /\ writing \in Message \cup {None} /\ (writing # None <=> writer = "writing")
  /\ policies \in [Keys -> Policies \cup {None}]
  /\ store \in Values \cup {None}
  /\ waiting \in [Waiters -> {"out", "parked", "matched", "failed"}]
  /\ want \in [Waiters -> Values \cup {None}]
  /\ uncalled \subseteq Waiters
  /\ conn \in Nat
  /\ wire \in Message \cup {None}
  /\ in_force \in [Keys -> Policies \cup {None}]
  /\ sends \in Nat
  /\ asked \in [Keys -> Policies \cup {None}]
  /\ refused \subseteq Keys

-----------------------------------------------------------------------------
(* Properties.                                                             *)

\* send(): "a command queued while indiserver is down" never reaches a later
\* connection, and nor does one queued on an earlier connection: whatever is
\* written was queued while the connection it is written on was up.
NothingOutlivesItsConnection ==
  /\ wire # None => wire.on = conn
  /\ writing # None => writing.on = conn
  /\ \A i \in DOMAIN outbox : outbox[i].on = conn

\* Every connection is greeted: the first thing a server is sent is a
\* getProperties, whatever the application sends while its subscribers are
\* still being told of the connection.
GreetedFirst == [][wire = None /\ wire' # None => wire'.tag = "getProperties"]_wire

\* enable_blob(): with the outbox written out, the server of every connection
\* holds the policy last asked for, on whichever connection or none that was,
\* unless asking found the outbox of this connection full.
PoliciesInForce ==
  loop = "reading" /\ writer = "idle" /\ outbox = <<>> =>
    \A k \in Keys \ refused : in_force[k] = asked[k]

\* wait_for(): while the client is open, nobody is parked on a value the cache
\* already holds, although other subscribers may suspend between the store and
\* the waiter, connections come and go, and a wait may begin in between.
NoWaiterMissed ==
  phase = "open" /\ loop # "dispatching" =>
    \A w \in Waiters : waiting[w] = "parked" => store # want[w]

\* aclose(): every wait still parked is resolved, wherever the loop was.
CloseAnswers ==
  \A w \in Waiters : phase = "closing" /\ waiting[w] = "parked" ~> waiting[w] # "parked"

\* "A closed client has no connection, and says so instead of swallowing a write."
\* The code does otherwise (README, section 7): no configuration checks this.
ClosedClientRefuses == phase = "closed" => ~connected

\* "Every send routes through here, so every one of them either reaches a live
\* connection or raises": none is accepted that no writer is there to write.
\* The code does otherwise (README, section 7): no configuration checks this.
AcceptedIsServed ==
  [][Len(outbox') > Len(outbox) /\ loop = "reading" => writer # "dead"]_vars

=============================================================================
