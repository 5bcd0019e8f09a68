------------------------------- MODULE Device -------------------------------
(***************************************************************************)
(* One INDI device on the driver side (src/src/indikit/driver/device.py,   *)
(* property.py), with the runtime that serves it (runtime.py):             *)
(*                                                                         *)
(*   reader   the runtime's reader task, which hands the device one        *)
(*            message after another: a getProperties, a write to the       *)
(*            built-in CONNECTION or CONFIG_PROCESS switch, or any other   *)
(*   ticks    the tasks that run the device's @every jobs                  *)
(*   outbox   the runtime's queue of messages, and the writer task         *)
(*   client   what somebody who reads the stream from the start shows      *)
(*   newcomer what somebody shows who has begun to read it later, and has  *)
(*            kept nothing from before                                     *)
(*                                                                         *)
(* setup(), the connection hooks, on_config_loaded(), the @on_new handlers *)
(* and the @every jobs are the driver author's.  They define, set and      *)
(* delete properties in any order and through any handle they have kept,   *)
(* may await between any two of these, and end by returning or by raising: *)
(* each operation is a step of its own.                                    *)
(*                                                                         *)
(* Abstractions.  A property's elements are one number; the CONNECTION     *)
(* switch is 1 when CONNECT is on and CONFIG_PROCESS is 1 while a member   *)
(* is.  Message and log frames are left out, and so are saved elements the *)
(* vector refuses.  A request for another device changes nothing.          *)
(***************************************************************************)
EXTENDS Integers, Sequences, FiniteSets, SequencesExt

CONSTANTS
  OwnNames,       \* names of the properties the author defines
  Connection,     \* "CONNECTION"
  ConfigProcess,  \* "CONFIG_PROCESS"
  BuiltIn,        \* which of the two setup() may define
  Persisted,      \* the own names defined with persist=True, each time they are
  OnChange,       \* the own names defined with emit="on_change"
  Reader,         \* the reader task
  Ticks,          \* the periodic tasks
  WhenConnected,  \* those declared with when_connected=True
  None,           \* Python's None
  Serialize,      \* Device.serialize_dispatch
  Joins,          \* do newcomers join?
  Values,         \* the values the author gives a property
  Asked,          \* the requests the clients send
  MaxOps          \* bound: operations of the author's code in one behaviour

Names == OwnNames \cup BuiltIn
Actors == Ticks \cup {Reader}
\* A getProperties, a write to CONNECTION, a write to CONFIG_PROCESS with one of
\* its members or none, and a write to anything else.
Requests ==
  {"getProperties", "CONNECT", "DISCONNECT", "LOAD", "SAVE", "PURGE", "unselected", "other"}

ASSUME DeviceAssumption ==
  /\ IsFiniteSet(OwnNames)
  /\ Connection # ConfigProcess /\ BuiltIn \subseteq {Connection, ConfigProcess}
  /\ OwnNames \cap {Connection, ConfigProcess} = {}
  /\ Persisted \subseteq OwnNames /\ OnChange \subseteq OwnNames
  /\ Reader \notin Ticks /\ WhenConnected \subseteq Ticks
  /\ None \notin Nat /\ \A names \in SUBSET Names : None # names
  /\ None \notin [Names -> Nat \cup {None}]
  /\ None \notin [val : Nat, state : {"Idle", "Busy", "Ok", "Alert"}]
  /\ Serialize \in BOOLEAN /\ Joins \in BOOLEAN
  /\ Values \subseteq Nat /\ MaxOps \in Nat /\ Asked \subseteq Requests

VARIABLES
  (* the device *)
  handles,         \* every BoundProperty ever made, in order
  registry,        \* Device._properties: name -> index into handles
  listed,          \* the value of INDIKIT_CONFIG_PERSISTED, None while undefined
  setup_done,      \* Device._setup_done
  setup_complete,  \* Device._setup_complete
  announced,       \* the registry as it was before the running setup attempt
  (* its configuration *)
  config_values,   \* Device._config_values
  document,        \* what save_config is writing
  file,            \* the saved document, None while there is none
  (* the tasks *)
  guard,           \* Device._dispatch_lock: its holder, then those who wait
  pc,              \* where each task is
  request,         \* the message the reader is handling
  bound,           \* the handle a built-in handler took before its await
  ops,             \* operations of the author's code so far
  (* the stream *)
  outbox,          \* DriverRuntime._outbox
  view,            \* the properties the client shows
  view_listed,     \* the list of persisted properties the client shows
  late_view,       \* ... and the newcomer
  late_listed,
  (* history *)
  link,            \* did the last connection hook that returned open the link?
  kept,            \* the value a persisted property was last given
  due,             \* the values there were when the running save was asked for
  unsaid,          \* the handles whose contents are not the last thing said of their name
  informed         \* has everything been announced since the newcomer joined?

properties == <<handles, registry, listed>>
startup == <<setup_done, setup_complete, announced>>
config == <<config_values, document, file>>
tasks == <<guard, pc, request, bound, ops>>
client == <<view, view_listed, late_view, late_listed>>
history == <<link, kept, due, unsaid, informed>>
vars == <<properties, startup, config, tasks, outbox, client, history>>

-----------------------------------------------------------------------------
(* Frames, and the client that applies them.                               *)

Nothing == [n \in Names |-> None]
Registered(reg) == {n \in Names : reg[n] # None}

State == {"Idle", "Busy", "Ok", "Alert"}
Shown(h) == [val |-> h.val, state |-> h.state]
DefFrame(h) == [tag |-> "def", name |-> h.name, shows |-> Shown(h)]
SetFrame(h) == [tag |-> "set", name |-> h.name, shows |-> Shown(h)]
DelFrame(n) == [tag |-> "del", name |-> n]
\* INDIKIT_CONFIG_PERSISTED is defined, and is updated.
ListFrame(names) == [tag |-> "list", names |-> names]
RelistFrame(names) == [tag |-> "relist", names |-> names]

Frame ==
  [tag : {"def", "set"}, name : Names, shows : [val : Nat, state : State]]
    \cup [tag : {"del"}, name : Names]
    \cup [tag : {"list", "relist"}, names : SUBSET Names]

\* DriverRuntime._writer_loop.  The outbox is unbounded and FIFO and no task
\* looks at what is left in it, so the writer may as well catch up between
\* two steps of the driver.
CaughtUp == outbox = <<>>
At(where) == CaughtUp /\ pc[Reader] = where
\* A client makes nothing of an update of what has not been defined for it.
Reading(v, f) ==
  CASE f.tag = "def" -> [v EXCEPT ![f.name] = f.shows]
    [] f.tag = "set" /\ v[f.name] # None -> [v EXCEPT ![f.name] = f.shows]
    [] f.tag = "del" -> [v EXCEPT ![f.name] = None]
    [] OTHER -> v
ReadingList(names, f) ==
  IF f.tag = "list" \/ (f.tag = "relist" /\ names # None) THEN f.names ELSE names
Write ==
  LET f == Head(outbox)
  IN  /\ outbox # <<>>
      /\ outbox' = Tail(outbox)
      /\ view' = Reading(view, f) /\ view_listed' = ReadingList(view_listed, f)
      /\ late_view' = Reading(late_view, f) /\ late_listed' = ReadingList(late_listed, f)
      /\ UNCHANGED <<properties, startup, config, tasks, history>>

\* A client begins to read.  Its getProperties is one of those the reader is sent.
NewcomerJoins ==
  /\ Joins
  /\ late_view' = Nothing /\ late_listed' = None
  /\ informed' = FALSE
  /\ UNCHANGED <<properties, startup, config, tasks, outbox, view, view_listed,
                 link, kept, due, unsaid>>

-----------------------------------------------------------------------------
(* BoundProperty and the registry.                                         *)

\* Device._persisted_names
PersistedNames(hs, reg) == {n \in Registered(reg) : hs[reg[n]].persist}

\* Device._refresh_persisted: the list is an on_change property.
Relisted(hs, reg) == IF listed = None THEN None ELSE PersistedNames(hs, reg)
ListFrames(hs, reg) ==
  IF Relisted(hs, reg) = listed THEN <<>> ELSE <<RelistFrame(Relisted(hs, reg))>>

\* The registry is in the order in which the names came in, INDIKIT_CONFIG_PERSISTED's
\* among them: a name that is redefined stays where it is.
BehindList(n) == IF registry[n] = None THEN listed # None ELSE handles[registry[n]].behind
NewHandle(n, v, p, a) ==
  [name |-> n, val |-> v, state |-> "Idle", persist |-> p, retracted |-> FALSE,
   during |-> pc[a], behind |-> BehindList(n)]

\* Mutant: the list is not restated.
DefineWithoutRelisting(a, n, p) ==
  LET h == NewHandle(n, 0, p, a)
  IN  /\ handles' = Append(handles, h)
      /\ registry' = [registry EXCEPT ![n] = Len(handles) + 1]
      /\ outbox' = <<DefFrame(h)>>
      /\ UNCHANGED listed
\* Device.define: restore, announce, and then restate the list.
Define(a, n, p) ==
  LET saved == p /\ config_values[n] # None
      h == NewHandle(n, IF saved THEN config_values[n] ELSE 0, p, a)
      hs == Append(handles, h)
      reg == [registry EXCEPT ![n] = Len(hs)]
  IN  /\ handles' = hs
      /\ registry' = reg
      /\ listed' = IF p THEN Relisted(hs, reg) ELSE listed
      /\ outbox' = <<DefFrame(h)>> \o (IF p THEN ListFrames(hs, reg) ELSE <<>>)

\* BoundProperty.set: what it leaves in the vector, and whether it is said.
Assigned(i, v, s) == [handles EXCEPT ![i].val = v, ![i].state = s]
Suppressed(i, v, s) ==
  handles[i].name \in OnChange /\ Shown(handles[i]) = [val |-> v, state |-> s]
Publish(i, v, s) ==
  /\ handles' = Assigned(i, v, s)
  /\ outbox' = IF Suppressed(i, v, s) THEN <<>> ELSE <<SetFrame(Assigned(i, v, s)[i])>>
\* Mutant: a retracted handle publishes.
PublishAnyway(i, v, s) == Publish(i, v, s)
\* A retracted handle raises instead (BoundProperty._require_live).
PublishIfLive(i, v, s) ==
  IF handles[i].retracted THEN UNCHANGED <<handles, outbox>> ELSE Publish(i, v, s)

\* Device._forget for the handles gone, which are all registered: a persisted
\* property's value is captured on the way out.
Captured(gone) ==
  [n \in Names |-> IF registry[n] \in gone /\ handles[registry[n]].persist
                     THEN handles[registry[n]].val ELSE config_values[n]]
Forget(gone) == [n \in Names |-> IF registry[n] \in gone THEN None ELSE registry[n]]
Retracted(gone) ==
  [i \in DOMAIN handles |-> [handles[i] EXCEPT !.retracted = @ \/ i \in gone]]

\* Mutant: a superseded handle says that the name is gone.
DeleteByName(i) ==
  /\ handles' = Retracted({i})
  /\ registry' = Forget({i})
  /\ outbox' = <<DelFrame(handles[i].name)>>
  /\ UNCHANGED <<config_values, listed>>
\* BoundProperty.delete: only the handle that owns the name says anything.
Delete(i) ==
  LET owns == registry[handles[i].name] = i
      reg == Forget({i})
  IN  /\ handles' = Retracted({i})
      /\ registry' = reg
      /\ config_values' = Captured({i})
      /\ listed' = IF owns /\ handles[i].persist THEN Relisted(handles, reg) ELSE listed
      /\ outbox' = IF ~owns THEN <<>>
                   ELSE (IF handles[i].persist THEN ListFrames(handles, reg) ELSE <<>>)
                          \o <<DelFrame(handles[i].name)>>

\* The frames that announce some of the registered properties once more.
Announce(names) ==
  LET order == SetToSeq(names)
  IN  [k \in 1 .. Len(order) |-> DefFrame(handles[registry[order[k]]])]

\* Device.connected
Connected ==
  IF Connection \in Registered(registry) THEN handles[registry[Connection]].val = 1 ELSE TRUE

-----------------------------------------------------------------------------
(* The guard.  An asyncio.Lock is handed over in the order it was asked    *)
(* for; without serialize_dispatch there is none.                          *)

Holds(a) == Serialize => Head(guard) = a
Join(a) == guard' = IF Serialize THEN Append(guard, a) ELSE guard
Release(a, at) ==
  /\ guard' = IF Serialize THEN Tail(guard) ELSE guard
  /\ pc' = [pc EXCEPT ![a] = at]

\* The reader's handler has ended.
Done ==
  /\ Release(Reader, "idle")
  /\ request' = "none"
  /\ bound' = None
  /\ UNCHANGED ops
Goto(at) ==
  /\ pc' = [pc EXCEPT ![Reader] = at]
  /\ UNCHANGED <<guard, request, bound, ops>>

-----------------------------------------------------------------------------
(* The author's code: the operations it may perform wherever it runs.      *)

InBody(a) == pc[a] \in {"setup", "hook", "handler", "loaded", "ticking"}
Operate(a) ==
  /\ CaughtUp /\ InBody(a) /\ ops < MaxOps /\ ops' = ops + 1
  /\ UNCHANGED <<startup, document, file, guard, pc, request, bound, client,
                 link, due, informed>>

\* A redefinition leaves the handle it supersedes alive, and gives the property the
\* value last saved or captured, or its default.
DefineOwn(a, n) ==
  /\ Operate(a)
  /\ Define(a, n, n \in Persisted)
  /\ kept' = IF n \in Persisted /\ registry[n] # None
               THEN [kept EXCEPT ![n] = handles'[registry'[n]].val] ELSE kept
  /\ UNCHANGED <<config_values, unsaid>>

\* define_connection and define_config belong in setup().
DefineBuiltIn(n) ==
  /\ At("setup") /\ Operate(Reader)
  /\ n \notin Registered(registry)
  /\ Define(Reader, n, FALSE)
  /\ UNCHANGED <<config_values, kept, unsaid>>

Superseded(i) == ~handles[i].retracted /\ registry[handles[i].name] # i

\* The author sets a property through any handle that has not been retracted (one that
\* has raises).  A handle that a redefinition has superseded has a vector of its own.
Sets(a, i, v) ==
  /\ Operate(a)
  /\ handles[i].name \in OwnNames /\ ~handles[i].retracted
  /\ kept' = IF handles[i].name \in Persisted /\ ~Superseded(i)
               THEN [kept EXCEPT ![handles[i].name] = v] ELSE kept
  /\ UNCHANGED <<registry, listed, config_values>>

\* The owner of a name has been heard; or another has spoken in its name.
Heard(i) ==
  IF Superseded(i) THEN unsaid \cup ({registry[handles[i].name]} \ {None}) ELSE unsaid \ {i}

\* handle.set(...): _require_live looks at nothing but delete() through this handle.
SetOwn(a, i, v) ==
  /\ Sets(a, i, v)
  /\ Publish(i, v, handles[i].state)
  /\ unsaid' = IF outbox' = <<>> THEN unsaid ELSE Heard(i)

\* ... one of whose later elements is refused: what was assigned stays, unsaid.
SetOwnHalfway(a, i, v) ==
  /\ Sets(a, i, v)
  /\ handles' = Assigned(i, v, handles[i].state)
  /\ unsaid' = unsaid \cup {i}
  /\ UNCHANGED outbox

\* handle.delete(), through any handle the author has kept.
DeleteHandle(a, i) ==
  /\ Operate(a)
  /\ ~handles[i].retracted
  /\ Delete(i)
  /\ UNCHANGED <<kept, unsaid>>

\* An await of load_config() inside setup().
SetupLoads ==
  /\ At("setup") /\ ops < MaxOps /\ ops' = ops + 1
  /\ pc' = [pc EXCEPT ![Reader] = "setup_loading"]
  /\ UNCHANGED <<properties, startup, config, guard, request, bound, outbox, client,
                 history>>

AuthorsCode(a) ==
  \/ \E n \in OwnNames : DefineOwn(a, n)
  \/ \E i \in DOMAIN handles, v \in Values : SetOwn(a, i, v) \/ SetOwnHalfway(a, i, v)
  \/ \E i \in DOMAIN handles : DeleteHandle(a, i)

-----------------------------------------------------------------------------
(* The reader: DriverRuntime._reader_loop and _handle take one message at  *)
(* a time; an exception out of the device is reported and forgotten.       *)

Receive(r) ==
  /\ At("idle")
  /\ pc' = [pc EXCEPT ![Reader] = "queued"]
  /\ request' = r
  /\ Join(Reader)
  /\ UNCHANGED <<properties, startup, config, bound, ops, outbox, client, history>>

\* The guard is the reader's, and it looks at what it has been sent.
Begins(r) == At("queued") /\ Holds(Reader) /\ request = r

(* _dispatch_get_properties *)
\* What is defined already is not announced then.
BeginSetup ==
  /\ Begins("getProperties") /\ ~setup_done
  /\ setup_done' = TRUE
  /\ announced' = registry
  /\ informed' = (informed \/ registry = Nothing)
  /\ Goto("setup")
  /\ UNCHANGED <<properties, setup_complete, config, outbox, client, link, kept, due, unsaid>>

\* In the order of the registry.
Reannounce ==
  LET ahead == {n \in Registered(registry) : ~handles[registry[n]].behind}
  IN  /\ Begins("getProperties") /\ setup_done
      /\ outbox' = Announce(ahead) \o (IF listed = None THEN <<>> ELSE <<ListFrame(listed)>>)
                     \o Announce(Registered(registry) \ ahead)
      /\ unsaid' = {} /\ informed' = TRUE
      /\ Done
      /\ UNCHANGED <<properties, startup, config, client, link, kept, due>>

\* setup() returns, and _publish_persisted follows.
SetupReturns ==
  LET publishes == ConfigProcess \in Registered(registry) /\ listed = None
  IN  /\ At("setup")
      /\ setup_complete' = TRUE
      /\ listed' = IF publishes THEN PersistedNames(handles, registry) ELSE listed
      /\ outbox' = IF publishes THEN <<ListFrame(PersistedNames(handles, registry))>> ELSE <<>>
      /\ Done
      /\ announced' = Nothing
      /\ UNCHANGED <<handles, registry, setup_done, config, client, history>>

\* Mutant: the names tell, and not the handles.
IntroducedByName == {registry[n] : n \in {m \in Registered(registry) : announced[m] = None}}
\* Mutant: everything goes.
IntroducedAll == {registry[n] : n \in Registered(registry)}

\* _roll_back_setup: identity tells what the attempt introduced.  The list of
\* persisted properties is not defined yet, so there is nothing to restate.
Introduced == {registry[n] : n \in {m \in Registered(registry) : announced[m] # registry[m]}}
RollBack ==
  LET order == SetToSeq(Introduced)
      reg == Forget(Introduced)
  IN  /\ handles' = Retracted(Introduced)
      /\ registry' = reg
      /\ config_values' = Captured(Introduced)
      /\ outbox' = [k \in 1 .. Len(order) |-> DelFrame(handles[order[k]].name)]
                     \o Announce(Registered(reg))
      /\ unsaid' = {} /\ informed' = TRUE
      /\ UNCHANGED <<listed, document, file, client, link, kept, due>>
\* Mutant: the gate of the ticks stays shut.
SetupRaisesBehindGate ==
  /\ At("setup")
  /\ RollBack
  /\ setup_done' = FALSE
  /\ announced' = Nothing
  /\ Done
  /\ UNCHANGED setup_complete
SetupRaises ==
  /\ At("setup")
  /\ RollBack
  /\ setup_done' = FALSE
  /\ setup_complete' = TRUE
  /\ announced' = Nothing
  /\ Done

(* _on_connection_write *)
\* Mutant: the switch is Ok before the hook has run.
PressOk(n, v) ==
  /\ Publish(registry[n], v, "Ok")
  /\ bound' = registry[n]
  /\ UNCHANGED <<registry, listed, guard, request, ops>>
Press(n, v) ==
  /\ Publish(registry[n], v, "Busy")
  /\ bound' = registry[n]
  /\ UNCHANGED <<registry, listed, guard, request, ops>>

BeginConnection(r) ==
  /\ Begins(r) /\ Connection \in Registered(registry)
  /\ Press(Connection, IF r = "CONNECT" THEN 1 ELSE 0)
  /\ pc' = [pc EXCEPT ![Reader] = "hook"]
  /\ UNCHANGED <<startup, config, client, history>>

HookReturns ==
  /\ At("hook")
  /\ PublishIfLive(bound, handles[bound].val, "Ok")
  /\ link' = (request = "CONNECT")
  /\ Done
  /\ UNCHANGED <<registry, listed, startup, config, client, kept, due, unsaid, informed>>

HookRaises ==
  /\ At("hook")
  /\ PublishIfLive(bound, IF request = "CONNECT" THEN 0 ELSE 1, "Alert")
  /\ link' = (link /\ request # "CONNECT")
  /\ Done
  /\ UNCHANGED <<registry, listed, startup, config, client, kept, due, unsaid, informed>>

(* a write nobody handles here: an @on_new handler, or on_new_default *)
BeginHandler ==
  /\ \/ Begins("other")
     \/ \E r \in {"CONNECT", "DISCONNECT"} : Begins(r) /\ Connection \notin Registered(registry)
     \/ \E r \in {"LOAD", "SAVE", "PURGE", "unselected"} :
          Begins(r) /\ ConfigProcess \notin Registered(registry)
  /\ Goto("handler")
  /\ UNCHANGED <<properties, startup, config, outbox, client, history>>

HandlerEnds ==
  /\ At("handler")
  /\ Done
  /\ UNCHANGED <<properties, startup, config, outbox, client, history>>

(* _on_config_write *)
BeginConfig(r) == Begins(r) /\ ConfigProcess \in Registered(registry)

NothingSelected ==
  /\ BeginConfig("unselected")
  /\ Publish(registry[ConfigProcess], 0, "Idle")
  /\ Done
  /\ UNCHANGED <<registry, listed, startup, config, client, history>>

\* The outcome of an action: every member off, Ok or Alert.
Settle(s) == PublishIfLive(bound, 0, s)

\* save_config: the map is brought up to date and copied, then written.
Refreshed ==
  [n \in Names |-> IF n \in PersistedNames(handles, registry)
                     THEN handles[registry[n]].val ELSE config_values[n]]
BeginSave ==
  /\ BeginConfig("SAVE")
  /\ Press(ConfigProcess, 1)
  /\ config_values' = Refreshed
  /\ document' = Refreshed
  /\ due' = kept
  /\ pc' = [pc EXCEPT ![Reader] = "saving"]
  /\ UNCHANGED <<startup, file, client, link, kept, unsaid, informed>>

\* Mutant: what is written is the map itself and not a copy.
SavedLive ==
  /\ At("saving")
  /\ file' = config_values
  /\ Settle("Ok")
  /\ Done
  /\ UNCHANGED <<registry, listed, startup, config_values, document, client, history>>
\* write_document replaces the file whole or leaves it alone.
Saved ==
  /\ At("saving")
  /\ file' = document
  /\ Settle("Ok")
  /\ Done
  /\ UNCHANGED <<registry, listed, startup, config_values, document, client, history>>

BeginPurge ==
  /\ BeginConfig("PURGE")
  /\ Press(ConfigProcess, 1)
  /\ pc' = [pc EXCEPT ![Reader] = "purging"]
  /\ UNCHANGED <<startup, config, client, history>>

Purged ==
  /\ At("purging")
  /\ file' = None
  /\ Settle("Ok")
  /\ Done
  /\ UNCHANGED <<registry, listed, startup, config_values, document, client, history>>

BeginLoad ==
  /\ BeginConfig("LOAD")
  /\ Press(ConfigProcess, 1)
  /\ pc' = [pc EXCEPT ![Reader] = "loading"]
  /\ UNCHANGED <<startup, config, client, history>>

\* load_config has read the document: it goes into the map, and from there
\* into every persisted property that is defined.
InFile(n) == file # None /\ file[n] # None
Merged == [n \in Names |-> IF InFile(n) THEN file[n] ELSE config_values[n]]
Applied == {n \in PersistedNames(handles, registry) : InFile(n)}
ApplyFile ==
  LET indexes == {registry[n] : n \in Applied}
      hs == [i \in DOMAIN handles |->
              IF i \in indexes THEN [handles[i] EXCEPT !.val = file[handles[i].name]]
                               ELSE handles[i]]
      order == SetToSeq({i \in indexes :
                          ~Suppressed(i, file[handles[i].name], handles[i].state)})
  IN  /\ file # None
      /\ config_values' = Merged
      /\ handles' = hs
      /\ outbox' = [k \in 1 .. Len(order) |-> SetFrame(hs[order[k]])]
      /\ kept' = [n \in Names |-> IF n \in Persisted /\ InFile(n) THEN file[n] ELSE kept[n]]
      /\ unsaid' = unsaid \ Range(order)
      /\ UNCHANGED <<registry, listed, startup, document, file, client, link, due, informed>>

Loaded ==
  /\ At("loading") /\ ApplyFile /\ Goto("loaded")
SetupLoaded ==
  /\ At("setup_loading") /\ ApplyFile /\ Goto("setup")
\* An author who does not suppress the ConfigError lets setup() raise next.
SetupLoadFails ==
  /\ At("setup_loading") /\ Goto("setup")
  /\ UNCHANGED <<properties, startup, config, outbox, client, history>>

\* on_config_loaded() returns.
LoadedReturns ==
  /\ At("loaded")
  /\ Settle("Ok")
  /\ Done
  /\ UNCHANGED <<registry, listed, startup, config, client, history>>

\* Mutant: only a failure of the file is caught.
ConfigFailsUnreported ==
  /\ CaughtUp /\ pc[Reader] \in {"saving", "purging", "loading", "loaded"}
  /\ IF pc[Reader] = "loaded" THEN UNCHANGED <<handles, outbox>> ELSE Settle("Alert")
  /\ Done
  /\ UNCHANGED <<registry, listed, startup, config, client, history>>

\* Whatever fails - the file, the disk, on_config_loaded() - is reported alike.
ConfigFails ==
  /\ CaughtUp /\ pc[Reader] \in {"saving", "purging", "loading", "loaded"}
  /\ Settle("Alert")
  /\ Done
  /\ UNCHANGED <<registry, listed, startup, config, client, history>>

ReaderBegins ==
  \/ BeginSetup \/ Reannounce \/ BeginHandler
  \/ \E r \in {"CONNECT", "DISCONNECT"} : BeginConnection(r)
  \/ NothingSelected \/ BeginSave \/ BeginPurge \/ BeginLoad

ReaderEnds ==
  \/ SetupReturns \/ SetupRaises \/ HookReturns \/ HookRaises \/ HandlerEnds
  \/ Saved \/ Purged \/ Loaded \/ SetupLoaded \/ SetupLoadFails \/ LoadedReturns \/ ConfigFails

-----------------------------------------------------------------------------
(* The ticks: DriverRuntime._run_periodic and _tick.                       *)

TickGate(t) ==
  /\ pc[t] = "gated" /\ setup_complete
  /\ pc' = [pc EXCEPT ![t] = "sleeping"]
  /\ UNCHANGED <<guard, request, bound, ops>>

\* The interval is over: unless it is skipped, the tick takes the guard or
\* waits its turn.
TickWake(t) ==
  /\ pc[t] = "sleeping"
  /\ t \in WhenConnected => Connected
  /\ pc' = [pc EXCEPT ![t] = IF ~Serialize \/ guard = <<>> THEN "ticking" ELSE "queued"]
  /\ Join(t)
  /\ UNCHANGED <<request, bound, ops>>

TickBegins(t) ==
  /\ pc[t] = "queued" /\ Holds(t)
  /\ pc' = [pc EXCEPT ![t] = "ticking"]
  /\ UNCHANGED <<guard, request, bound, ops>>

\* The job returns or raises: a failure is reported, and there is a next time.
TickEnds(t) ==
  /\ pc[t] = "ticking"
  /\ Release(t, "sleeping")
  /\ UNCHANGED <<request, bound, ops>>

Tick(t) ==
  /\ TickGate(t) \/ TickWake(t) \/ TickBegins(t) \/ TickEnds(t)
  /\ UNCHANGED <<properties, startup, config, outbox, client, history>>

-----------------------------------------------------------------------------
\* A configuration saved by an earlier run of the driver, if there is one.
Documents == {[n \in Names |-> IF n \in saved THEN 1 ELSE None] : saved \in SUBSET Persisted}

Init ==
  /\ handles = <<>> /\ registry = Nothing /\ listed = None
  /\ setup_done = FALSE /\ setup_complete = FALSE /\ announced = Nothing
  /\ config_values = Nothing /\ document = Nothing /\ file \in Documents \cup {None}
  /\ guard = <<>> /\ request = "none" /\ bound = None /\ ops = 0
  /\ pc = [a \in Actors |-> IF a = Reader THEN "idle" ELSE "gated"]
  /\ outbox = <<>> /\ view = Nothing /\ view_listed = None
  /\ late_view = Nothing /\ late_listed = None /\ informed = TRUE
  /\ link = FALSE /\ kept = Nothing /\ due = Nothing /\ unsaid = {}

Driver ==
  \/ \E r \in Asked : Receive(r)
  \/ ReaderBegins \/ ReaderEnds
  \/ \E t \in Ticks : Tick(t)
  \/ \E a \in Actors : AuthorsCode(a)
  \/ \E n \in BuiltIn : DefineBuiltIn(n)
  \/ SetupLoads

Next == Write \/ NewcomerJoins \/ Driver

Spec == Init /\ [][Next]_vars

\* The event loop runs every ready task, threads and the author's code come to
\* an end, and a sleep ends.
Fairness ==
  /\ WF_vars(Write)
  /\ WF_vars(ReaderBegins) /\ WF_vars(ReaderEnds)
  /\ \A t \in Ticks : WF_vars(Tick(t))

FairSpec == Spec /\ Fairness

-----------------------------------------------------------------------------
(* Type invariant.                                                         *)

Handle ==
  [name : Names, val : Nat, state : State, persist : BOOLEAN, retracted : BOOLEAN,
   during : {"setup", "hook", "handler", "loaded", "ticking"}, behind : BOOLEAN]
Dict == [Names -> Nat \cup {None}]

TypeOK ==
  /\ handles \in Seq(Handle)
  /\ registry \in [Names -> DOMAIN handles \cup {None}]
  /\ listed \in (SUBSET Names) \cup {None}
  /\ setup_done \in BOOLEAN /\ setup_complete \in BOOLEAN
  /\ announced \in [Names -> DOMAIN handles \cup {None}]
  /\ config_values \in Dict /\ document \in Dict /\ file \in Dict \cup {None}
  /\ guard \in Seq(Actors)
  /\ pc \in [Actors -> {"idle", "queued", "setup", "setup_loading", "hook", "handler",
                        "saving", "purging", "loading", "loaded",
                        "gated", "sleeping", "ticking"}]
  /\ request \in Requests \cup {"none"}
  /\ bound \in DOMAIN handles \cup {None}
  /\ ops \in Nat
  /\ outbox \in Seq(Frame)
  /\ view \in [Names -> [val : Nat, state : State] \cup {None}]
  /\ view_listed \in (SUBSET Names) \cup {None}
  /\ late_view \in [Names -> [val : Nat, state : State] \cup {None}]
  /\ late_listed \in (SUBSET Names) \cup {None}
  /\ link \in BOOLEAN
  /\ kept \in Dict /\ due \in Dict
  /\ unsaid \subseteq DOMAIN handles
  /\ informed \in BOOLEAN

-----------------------------------------------------------------------------
(* Properties of the stream.                                               *)

\* Once it has read everything, a client shows exactly the properties the
\* device has, with the values and states they have: through definitions,
\* retractions, failed setups and restored configurations.  The exceptions are
\* what a set that raised halfway assigned, and what a superseded handle has said
\* in the name of its successor; the owner's next update mends both.
MirroredFromTheStart ==
  /\ \A n \in Names :
       /\ view[n] = None <=> registry[n] = None
       /\ registry[n] # None /\ registry[n] \notin unsaid =>
            view[n] = Shown(handles[registry[n]])
  /\ view_listed = listed

\* ... and a client that joined later shows the same, once a getProperties has been
\* answered with what there was (_dispatch_get_properties: "a late-joining client").
ClientMirrorsDevice ==
  CaughtUp =>
    /\ MirroredFromTheStart
    /\ informed => late_view = view /\ late_listed = view_listed

\* BoundProperty.delete: no update is published for something the client has
\* been told no longer exists - but through a handle that a redefinition had
\* superseded and that nobody has deleted.
NoUpdateAfterRetraction ==
  outbox # <<>> /\ Head(outbox).tag = "set" =>
    \/ view[Head(outbox).name] # None
    \/ \E i \in DOMAIN handles :
         /\ handles[i].name = Head(outbox).name /\ Superseded(i)
         /\ Shown(handles[i]) = Head(outbox).shows

\* _require_live: "Refuse to publish through a handle whose property has been retracted."
\* The code does otherwise (README, section 7): no configuration checks this.
RetractionIsFinal ==
  outbox # <<>> /\ Head(outbox).tag = "set" => view[Head(outbox).name] # None

\* Device._forget: "a client never holds a list that claims Save covers a
\* property it cannot see", not even between two frames.
ListIsVisible ==
  view_listed # None => \A n \in view_listed : view[n] # None

\* define_config: the list names the persisted properties, and is "updated
\* whenever the membership really changes".
ListIsExact == listed # None => listed = PersistedNames(handles, registry)

\* The list of persisted properties is never ahead of what one who has read from the
\* start can see, nor behind what the device has.  (For one who joined later it is the
\* same as soon as the announcement has been read: ClientMirrorsDevice.)
ListIsTrue == ListIsVisible /\ ListIsExact

\* define: "the list never names a property the client has not been told about yet".
\* The code does otherwise for a newcomer (README, section 7): no configuration checks this.
NewcomerCanSeeItsList ==
  late_listed # None => \A n \in late_listed : late_view[n] # None

-----------------------------------------------------------------------------
(* Properties of setup.                                                    *)

\* "The failed attempt leaves nothing behind": until an attempt succeeds, the
\* only properties the device has are those defined outside setup().
FailedAttemptLeavesNoProperty ==
  ~setup_done => \A n \in Registered(registry) : handles[registry[n]].during # "setup"

\* "What rolls back is what the attempt defined": not what a tick did.
OthersDefinitionsSurvive ==
  [][SetupRaises =>
       \A n \in Registered(registry) :
         handles[registry[n]].during # "setup" =>
           registry'[n] = registry[n] /\ ~handles'[registry[n]].retracted]_vars

\* The roll-back of a failed setup takes back what the attempt defined and nothing else of
\* what there is.  Without serialize_dispatch the code does otherwise (README, section 7).
FailedAttemptUndone == []FailedAttemptLeavesNoProperty /\ OthersDefinitionsSurvive

\* "A property defined outside setup(), by an @every job that got in first, must survive
\* a failed attempt whether or not the attempt happened to redefine its name."
\* The code does otherwise (README, section 7): no configuration checks this.
FirstComersSurvive ==
  [][SetupRaises =>
       \A n \in Registered(announced) :
         ~handles[announced[n]].retracted => registry'[n] = announced[n]]_vars

-----------------------------------------------------------------------------
(* Properties of the built-in switches.                                    *)

\* A settled CONNECTION switch says what the last hook that returned did.
OkMeansLinked ==
  Connection \in Registered(registry) =>
    LET h == handles[registry[Connection]]
    IN  h.state = "Ok" => (h.val = 1 <=> link)

\* "The device never sits claiming a link it does not have."
\* The code does otherwise (README, section 7): no configuration checks this.
NeverClaimsMissingLink ==
  Connection \in Registered(registry) =>
    LET h == handles[registry[Connection]]
    IN  h.val = 1 /\ h.state # "Busy" => link

\* No switch is left Busy and no CONFIG_PROCESS button stuck in its pressed
\* position when the reader is done with the request, however it went.
NothingStuckBusy ==
  pc[Reader] \in {"idle", "queued"} =>
    /\ \A n \in Registered(registry) : handles[registry[n]].state # "Busy"
    /\ ConfigProcess \in Registered(registry) => handles[registry[ConfigProcess]].val = 0

-----------------------------------------------------------------------------
(* Properties of the guard.                                                *)

Inside(a) == pc[a] \notin {"idle", "gated", "sleeping", "queued"}

\* serialize_dispatch: a tick and a handler are mutually excluded over their
\* whole length, awaits included.
OneAtATime == Serialize => \A a, b \in Actors : Inside(a) /\ Inside(b) => a = b

\* Every request is dealt with, whatever the ticks do.
RequestsAreServed == pc[Reader] = "queued" ~> pc[Reader] = "idle"

\* The @every gate is released by the first attempt, failed or not, and no
\* number of requests keeps a tick from running.
TicksRun ==
  \A t \in Ticks \ WhenConnected : pc[Reader] = "setup" ~> pc[t] = "ticking"

\* Neither the requests nor the ticks of a device can starve the other at its
\* guard, and a failed setup holds up neither.
GuardIsFair == RequestsAreServed /\ TicksRun

-----------------------------------------------------------------------------
(* Properties of the configuration.                                        *)

\* A persisted property comes back with the value it was last given, by a set through
\* the handle that owns it, by a load or by a redefinition, whether it is defined at the
\* moment or withdrawn.
ValuesSurvive ==
  \A n \in Persisted :
    kept[n] # None =>
      (IF registry[n] = None THEN config_values[n] ELSE handles[registry[n]].val) = kept[n]

\* What a Save has written is the value every persisted property had when it was asked
\* for, those withdrawn at the moment too, whatever ran while it was written.
SaveIsComplete ==
  [][Saved => \A n \in Persisted : due[n] # None => file'[n] = due[n]]_vars

\* No value given to a persisted property is lost by a withdrawal, a failed setup or a
\* load, and a save has them all as of one moment.  (A redefinition of a property that is
\* defined gives it another value: README, section 8.)
ConfigurationKept == [][ValuesSurvive']_vars /\ SaveIsComplete

=============================================================================
