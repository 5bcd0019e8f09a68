---------------------------- MODULE DeviceProofs ----------------------------
(***************************************************************************)
(* Proofs about Device, for any names, ticks, requests, values and bounds.*)
(*                                                                       *)
(* Everything is a consequence of one inductive invariant, DeviceInv, of *)
(* seven parts:                                                          *)
(*                                                                       *)
(*   TypeOK         the types                                            *)
(*   GuardInv       the queue at the guard is in order                   *)
(*   HandlesSound   the registry holds live handles under their own names*)
(*   AttemptSound   what is known of a running attempt at setup()        *)
(*   SwitchesSound  what a built-in handler holds across its await, and  *)
(*                  what the built-in switches say meanwhile             *)
(*   StreamSound    every frame in the outbox is true of the device as it*)
(*                  is, but an update through a superseded handle; and   *)
(*                  what no frame speaks of is shown as it is            *)
(*   NewcomerSound  the same of a client that has joined late            *)
(*                                                                       *)
(* A step is looked at twice.  What it does to the properties and to the *)
(* stream falls into eleven classes, whoever takes it (StepIs): there is *)
(* one lemma per class for the handles and one for the stream.  What it  *)
(* does to the tasks, to setup() and to the switches is taken action by  *)
(* action.                                                               *)
(***************************************************************************)
EXTENDS Device, FiniteSetTheorems, SequenceTheorems, TLAPS

-----------------------------------------------------------------------------
(* The guard.                                                            *)

Outside == {"idle", "gated", "sleeping"}

\* What is known of the guard's queue: an actor stands in it once, from the
\* moment it asks for the guard until it gives it back, and whoever is inside
\* stands first.
GuardType ==
  /\ guard \in Seq(Actors)
  /\ pc \in [Actors -> Outside \cup {"queued", "setup", "setup_loading", "hook", "handler",
                                     "saving", "purging", "loading", "loaded", "ticking"}]
  /\ pc[Reader] \notin {"gated", "sleeping", "ticking"}
  /\ \A t \in Ticks : pc[t] \in {"gated", "sleeping", "queued", "ticking"}

Queue ==
  Serialize =>
    /\ \A i, j \in DOMAIN guard : guard[i] = guard[j] => i = j
    /\ \A a \in Actors : pc[a] \notin Outside <=> \E i \in DOMAIN guard : guard[i] = a
    /\ \A a \in Actors : Inside(a) => guard # <<>> /\ guard[1] = a

GuardInv == GuardType /\ Queue

\* A place further back, taken by an actor that stood outside.
LEMMA JoinKeeps ==
  ASSUME GuardInv, NEW a \in Actors, pc[a] \in Outside, Join(a),
         NEW s \in {"queued", "ticking"}, pc' = [pc EXCEPT ![a] = s],
         a = Reader => s = "queued",
         s = "ticking" => ~Serialize \/ guard = <<>>
  PROVE  GuardInv'
<1> USE DEF GuardInv, GuardType, Queue, Inside, Outside, Join
<1>1. CASE ~Serialize
  BY <1>1 DEF Actors
<1>2. CASE Serialize
  <2> DEFINE last == Len(guard) + 1
  <2>1. /\ guard' = Append(guard, a) /\ guard' \in Seq(Actors)
        /\ Len(guard) \in Nat /\ DOMAIN guard = 1 .. Len(guard)
        /\ DOMAIN guard' = 1 .. last /\ guard'[last] = a
        /\ \A i \in 1 .. Len(guard) : guard'[i] = guard[i]
    BY <1>2, AppendProperties, LenProperties
  <2>2. /\ last \in DOMAIN guard' /\ last \notin DOMAIN guard
        /\ \A i \in DOMAIN guard' : i = last \/ i \in DOMAIN guard
        /\ DOMAIN guard \subseteq DOMAIN guard'
    BY <2>1
  <2>3. guard' # <<>>
    BY <2>1, EmptySeq, LenProperties
  <2>4. guard = <<>> => last = 1
    BY <2>1
  <2>5. guard # <<>> => 1 \in DOMAIN guard
    BY <2>1, EmptySeq
  <2> HIDE DEF last
  <2>6. \A i \in DOMAIN guard : guard[i] # a
    BY <1>2
  <2>7. \A i, j \in DOMAIN guard' : guard'[i] = guard'[j] => i = j
    BY <1>2, <2>1, <2>2, <2>6
  <2>8. \A b \in Actors : pc'[b] \notin Outside <=> \E i \in DOMAIN guard' : guard'[i] = b
    <3> TAKE b \in Actors
    <3>1. CASE b = a
      BY <2>1, <2>2, <3>1
    <3>2. CASE b # a
      BY <1>2, <2>1, <2>2, <3>2
    <3> QED BY <3>1, <3>2
  <2>9. \A b \in Actors : Inside(b)' => guard' # <<>> /\ guard'[1] = b
    <3> SUFFICES ASSUME NEW b \in Actors, Inside(b)'  PROVE guard'[1] = b
      BY <2>3
    <3>1. CASE b = a
      BY <1>2, <2>1, <2>4, <3>1
    <3>2. CASE b # a
      BY <1>2, <2>1, <2>2, <2>5, <3>2
    <3> QED BY <3>1, <3>2
  <2>10. GuardType'
    BY <2>1 DEF Actors
  <2> QED BY <2>7, <2>8, <2>9, <2>10
<1> QED BY <1>1, <1>2

\* The one who stands first moves on inside.
LEMMA MoveKeeps ==
  ASSUME GuardInv, NEW a \in Actors, Holds(a), pc[a] \notin Outside, guard' = guard,
         NEW s \in {"setup", "setup_loading", "hook", "handler", "saving", "purging", "loading",
                    "loaded", "ticking"},
         pc' = [pc EXCEPT ![a] = s], s = "ticking" <=> a # Reader
  PROVE  GuardInv'
<1> USE DEF GuardInv, GuardType, Queue, Inside, Outside
<1>1. GuardType'
  BY DeviceAssumption DEF Actors
<1>2. CASE ~Serialize
  BY <1>1, <1>2
<1>3. CASE Serialize
  <2>1. PICK i \in DOMAIN guard : guard[i] = a
    BY <1>3
  <2>2. guard # <<>> /\ guard[1] = a
    BY <1>3, <2>1, EmptySeq, LenProperties DEF Holds
  <2>3. \A b \in Actors : pc'[b] \notin Outside <=> pc[b] \notin Outside
    BY DEF Actors
  <2>4. \A b \in Actors : Inside(b)' => guard'[1] = b
    <3> SUFFICES ASSUME NEW b \in Actors, Inside(b)'  PROVE guard'[1] = b
      OBVIOUS
    <3>1. CASE b = a
      BY <2>2, <3>1
    <3>2. CASE b # a
      BY <1>3, <3>2
    <3> QED BY <3>1, <3>2
  <2> QED BY <1>1, <1>3, <2>2, <2>3, <2>4
<1> QED BY <1>2, <1>3

\* The one who stands first leaves, for the place outside it goes to.
LEMMA ReleaseKeeps ==
  ASSUME GuardInv, NEW a \in Actors, Holds(a), pc[a] \notin Outside, NEW s \in {"idle", "sleeping"},
         Release(a, s), s = "idle" <=> a = Reader
  PROVE  GuardInv'
<1> USE DEF GuardInv, GuardType, Queue, Inside, Outside, Release
<1>0. \A b \in Actors : pc'[b] = IF b = a THEN s ELSE pc[b]
  OBVIOUS
<1>1. pc' \in [Actors -> Outside \cup {"queued", "setup", "setup_loading", "hook", "handler",
                                       "saving", "purging", "loading", "loaded", "ticking"}]
  OBVIOUS
<1>2. pc'[Reader] \notin {"gated", "sleeping", "ticking"}
  BY <1>0 DEF Actors
<1>3. \A t \in Ticks : pc'[t] \in {"gated", "sleeping", "queued", "ticking"}
  BY <1>0, DeviceAssumption DEF Actors
<1>4. CASE ~Serialize
  BY <1>1, <1>2, <1>3, <1>4
<1>5. CASE Serialize
  <2>1. PICK i \in DOMAIN guard : guard[i] = a
    BY <1>5
  <2>2. guard # <<>> /\ guard[1] = a /\ Len(guard) \in Nat /\ DOMAIN guard = 1 .. Len(guard)
    BY <1>5, <2>1, EmptySeq, LenProperties DEF Holds
  <2>3. /\ guard' \in Seq(Actors) /\ Len(guard') = Len(guard) - 1
        /\ \A j \in 1 .. Len(guard') : guard'[j] = guard[j + 1]
    BY <1>5, <2>2, HeadTailProperties
  <2>4. DOMAIN guard' = 1 .. (Len(guard) - 1)
    BY <2>3, LenProperties
  <2>5. \A j \in DOMAIN guard' : j + 1 \in DOMAIN guard /\ j + 1 # 1
    BY <2>2, <2>4
  <2>6. \A j \in DOMAIN guard : j = 1 \/ (j - 1 \in DOMAIN guard' /\ (j - 1) + 1 = j)
    BY <2>2, <2>4
  <2>7. \A j, k \in DOMAIN guard' : guard'[j] = guard'[k] => j = k
    BY <1>5, <2>2, <2>3, <2>4, <2>5
  <2>8. \A b \in Actors : pc'[b] \notin Outside <=> \E j \in DOMAIN guard' : guard'[j] = b
    <3> TAKE b \in Actors
    <3>1. CASE b = a
      BY <1>5, <2>2, <2>3, <2>4, <2>5, <3>1
    <3>2. CASE b # a
      <4>1. ASSUME NEW j \in DOMAIN guard', guard'[j] = b  PROVE \E k \in DOMAIN guard : guard[k] = b
        BY <2>3, <2>4, <2>5, <4>1
      <4>2. ASSUME NEW k \in DOMAIN guard, guard[k] = b  PROVE \E j \in DOMAIN guard' : guard'[j] = b
        <5>1. k - 1 \in DOMAIN guard' /\ (k - 1) + 1 = k
          BY <2>2, <2>6, <3>2, <4>2
        <5>2. guard'[k - 1] = guard[k]
          BY <2>3, <2>4, <5>1
        <5> QED BY <4>2, <5>1, <5>2
      <4>3. pc[b] \notin Outside <=> \E k \in DOMAIN guard : guard[k] = b
        BY <1>5
      <4>4. pc'[b] = pc[b]
        BY <1>0, <3>2
      <4> QED BY <4>1, <4>2, <4>3, <4>4
    <3> QED BY <3>1, <3>2
  <2>9. \A b \in Actors : ~Inside(b)'
    BY <1>0, <1>5, <2>2
  <2> QED BY <1>1, <1>2, <1>3, <2>3, <2>7, <2>8, <2>9
<1> QED BY <1>4, <1>5

\* Whoever leaves the guard and the places alone keeps it.
LEMMA StayKeeps ==
  ASSUME GuardInv, UNCHANGED <<guard, pc>>
  PROVE  GuardInv'
BY DEF GuardInv, GuardType, Queue, Inside

\* The reader, which has the guard, goes on to another place inside.
LEMMA ReaderMoves ==
  ASSUME GuardInv, pc[Reader] \notin Outside, Holds(Reader), guard' = guard,
         NEW s \in {"setup", "setup_loading", "hook", "handler", "saving", "purging", "loading",
                    "loaded"},
         pc' = [pc EXCEPT ![Reader] = s]
  PROVE  GuardInv'
BY MoveKeeps DEF Actors

\* The reader is done.
LEMMA ReaderLeaves ==
  ASSUME GuardInv, pc[Reader] \notin Outside, Holds(Reader), Done
  PROVE  GuardInv'
BY ReleaseKeeps DEF Done, Actors

\* Whoever is inside has the guard.
LEMMA InsideHolds ==
  ASSUME GuardInv, NEW a \in Actors, Inside(a)
  PROVE  Holds(a) /\ pc[a] \notin Outside
BY DEF GuardInv, Queue, Inside, Outside, Holds

\* What the reader takes up, it takes up with the guard in its hands.
LEMMA ReaderBeginsKeeps ==
  ASSUME GuardInv, ReaderBegins
  PROVE  GuardInv'
<1> USE DEF Begins, BeginConfig, At, Goto, Press
<1>1. pc[Reader] \notin Outside /\ Holds(Reader)
  BY DEF ReaderBegins, BeginSetup, Reannounce, BeginHandler, BeginConnection, NothingSelected,
         BeginSave, BeginPurge, BeginLoad, Outside
<1>2. CASE BeginSetup
  BY <1>1, <1>2, ReaderMoves DEF BeginSetup
<1>3. CASE Reannounce
  BY <1>1, <1>3, ReaderLeaves DEF Reannounce
<1>4. CASE BeginHandler
  BY <1>1, <1>4, ReaderMoves DEF BeginHandler
<1>5. ASSUME NEW r \in {"CONNECT", "DISCONNECT"}, BeginConnection(r)  PROVE GuardInv'
  BY <1>1, <1>5, ReaderMoves DEF BeginConnection
<1>6. CASE NothingSelected
  BY <1>1, <1>6, ReaderLeaves DEF NothingSelected
<1>7. CASE BeginSave
  BY <1>1, <1>7, ReaderMoves DEF BeginSave
<1>8. CASE BeginPurge
  BY <1>1, <1>8, ReaderMoves DEF BeginPurge
<1>9. CASE BeginLoad
  BY <1>1, <1>9, ReaderMoves DEF BeginLoad
<1> QED BY <1>2, <1>3, <1>4, <1>5, <1>6, <1>7, <1>8, <1>9 DEF ReaderBegins

\* What it ends, it ends with the guard in its hands, and then gives it back.
LEMMA ReaderEndsKeeps ==
  ASSUME GuardInv, ReaderEnds
  PROVE  GuardInv'
<1> USE DEF At, Goto
<1>1. pc[Reader] \notin Outside /\ Holds(Reader)
  <2>1. Inside(Reader)
    BY DEF ReaderEnds, SetupReturns, SetupRaises, HookReturns, HookRaises, HandlerEnds, Saved,
           Purged, Loaded, SetupLoaded, SetupLoadFails, LoadedReturns, ConfigFails, Inside
  <2> QED BY <2>1, InsideHolds DEF Actors
<1>2. CASE Loaded
  BY <1>1, <1>2, ReaderMoves DEF Loaded
<1>3. CASE SetupLoaded
  BY <1>1, <1>3, ReaderMoves DEF SetupLoaded
<1>4. CASE SetupLoadFails
  BY <1>1, <1>4, ReaderMoves DEF SetupLoadFails
<1>5. CASE \/ SetupReturns \/ SetupRaises \/ HookReturns \/ HookRaises \/ HandlerEnds
           \/ Saved \/ Purged \/ LoadedReturns \/ ConfigFails
  <2>1. Done
    BY <1>5 DEF SetupReturns, SetupRaises, HookReturns, HookRaises, HandlerEnds, Saved, Purged,
                LoadedReturns, ConfigFails
  <2> QED BY <1>1, <2>1, ReaderLeaves
<1> QED BY <1>2, <1>3, <1>4, <1>5 DEF ReaderEnds

\* A tick asks for the guard, gets it at once or in its turn, and gives it back.
LEMMA TickKeeps ==
  ASSUME GuardInv, NEW t \in Ticks, Tick(t)
  PROVE  GuardInv'
<1>1. t \in Actors /\ t # Reader
  BY DeviceAssumption DEF Actors
<1>2. CASE TickGate(t)
  BY <1>1, <1>2 DEF TickGate, GuardInv, GuardType, Queue, Inside, Outside
<1>3. CASE TickWake(t)
  <2>1. CASE ~Serialize \/ guard = <<>>
    BY <1>1, <1>3, <2>1, JoinKeeps DEF TickWake, Outside
  <2>2. CASE ~(~Serialize \/ guard = <<>>)
    BY <1>1, <1>3, <2>2, JoinKeeps DEF TickWake, Outside
  <2> QED BY <2>1, <2>2
<1>4. CASE TickBegins(t)
  BY <1>1, <1>4, MoveKeeps DEF TickBegins, Outside
<1>5. CASE TickEnds(t)
  <2>1. Inside(t)
    BY <1>5 DEF TickEnds, Inside
  <2>2. Holds(t) /\ pc[t] \notin Outside /\ Release(t, "sleeping")
    BY <1>1, <1>5, <2>1, InsideHolds DEF TickEnds
  <2> QED BY <1>1, <2>2, ReleaseKeeps
<1> QED BY <1>2, <1>3, <1>4, <1>5 DEF Tick

\* Every step keeps the queue in order.
LEMMA GuardStep == GuardInv /\ [Next]_vars => GuardInv'
<1> SUFFICES ASSUME GuardInv, [Next]_vars  PROVE GuardInv'
  OBVIOUS
<1>1. CASE Write
  BY <1>1, StayKeeps DEF Write, tasks
<1>2. ASSUME NEW r \in Asked, Receive(r)  PROVE GuardInv'
  BY <1>2, JoinKeeps DEF Receive, At, Outside, Actors
<1>3. CASE ReaderBegins
  BY <1>3, ReaderBeginsKeeps
<1>4. CASE ReaderEnds
  BY <1>4, ReaderEndsKeeps
<1>5. ASSUME NEW t \in Ticks, Tick(t)  PROVE GuardInv'
  BY <1>5, TickKeeps
<1>6. ASSUME NEW a \in Actors, AuthorsCode(a)  PROVE GuardInv'
  BY <1>6, StayKeeps DEF AuthorsCode, DefineOwn, SetOwn, SetOwnHalfway, Sets, DeleteHandle, Operate
<1>7. ASSUME NEW n \in BuiltIn, DefineBuiltIn(n)  PROVE GuardInv'
  BY <1>7, StayKeeps DEF DefineBuiltIn, Operate
<1>8. CASE SetupLoads
  <2>1. Inside(Reader)
    BY <1>8 DEF SetupLoads, At, Inside
  <2> QED BY <1>8, <2>1, InsideHolds, ReaderMoves DEF SetupLoads, Actors
<1>9. CASE UNCHANGED vars \/ NewcomerJoins
  BY <1>9, StayKeeps DEF vars, tasks, NewcomerJoins
<1> QED BY <1>1, <1>2, <1>3, <1>4, <1>5, <1>6, <1>7, <1>8, <1>9 DEF Next, Driver

-----------------------------------------------------------------------------

\* Device._guard: the queue is in order in every reachable state, with and
\* without serialize_dispatch.
THEOREM GuardInOrder == Spec => []GuardInv
<1>1. Init => GuardInv
  BY DeviceAssumption, EmptySeq DEF Init, GuardInv, GuardType, Queue, Inside, Outside, Actors
<1> QED BY <1>1, GuardStep, PTL DEF Spec

\* serialize_dispatch (device.py:1362-1377): a tick and a handler are mutually
\* excluded over their whole length, for any number of ticks.
THEOREM ExclusionCorrect == Spec => []OneAtATime
<1>1. GuardInv => OneAtATime
  BY DEF GuardInv, Queue, OneAtATime
<1> QED BY <1>1, GuardInOrder, PTL

-----------------------------------------------------------------------------
(* The parts of the invariant.                                             *)

\* A handle is persisted as its name is, and the one registered under a name has
\* that name and has not been retracted.
HandlesSound ==
  /\ \A i \in DOMAIN handles : handles[i].persist <=> handles[i].name \in Persisted
  /\ \A n \in Names : registry[n] # None =>
       handles[registry[n]].name = n /\ ~handles[registry[n]].retracted

Attempting == pc[Reader] \in {"setup", "setup_loading"}

\* A running attempt at setup() has claimed that setup is done, and nothing that
\* was there when it started had been defined by setup(): so what the roll-back
\* leaves was defined elsewhere.  The list of persisted properties comes after a
\* successful attempt, which is why the roll-back need not restate it.
AttemptSound ==
  /\ Attempting =>
       /\ setup_done
       /\ \A n \in Names : announced[n] # None => handles[announced[n]].during # "setup"
  /\ Attempting \/ ~setup_done => listed = None
  /\ FailedAttemptLeavesNoProperty

InConfig == pc[Reader] \in {"saving", "purging", "loading", "loaded"}

\* A built-in handler holds across its await the handle of its own switch.  That
\* handle owns the name or has been retracted, and then nobody owns the name:
\* the switches are defined in setup(), which does not run meanwhile.
BoundSound ==
  /\ bound # None <=> pc[Reader] = "hook" \/ InConfig
  /\ bound # None =>
       /\ handles[bound].name = IF InConfig THEN ConfigProcess ELSE Connection
       /\ registry[handles[bound].name] \in {bound, None}
       /\ ~handles[bound].retracted => registry[handles[bound].name] = bound
  /\ pc[Reader] = "hook" =>
       /\ request \in {"CONNECT", "DISCONNECT"}
       /\ handles[bound].val = IF request = "CONNECT" THEN 1 ELSE 0

\* So a property that is Busy, or a CONFIG_PROCESS that is pressed, is the one
\* being handled.
SwitchesSound ==
  /\ BoundSound
  /\ \A n \in Names : registry[n] # None /\ handles[registry[n]].state = "Busy" =>
       registry[n] = bound
  /\ ConfigProcess \in Registered(registry) /\ handles[registry[ConfigProcess]].val # 0 =>
       registry[ConfigProcess] = bound
  /\ OkMeansLinked

\* The frame f is about the list of persisted properties, ...
OfList(f) == f.tag \in {"list", "relist"}
\* ... or it speaks of the property n.
Says(f, n) == ~OfList(f) /\ f.name = n

\* What f shows is what the owner of its name shows, ...
OfOwner(f) == registry[f.name] # None /\ f.shows = Shown(handles[registry[f.name]])
\* ... or what a handle shows that a redefinition has superseded.
OfAnother(f) ==
  /\ \E i \in DOMAIN handles : handles[i].name = f.name /\ Superseded(i) /\ f.shows = Shown(handles[i])
  /\ registry[f.name] = None \/ registry[f.name] \in unsaid
  /\ view[f.name] = None <=> registry[f.name] = None

\* What the frame f says is so, and it is no update of something not shown: but an
\* update through a superseded handle, which is known to be untrue of its name.
IsTrue(f) ==
  /\ f.tag = "def" => OfOwner(f)
  /\ f.tag = "set" => (OfOwner(f) /\ view[f.name] # None) \/ OfAnother(f)
  /\ f.tag = "del" => registry[f.name] = None
  /\ OfList(f) => f.names = listed
  /\ f.tag = "relist" => view_listed # None

\* The client shows the property n as it is.
Shows(n) ==
  /\ view[n] = None <=> registry[n] = None
  /\ registry[n] # None /\ registry[n] \notin unsaid =>
       view[n] = Shown(handles[registry[n]])

\* The driver takes a step only when the writer has caught up, so the outbox
\* holds the frames of one step: they speak of a property once, they are true,
\* and what they do not speak of is shown as it is.
FramesSound ==
  /\ \A i, j \in DOMAIN outbox, n \in Names : Says(outbox[i], n) /\ Says(outbox[j], n) => i = j
  /\ \A i \in DOMAIN outbox : IsTrue(outbox[i])
  /\ \A n \in Names : Shows(n) \/ \E i \in DOMAIN outbox : Says(outbox[i], n)
  /\ view_listed = listed \/ \E i \in DOMAIN outbox : OfList(outbox[i])

\* A list names what is shown or is defined before it; what is withdrawn is not
\* on the list that is shown, or a new list comes first.
ListsSound ==
  /\ \A i \in DOMAIN outbox : OfList(outbox[i]) =>
       \A n \in outbox[i].names :
         \/ view[n] # None
         \/ \E j \in DOMAIN outbox : j < i /\ outbox[j].tag = "def" /\ outbox[j].name = n
  /\ \A i \in DOMAIN outbox : outbox[i].tag = "del" =>
       \/ view_listed = None
       \/ outbox[i].name \notin view_listed
       \/ \E j \in DOMAIN outbox : j < i /\ OfList(outbox[j])
  /\ ListIsTrue

\* The frames in the outbox are true, and what is shown is where they are silent.
StreamSound == FramesSound /\ ListsSound

-----------------------------------------------------------------------------
(* Names, handles and the operations on them.                              *)

\* A finite set as a sequence: each element once.
LEMMA SetToSeqIs ==
  ASSUME NEW I, IsFiniteSet(I)
  PROVE  /\ SetToSeq(I) \in Seq(I) /\ Len(SetToSeq(I)) = Cardinality(I)
         /\ Cardinality(I) \in Nat
         /\ DOMAIN SetToSeq(I) = 1..Cardinality(I)
         /\ \A i, j \in 1..Cardinality(I) : SetToSeq(I)[i] = SetToSeq(I)[j] => i = j
         /\ \A x \in I : \E i \in 1..Cardinality(I) : SetToSeq(I)[i] = x
<1> DEFINE n == Cardinality(I)
           s == SetToSeq(I)
<1>1. n \in Nat /\ ExistsBijection(1..n, I)
  BY FS_CardinalityType
<1>2. \E f \in [1..n -> I] : IsInjective(f)
  BY <1>1 DEF ExistsBijection, Bijection, Injection
<1>3. s \in [1..n -> I] /\ IsInjective(s)
  <2> DEFINE Q(f) == f \in [1..n -> I] /\ IsInjective(f)
  <2>1. s = CHOOSE f \in [1..n -> I] : IsInjective(f)
    BY DEF SetToSeq
  <2> HIDE DEF s, n
  <2> QED BY <1>2, <2>1
<1> HIDE DEF s
<1>4. s \in Injection(1..n, I)
  BY <1>3 DEF Injection
<1>5. Cardinality(1..n) = n /\ IsFiniteSet(1..n)
  BY <1>1, FS_Interval
<1>6. s \in Surjection(1..n, I)
  BY <1>4, <1>5, FS_Injection
<1>7. s \in Seq(I)
  BY <1>1, <1>3, SeqDef
<1>8. Len(s) = n
  BY <1>1, <1>3, <1>7, LenProperties
<1> HIDE DEF n
<1>9. \A i, j \in 1..n : s[i] = s[j] => i = j
  BY <1>3 DEF IsInjective
<1>10. \A x \in I : \E i \in 1..n : s[i] = x
  BY <1>6 DEF Surjection
<1> QED BY <1>1, <1>3, <1>7, <1>8, <1>9, <1>10 DEF s, n

\* The image of a finite set is finite.
LEMMA ImageFinite ==
  ASSUME NEW S, IsFiniteSet(S), NEW f
  PROVE  IsFiniteSet({f[x] : x \in S})
<1> DEFINE T == {f[x] : x \in S}
           g == [x \in S |-> f[x]]
<1>1. g \in Surjection(S, T)
  BY DEF Surjection
<1> HIDE DEF g, T
<1>2. IsFiniteSet(T)
  BY <1>1, FS_Surjection
<1> QED BY <1>2 DEF T

\* So are the names, and what is registered.
LEMMA NamesFinite ==
  /\ IsFiniteSet(Names)
  /\ \A S \in SUBSET Names : IsFiniteSet(S)
  /\ \A reg : IsFiniteSet(Registered(reg))
<1>1. IsFiniteSet({Connection, ConfigProcess})
  <2>1. IsFiniteSet({Connection})
    BY FS_Singleton
  <2>2. IsFiniteSet({Connection} \cup {ConfigProcess})
    BY <2>1, FS_AddElement
  <2>3. {Connection} \cup {ConfigProcess} = {Connection, ConfigProcess}
    OBVIOUS
  <2> QED BY <2>2, <2>3
<1>2. IsFiniteSet(BuiltIn)
  BY <1>1, FS_Subset, DeviceAssumption
<1>3. IsFiniteSet(Names)
  BY <1>2, FS_Union, DeviceAssumption DEF Names
<1>4. \A S \in SUBSET Names : IsFiniteSet(S)
  BY <1>3, FS_Subset
<1>5. \A reg : IsFiniteSet(Registered(reg))
  BY <1>4 DEF Registered
<1> QED BY <1>3, <1>4, <1>5

\* What the type invariant says of the handles.
LEMMA HandlesAre ==
  ASSUME TypeOK
  PROVE  /\ handles \in Seq(Handle)
         /\ Len(handles) \in Nat /\ DOMAIN handles = 1 .. Len(handles)
         /\ \A i \in DOMAIN handles : /\ handles[i] \in Handle
                                      /\ i \in Nat /\ i # None
         /\ \A n \in Names : registry[n] # None => registry[n] \in DOMAIN handles
         /\ \A n \in Names : announced[n] # None => announced[n] \in DOMAIN handles
BY LenProperties, ElementOfSeq, DeviceAssumption DEF TypeOK

\* Persisted properties are the author's.
LEMMA PersistedIs ==
  ASSUME HandlesSound, TypeOK
  PROVE  /\ PersistedNames(handles, registry) = Registered(registry) \cap Persisted
         /\ \A n \in BuiltIn : n \notin Persisted
         /\ Persisted \subseteq Names
<1>1. Persisted \subseteq Names /\ \A n \in BuiltIn : n \notin Persisted
  BY DeviceAssumption DEF Names
<1>2. \A n \in Registered(registry) : handles[registry[n]].persist <=> n \in Persisted
  BY HandlesAre DEF HandlesSound, Registered
<1> QED BY <1>1, <1>2 DEF PersistedNames, Registered

\* A handle given a value and a state.
LEMMA AssignedIs ==
  ASSUME TypeOK, NEW i \in DOMAIN handles, NEW v \in Nat, NEW s \in State
  PROVE  /\ Assigned(i, v, s) \in Seq(Handle)
         /\ DOMAIN Assigned(i, v, s) = DOMAIN handles
         /\ \A j \in DOMAIN handles : j # i => Assigned(i, v, s)[j] = handles[j]
         /\ \A j \in DOMAIN handles : /\ Assigned(i, v, s)[j].name = handles[j].name
                                      /\ Assigned(i, v, s)[j].persist = handles[j].persist
                                      /\ Assigned(i, v, s)[j].retracted = handles[j].retracted
                                      /\ Assigned(i, v, s)[j].during = handles[j].during
         /\ Assigned(i, v, s)[i].val = v /\ Assigned(i, v, s)[i].state = s
<1> DEFINE h == [handles[i] EXCEPT !.val = v, !.state = s]
           new == Assigned(i, v, s)
<1>1. handles[i] \in Handle /\ h \in Handle
  BY HandlesAre, ZenonT(60) DEF Handle
<1>2. DOMAIN new = DOMAIN handles
  BY DEF Assigned
<1>3. \A j \in DOMAIN handles : j # i => new[j] = handles[j]
  BY DEF Assigned
<1>4. new[i] = h
  BY DEF Assigned
<1>5. \A j \in DOMAIN handles : new[j] \in Handle
  BY <1>1, <1>3, <1>4, HandlesAre
<1>6. new \in [1 .. Len(handles) -> Handle]
  BY <1>2, <1>5, HandlesAre DEF Assigned
<1>7. new \in Seq(Handle)
  BY <1>6, HandlesAre, SeqDef
<1>8. /\ h.name = handles[i].name /\ h.persist = handles[i].persist
      /\ h.retracted = handles[i].retracted /\ h.during = handles[i].during
      /\ h.val = v /\ h.state = s
  BY <1>1 DEF Handle
<1> HIDE DEF new, h
<1>9. \A j \in DOMAIN handles : /\ new[j].name = handles[j].name
                                /\ new[j].persist = handles[j].persist
                                /\ new[j].retracted = handles[j].retracted
                                /\ new[j].during = handles[j].during
  BY <1>3, <1>4, <1>8
<1>10. new[i].val = v /\ new[i].state = s
  BY <1>4, <1>8
<1> QED BY <1>2, <1>3, <1>4, <1>7, <1>9, <1>10 DEF new, h

\* Handles retracted.
LEMMA RetractedIs ==
  ASSUME TypeOK, NEW gone
  PROVE  /\ Retracted(gone) \in Seq(Handle)
         /\ DOMAIN Retracted(gone) = DOMAIN handles
         /\ \A j \in DOMAIN handles :
              /\ Retracted(gone)[j].name = handles[j].name
              /\ Retracted(gone)[j].persist = handles[j].persist
              /\ Retracted(gone)[j].during = handles[j].during
              /\ Shown(Retracted(gone)[j]) = Shown(handles[j])
              /\ Retracted(gone)[j].val = handles[j].val
              /\ Retracted(gone)[j].state = handles[j].state
              /\ Retracted(gone)[j].retracted <=> handles[j].retracted \/ j \in gone
<1> DEFINE new == Retracted(gone)
<1>1. DOMAIN new = DOMAIN handles
  BY DEF Retracted
<1>2. \A j \in DOMAIN handles :
        new[j] = [handles[j] EXCEPT !.retracted = handles[j].retracted \/ j \in gone]
  BY DEF Retracted
<1>3. \A j \in DOMAIN handles : handles[j] \in Handle
  BY HandlesAre
<1> HIDE DEF new
<1>4. \A j \in DOMAIN handles :
        /\ new[j] \in Handle
        /\ new[j].name = handles[j].name /\ new[j].persist = handles[j].persist
        /\ new[j].during = handles[j].during
        /\ new[j].val = handles[j].val /\ new[j].state = handles[j].state
        /\ new[j].retracted <=> handles[j].retracted \/ j \in gone
  <2> TAKE j \in DOMAIN handles
  <2> DEFINE h == handles[j]
             b == h.retracted \/ j \in gone
  <2>1. h \in Handle /\ new[j] = [h EXCEPT !.retracted = b]
    BY <1>2, <1>3
  <2>2. b \in BOOLEAN
    OBVIOUS
  <2> HIDE DEF h, b
  <2>3. /\ new[j] \in Handle /\ new[j].retracted = b
        /\ new[j].name = h.name /\ new[j].persist = h.persist /\ new[j].during = h.during
        /\ new[j].val = h.val /\ new[j].state = h.state
    BY <2>1, <2>2 DEF Handle
  <2> QED BY <2>3 DEF h, b
<1>5. new \in [1 .. Len(handles) -> Handle]
  BY <1>1, <1>4, HandlesAre DEF Retracted, new
<1>6. new \in Seq(Handle)
  BY <1>5, HandlesAre, SeqDef
<1> QED BY <1>1, <1>4, <1>6 DEF Shown, new

\* The registry without some handles.
LEMMA ForgetIs ==
  ASSUME TypeOK, NEW gone, None \notin gone
  PROVE  /\ Forget(gone) \in [Names -> DOMAIN handles \cup {None}]
         /\ \A n \in Names : Forget(gone)[n] = IF registry[n] \in gone THEN None ELSE registry[n]
         /\ Captured(gone) \in Dict
<1>2. Forget(gone) \in [Names -> DOMAIN handles \cup {None}]
  BY DEF Forget, TypeOK
<1>3. \A n \in Names : config_values[n] \in Nat \cup {None}
  BY DEF TypeOK, Dict
<1>4. ASSUME None \notin gone  PROVE Captured(gone) \in Dict
  <2>1. \A n \in Names : registry[n] \in gone => handles[registry[n]].val \in Nat
    BY <1>4, HandlesAre DEF Handle
  <2> QED BY <1>3, <2>1 DEF Captured, Dict
<1> QED BY <1>2, <1>4 DEF Forget

-----------------------------------------------------------------------------
(* Queues of frames.                                                       *)

\* The constructors of frames return frames, each with its tag and name.
LEMMA FramesAre ==
  /\ \A h \in Handle : /\ DefFrame(h) \in Frame /\ SetFrame(h) \in Frame
                       /\ DefFrame(h).tag = "def" /\ SetFrame(h).tag = "set"
                       /\ DefFrame(h).name = h.name /\ SetFrame(h).name = h.name
                       /\ DefFrame(h).shows = Shown(h) /\ SetFrame(h).shows = Shown(h)
                       /\ Shown(h) \in [val : Nat, state : State]
                       /\ Shown(h) # None
  /\ \A n \in Names : DelFrame(n) \in Frame /\ DelFrame(n).tag = "del" /\ DelFrame(n).name = n
  /\ \A S \in SUBSET Names : /\ ListFrame(S) \in Frame /\ ListFrame(S).tag = "list"
                             /\ ListFrame(S).names = S
                             /\ RelistFrame(S) \in Frame /\ RelistFrame(S).tag = "relist"
                             /\ RelistFrame(S).names = S
<1>1. \A h \in Handle : Shown(h) \in [val : Nat, state : State]
  BY DEF Handle, Shown, State
<1>2. \A x \in [val : Nat, state : State] : x # None
  BY DeviceAssumption DEF State
<1>3. \A h \in Handle : h.name \in Names
  BY DEF Handle
<1>4. \A h \in Handle : /\ DefFrame(h) \in Frame /\ SetFrame(h) \in Frame
                       /\ DefFrame(h).tag = "def" /\ SetFrame(h).tag = "set"
                       /\ DefFrame(h).name = h.name /\ SetFrame(h).name = h.name
                       /\ DefFrame(h).shows = Shown(h) /\ SetFrame(h).shows = Shown(h)
  BY <1>1, <1>3 DEF DefFrame, SetFrame, Frame
<1>5. \A n \in Names : DelFrame(n) \in Frame /\ DelFrame(n).tag = "del" /\ DelFrame(n).name = n
  BY DEF DelFrame, Frame
<1>6. \A S \in SUBSET Names : /\ ListFrame(S) \in Frame /\ ListFrame(S).tag = "list"
                             /\ ListFrame(S).names = S
                             /\ RelistFrame(S) \in Frame /\ RelistFrame(S).tag = "relist"
                             /\ RelistFrame(S).names = S
  BY DEF ListFrame, RelistFrame, Frame
<1> QED BY <1>1, <1>2, <1>4, <1>5, <1>6

\* A frame is of one of these forms.
LEMMA FrameForms ==
  ASSUME NEW f \in Frame
  PROVE  /\ f.tag \in {"def", "set", "del", "list", "relist"}
         /\ ~OfList(f) => f.name \in Names /\ f.tag \in {"def", "set", "del"}
         /\ f.tag \in {"def", "set"} => f.shows \in [val : Nat, state : State] /\ f.shows # None
         /\ OfList(f) => f.names \in SUBSET Names /\ f.tag \notin {"def", "set", "del"}
<1> USE DEF OfList
<1>1. \A x \in [val : Nat, state : State] : x # None
  BY DeviceAssumption DEF State
<1>2. CASE f \in [tag : {"def", "set"}, name : Names, shows : [val : Nat, state : State]]
  BY <1>1, <1>2
<1>3. CASE f \in [tag : {"del"}, name : Names]
  BY <1>3
<1>4. CASE f \in [tag : {"list", "relist"}, names : SUBSET Names]
  BY <1>4
<1> QED BY <1>2, <1>3, <1>4 DEF Frame

\* Queues of no, one and two frames.
LEMMA ShortQueues ==
  /\ <<>> \in Seq(Frame) /\ DOMAIN <<>> = {}
  /\ \A f \in Frame : <<f>> \in Seq(Frame) /\ DOMAIN <<f>> = {1} /\ <<f>>[1] = f
  /\ \A f, g \in Frame : /\ <<f, g>> \in Seq(Frame) /\ DOMAIN <<f, g>> = {1, 2}
                         /\ <<f, g>>[1] = f /\ <<f, g>>[2] = g
                         /\ <<f>> \o <<g>> = <<f, g>>
<1>1. <<>> \in Seq(Frame) /\ DOMAIN <<>> = {}
  BY EmptySeq, LenProperties
<1>2. \A f \in Frame : <<f>> \in Seq(Frame) /\ DOMAIN <<f>> = {1} /\ <<f>>[1] = f
  OBVIOUS
<1>3. \A f, g \in Frame : /\ <<f, g>> \in Seq(Frame) /\ DOMAIN <<f, g>> = {1, 2}
                         /\ <<f, g>>[1] = f /\ <<f, g>>[2] = g
  OBVIOUS
<1>4. \A f, g \in Frame : <<f>> \o <<g>> = <<f, g>>
  <2> TAKE f, g \in Frame
  <2> DEFINE r == <<f>> \o <<g>>
  <2>1. Len(<<f>>) = 1 /\ Len(<<g>>) = 1 /\ <<f>>[1] = f /\ <<g>>[1] = g
    OBVIOUS
  <2>2. /\ r \in Seq(Frame) /\ Len(r) = 2
        /\ \A i \in 1 .. 2 : r[i] = IF i <= 1 THEN <<f>>[i] ELSE <<g>>[i - 1]
    BY <1>2, <2>1, ConcatProperties
  <2> HIDE DEF r
  <2>3. r[1] = f /\ r[2] = g
    BY <2>1, <2>2
  <2>4. Len(<<f, g>>) = 2 /\ <<f, g>>[1] = f /\ <<f, g>>[2] = g
    OBVIOUS
  <2>5. \A i \in 1 .. 2 : r[i] = <<f, g>>[i]
    BY <2>3, <2>4
  <2>6. r = <<f, g>>
    BY <1>3, <2>2, <2>4, <2>5, SeqEqual
  <2> QED BY <2>6 DEF r
<1> QED BY <1>1, <1>2, <1>3, <1>4

\* One queue after another.
LEMMA ConcatIs ==
  ASSUME NEW S, NEW p \in Seq(S), NEW q \in Seq(S)
  PROVE  /\ p \o q \in Seq(S)
         /\ \A k \in DOMAIN p : k \in DOMAIN (p \o q) /\ (p \o q)[k] = p[k]
         /\ \A k \in DOMAIN q : Len(p) + k \in DOMAIN (p \o q) /\ (p \o q)[Len(p) + k] = q[k]
         /\ \A k \in DOMAIN (p \o q) :
              \/ k \in DOMAIN p /\ (p \o q)[k] = p[k]
              \/ /\ k \notin DOMAIN p /\ k - Len(p) \in DOMAIN q
                 /\ (p \o q)[k] = q[k - Len(p)]
                 /\ k = Len(p) + (k - Len(p))
<1> DEFINE r == p \o q
           a == Len(p)
           b == Len(q)
<1>1. /\ a \in Nat /\ b \in Nat /\ DOMAIN p = 1 .. a /\ DOMAIN q = 1 .. b
  BY LenProperties
<1>2. r \in Seq(S) /\ Len(r) = a + b /\ \A k \in 1 .. (a + b) : r[k] = IF k <= a THEN p[k] ELSE q[k - a]
  BY ConcatProperties
<1>3. DOMAIN r = 1 .. (a + b)
  BY <1>2, LenProperties
<1> HIDE DEF r, a, b
<1>4. \A k \in DOMAIN p : k \in DOMAIN r /\ r[k] = p[k]
  BY <1>1, <1>2, <1>3
<1>5. \A k \in DOMAIN q : a + k \in DOMAIN r /\ r[a + k] = q[k]
  <2> TAKE k \in DOMAIN q
  <2>1. k \in 1 .. b
    BY <1>1
  <2>2. a + k \in 1 .. (a + b) /\ ~(a + k <= a) /\ (a + k) - a = k
    BY <1>1, <2>1
  <2> QED BY <1>2, <1>3, <2>2
<1>6. \A k \in DOMAIN r :
        \/ k \in DOMAIN p /\ r[k] = p[k]
        \/ k \notin DOMAIN p /\ k - a \in DOMAIN q /\ r[k] = q[k - a] /\ k = a + (k - a)
  BY <1>1, <1>2, <1>3
<1> QED BY <1>2, <1>4, <1>5, <1>6 DEF r, a, b

\* It has the elements of both.
LEMMA ConcatHas ==
  ASSUME NEW p \in Seq(Frame), NEW q \in Seq(Frame)
  PROVE  /\ \A k \in DOMAIN (p \o q) : \/ \E j \in DOMAIN p : (p \o q)[k] = p[j]
                                      \/ \E j \in DOMAIN q : (p \o q)[k] = q[j]
         /\ \A j \in DOMAIN p : \E k \in DOMAIN (p \o q) : (p \o q)[k] = p[j]
         /\ \A j \in DOMAIN q : \E k \in DOMAIN (p \o q) : (p \o q)[k] = q[j]
<1>1. /\ \A k \in DOMAIN p : k \in DOMAIN (p \o q) /\ (p \o q)[k] = p[k]
      /\ \A k \in DOMAIN q : Len(p) + k \in DOMAIN (p \o q) /\ (p \o q)[Len(p) + k] = q[k]
      /\ \A k \in DOMAIN (p \o q) :
              \/ k \in DOMAIN p /\ (p \o q)[k] = p[k]
              \/ /\ k \notin DOMAIN p /\ k - Len(p) \in DOMAIN q
                 /\ (p \o q)[k] = q[k - Len(p)]
                 /\ k = Len(p) + (k - Len(p))
  BY ConcatIs
<1> QED BY <1>1

\* No name is spoken of twice in the queue q.
OnceIn(q) ==
  \A i, j \in DOMAIN q, n \in Names : Says(q[i], n) /\ Says(q[j], n) => i = j

\* The queue q speaks of the name n.
Speaks(q, n) == \E i \in DOMAIN q : Says(q[i], n)

\* Two queues that speak of different names, one after the other.
LEMMA ConcatOnce ==
  ASSUME NEW p \in Seq(Frame), NEW q \in Seq(Frame), OnceIn(p), OnceIn(q),
         \A n \in Names : ~(Speaks(p, n) /\ Speaks(q, n))
  PROVE  /\ OnceIn(p \o q)
         /\ \A n \in Names : Speaks(p \o q, n) <=> Speaks(p, n) \/ Speaks(q, n)
<1> DEFINE r == p \o q
           a == Len(p)
<1>1. /\ \A k \in DOMAIN p : k \in DOMAIN r /\ r[k] = p[k]
      /\ \A k \in DOMAIN q : a + k \in DOMAIN r /\ r[a + k] = q[k]
      /\ \A k \in DOMAIN r :
              \/ k \in DOMAIN p /\ r[k] = p[k]
              \/ k \notin DOMAIN p /\ k - a \in DOMAIN q /\ r[k] = q[k - a] /\ k = a + (k - a)
  BY ConcatIs
<1> HIDE DEF r, a
<1>2. \A n \in Names : Speaks(r, n) <=> Speaks(p, n) \/ Speaks(q, n)
  BY <1>1 DEF Speaks
<1>3. ASSUME NEW i \in DOMAIN r, NEW j \in DOMAIN r, NEW n \in Names, Says(r[i], n), Says(r[j], n)
      PROVE  i = j
  <2>1. CASE i \in DOMAIN p /\ j \in DOMAIN p
    BY <1>1, <1>3, <2>1 DEF OnceIn
  <2>2. CASE i \notin DOMAIN p /\ j \notin DOMAIN p
    <3>1. i - a \in DOMAIN q /\ j - a \in DOMAIN q /\ Says(q[i - a], n) /\ Says(q[j - a], n)
      BY <1>1, <1>3, <2>2
    <3>2. i - a = j - a
      BY <3>1 DEF OnceIn
    <3>3. i = a + (i - a) /\ j = a + (j - a)
      BY <1>1, <2>2
    <3> QED BY <3>2, <3>3
  <2>3. CASE (i \in DOMAIN p) # (j \in DOMAIN p)
    BY <1>1, <1>3, <2>3 DEF Speaks
  <2> QED BY <2>1, <2>2, <2>3
<1> QED BY <1>2, <1>3 DEF OnceIn, r

-----------------------------------------------------------------------------
(* What the operations do.                                                 *)

\* The index of the handle that is made next.
Newest == Len(handles) + 1

\* A property is defined, ...
Defines(a, n) ==
  /\ CaughtUp /\ a \in Actors /\ InBody(a) /\ n \in Names
  /\ Define(a, n, n \in Persisted)
  /\ UNCHANGED <<client, informed, unsaid>>

\* Device.define.
LEMMA DefineShape ==
  ASSUME TypeOK, NEW a, NEW n, Defines(a, n)
  PROVE  /\ Newest \in Nat /\ Newest \notin DOMAIN handles /\ Newest # None
         /\ n \in Names /\ a \in Actors /\ InBody(a)
         /\ handles' \in Seq(Handle) /\ DOMAIN handles' = DOMAIN handles \cup {Newest}
         /\ \A j \in DOMAIN handles : handles'[j] = handles[j]
         /\ handles'[Newest] \in Handle
         /\ handles'[Newest].name = n /\ (handles'[Newest].persist <=> n \in Persisted)
         /\ ~handles'[Newest].retracted /\ handles'[Newest].during = pc[a]
         /\ handles'[Newest].state = "Idle"
         /\ handles'[Newest].val = IF n \in Persisted /\ config_values[n] # None THEN config_values[n] ELSE 0
         /\ registry'[n] = Newest /\ \A m \in Names : m # n => registry'[m] = registry[m]
         /\ registry' \in [Names -> DOMAIN handles' \cup {None}]
         /\ listed' = IF n \in Persisted THEN Relisted(handles', registry') ELSE listed
         /\ listed' \in (SUBSET Names) \cup {None}
         /\ outbox' \in Seq(Frame)
         /\ listed = None => listed' = None
         /\ \/ outbox' = <<DefFrame(handles'[Newest])>> /\ listed' = listed
            \/ /\ outbox' = <<DefFrame(handles'[Newest]), RelistFrame(listed')>>
               /\ listed' # None /\ listed # None /\ n \in Persisted
<1> DEFINE p == n \in Persisted
<1>0. /\ a \in Actors /\ InBody(a) /\ n \in Names /\ p \in BOOLEAN /\ Define(a, n, p)
      /\ p <=> n \in Persisted
  BY DEF Defines
<1> HIDE DEF p
<1> DEFINE v == IF p /\ config_values[n] # None THEN config_values[n] ELSE 0
           h == NewHandle(n, v, p, a)
           hs == Append(handles, h)
           reg == [registry EXCEPT ![n] = Len(hs)]
<1>1. v \in Nat
  BY <1>0 DEF TypeOK, Dict
<1>2. /\ pc[a] \in {"setup", "hook", "handler", "loaded", "ticking"}
      /\ BehindList(n) \in BOOLEAN
  BY <1>0, HandlesAre DEF InBody, BehindList, Handle
<1> HIDE DEF v
<1>3. h \in Handle /\ h.name = n /\ h.val = v /\ h.state = "Idle" /\ (h.persist <=> p)
      /\ h.retracted = FALSE /\ h.during = pc[a]
  BY <1>0, <1>1, <1>2 DEF NewHandle, Handle, State
<1>4. /\ handles' = hs /\ registry' = reg
      /\ listed' = IF p THEN Relisted(hs, reg) ELSE listed
      /\ outbox' = <<DefFrame(h)>> \o (IF p THEN ListFrames(hs, reg) ELSE <<>>)
  BY <1>0, Zenon DEF Define, v
<1> HIDE DEF h
<1>5. /\ hs \in Seq(Handle) /\ Len(hs) = Len(handles) + 1
      /\ \A i \in 1 .. Len(handles) : hs[i] = handles[i]
      /\ hs[Len(handles) + 1] = h
  BY <1>3, AppendProperties, HandlesAre
<1>6. Len(handles) \in Nat /\ DOMAIN handles = 1 .. Len(handles)
  BY HandlesAre
<1>7. DOMAIN hs = 1 .. (Len(handles) + 1)
  BY <1>5, LenProperties
<1> HIDE DEF hs
<1>8. /\ Newest \in Nat /\ Newest \notin DOMAIN handles /\ Newest # None
      /\ DOMAIN hs = DOMAIN handles \cup {Newest}
  BY <1>6, <1>7, DeviceAssumption DEF Newest
<1>9. reg[n] = Newest /\ \A m \in Names : m # n => reg[m] = registry[m]
  BY <1>0, <1>5 DEF Newest, TypeOK
<1>10. reg \in [Names -> DOMAIN hs \cup {None}]
  BY <1>0, <1>5, <1>8 DEF Newest, TypeOK
<1> HIDE DEF reg
<1>11. /\ PersistedNames(hs, reg) \in SUBSET Names
       /\ Relisted(hs, reg) \in (SUBSET Names) \cup {None}
  BY DEF Relisted, PersistedNames, Registered
<1>12. listed \in (SUBSET Names) \cup {None}
  BY DEF TypeOK
<1>13. listed' \in (SUBSET Names) \cup {None}
  BY <1>4, <1>11, <1>12
<1>14. DefFrame(h) \in Frame /\ (listed = None => listed' = None)
  BY <1>3, <1>4, FramesAre DEF Relisted
<1>15. CASE p /\ Relisted(hs, reg) # listed
  <2>1. listed' = Relisted(hs, reg) /\ listed' # None /\ ListFrames(hs, reg) = <<RelistFrame(listed')>>
    <3>1. listed' = Relisted(hs, reg) /\ ListFrames(hs, reg) = <<RelistFrame(Relisted(hs, reg))>>
      BY <1>4, <1>15 DEF ListFrames
    <3>2. Relisted(hs, reg) # None
      BY <1>11, <1>15, DeviceAssumption DEF Relisted
    <3> QED BY <3>1, <3>2
  <2>2. RelistFrame(listed') \in Frame
    BY <1>13, <2>1, FramesAre
  <2>3. outbox' = <<DefFrame(h), RelistFrame(listed')>> /\ outbox' \in Seq(Frame)
    BY <1>4, <1>14, <1>15, <2>1, <2>2, ShortQueues
  <2> QED BY <1>0, <1>3, <1>4, <1>5, <1>6, <1>8, <1>9, <1>10, <1>13, <1>14, <1>15, <2>1, <2>3 DEF Newest, v
<1>16. CASE ~(p /\ Relisted(hs, reg) # listed)
  <2>1. listed' = listed /\ outbox' = <<DefFrame(h)>> \o <<>>
    BY <1>4, <1>16 DEF ListFrames
  <2>2. outbox' = <<DefFrame(h)>> /\ outbox' \in Seq(Frame)
    BY <1>14, <2>1, ShortQueues, ConcatEmptySeq
  <2> QED BY <1>0, <1>3, <1>4, <1>5, <1>6, <1>8, <1>9, <1>10, <1>13, <1>14, <1>16, <2>1, <2>2 DEF Newest, v
<1> QED BY <1>15, <1>16

\* BoundProperty.set.
LEMMA PublishShape ==
  ASSUME TypeOK, NEW i \in DOMAIN handles, NEW v \in Nat, NEW s \in State, Publish(i, v, s)
  PROVE  /\ handles' = Assigned(i, v, s)
         /\ outbox' \in Seq(Frame)
         /\ \/ outbox' = <<>> /\ Shown(handles[i]) = [val |-> v, state |-> s]
            \/ outbox' = <<SetFrame(handles'[i])>>
<1>1. Assigned(i, v, s)[i] \in Handle
  <2>1. Assigned(i, v, s) \in Seq(Handle)
    BY AssignedIs
  <2>2. DOMAIN Assigned(i, v, s) = DOMAIN handles
    BY DEF Assigned
  <2> QED BY <2>1, <2>2, ElementOfSeq, LenProperties
<1>2. SetFrame(Assigned(i, v, s)[i]) \in Frame
  BY <1>1, FramesAre
<1>3. CASE Suppressed(i, v, s)
  BY <1>3, ShortQueues DEF Publish, Suppressed
<1>4. CASE ~Suppressed(i, v, s)
  BY <1>2, <1>4, ShortQueues DEF Publish
<1> QED BY <1>3, <1>4

\* BoundProperty.delete.
LEMMA DeleteShape ==
  ASSUME TypeOK, HandlesSound, ListIsExact, NEW i \in DOMAIN handles, Delete(i)
  PROVE  /\ handles' = Retracted({i}) /\ registry' = Forget({i}) /\ config_values' = Captured({i})
         /\ listed' \in (SUBSET Names) \cup {None}
         /\ outbox' \in Seq(Frame)
         /\ \/ /\ registry[handles[i].name] # i /\ registry' = registry
               /\ listed' = listed /\ outbox' = <<>>
            \/ /\ registry[handles[i].name] = i /\ registry'[handles[i].name] = None
               /\ \A m \in Names : m # handles[i].name => registry'[m] = registry[m]
               /\ listed # None => listed' = listed \ {handles[i].name}
               /\ listed = None => listed' = None
               /\ \/ outbox' = <<DelFrame(handles[i].name)>> /\ listed' = listed
                  \/ /\ outbox' = <<RelistFrame(listed'), DelFrame(handles[i].name)>>
                     /\ listed' # None
<1> DEFINE h == handles[i]
           n == h.name
           reg == Forget({i})
<1>1. h \in Handle /\ n \in Names /\ i # None
  BY HandlesAre DEF Handle
<1>2. \A m \in Names : reg[m] = IF registry[m] = i THEN None ELSE registry[m]
  BY <1>1, ForgetIs
<1>3. \A m \in Names : registry[m] = i => m = n
  BY <1>1 DEF HandlesSound
<1>4. registry \in [Names -> DOMAIN handles \cup {None}] /\ reg \in [Names -> DOMAIN handles \cup {None}]
  BY <1>1, ForgetIs DEF TypeOK
<1>5. /\ handles' = Retracted({i}) /\ registry' = reg /\ config_values' = Captured({i})
      /\ listed' = IF registry[n] = i /\ h.persist THEN Relisted(handles, reg) ELSE listed
      /\ outbox' = IF ~(registry[n] = i) THEN <<>>
                   ELSE (IF h.persist THEN ListFrames(handles, reg) ELSE <<>>) \o <<DelFrame(n)>>
  BY Zenon DEF Delete
<1>6. DelFrame(n) \in Frame
  BY <1>1, FramesAre
<1>7. listed \in (SUBSET Names) \cup {None}
  BY DEF TypeOK
<1>8. /\ Relisted(handles, reg) \in (SUBSET Names) \cup {None}
      /\ PersistedNames(handles, reg) \in SUBSET Names
  BY DEF Relisted, PersistedNames, Registered
<1> HIDE DEF h, n, reg
<1>9. CASE registry[n] # i
  <2>1. \A m \in Names : reg[m] = registry[m]
    BY <1>2, <1>3, <1>9
  <2>2. reg = registry
    BY <1>4, <2>1
  <2> QED BY <1>5, <1>7, <1>9, <2>2, ShortQueues DEF h, n, reg
<1>10. CASE registry[n] = i
  <2>1. reg[n] = None /\ \A m \in Names : m # n => reg[m] = registry[m]
    BY <1>1, <1>2, <1>3, <1>10
  <2>2. PersistedNames(handles, reg) = PersistedNames(handles, registry) \ {n}
    BY <1>1, <2>1 DEF PersistedNames, Registered
  <2>3. ~h.persist => n \notin PersistedNames(handles, registry)
    BY <1>10 DEF PersistedNames, h
  <2>4. /\ listed # None => listed' = listed \ {n}
        /\ listed = None => listed' = None
    BY <1>5, <1>10, <2>2, <2>3 DEF Relisted, ListIsExact
  <2>5. listed' \in (SUBSET Names) \cup {None}
    BY <1>5, <1>7, <1>8
  <2>6. CASE h.persist /\ Relisted(handles, reg) # listed
    <3>1. listed' = Relisted(handles, reg) /\ listed' # None
      BY <1>5, <1>8, <1>10, <2>6, DeviceAssumption DEF Relisted
    <3>2. ListFrames(handles, reg) = <<RelistFrame(listed')>> /\ RelistFrame(listed') \in Frame
      BY <2>5, <2>6, <3>1, FramesAre DEF ListFrames
    <3>3. outbox' = <<RelistFrame(listed'), DelFrame(n)>> /\ outbox' \in Seq(Frame)
      BY <1>5, <1>6, <1>10, <2>6, <3>2, ShortQueues
    <3> QED BY <1>5, <1>10, <2>1, <2>4, <2>5, <3>1, <3>3 DEF h, n, reg
  <2>7. CASE ~(h.persist /\ Relisted(handles, reg) # listed)
    <3>1. listed' = listed /\ outbox' = <<>> \o <<DelFrame(n)>>
      BY <1>5, <1>10, <2>7 DEF ListFrames
    <3>2. outbox' = <<DelFrame(n)>> /\ outbox' \in Seq(Frame)
      BY <1>6, <3>1, ShortQueues, ConcatEmptySeq
    <3> QED BY <1>5, <1>10, <2>1, <2>4, <2>5, <3>1, <3>2 DEF h, n, reg
  <2> QED BY <2>6, <2>7
<1> QED BY <1>9, <1>10

\* The announcement of registered properties speaks of each of them once.
LEMMA AnnounceIs ==
  ASSUME TypeOK, HandlesSound, NEW R, R \subseteq Registered(registry)
  PROVE  /\ Announce(R) \in Seq(Frame)
         /\ OnceIn(Announce(R))
         /\ \A n \in Names : Speaks(Announce(R), n) <=> n \in R
         /\ \A k \in DOMAIN Announce(R) :
              \E n \in Names : n \in R /\ Announce(R)[k] = DefFrame(handles[registry[n]])
<1> DEFINE order == SetToSeq(R)
           q == Announce(R)
           c == Cardinality(R)
<1>1. /\ order \in Seq(R) /\ Len(order) = c /\ c \in Nat /\ DOMAIN order = 1 .. c
      /\ \A i, j \in 1 .. c : order[i] = order[j] => i = j
      /\ \A x \in R : \E i \in 1 .. c : order[i] = x
  <2>1. R \subseteq Names
    BY DEF Registered
  <2> QED BY <2>1, NamesFinite, SetToSeqIs
<1>2. \A i \in 1 .. c : order[i] \in R
  BY <1>1, ElementOfSeq
<1>3. DOMAIN q = 1 .. c /\ \A k \in 1 .. c : q[k] = DefFrame(handles[registry[order[k]]])
  BY <1>1 DEF Announce
<1>4. \A n \in R : n \in Names /\ registry[n] # None /\ registry[n] \in DOMAIN handles
  BY HandlesAre DEF Registered
<1>5. \A n \in R : handles[registry[n]] \in Handle /\ handles[registry[n]].name = n
  BY <1>4, HandlesAre DEF HandlesSound
<1>6. \A n \in R : /\ DefFrame(handles[registry[n]]) \in Frame
                   /\ DefFrame(handles[registry[n]]).tag = "def"
                   /\ DefFrame(handles[registry[n]]).name = n
  BY <1>5, FramesAre
<1>7. \A k \in 1 .. c : q[k] \in Frame /\ q[k].tag = "def" /\ q[k].name = order[k]
  BY <1>2, <1>3, <1>6
<1>8. q \in [1 .. c -> Frame]
  BY <1>1, <1>3, <1>7 DEF Announce
<1>9. q \in Seq(Frame)
  BY <1>1, <1>8, SeqDef
<1> HIDE DEF q, order, c
<1>10. \A k \in 1 .. c, n \in Names : Says(q[k], n) <=> order[k] = n
  BY <1>7 DEF Says, OfList
<1>11. OnceIn(q)
  BY <1>1, <1>3, <1>10 DEF OnceIn
<1>12. \A n \in Names : Speaks(q, n) <=> n \in R
  <2> TAKE n \in Names
  <2>1. Speaks(q, n) => n \in R
    BY <1>2, <1>3, <1>10 DEF Speaks
  <2>2. n \in R => Speaks(q, n)
    BY <1>1, <1>3, <1>10 DEF Speaks
  <2> QED BY <2>1, <2>2
<1>13. \A k \in DOMAIN q : \E n \in Names : n \in R /\ q[k] = DefFrame(handles[registry[n]])
  BY <1>2, <1>3, <1>4
<1> QED BY <1>9, <1>11, <1>12, <1>13 DEF q

\* What an attempt introduced, by handle.
LEMMA IntroducedAre ==
  ASSUME TypeOK, HandlesSound
  PROVE  /\ IsFiniteSet(Introduced) /\ None \notin Introduced
         /\ Introduced \subseteq DOMAIN handles
         /\ \A i \in Introduced : registry[handles[i].name] = i /\ handles[i].name \in Names
         /\ \A n \in Names : registry[n] \in Introduced <=> registry[n] # None /\ announced[n] # registry[n]
<1> DEFINE M == {m \in Registered(registry) : announced[m] # registry[m]}
<1>1. IsFiniteSet(M)
  BY NamesFinite DEF Registered
<1>2. Introduced = {registry[n] : n \in M}
  BY DEF Introduced
<1>3. IsFiniteSet(Introduced)
  BY <1>1, <1>2, ImageFinite
<1>4. \A n \in M : n \in Names /\ registry[n] # None /\ announced[n] # registry[n]
                   /\ registry[n] \in DOMAIN handles /\ handles[registry[n]].name = n
  BY HandlesAre DEF Registered, HandlesSound
<1>5. \A n \in Names : registry[n] # None /\ announced[n] # registry[n] => n \in M
  BY DEF Registered
<1> HIDE DEF M
<1>6. None \notin Introduced /\ Introduced \subseteq DOMAIN handles
  BY <1>2, <1>4
<1>7. \A i \in Introduced : registry[handles[i].name] = i /\ handles[i].name \in Names
  BY <1>2, <1>4
<1>8. \A n \in Names : registry[n] \in Introduced => registry[n] # None /\ announced[n] # registry[n]
  <2> SUFFICES ASSUME NEW n \in Names, registry[n] \in Introduced
               PROVE  registry[n] # None /\ announced[n] # registry[n]
    OBVIOUS
  <2>1. PICK m \in M : registry[n] = registry[m]
    BY <1>2
  <2>2. registry[n] # None /\ handles[registry[n]].name = n
    BY <1>6 DEF HandlesSound
  <2>3. n = m
    BY <1>4, <2>1, <2>2
  <2> QED BY <1>4, <2>1, <2>3
<1>9. \A n \in Names : registry[n] # None /\ announced[n] # registry[n] => registry[n] \in Introduced
  BY <1>2, <1>5
<1> QED BY <1>3, <1>6, <1>7, <1>8, <1>9

\* Device._roll_back_setup: what was introduced goes, the rest is announced.
LEMMA RollBackShape ==
  ASSUME TypeOK, HandlesSound, RollBack
  PROVE  /\ handles' = Retracted(Introduced) /\ registry' = Forget(Introduced)
         /\ config_values' = Captured(Introduced)
         /\ unsaid' = {} /\ informed' = TRUE /\ UNCHANGED <<listed, document, file, client>>
         /\ outbox' \in Seq(Frame)
         /\ OnceIn(outbox')
         /\ \A n \in Names : Speaks(outbox', n) <=> registry[n] # None
         /\ \A k \in DOMAIN outbox' : \E n \in Names :
              \/ registry'[n] = None /\ outbox'[k] = DelFrame(n)
              \/ registry'[n] # None /\ outbox'[k] = DefFrame(handles[registry'[n]])
<1> DEFINE I == Introduced
           order == SetToSeq(I)
           c == Cardinality(I)
           dels == [k \in 1 .. Len(order) |-> DelFrame(handles[order[k]].name)]
           reg == Forget(I)
           rest == Announce(Registered(reg))
<1>1. /\ IsFiniteSet(I) /\ None \notin I /\ I \subseteq DOMAIN handles
      /\ \A i \in I : registry[handles[i].name] = i /\ handles[i].name \in Names
  BY IntroducedAre
<1>2. /\ handles' = Retracted(I) /\ registry' = reg /\ config_values' = Captured(I)
      /\ unsaid' = {} /\ informed' = TRUE /\ UNCHANGED <<listed, document, file, client>>
      /\ outbox' = dels \o rest
  BY DEF RollBack
<1>3. /\ reg \in [Names -> DOMAIN handles \cup {None}]
      /\ \A n \in Names : reg[n] = IF registry[n] \in I THEN None ELSE registry[n]
  BY <1>1, ForgetIs
<1>4. /\ Registered(reg) \subseteq Registered(registry)
      /\ \A n \in Registered(reg) : reg[n] # None /\ registry[n] = reg[n]
      /\ \A n \in Names : n \in Registered(reg) <=> reg[n] # None
  BY <1>3 DEF Registered
<1>5. /\ order \in Seq(I) /\ Len(order) = c /\ c \in Nat
      /\ \A i, j \in 1 .. c : order[i] = order[j] => i = j
      /\ \A x \in I : \E i \in 1 .. c : order[i] = x
  BY <1>1, SetToSeqIs
<1>6. \A i \in 1 .. c : order[i] \in I
  BY <1>5, ElementOfSeq
<1>15. \A n \in Names : Speaks(rest, n) <=> reg[n] # None
  BY <1>4, AnnounceIs
<1>16. /\ rest \in Seq(Frame) /\ OnceIn(rest)
       /\ \A k \in DOMAIN rest :
            \E n \in Names : reg[n] # None /\ rest[k] = DefFrame(handles[reg[n]])
  <2>1. /\ rest \in Seq(Frame) /\ OnceIn(rest)
        /\ \A k \in DOMAIN rest :
             \E n \in Names : n \in Registered(reg) /\ rest[k] = DefFrame(handles[registry[n]])
    BY <1>4, AnnounceIs
  <2> QED BY <1>4, <2>1
<1> HIDE DEF order, c, I, reg, rest
<1>7. DOMAIN dels = 1 .. c /\ \A k \in 1 .. c : dels[k] = DelFrame(handles[order[k]].name)
  BY <1>5
<1>8. \A k \in 1 .. c : /\ handles[order[k]].name \in Names /\ dels[k] \in Frame
                        /\ dels[k].tag = "del" /\ dels[k].name = handles[order[k]].name
  BY <1>1, <1>6, <1>7, FramesAre
<1>9. dels \in [1 .. c -> Frame]
  BY <1>5, <1>8
<1>10. dels \in Seq(Frame)
  BY <1>5, <1>9, SeqDef
<1> HIDE DEF dels
<1>11. \A k \in 1 .. c, n \in Names : Says(dels[k], n) <=> handles[order[k]].name = n
  BY <1>8 DEF Says, OfList
<1>12. \A k, j \in 1 .. c : handles[order[k]].name = handles[order[j]].name => k = j
  <2> SUFFICES ASSUME NEW k \in 1 .. c, NEW j \in 1 .. c,
                      handles[order[k]].name = handles[order[j]].name
               PROVE  k = j
    OBVIOUS
  <2>1. registry[handles[order[k]].name] = order[k] /\ registry[handles[order[j]].name] = order[j]
    BY <1>1, <1>6
  <2> QED BY <1>5, <2>1
<1>13. OnceIn(dels)
  BY <1>7, <1>11, <1>12 DEF OnceIn
<1>14. \A n \in Names : Speaks(dels, n) <=> registry[n] \in I
  <2> TAKE n \in Names
  <2>1. Speaks(dels, n) => registry[n] \in I
    BY <1>1, <1>6, <1>7, <1>11 DEF Speaks
  <2>2. ASSUME registry[n] \in I  PROVE Speaks(dels, n)
    <3>1. PICK k \in 1 .. c : order[k] = registry[n]
      BY <1>5, <2>2
    <3>2. handles[order[k]].name = n
      BY <1>1, <2>2, <3>1 DEF HandlesSound
    <3> QED BY <1>7, <1>11, <3>2 DEF Speaks
  <2> QED BY <2>1, <2>2
<1>17. \A n \in Names : ~(Speaks(dels, n) /\ Speaks(rest, n))
  BY <1>3, <1>14, <1>15
<1>18. OnceIn(outbox') /\ \A n \in Names : Speaks(outbox', n) <=> registry[n] # None
  <2>1. /\ OnceIn(outbox')
        /\ \A n \in Names : Speaks(outbox', n) <=> Speaks(dels, n) \/ Speaks(rest, n)
    BY <1>2, <1>10, <1>13, <1>16, <1>17, ConcatOnce
  <2>2. \A n \in Names : (registry[n] \in I \/ reg[n] # None) <=> registry[n] # None
    BY <1>1, <1>3
  <2> QED BY <1>14, <1>15, <2>1, <2>2
<1>19. /\ outbox' \in Seq(Frame)
       /\ \A k \in DOMAIN outbox' :
            \/ k \in DOMAIN dels /\ outbox'[k] = dels[k]
            \/ \E j \in DOMAIN rest : outbox'[k] = rest[j]
  <2>1. /\ dels \o rest \in Seq(Frame)
        /\ \A k \in DOMAIN (dels \o rest) :
              \/ k \in DOMAIN dels /\ (dels \o rest)[k] = dels[k]
              \/ /\ k \notin DOMAIN dels /\ k - Len(dels) \in DOMAIN rest
                 /\ (dels \o rest)[k] = rest[k - Len(dels)]
                 /\ k = Len(dels) + (k - Len(dels))
    BY <1>10, <1>16, ConcatIs
  <2> QED BY <1>2, <2>1
<1>20. \A k \in DOMAIN outbox' : \E n \in Names :
              \/ registry'[n] = None /\ outbox'[k] = DelFrame(n)
              \/ registry'[n] # None /\ outbox'[k] = DefFrame(handles[registry'[n]])
  <2> TAKE k \in DOMAIN outbox'
  <2>1. CASE k \in DOMAIN dels /\ outbox'[k] = dels[k]
    <3> DEFINE n == handles[order[k]].name
    <3>1. n \in Names /\ outbox'[k] = DelFrame(n) /\ registry[n] \in I
      BY <1>1, <1>6, <1>7, <1>8, <2>1
    <3>2. registry'[n] = None
      BY <1>2, <1>3, <3>1
    <3> QED BY <3>1, <3>2
  <2>2. CASE \E j \in DOMAIN rest : outbox'[k] = rest[j]
    BY <1>2, <1>16, <2>2
  <2> QED BY <1>19, <2>1, <2>2
<1> QED BY <1>2, <1>18, <1>19, <1>20 DEF I, reg

\* Device.load_config: the file's values go where they belong, and each that
\* differs is published.
LEMMA ApplyFileShape ==
  ASSUME TypeOK, HandlesSound, ApplyFile
  PROVE  /\ handles' \in Seq(Handle) /\ DOMAIN handles' = DOMAIN handles
         /\ \A i \in DOMAIN handles : /\ handles'[i].name = handles[i].name
                                      /\ handles'[i].persist = handles[i].persist
                                      /\ handles'[i].retracted = handles[i].retracted
                                      /\ handles'[i].during = handles[i].during
                                      /\ handles'[i].state = handles[i].state
         /\ \A i \in DOMAIN handles :
              \/ handles'[i] = handles[i]
              \/ \E n \in Applied : registry[n] = i
         /\ \A n \in Applied : /\ n \in Persisted /\ registry[n] # None /\ InFile(n)
                               /\ handles'[registry[n]].val = file[n]
         /\ \A n \in Names : registry[n] # None /\ n \notin Applied =>
              handles'[registry[n]] = handles[registry[n]]
         /\ outbox' \in Seq(Frame) /\ OnceIn(outbox')
         /\ \A k \in DOMAIN outbox' : \E n \in Names :
              registry[n] # None /\ outbox'[k] = SetFrame(handles'[registry[n]])
         /\ \A n \in Names : registry[n] # None =>
              \/ Speaks(outbox', n)
              \/ /\ Shown(handles'[registry[n]]) = Shown(handles[registry[n]])
                 /\ registry[n] \in unsaid => registry[n] \in unsaid'
         /\ unsaid' \subseteq unsaid
<1> DEFINE I == {registry[n] : n \in Applied}
           P(i) == ~Suppressed(i, file[handles[i].name], handles[i].state)
           J == {i \in I : P(i)}
           order == SetToSeq(J)
           c == Cardinality(J)
           hs == [i \in DOMAIN handles |->
              IF i \in I THEN [handles[i] EXCEPT !.val = file[handles[i].name]] ELSE handles[i]]
<1>1. /\ file # None
      /\ handles' = [i \in DOMAIN handles |->
              IF i \in I THEN [handles[i] EXCEPT !.val = file[handles[i].name]] ELSE handles[i]]
      /\ outbox' = [k \in 1 .. Len(order) |-> SetFrame(handles'[order[k]])]
      /\ unsaid' = unsaid \ Range(order)
  <2>1. file # None /\ handles' = hs /\ unsaid' = unsaid \ Range(order)
    BY Zenon DEF ApplyFile
  <2>2. outbox' = [k \in 1 .. Len(order) |-> SetFrame(hs[order[k]])]
    BY Zenon DEF ApplyFile
  <2>3. outbox' = [k \in 1 .. Len(order) |-> SetFrame(handles'[order[k]])]
    <3> HIDE DEF hs, order
    <3> QED BY <2>1, <2>2, Zenon
  <2> QED BY <2>1, <2>3, Zenon
<1> HIDE DEF hs
<1>2. Applied \subseteq Names /\ \A n \in Applied : n \in PersistedNames(handles, registry) /\ InFile(n)
  BY DEF Applied, PersistedNames, Registered
<1>3. \A n \in Applied : /\ registry[n] # None /\ registry[n] \in DOMAIN handles
                         /\ handles[registry[n]].name = n /\ n \in Persisted
  BY <1>2, HandlesAre, PersistedIs DEF Registered, HandlesSound
<1>4. \A n \in Applied : file[n] \in Nat
  BY <1>1, <1>2 DEF InFile, TypeOK, Dict
<1>5. IsFiniteSet(I)
  BY <1>2, NamesFinite, ImageFinite
<1>6. /\ I \subseteq DOMAIN handles
      /\ \A i \in I : handles[i].name \in Applied /\ registry[handles[i].name] = i
  BY <1>3
<1>7. \A n \in Names : registry[n] # None /\ registry[n] \in I => n \in Applied
  BY <1>6 DEF HandlesSound
<1>8. \A n \in Applied : registry[n] \in I
  OBVIOUS
<1> HIDE DEF I
<1>9. \A i \in DOMAIN handles :
        /\ i \in I => handles'[i] = [handles[i] EXCEPT !.val = file[handles[i].name]]
        /\ i \notin I => handles'[i] = handles[i]
  BY <1>1
<1>10. \A i \in DOMAIN handles : /\ handles'[i].name = handles[i].name
                                 /\ handles'[i].persist = handles[i].persist
                                 /\ handles'[i].retracted = handles[i].retracted
                                 /\ handles'[i].during = handles[i].during
                                 /\ handles'[i].state = handles[i].state
                                 /\ handles'[i] \in Handle
                                 /\ i \in I => handles'[i].val = file[handles[i].name]
  <2> TAKE i \in DOMAIN handles
  <2>1. handles[i] \in Handle
    BY HandlesAre
  <2>2. CASE i \in I
    <3>1. file[handles[i].name] \in Nat
      BY <1>4, <1>6, <2>2
    <3> QED BY <1>9, <2>1, <2>2, <3>1, ZenonT(60) DEF Handle
  <2>3. CASE i \notin I
    BY <1>9, <2>1, <2>3
  <2> QED BY <2>2, <2>3
<1>11. handles' \in Seq(Handle) /\ DOMAIN handles' = DOMAIN handles
  <2>1. DOMAIN handles' = DOMAIN handles
    BY <1>1
  <2>2. handles' \in [1 .. Len(handles) -> Handle]
    BY <1>1, <1>10, HandlesAre
  <2> QED BY <2>1, <2>2, HandlesAre, SeqDef
<1>12. IsFiniteSet(J) /\ J \subseteq I
  BY <1>5, FS_Subset
<1>13. /\ order \in Seq(J) /\ Len(order) = c /\ c \in Nat /\ DOMAIN order = 1 .. c
       /\ \A i, j \in 1 .. c : order[i] = order[j] => i = j
       /\ \A x \in J : \E i \in 1 .. c : order[i] = x
  BY <1>12, SetToSeqIs
<1>14. \A k \in 1 .. c : order[k] \in J
  BY <1>13, ElementOfSeq
<1>15. \A i \in I : i \notin J => Shown(handles[i]) = [val |-> file[handles[i].name], state |-> handles[i].state]
  BY DEF Suppressed
<1> HIDE DEF J, c, P
<1>16. Range(order) \subseteq J
  BY <1>13, <1>14 DEF Range
<1> HIDE DEF order
<1>17. DOMAIN outbox' = 1 .. c /\ \A k \in 1 .. c : outbox'[k] = SetFrame(handles'[order[k]])
  BY <1>1, <1>13
<1>18. \A k \in 1 .. c : /\ order[k] \in I /\ order[k] \in DOMAIN handles
                         /\ handles[order[k]].name \in Names
                         /\ registry[handles[order[k]].name] = order[k]
                         /\ outbox'[k] \in Frame /\ outbox'[k].tag = "set"
                         /\ outbox'[k].name = handles[order[k]].name
  <2> TAKE k \in 1 .. c
  <2>1. order[k] \in I /\ order[k] \in DOMAIN handles
    BY <1>6, <1>12, <1>14
  <2>2. handles'[order[k]] \in Handle /\ handles'[order[k]].name = handles[order[k]].name
    BY <1>10, <2>1
  <2>3. registry[handles[order[k]].name] = order[k] /\ handles[order[k]].name \in Names
    BY <1>2, <1>6, <2>1
  <2> QED BY <1>17, <2>1, <2>2, <2>3, FramesAre
<1>19. outbox' \in Seq(Frame)
  <2>1. outbox' \in [1 .. c -> Frame]
    BY <1>1, <1>13, <1>17, <1>18
  <2> QED BY <1>13, <2>1, SeqDef
<1>20. \A k \in 1 .. c, n \in Names : Says(outbox'[k], n) <=> handles[order[k]].name = n
  BY <1>18 DEF Says, OfList
<1>21. OnceIn(outbox')
  <2> SUFFICES ASSUME NEW k \in 1 .. c, NEW j \in 1 .. c,
                      handles[order[k]].name = handles[order[j]].name
               PROVE  k = j
    BY <1>17, <1>20 DEF OnceIn
  <2>1. order[k] = order[j]
    BY <1>18
  <2> QED BY <1>13, <2>1
<1>22. \A k \in DOMAIN outbox' : \E n \in Names :
              registry[n] # None /\ outbox'[k] = SetFrame(handles'[registry[n]])
  <2> TAKE k \in DOMAIN outbox'
  <2> DEFINE n == handles[order[k]].name
  <2>1. n \in Names /\ registry[n] = order[k] /\ outbox'[k] = SetFrame(handles'[order[k]])
    BY <1>17, <1>18
  <2>2. order[k] # None
    BY <1>17, <1>18, HandlesAre
  <2> QED BY <2>1, <2>2
<1>23. \A n \in Names : registry[n] # None =>
              \/ Speaks(outbox', n)
              \/ /\ Shown(handles'[registry[n]]) = Shown(handles[registry[n]])
                 /\ registry[n] \in unsaid => registry[n] \in unsaid'
  <2> SUFFICES ASSUME NEW n \in Names, registry[n] # None, ~Speaks(outbox', n)
               PROVE  /\ Shown(handles'[registry[n]]) = Shown(handles[registry[n]])
                      /\ registry[n] \in unsaid => registry[n] \in unsaid'
    OBVIOUS
  <2> DEFINE i == registry[n]
  <2>1. i \in DOMAIN handles /\ handles[i].name = n
    BY HandlesAre DEF HandlesSound
  <2>2. i \notin J
    <3> SUFFICES ASSUME i \in J  PROVE FALSE
      OBVIOUS
    <3>1. PICK k \in 1 .. c : order[k] = i
      BY <1>13
    <3> QED BY <1>17, <1>20, <2>1, <3>1 DEF Speaks
  <2>3. i \notin Range(order)
    BY <1>16, <2>2
  <2>4. Shown(handles'[i]) = Shown(handles[i])
    <3>1. CASE i \in I
      <4>1. handles'[i].val = file[handles[i].name] /\ handles'[i].state = handles[i].state
        BY <1>10, <2>1, <3>1
      <4>2. Shown(handles'[i]) = [val |-> file[handles[i].name], state |-> handles[i].state]
        BY <4>1 DEF Shown
      <4> QED BY <1>15, <2>2, <3>1, <4>2
    <3>2. CASE i \notin I
      BY <1>9, <2>1, <3>2
    <3> QED BY <3>1, <3>2
  <2> QED BY <1>1, <2>3, <2>4
<1>24. \A i \in DOMAIN handles : \/ handles'[i] = handles[i]
                                \/ \E n \in Applied : registry[n] = i
  BY <1>6, <1>9
<1>25. \A n \in Applied : /\ n \in Persisted /\ registry[n] # None /\ InFile(n)
                         /\ handles'[registry[n]].val = file[n]
  BY <1>2, <1>3, <1>8, <1>10
<1>26. \A n \in Names : registry[n] # None /\ n \notin Applied =>
              handles'[registry[n]] = handles[registry[n]]
  BY <1>7, <1>9, HandlesAre
<1>27. unsaid' \subseteq unsaid
  BY <1>1
<1> HIDE DEF P, J, order
<1> QED BY <1>10, <1>11, <1>19, <1>21, <1>22, <1>23, <1>24, <1>25, <1>26, <1>27

-----------------------------------------------------------------------------
(* What a step does to the properties and to the stream, whoever takes it. *)

\* Nothing, although a newcomer may join, or setup() begin.
Quiet ==
  /\ UNCHANGED <<handles, registry, listed, outbox, view, view_listed, unsaid>>
  /\ UNCHANGED <<late_view, late_listed, informed>> \/ NewcomerJoins \/ BeginSetup

\* A registered handle is set and published, ...
Updates(i, v, s) ==
  /\ CaughtUp /\ i \in DOMAIN handles /\ v \in Nat /\ s \in State
  /\ registry[handles[i].name] = i
  /\ Publish(i, v, s)
  /\ UNCHANGED <<registry, listed, client, informed>>
  /\ \/ unsaid' = unsaid
     \/ unsaid' = unsaid \ {i} /\ outbox' # <<>>

\* ... or one that has been superseded, ...
Misspeaks(i, v, s) ==
  /\ CaughtUp /\ i \in DOMAIN handles /\ v \in Nat /\ s \in State
  /\ Superseded(i)
  /\ Publish(i, v, s)
  /\ UNCHANGED <<registry, listed, client, informed>>
  /\ unsaid' = IF outbox' = <<>> THEN unsaid
               ELSE unsaid \cup ({registry[handles[i].name]} \ {None})

\* ... or a handle is set and not published, ...
Mumbles(i, v) ==
  /\ CaughtUp /\ i \in DOMAIN handles /\ v \in Nat
  /\ handles' = Assigned(i, v, handles[i].state)
  /\ unsaid' = unsaid \cup {i}
  /\ UNCHANGED <<registry, listed, outbox, client, informed>>

\* ... or deleted.
Deletes(i) ==
  /\ CaughtUp /\ i \in DOMAIN handles /\ ~handles[i].retracted
  /\ Delete(i)
  /\ UNCHANGED <<client, informed, unsaid>>

\* The registered properties that stand before the list in the registry, and behind it.
Ahead == {n \in Registered(registry) : ~handles[registry[n]].behind}
Behind == Registered(registry) \ Ahead

\* The properties are announced once more, ...
Restates ==
  /\ CaughtUp
  /\ outbox' = Announce(Ahead) \o (IF listed = None THEN <<>> ELSE <<ListFrame(listed)>>)
                 \o Announce(Behind)
  /\ unsaid' = {} /\ informed' = TRUE
  /\ UNCHANGED <<handles, registry, listed, client>>

\* ... or the list of the persisted ones, for the first time, ...
Lists ==
  /\ CaughtUp /\ listed = None
  /\ listed' = PersistedNames(handles, registry)
  /\ outbox' = <<ListFrame(PersistedNames(handles, registry))>>
  /\ UNCHANGED <<handles, registry, client, informed, unsaid>>

\* ... or those that are left of a failed setup.
RollsBack == CaughtUp /\ listed = None /\ RollBack

\* The saved values are put in place.
Applies == CaughtUp /\ ApplyFile

\* The reader takes it up, ...
LEMMA BeginsIs ==
  ASSUME TypeOK, HandlesSound, ReaderBegins
  PROVE  Quiet \/ Restates \/ \E i, v, s : Updates(i, v, s)
<1> USE DEF Begins, At, history, client, properties
<1>1. CASE BeginSetup
  BY <1>1 DEF BeginSetup, Quiet
<1>2. CASE Reannounce
  BY <1>2 DEF Reannounce, Restates, Ahead, Behind
<1>3. CASE BeginHandler
  BY <1>3 DEF BeginHandler, Quiet
<1>4. ASSUME NEW n \in Registered(registry)
      PROVE  registry[n] \in DOMAIN handles /\ registry[handles[registry[n]].name] = registry[n]
  BY HandlesAre DEF Registered, HandlesSound
<1>5. ASSUME NEW n \in Registered(registry), NEW v \in Nat, NEW s \in State, CaughtUp,
             Publish(registry[n], v, s), UNCHANGED <<registry, listed, client, informed, unsaid>>
      PROVE  \E i, w, t : Updates(i, w, t)
  <2>1. Updates(registry[n], v, s)
    BY <1>4, <1>5 DEF Updates
  <2> QED BY <2>1
<1>6. ASSUME NEW r \in {"CONNECT", "DISCONNECT"}, BeginConnection(r)  PROVE \E i, v, s : Updates(i, v, s)
  <2>1. CASE r = "CONNECT"
    BY <1>5, <1>6, <2>1 DEF BeginConnection, Press, State
  <2>2. CASE r = "DISCONNECT"
    BY <1>5, <1>6, <2>2 DEF BeginConnection, Press, State
  <2> QED BY <2>1, <2>2
<1>7. CASE NothingSelected
  BY <1>5, <1>7 DEF NothingSelected, BeginConfig, State
<1>8. CASE BeginSave
  BY <1>5, <1>8 DEF BeginSave, BeginConfig, Press, State
<1>9. CASE BeginPurge
  BY <1>5, <1>9 DEF BeginPurge, BeginConfig, Press, State
<1>10. CASE BeginLoad
  BY <1>5, <1>10 DEF BeginLoad, BeginConfig, Press, State
<1> QED BY <1>1, <1>2, <1>3, <1>6, <1>7, <1>8, <1>9, <1>10 DEF ReaderBegins

\* What a built-in handler says at its end, it says if the property is there.
LEMMA SettlesIs ==
  ASSUME TypeOK, BoundSound, CaughtUp, pc[Reader] = "hook" \/ InConfig,
         NEW v \in Nat, NEW s \in State, PublishIfLive(bound, v, s),
         UNCHANGED <<registry, listed, client, informed, unsaid>>
  PROVE  /\ bound \in DOMAIN handles
         /\ \/ handles[bound].retracted /\ Quiet
            \/ ~handles[bound].retracted /\ Updates(bound, v, s)
<1>1. bound # None /\ bound \in DOMAIN handles
  BY DEF BoundSound, TypeOK
<1>2. ~handles[bound].retracted => registry[handles[bound].name] = bound
  BY <1>1 DEF BoundSound
<1>3. CASE handles[bound].retracted
  BY <1>1, <1>3 DEF PublishIfLive, Quiet, client, CaughtUp
<1>4. CASE ~handles[bound].retracted
  BY <1>1, <1>2, <1>4 DEF PublishIfLive, Updates, client
<1> QED BY <1>3, <1>4

\* ... and brings it to an end, ...
LEMMA EndsIs ==
  ASSUME TypeOK, HandlesSound, BoundSound, AttemptSound, ReaderEnds
  PROVE  Quiet \/ Lists \/ RollsBack \/ Applies \/ \E i, v, s : Updates(i, v, s)
<1> USE DEF At, history, client, properties
<1>1. CASE SetupReturns
  BY <1>1 DEF SetupReturns, Lists, Quiet, CaughtUp
<1>2. CASE SetupRaises
  BY <1>2 DEF SetupRaises, RollsBack, AttemptSound, Attempting
<1>3. ASSUME CaughtUp, pc[Reader] = "hook" \/ InConfig,
             NEW v \in Nat, NEW s \in State, PublishIfLive(bound, v, s),
             UNCHANGED <<registry, listed, client, informed, unsaid>>
      PROVE  Quiet \/ \E i, w, t : Updates(i, w, t)
  BY <1>3, SettlesIs
<1>4. CASE HookReturns
  <2>1. bound \in DOMAIN handles
    BY <1>4 DEF HookReturns, BoundSound, TypeOK
  <2>2. handles[bound].val \in Nat
    BY <2>1, HandlesAre DEF Handle
  <2> QED BY <1>3, <1>4, <2>2 DEF HookReturns, State
<1>5. CASE HookRaises
  <2>1. CASE request = "CONNECT"
    BY <1>3, <1>5, <2>1 DEF HookRaises, State
  <2>2. CASE request # "CONNECT"
    BY <1>3, <1>5, <2>2 DEF HookRaises, State
  <2> QED BY <2>1, <2>2
<1>6. CASE HandlerEnds
  BY <1>6 DEF HandlerEnds, Quiet
<1>7. CASE Saved
  BY <1>3, <1>7 DEF Saved, Settle, State, InConfig
<1>8. CASE Purged
  BY <1>3, <1>8 DEF Purged, Settle, State, InConfig
<1>9. CASE Loaded
  BY <1>9 DEF Loaded, Applies
<1>10. CASE SetupLoaded
  BY <1>10 DEF SetupLoaded, Applies
<1>11. CASE SetupLoadFails
  BY <1>11 DEF SetupLoadFails, Quiet
<1>12. CASE LoadedReturns
  BY <1>3, <1>12 DEF LoadedReturns, Settle, State, InConfig
<1>13. CASE ConfigFails
  BY <1>3, <1>13 DEF ConfigFails, Settle, State, InConfig
<1> QED BY <1>1, <1>2, <1>4, <1>5, <1>6, <1>7, <1>8, <1>9, <1>10, <1>11, <1>12, <1>13 DEF ReaderEnds

\* ... the author's code does one thing, ...
LEMMA AuthorIs ==
  ASSUME TypeOK, HandlesSound, NEW a \in Actors, AuthorsCode(a)
  PROVE  \/ \E n : Defines(a, n)
         \/ \E i : Deletes(i)
         \/ \E i, v, s : Updates(i, v, s) \/ Misspeaks(i, v, s)
         \/ \E i, v : Mumbles(i, v)
<1> USE DEF Operate
<1>1. ASSUME NEW n \in OwnNames, DefineOwn(a, n)  PROVE Defines(a, n)
  BY <1>1 DEF DefineOwn, Defines, Names
<1>2. ASSUME NEW i \in DOMAIN handles, DeleteHandle(a, i)  PROVE Deletes(i)
  BY <1>2 DEF DeleteHandle, Deletes
<1>3. ASSUME NEW i \in DOMAIN handles, NEW v \in Values
      PROVE  handles[i].state \in State /\ v \in Nat
  BY HandlesAre, DeviceAssumption DEF Handle
<1>4. ASSUME NEW i \in DOMAIN handles, NEW v \in Values, SetOwn(a, i, v)
      PROVE  \E s : Updates(i, v, s) \/ Misspeaks(i, v, s)
  <2>1. /\ CaughtUp /\ ~handles[i].retracted /\ Publish(i, v, handles[i].state)
        /\ UNCHANGED <<registry, listed, client, informed>>
        /\ unsaid' = IF outbox' = <<>> THEN unsaid ELSE Heard(i)
    BY <1>4 DEF SetOwn, Sets
  <2>2. CASE Superseded(i)
    <3>1. Misspeaks(i, v, handles[i].state)
      BY <1>3, <2>1, <2>2 DEF Misspeaks, Heard
    <3> QED BY <3>1
  <2>3. CASE ~Superseded(i)
    <3>1. registry[handles[i].name] = i
      BY <2>1, <2>3 DEF Superseded
    <3>2. Updates(i, v, handles[i].state)
      BY <1>3, <2>1, <2>3, <3>1 DEF Updates, Heard
    <3> QED BY <3>2
  <2> QED BY <2>2, <2>3
<1>5. ASSUME NEW i \in DOMAIN handles, NEW v \in Values, SetOwnHalfway(a, i, v)
      PROVE  Mumbles(i, v)
  BY <1>3, <1>5 DEF SetOwnHalfway, Sets, Mumbles
<1> QED BY <1>1, <1>2, <1>4, <1>5 DEF AuthorsCode

\* ... setup() defines a built-in switch, which is never persisted, ...
LEMMA BuiltInIs ==
  ASSUME NEW n \in BuiltIn, DefineBuiltIn(n)
  PROVE  Defines(Reader, n) /\ n \notin Persisted
<1>1. n \in Names /\ n \notin Persisted
  BY DeviceAssumption DEF Names
<1>2. (n \in Persisted) = FALSE
  BY <1>1
<1>3. Define(Reader, n, FALSE)
  BY DEF DefineBuiltIn
<1>4. Define(Reader, n, n \in Persisted)
  BY <1>2, <1>3, Zenon
<1>5. /\ CaughtUp /\ Reader \in Actors /\ InBody(Reader)
      /\ UNCHANGED <<client, informed, unsaid>>
  BY DEF DefineBuiltIn, Operate, Actors
<1> QED BY <1>1, <1>4, <1>5 DEF Defines

\* ... and that is all there is.
LEMMA StepIs ==
  ASSUME TypeOK, HandlesSound, BoundSound, AttemptSound, [Next]_vars
  PROVE  \/ Quiet \/ Write \/ Restates \/ Lists \/ RollsBack \/ Applies
         \/ \E a, n : Defines(a, n)
         \/ \E i : Deletes(i)
         \/ \E i, v, s : Updates(i, v, s) \/ Misspeaks(i, v, s)
         \/ \E i, v : Mumbles(i, v)
<1> USE DEF history, client, properties
<1>1. ASSUME NEW r \in Asked, Receive(r)  PROVE Quiet
  BY <1>1 DEF Receive, Quiet
<1>2. ASSUME NEW t \in Ticks, Tick(t)  PROVE Quiet
  BY <1>2 DEF Tick, Quiet
<1>3. ASSUME NEW n \in BuiltIn, DefineBuiltIn(n)  PROVE Defines(Reader, n)
  BY <1>3, BuiltInIs
<1>4. CASE SetupLoads
  BY <1>4 DEF SetupLoads, Quiet
<1>5. CASE UNCHANGED vars \/ NewcomerJoins
  BY <1>5 DEF vars, Quiet, NewcomerJoins
<1>6. CASE ReaderBegins
  BY <1>6, BeginsIs
<1>7. CASE ReaderEnds
  BY <1>7, EndsIs
<1>8. ASSUME NEW a \in Actors, AuthorsCode(a)
      PROVE  \/ \E n : Defines(a, n)
             \/ \E i : Deletes(i)
             \/ \E i, v, s : Updates(i, v, s) \/ Misspeaks(i, v, s)
             \/ \E i, v : Mumbles(i, v)
  BY <1>8, AuthorIs
<1> QED BY <1>1, <1>2, <1>3, <1>4, <1>5, <1>6, <1>7, <1>8 DEF Next, Driver

-----------------------------------------------------------------------------
(* The handles, class by class.                                            *)

\* The part of the type invariant that speaks of the properties.
PropertiesType ==
  /\ handles \in Seq(Handle)
  /\ registry \in [Names -> DOMAIN handles \cup {None}]
  /\ listed \in (SUBSET Names) \cup {None}
  /\ outbox \in Seq(Frame)
  /\ unsaid \subseteq DOMAIN handles

\* No handle is ever lost, nor does it become another's.
Grown ==
  /\ DOMAIN handles \subseteq DOMAIN handles'
  /\ \A i \in DOMAIN handles : /\ handles'[i].name = handles[i].name
                               /\ handles'[i].persist = handles[i].persist
                               /\ handles'[i].during = handles[i].during
                               /\ handles[i].retracted => handles'[i].retracted

\* What the eleven classes of steps keep of the properties.
Sane == PropertiesType /\ HandlesSound

\* They do: a step that does nothing to the properties, ...
LEMMA QuietSane ==
  ASSUME TypeOK, HandlesSound, Quiet
  PROVE  Sane' /\ Grown
BY DEF TypeOK, HandlesSound, Quiet, Sane, PropertiesType, Grown

\* ... a frame written, ...
LEMMA WriteSane ==
  ASSUME TypeOK, HandlesSound, Write
  PROVE  Sane' /\ Grown
<1>1. UNCHANGED <<handles, registry, listed, unsaid>> /\ outbox' = Tail(outbox) /\ outbox # <<>>
  BY DEF Write, properties, history
<1>2. outbox' \in Seq(Frame)
  BY <1>1, HeadTailProperties DEF TypeOK
<1> QED BY <1>1, <1>2 DEF TypeOK, HandlesSound, Sane, PropertiesType, Grown

\* ... a handle set and published, ...
LEMMA UpdatesSane ==
  ASSUME TypeOK, HandlesSound, NEW i, NEW v, NEW s, Updates(i, v, s)
  PROVE  Sane' /\ Grown
<1>1. /\ i \in DOMAIN handles /\ v \in Nat /\ s \in State /\ Publish(i, v, s)
      /\ UNCHANGED <<registry, listed>> /\ unsaid' \subseteq unsaid
  BY DEF Updates
<1>2. handles' = Assigned(i, v, s) /\ outbox' \in Seq(Frame)
  BY <1>1, PublishShape
<1>3. /\ Assigned(i, v, s) \in Seq(Handle)
      /\ \A j \in DOMAIN handles : /\ Assigned(i, v, s)[j].name = handles[j].name
                                   /\ Assigned(i, v, s)[j].persist = handles[j].persist
                                   /\ Assigned(i, v, s)[j].retracted = handles[j].retracted
                                   /\ Assigned(i, v, s)[j].during = handles[j].during
  <2>1. i \in DOMAIN handles /\ v \in Nat /\ s \in State
    BY <1>1
  <2>2. Assigned(i, v, s) \in Seq(Handle)
    BY <2>1, AssignedIs
  <2>3. \A j \in DOMAIN handles : /\ Assigned(i, v, s)[j].name = handles[j].name
                                  /\ Assigned(i, v, s)[j].persist = handles[j].persist
                                  /\ Assigned(i, v, s)[j].retracted = handles[j].retracted
                                  /\ Assigned(i, v, s)[j].during = handles[j].during
    BY <2>1, AssignedIs
  <2> QED BY <2>2, <2>3
<1>4. DOMAIN handles' = DOMAIN handles
  BY <1>2 DEF Assigned
<1>5. PropertiesType'
  BY <1>1, <1>2, <1>3, <1>4 DEF PropertiesType, TypeOK
<1>6. Grown
  BY <1>2, <1>3, <1>4 DEF Grown
<1>7. HandlesSound'
  BY <1>1, <1>2, <1>3, <1>4, HandlesAre DEF HandlesSound
<1> QED BY <1>5, <1>6, <1>7 DEF Sane

\* ... or a superseded one, ...
LEMMA MisspeaksSane ==
  ASSUME TypeOK, HandlesSound, NEW i, NEW v, NEW s, Misspeaks(i, v, s)
  PROVE  Sane' /\ Grown
<1>1. /\ i \in DOMAIN handles /\ v \in Nat /\ s \in State /\ Publish(i, v, s)
      /\ UNCHANGED <<registry, listed>>
  BY DEF Misspeaks
<1>2. handles' = Assigned(i, v, s) /\ outbox' \in Seq(Frame)
  BY <1>1, PublishShape
<1>3. Assigned(i, v, s) \in Seq(Handle)
  BY <1>1, AssignedIs
<1>4. \A j \in DOMAIN handles : /\ handles'[j].name = handles[j].name
                               /\ handles'[j].persist = handles[j].persist
                               /\ handles'[j].retracted = handles[j].retracted
                               /\ handles'[j].during = handles[j].during
  BY <1>1, <1>2, AssignedIs
<1>5. DOMAIN handles' = DOMAIN handles
  BY <1>2 DEF Assigned
<1>6. unsaid' \subseteq DOMAIN handles
  <2>1. handles[i].name \in Names
    BY <1>1, HandlesAre DEF Handle
  <2>2. {registry[handles[i].name]} \ {None} \subseteq DOMAIN handles
    BY <2>1 DEF TypeOK
  <2> QED BY <2>2 DEF Misspeaks, TypeOK
<1>7. PropertiesType'
  BY <1>1, <1>2, <1>3, <1>5, <1>6 DEF PropertiesType, TypeOK
<1>8. Grown
  BY <1>4, <1>5 DEF Grown
<1>9. HandlesSound'
  BY <1>1, <1>4, <1>5, HandlesAre DEF HandlesSound
<1> QED BY <1>7, <1>8, <1>9 DEF Sane

\* ... or one set and not published, ...
LEMMA MumblesSane ==
  ASSUME TypeOK, HandlesSound, NEW i, NEW v, Mumbles(i, v)
  PROVE  Sane' /\ Grown
<1> DEFINE s == handles[i].state
<1>1. /\ i \in DOMAIN handles /\ v \in Nat /\ handles' = Assigned(i, v, s)
      /\ UNCHANGED <<registry, listed, outbox>> /\ unsaid' = unsaid \cup {i}
  BY DEF Mumbles
<1>2. s \in State
  BY <1>1, HandlesAre DEF Handle
<1> HIDE DEF s
<1>3. /\ Assigned(i, v, s) \in Seq(Handle)
      /\ \A j \in DOMAIN handles : /\ Assigned(i, v, s)[j].name = handles[j].name
                                   /\ Assigned(i, v, s)[j].persist = handles[j].persist
                                   /\ Assigned(i, v, s)[j].retracted = handles[j].retracted
                                   /\ Assigned(i, v, s)[j].during = handles[j].during
  BY <1>1, <1>2, AssignedIs
<1>4. DOMAIN handles' = DOMAIN handles
  BY <1>1 DEF Assigned
<1>5. PropertiesType'
  BY <1>1, <1>3, <1>4 DEF PropertiesType, TypeOK
<1>6. Grown
  BY <1>1, <1>3, <1>4 DEF Grown
<1>7. HandlesSound'
  BY <1>1, <1>3, <1>4, HandlesAre DEF HandlesSound
<1> QED BY <1>5, <1>6, <1>7 DEF Sane

\* ... a property defined: a new handle owns its name, ...
LEMMA DefinesSane ==
  ASSUME TypeOK, HandlesSound, NEW a, NEW n, Defines(a, n)
  PROVE  Sane' /\ Grown
<1>1. unsaid' = unsaid
  BY DEF Defines
<1>2. /\ n \in Names /\ Newest \notin DOMAIN handles
      /\ handles' \in Seq(Handle) /\ DOMAIN handles' = DOMAIN handles \cup {Newest}
      /\ \A j \in DOMAIN handles : handles'[j] = handles[j]
      /\ listed' \in (SUBSET Names) \cup {None}
      /\ outbox' \in Seq(Frame)
  BY DefineShape
<1>7. handles'[Newest].name = n /\ (handles'[Newest].persist <=> n \in Persisted)
  BY DefineShape
<1>8. ~handles'[Newest].retracted
  BY DefineShape
<1>9. /\ registry'[n] = Newest
      /\ \A m \in Names : m # n => registry'[m] = registry[m]
      /\ registry' \in [Names -> DOMAIN handles' \cup {None}]
  BY DefineShape
<1>3. PropertiesType'
  BY <1>1, <1>2, <1>9 DEF PropertiesType, TypeOK
<1>4. Grown
  BY <1>2 DEF Grown
<1>5. \A i \in DOMAIN handles' : handles'[i].persist <=> handles'[i].name \in Persisted
  BY <1>2, <1>7 DEF HandlesSound
<1>6. \A m \in Names : registry'[m] # None =>
        handles'[registry'[m]].name = m /\ ~handles'[registry'[m]].retracted
  BY <1>2, <1>7, <1>8, <1>9, HandlesAre DEF HandlesSound
<1> QED BY <1>3, <1>4, <1>5, <1>6 DEF Sane, HandlesSound

\* ... or deleted: its handle is retracted as it loses the name, ...
LEMMA DeletesSane ==
  ASSUME TypeOK, HandlesSound, ListIsExact, NEW i, Deletes(i)
  PROVE  Sane' /\ Grown
<1>1. i \in DOMAIN handles /\ Delete(i) /\ unsaid' = unsaid
  BY DEF Deletes
<1>2. /\ handles' = Retracted({i}) /\ registry' = Forget({i})
      /\ listed' \in (SUBSET Names) \cup {None}
      /\ outbox' \in Seq(Frame)
  BY <1>1, DeleteShape
<1>3. /\ handles' \in Seq(Handle) /\ DOMAIN handles' = DOMAIN handles
      /\ \A j \in DOMAIN handles :
              /\ handles'[j].name = handles[j].name
              /\ handles'[j].persist = handles[j].persist
              /\ handles'[j].during = handles[j].during
              /\ handles'[j].retracted <=> handles[j].retracted \/ j = i
  BY <1>2, RetractedIs
<1>4. /\ registry' \in [Names -> DOMAIN handles \cup {None}]
      /\ \A n \in Names : registry'[n] = IF registry[n] = i THEN None ELSE registry[n]
  <2>1. None \notin {i}
    BY <1>1, HandlesAre
  <2> QED BY <1>2, <2>1, ForgetIs
<1>5. PropertiesType'
  BY <1>1, <1>2, <1>3, <1>4 DEF PropertiesType, TypeOK
<1>6. Grown
  BY <1>3 DEF Grown
<1>7. HandlesSound'
  BY <1>3, <1>4, HandlesAre DEF HandlesSound
<1> QED BY <1>5, <1>6, <1>7 DEF Sane

\* What a restatement says: everything there is, once, and the list among it.
LEMMA RestatesIs ==
  ASSUME TypeOK, HandlesSound, Restates
  PROVE  /\ outbox' \in Seq(Frame)
         /\ OnceIn(outbox')
         /\ \A n \in Names : registry[n] # None => Speaks(outbox', n)
         /\ \A k \in DOMAIN outbox' :
              \/ \E n \in Names : registry[n] # None /\ outbox'[k] = DefFrame(handles[registry[n]])
              \/ listed # None /\ outbox'[k] = ListFrame(listed)
         /\ listed # None => \E k \in DOMAIN outbox' : outbox'[k] = ListFrame(listed)
<1> DEFINE p == Announce(Ahead)
           q == IF listed = None THEN <<>> ELSE <<ListFrame(listed)>>
           r == Announce(Behind)
<1>1. /\ Ahead \subseteq Registered(registry) /\ Behind \subseteq Registered(registry)
      /\ \A n \in Names : n \in Registered(registry) <=> registry[n] # None
      /\ \A n \in Names : registry[n] # None <=> n \in Ahead \/ n \in Behind
      /\ \A n \in Names : ~(n \in Ahead /\ n \in Behind)
  BY DEF Registered, Ahead, Behind
<1>2. /\ p \in Seq(Frame) /\ OnceIn(p)
      /\ \A n \in Names : Speaks(p, n) <=> n \in Ahead
      /\ \A k \in DOMAIN p :
              \E n \in Names : n \in Ahead /\ p[k] = DefFrame(handles[registry[n]])
  BY <1>1, AnnounceIs
<1>3. /\ r \in Seq(Frame) /\ OnceIn(r)
      /\ \A n \in Names : Speaks(r, n) <=> n \in Behind
      /\ \A k \in DOMAIN r :
              \E n \in Names : n \in Behind /\ r[k] = DefFrame(handles[registry[n]])
  BY <1>1, AnnounceIs
<1>4. /\ q \in Seq(Frame)
      /\ \A k \in DOMAIN q : listed # None /\ q[k] = ListFrame(listed) /\ q[k].tag = "list"
      /\ listed # None => \E k \in DOMAIN q : q[k] = ListFrame(listed)
  <2>1. CASE listed = None
    BY <2>1, ShortQueues
  <2>2. CASE listed # None
    <3>1. ListFrame(listed) \in Frame /\ ListFrame(listed).tag = "list"
      BY <2>2, FramesAre DEF TypeOK
    <3>2. q = <<ListFrame(listed)>>
      BY <2>2
    <3> HIDE DEF q
    <3>3. q \in Seq(Frame) /\ DOMAIN q = {1} /\ q[1] = ListFrame(listed)
      BY <3>1, <3>2, ShortQueues
    <3> QED BY <2>2, <3>1, <3>3
  <2> QED BY <2>1, <2>2
<1>5. outbox' = p \o q \o r
  BY DEF Restates
<1> HIDE DEF p, q, r
<1>6. OnceIn(q) /\ \A n \in Names : ~Speaks(q, n)
  BY <1>4 DEF OnceIn, Speaks, Says, OfList
<1>7. PICK u : u = p \o q
  OBVIOUS
<1>8. /\ u \in Seq(Frame) /\ OnceIn(u)
      /\ \A n \in Names : Speaks(u, n) <=> n \in Ahead
  <2>1. /\ p \o q \in Seq(Frame) /\ OnceIn(p \o q)
        /\ \A n \in Names : Speaks(p \o q, n) <=> Speaks(p, n) \/ Speaks(q, n)
    BY <1>2, <1>4, <1>6, ConcatOnce, ConcatProperties
  <2> QED BY <1>2, <1>6, <1>7, <2>1
<1>9. /\ u \o r \in Seq(Frame) /\ OnceIn(u \o r)
      /\ \A n \in Names : Speaks(u \o r, n) <=> Speaks(u, n) \/ Speaks(r, n)
  <2>1. \A n \in Names : ~(Speaks(u, n) /\ Speaks(r, n))
    BY <1>1, <1>3, <1>8
  <2> QED BY <1>3, <1>8, <2>1, ConcatOnce, ConcatProperties
<1>10. outbox' = u \o r
  BY <1>5, <1>7
<1>11. /\ \A k \in DOMAIN u : (\E j \in DOMAIN p : u[k] = p[j]) \/ (\E j \in DOMAIN q : u[k] = q[j])
       /\ \A j \in DOMAIN q : \E k \in DOMAIN u : u[k] = q[j]
  <2>1. p \in Seq(Frame) /\ q \in Seq(Frame)
    BY <1>2, <1>4
  <2>2. /\ \A k \in DOMAIN (p \o q) : \/ \E j \in DOMAIN p : (p \o q)[k] = p[j]
                                     \/ \E j \in DOMAIN q : (p \o q)[k] = q[j]
        /\ \A j \in DOMAIN q : \E k \in DOMAIN (p \o q) : (p \o q)[k] = q[j]
    BY <2>1, ConcatHas
  <2> QED BY <1>7, <2>2
<1>12. /\ \A k \in DOMAIN outbox' :
            (\E j \in DOMAIN u : outbox'[k] = u[j]) \/ (\E j \in DOMAIN r : outbox'[k] = r[j])
       /\ \A j \in DOMAIN u : \E k \in DOMAIN outbox' : outbox'[k] = u[j]
  <2>1. u \in Seq(Frame) /\ r \in Seq(Frame)
    BY <1>3, <1>8
  <2>2. /\ \A k \in DOMAIN (u \o r) : \/ \E j \in DOMAIN u : (u \o r)[k] = u[j]
                                     \/ \E j \in DOMAIN r : (u \o r)[k] = r[j]
        /\ \A j \in DOMAIN u : \E k \in DOMAIN (u \o r) : (u \o r)[k] = u[j]
    BY <2>1, ConcatHas
  <2> QED BY <1>10, <2>2
<1>13. \A k \in DOMAIN outbox' :
              \/ \E n \in Names : registry[n] # None /\ outbox'[k] = DefFrame(handles[registry[n]])
              \/ listed # None /\ outbox'[k] = ListFrame(listed)
  <2> TAKE k \in DOMAIN outbox'
  <2>1. \/ \E j \in DOMAIN p : outbox'[k] = p[j]
        \/ \E j \in DOMAIN q : outbox'[k] = q[j]
        \/ \E j \in DOMAIN r : outbox'[k] = r[j]
    BY <1>11, <1>12
  <2> QED BY <1>1, <1>2, <1>3, <1>4, <2>1
<1>14. listed # None => \E k \in DOMAIN outbox' : outbox'[k] = ListFrame(listed)
  <2> SUFFICES ASSUME listed # None  PROVE \E k \in DOMAIN outbox' : outbox'[k] = ListFrame(listed)
    OBVIOUS
  <2>1. PICK j \in DOMAIN q : q[j] = ListFrame(listed)
    BY <1>4
  <2>2. PICK l \in DOMAIN u : u[l] = q[j]
    BY <1>11
  <2>3. PICK k \in DOMAIN outbox' : outbox'[k] = u[l]
    BY <1>12
  <2> QED BY <2>1, <2>2, <2>3
<1>15. \A n \in Names : registry[n] # None => Speaks(outbox', n)
  BY <1>1, <1>3, <1>8, <1>9, <1>10
<1> QED BY <1>9, <1>10, <1>13, <1>14, <1>15

\* ... everything announced once more, ...
LEMMA RestatesSane ==
  ASSUME TypeOK, HandlesSound, Restates
  PROVE  Sane' /\ Grown
<1>1. UNCHANGED <<handles, registry, listed>> /\ unsaid' = {} /\ outbox' \in Seq(Frame)
  BY RestatesIs DEF Restates
<1> QED BY <1>1 DEF TypeOK, HandlesSound, Sane, PropertiesType, Grown

\* ... the list published for the first time, ...
LEMMA ListsSane ==
  ASSUME TypeOK, HandlesSound, Lists
  PROVE  Sane' /\ Grown
<1>1. PersistedNames(handles, registry) \in SUBSET Names
  BY DEF PersistedNames, Registered
<1>2. ListFrame(PersistedNames(handles, registry)) \in Frame
  BY <1>1, FramesAre
<1>3. outbox' \in Seq(Frame)
  BY <1>2, ShortQueues DEF Lists
<1>4. UNCHANGED <<handles, registry, unsaid>> /\ listed' = PersistedNames(handles, registry)
  BY DEF Lists
<1> QED BY <1>1, <1>3, <1>4 DEF TypeOK, HandlesSound, Sane, PropertiesType, Grown

\* ... a failed setup rolled back: what is retracted has lost its name, ...
LEMMA RollsBackSane ==
  ASSUME TypeOK, HandlesSound, RollsBack
  PROVE  Sane' /\ Grown
<1>1. RollBack
  BY DEF RollsBack
<1>2. /\ handles' = Retracted(Introduced) /\ registry' = Forget(Introduced)
      /\ unsaid' = {} /\ UNCHANGED listed
      /\ outbox' \in Seq(Frame)
  BY <1>1, RollBackShape
<1>3. None \notin Introduced
  BY IntroducedAre
<1>4. /\ handles' \in Seq(Handle) /\ DOMAIN handles' = DOMAIN handles
      /\ \A j \in DOMAIN handles :
              /\ handles'[j].name = handles[j].name
              /\ handles'[j].persist = handles[j].persist
              /\ handles'[j].during = handles[j].during
              /\ handles'[j].retracted <=> handles[j].retracted \/ j \in Introduced
  BY <1>2, RetractedIs
<1>5. /\ registry' \in [Names -> DOMAIN handles \cup {None}]
      /\ \A n \in Names : registry'[n] = IF registry[n] \in Introduced THEN None ELSE registry[n]
  BY <1>2, <1>3, ForgetIs
<1>6. PropertiesType'
  BY <1>2, <1>4, <1>5 DEF PropertiesType, TypeOK
<1>7. Grown
  BY <1>4 DEF Grown
<1>8. HandlesSound'
  BY <1>4, <1>5, HandlesAre DEF HandlesSound
<1> QED BY <1>6, <1>7, <1>8 DEF Sane

\* ... and the saved values put in place.
LEMMA AppliesSane ==
  ASSUME TypeOK, HandlesSound, Applies
  PROVE  Sane' /\ Grown
<1>1. ApplyFile /\ UNCHANGED <<registry, listed>>
  BY DEF Applies, ApplyFile
<1>2. /\ handles' \in Seq(Handle) /\ DOMAIN handles' = DOMAIN handles
      /\ \A i \in DOMAIN handles : /\ handles'[i].name = handles[i].name
                                   /\ handles'[i].persist = handles[i].persist
                                   /\ handles'[i].retracted = handles[i].retracted
                                   /\ handles'[i].during = handles[i].during
      /\ outbox' \in Seq(Frame)
      /\ unsaid' \subseteq unsaid
  BY <1>1, ApplyFileShape
<1>3. PropertiesType'
  BY <1>1, <1>2 DEF PropertiesType, TypeOK
<1>4. Grown
  BY <1>2 DEF Grown
<1>5. HandlesSound'
  BY <1>1, <1>2, HandlesAre DEF HandlesSound
<1> QED BY <1>3, <1>4, <1>5 DEF Sane

\* Every step keeps the handles sound, and their names.
LEMMA StepSane ==
  ASSUME TypeOK, HandlesSound, ListIsExact, BoundSound, AttemptSound, [Next]_vars
  PROVE  Sane' /\ Grown
BY StepIs, QuietSane, WriteSane, UpdatesSane, MisspeaksSane, MumblesSane, DefinesSane, DeletesSane, RestatesSane,
   ListsSane, RollsBackSane, AppliesSane

-----------------------------------------------------------------------------
(* The stream.                                                             *)

\* The persisted properties, by name.
LEMMA PersistedOf ==
  ASSUME NEW hs, NEW reg,
         \A i \in DOMAIN hs : hs[i].persist <=> hs[i].name \in Persisted,
         \A n \in Names : reg[n] # None => reg[n] \in DOMAIN hs /\ hs[reg[n]].name = n
  PROVE  PersistedNames(hs, reg) = Registered(reg) \cap Persisted
BY DEF PersistedNames, Registered

\* So the list is exact when it has the names registered that are persisted.
LEMMA ExactIs ==
  ASSUME Sane
  PROVE  ListIsExact <=> (listed # None => listed = Registered(registry) \cap Persisted)
<1>1. PersistedNames(handles, registry) = Registered(registry) \cap Persisted
  BY PersistedOf DEF Sane, PropertiesType, HandlesSound
<1> QED BY <1>1 DEF ListIsExact

\* ... and in the next state likewise.
LEMMA ExactIsNext ==
  ASSUME Sane'
  PROVE  ListIsExact' <=> (listed' # None => listed' = Registered(registry') \cap Persisted)
<1>1. PersistedNames(handles', registry') = Registered(registry') \cap Persisted
  <2>1. \A i \in DOMAIN handles' : handles'[i].persist <=> handles'[i].name \in Persisted
    BY DEF Sane, PropertiesType, HandlesSound
  <2>2. \A n \in Names : registry'[n] # None =>
          registry'[n] \in DOMAIN handles' /\ handles'[registry'[n]].name = n
    BY DEF Sane, PropertiesType, HandlesSound
  <2> QED BY <2>1, <2>2, PersistedOf
<1> QED BY <1>1 DEF ListIsExact

\* Once the outbox is empty everything is shown as it is.
LEMMA Settled ==
  ASSUME StreamSound, CaughtUp
  PROVE  /\ \A n \in Names : Shows(n)
         /\ view_listed = listed
         /\ ListIsTrue
<1>1. DOMAIN outbox = {}
  BY DEF CaughtUp
<1> QED BY <1>1 DEF StreamSound, FramesSound, ListsSound

\* Two names have different handles.
LEMMA OwnHandles ==
  ASSUME TypeOK, HandlesSound, NEW m \in Names, NEW n \in Names, m # n, registry[m] # None
  PROVE  registry[m] # registry[n]
BY DEF HandlesSound

\* Nothing is done to the stream.
LEMMA QuietStream ==
  ASSUME StreamSound, Quiet
  PROVE  StreamSound'
<1> USE DEF Quiet
<1>1. \A f : IsTrue(f)' <=> IsTrue(f)
  BY DEF IsTrue, OfOwner, OfAnother, Superseded
<1>2. \A n : Shows(n)' <=> Shows(n)
  BY DEF Shows
<1>3. ListIsTrue' <=> ListIsTrue
  BY DEF ListIsTrue, ListIsVisible, ListIsExact
<1> QED BY <1>1, <1>2, <1>3 DEF StreamSound, FramesSound, ListsSound

\* A handle is set, and the set is published if it changes anything.
LEMMA UpdatesStream ==
  ASSUME TypeOK, HandlesSound, StreamSound, Sane', NEW i, NEW v, NEW s, Updates(i, v, s)
  PROVE  StreamSound'
<1>0. PICK n, f : n = handles[i].name /\ f = SetFrame(handles'[i])
  OBVIOUS
<1>1. /\ i \in DOMAIN handles /\ v \in Nat /\ s \in State /\ registry[n] = i
      /\ Publish(i, v, s) /\ CaughtUp
      /\ UNCHANGED <<registry, listed, view, view_listed>>
      /\ unsaid \ {i} \subseteq unsaid'
      /\ outbox' = <<>> => unsaid' = unsaid
  BY <1>0 DEF Updates, client
<1>2. /\ \A m \in Names : Shows(m)
      /\ view_listed = listed /\ ListIsTrue
  BY <1>1, Settled
<1>3. /\ handles' = Assigned(i, v, s)
      /\ \/ outbox' = <<>> /\ Shown(handles[i]) = [val |-> v, state |-> s]
         \/ outbox' = <<f>>
  BY <1>0, <1>1, PublishShape
<1>4. /\ \A j \in DOMAIN handles : j # i => handles'[j] = handles[j]
      /\ handles'[i].name = n /\ handles'[i].val = v /\ handles'[i].state = s
  BY <1>0, <1>1, <1>3, AssignedIs
<1>5. n \in Names /\ i # None /\ handles'[i] \in Handle
  <2>1. handles[i] \in Handle /\ i # None
    BY <1>1, HandlesAre
  <2>2. handles' \in Seq(Handle) /\ DOMAIN handles' = DOMAIN handles
    BY <1>1, <1>3 DEF Assigned, Sane, PropertiesType
  <2>3. handles'[i] \in Handle
    BY <1>1, <2>2, ElementOfSeq, LenProperties
  <2> QED BY <1>0, <2>1, <2>3 DEF Handle
<1>6. \A m \in Names : m # n /\ registry[m] # None => registry[m] # i /\ registry[m] \in DOMAIN handles
  BY <1>1, <1>5, OwnHandles, HandlesAre
<1>7. \A m \in Names : m # n => Shows(m)'
  BY <1>1, <1>2, <1>4, <1>6 DEF Shows
<1>8. ListIsTrue'
  <2>1. ListIsVisible'
    BY <1>1, <1>2 DEF ListIsTrue, ListIsVisible
  <2>2. Sane
    BY DEF Sane, PropertiesType, TypeOK
  <2>3. listed # None => listed = Registered(registry) \cap Persisted
    BY <1>2, <2>2, ExactIs DEF ListIsTrue
  <2>4. ListIsExact'
    BY <1>1, <2>3, ExactIsNext
  <2> QED BY <2>1, <2>4 DEF ListIsTrue
<1>9. CASE outbox' = <<>> /\ Shown(handles[i]) = [val |-> v, state |-> s]
  <2>1. Shown(handles'[i]) = Shown(handles[i])
    BY <1>4, <1>9 DEF Shown
  <2>2. Shows(n)'
    BY <1>1, <1>2, <1>5, <1>9, <2>1 DEF Shows
  <2>3. DOMAIN outbox' = {}
    BY <1>9, ShortQueues
  <2> QED BY <1>1, <1>2, <1>7, <1>8, <2>2, <2>3 DEF StreamSound, FramesSound, ListsSound
<1>10. CASE outbox' = <<f>>
  <2>1. f \in Frame /\ f.tag = "set" /\ f.name = n /\ f.shows = Shown(handles'[i])
    BY <1>0, <1>4, <1>5, FramesAre
  <2>2. DOMAIN outbox' = {1} /\ outbox'[1] = f
    BY <1>10, <2>1, ShortQueues
  <2>3. view[n] # None
    BY <1>1, <1>2, <1>5 DEF Shows
  <2>4. IsTrue(f)'
    BY <1>1, <1>5, <2>1, <2>3 DEF IsTrue, OfOwner, OfList
  <2>5. Says(f, n)
    BY <2>1 DEF Says, OfList
  <2>6. FramesSound'
    <3>1. \A m \in Names : Shows(m)' \/ \E j \in DOMAIN outbox' : Says(outbox'[j], m)
      BY <1>7, <2>2, <2>5
    <3>2. view_listed' = listed'
      BY <1>1, <1>2
    <3>3. \A g : (\E k \in DOMAIN outbox' : g = outbox'[k]) => IsTrue(g)'
      BY <2>2, <2>4
    <3> QED BY <2>2, <3>1, <3>2, <3>3 DEF FramesSound
  <2>7. ListsSound'
    <3>1. ~OfList(f)
      BY <2>1 DEF OfList
    <3> QED BY <1>8, <2>1, <2>2, <3>1 DEF ListsSound
  <2> QED BY <2>6, <2>7 DEF StreamSound
<1> QED BY <1>3, <1>9, <1>10

\* A handle is set, and the set is not published.
LEMMA MumblesStream ==
  ASSUME TypeOK, HandlesSound, StreamSound, Sane', NEW i, NEW v, Mumbles(i, v)
  PROVE  StreamSound'
<1>0. PICK n, s : n = handles[i].name /\ s = handles[i].state
  OBVIOUS
<1>1. /\ i \in DOMAIN handles /\ v \in Nat /\ CaughtUp
      /\ handles' = Assigned(i, v, s)
      /\ UNCHANGED <<registry, listed, outbox, view, view_listed>>
      /\ unsaid' = unsaid \cup {i}
  BY <1>0 DEF Mumbles, client
<1>2. /\ \A m \in Names : Shows(m)
      /\ view_listed = listed /\ ListIsTrue
  BY <1>1, Settled
<1>3. n \in Names /\ s \in State
  BY <1>0, <1>1, HandlesAre DEF Handle
<1>4. \A j \in DOMAIN handles : j # i => handles'[j] = handles[j]
  <2>1. i \in DOMAIN handles /\ v \in Nat /\ s \in State /\ handles' = Assigned(i, v, s)
    BY <1>1, <1>3
  <2>2. \A j \in DOMAIN handles : j # i => Assigned(i, v, s)[j] = handles[j]
    BY <2>1, AssignedIs
  <2> QED BY <2>1, <2>2
<1>5. \A m \in Names : registry[m] # None => registry[m] \in DOMAIN handles
  BY HandlesAre
<1>6. \A m \in Names : Shows(m)'
  BY <1>1, <1>2, <1>4, <1>5 DEF Shows
<1>8. ListIsTrue'
  <2>1. ListIsVisible'
    BY <1>1, <1>2 DEF ListIsTrue, ListIsVisible
  <2>2. Sane
    BY DEF Sane, PropertiesType, TypeOK
  <2>3. listed # None => listed = Registered(registry) \cap Persisted
    BY <1>2, <2>2, ExactIs DEF ListIsTrue
  <2>4. ListIsExact'
    BY <1>1, <2>3, ExactIsNext
  <2> QED BY <2>1, <2>4 DEF ListIsTrue
<1>9. DOMAIN outbox' = {}
  BY <1>1 DEF CaughtUp
<1> QED BY <1>1, <1>2, <1>6, <1>8, <1>9 DEF StreamSound, FramesSound, ListsSound

\* A superseded handle is set: what is published, if anything, is not true of the name.
LEMMA MisspeaksStream ==
  ASSUME TypeOK, HandlesSound, StreamSound, Sane', NEW i, NEW v, NEW s, Misspeaks(i, v, s)
  PROVE  StreamSound'
<1>0. PICK n, f : n = handles[i].name /\ f = SetFrame(handles'[i])
  OBVIOUS
<1>1. /\ i \in DOMAIN handles /\ v \in Nat /\ s \in State
      /\ ~handles[i].retracted /\ registry[n] # i
      /\ Publish(i, v, s) /\ CaughtUp
      /\ UNCHANGED <<registry, listed, view, view_listed>>
      /\ unsaid \subseteq unsaid'
      /\ outbox' # <<>> /\ registry[n] # None => registry[n] \in unsaid'
  BY <1>0 DEF Misspeaks, Superseded, client
<1>2. /\ \A m \in Names : Shows(m)
      /\ view_listed = listed /\ ListIsTrue
  BY <1>1, Settled
<1>3. /\ handles' = Assigned(i, v, s)
      /\ outbox' = <<>> \/ outbox' = <<f>>
  BY <1>0, <1>1, PublishShape
<1>4. \A j \in DOMAIN handles : j # i => handles'[j] = handles[j]
  BY <1>1, <1>3, AssignedIs
<1>5. handles'[i].name = n /\ (handles'[i].retracted <=> handles[i].retracted)
  BY <1>0, <1>1, <1>3, AssignedIs
<1>6. n \in Names /\ DOMAIN handles' = DOMAIN handles /\ handles'[i] \in Handle
  <2>1. n \in Names
    BY <1>0, <1>1, HandlesAre DEF Handle
  <2>2. handles' \in Seq(Handle) /\ DOMAIN handles' = DOMAIN handles
    BY <1>1, <1>3 DEF Assigned, Sane, PropertiesType
  <2>3. handles'[i] \in Handle
    BY <1>1, <2>2, ElementOfSeq, LenProperties
  <2> QED BY <2>1, <2>2, <2>3
<1>7. \A m \in Names : registry[m] # None => registry[m] # i /\ registry[m] \in DOMAIN handles
  BY <1>0, <1>1, HandlesAre DEF HandlesSound
<1>8. \A m \in Names : Shows(m)'
  BY <1>1, <1>2, <1>4, <1>7 DEF Shows
<1>9. ListIsTrue'
  <2>1. ListIsVisible'
    BY <1>1, <1>2 DEF ListIsTrue, ListIsVisible
  <2>2. Sane
    BY DEF Sane, PropertiesType, TypeOK
  <2>3. listed # None => listed = Registered(registry) \cap Persisted
    BY <1>2, <2>2, ExactIs DEF ListIsTrue
  <2>4. ListIsExact'
    BY <1>1, <2>3, ExactIsNext
  <2> QED BY <2>1, <2>4 DEF ListIsTrue
<1>10. CASE outbox' = <<>>
  <2>1. DOMAIN outbox' = {}
    BY <1>10, ShortQueues
  <2> QED BY <1>1, <1>2, <1>8, <1>9, <2>1 DEF StreamSound, FramesSound, ListsSound
<1>11. CASE outbox' = <<f>>
  <2>1. f \in Frame /\ f.tag = "set" /\ f.name = n /\ f.shows = Shown(handles'[i])
    BY <1>0, <1>5, <1>6, FramesAre
  <2>2. DOMAIN outbox' = {1} /\ outbox'[1] = f
    BY <1>11, <2>1, ShortQueues
  <2>3. outbox' # <<>>
    BY <2>2, ShortQueues
  <2>4. Superseded(i)'
    BY <1>1, <1>5 DEF Superseded
  <2>5. i \in DOMAIN handles' /\ handles'[i].name = f.name /\ f.shows = Shown(handles'[i])
    BY <1>1, <1>5, <1>6, <2>1
  <2>6. OfAnother(f)'
    <3>1. registry'[n] = None \/ registry'[n] \in unsaid'
      BY <1>1, <2>3
    <3>2. view'[n] = None <=> registry'[n] = None
      BY <1>1, <1>2, <1>6 DEF Shows
    <3> QED BY <2>1, <2>4, <2>5, <3>1, <3>2 DEF OfAnother
  <2>7. IsTrue(f)' /\ Says(f, n) /\ ~OfList(f)
    BY <2>1, <2>6 DEF IsTrue, Says, OfList
  <2> QED BY <1>1, <1>2, <1>8, <1>9, <2>1, <2>2, <2>7 DEF StreamSound, FramesSound, ListsSound, Says
<1> QED BY <1>3, <1>10, <1>11

\* A property is defined: its definition goes out, then the list that names it.
LEMMA DefinesStream ==
  ASSUME TypeOK, HandlesSound, StreamSound, Sane', NEW a, NEW n, Defines(a, n)
  PROVE  StreamSound'
<1>0. PICK i, f, g : i = Newest /\ f = DefFrame(handles'[i]) /\ g = RelistFrame(listed')
  OBVIOUS
<1>1. CaughtUp /\ UNCHANGED <<view, view_listed, unsaid>>
  BY DEF Defines, client
<1>2. /\ \A m \in Names : Shows(m)
      /\ view_listed = listed /\ ListIsTrue
  BY <1>1, Settled
<1>3. /\ n \in Names /\ i # None /\ i \notin DOMAIN handles
      /\ \A j \in DOMAIN handles : handles'[j] = handles[j]
      /\ handles'[i] \in Handle
  BY <1>0, DefineShape
<1>4. handles'[i].name = n
  BY <1>0, DefineShape
<1>5. /\ registry'[n] = i
      /\ \A m \in Names : m # n => registry'[m] = registry[m]
  BY <1>0, DefineShape
<1>6. listed' = IF n \in Persisted THEN Relisted(handles', registry') ELSE listed
  BY <1>0, DefineShape
<1>7. listed' \in (SUBSET Names) \cup {None}
  BY <1>0, DefineShape
<1>8. \/ outbox' = <<f>> /\ listed' = listed
      \/ outbox' = <<f, g>> /\ listed' # None /\ listed # None
  BY <1>0, DefineShape
<1>9. f \in Frame /\ f.tag = "def" /\ f.name = n /\ f.shows = Shown(handles'[i])
  BY <1>0, <1>3, <1>4, FramesAre
<1>10. listed' # None => g \in Frame /\ g.tag = "relist" /\ g.names = listed'
  BY <1>0, <1>7, FramesAre
<1>11. \A m \in Names : m # n => Shows(m)'
  BY <1>1, <1>2, <1>3, <1>5, HandlesAre DEF Shows
<1>12. ~OfList(f) /\ \A m \in Names : Says(f, m) <=> m = n
  BY <1>9 DEF Says, OfList
<1>13. IsTrue(f)'
  BY <1>3, <1>5, <1>9 DEF IsTrue, OfOwner, OfList
<1>14. ListIsTrue'
  <2>1. ListIsVisible'
    BY <1>1, <1>2 DEF ListIsTrue, ListIsVisible
  <2>2. Sane
    BY DEF Sane, PropertiesType, TypeOK
  <2>3. listed # None => listed = Registered(registry) \cap Persisted
    BY <1>2, <2>2, ExactIs DEF ListIsTrue
  <2>4. PersistedNames(handles', registry') = Registered(registry') \cap Persisted
    <3>1. \A j \in DOMAIN handles' : handles'[j].persist <=> handles'[j].name \in Persisted
      BY DEF Sane, PropertiesType, HandlesSound
    <3>2. \A m \in Names : registry'[m] # None =>
            registry'[m] \in DOMAIN handles' /\ handles'[registry'[m]].name = m
      BY DEF Sane, PropertiesType, HandlesSound
    <3> QED BY <3>1, <3>2, PersistedOf
  <2>5. listed' # None => listed' = Registered(registry') \cap Persisted
    <3>1. CASE n \in Persisted
      BY <1>6, <2>4, <3>1 DEF Relisted
    <3>2. CASE n \notin Persisted
      <4>1. Registered(registry') \cap Persisted = Registered(registry) \cap Persisted
        BY <1>5, <3>2 DEF Registered
      <4> QED BY <1>6, <2>3, <3>2, <4>1
    <3> QED BY <3>1, <3>2
  <2>6. ListIsExact'
    BY <2>5, ExactIsNext
  <2> QED BY <2>1, <2>6 DEF ListIsTrue
<1>15. CASE outbox' = <<f>> /\ listed' = listed
  <2>1. DOMAIN outbox' = {1} /\ outbox'[1] = f
    BY <1>9, <1>15, ShortQueues
  <2> QED BY <1>1, <1>2, <1>9, <1>11, <1>12, <1>13, <1>14, <1>15, <2>1
          DEF StreamSound, FramesSound, ListsSound
<1>16. CASE outbox' = <<f, g>> /\ listed' # None /\ listed # None
  <2>1. DOMAIN outbox' = {1, 2} /\ outbox'[1] = f /\ outbox'[2] = g
    BY <1>9, <1>10, <1>16, ShortQueues
  <2>2. IsTrue(g)' /\ OfList(g) /\ g.tag = "relist" /\ g.names = listed'
    BY <1>1, <1>2, <1>10, <1>16 DEF IsTrue, OfList
  <2>3. \A m : ~Says(g, m)
    BY <2>2 DEF Says
  <2>4. \A m \in g.names : m # n => view'[m] # None
    <3> SUFFICES ASSUME NEW m \in listed', m # n  PROVE view[m] # None
      BY <1>1, <2>2
    <3>1. listed' = Registered(registry') \cap Persisted
      BY <1>14, <1>16, ExactIsNext DEF ListIsTrue
    <3>2. m \in Names /\ registry'[m] # None
      BY <3>1 DEF Registered
    <3>3. registry[m] # None
      BY <1>5, <3>2
    <3> QED BY <1>2, <3>2, <3>3 DEF Shows
  <2>5. FramesSound'
    BY <1>1, <1>2, <1>11, <1>12, <1>13, <2>1, <2>2, <2>3 DEF FramesSound
  <2>6. ListsSound'
    BY <1>9, <1>12, <1>14, <2>1, <2>2, <2>4 DEF ListsSound
  <2> QED BY <2>5, <2>6 DEF StreamSound
<1> QED BY <1>8, <1>15, <1>16

\* A property is deleted: the list that no longer names it goes out first.
LEMMA DeletesStream ==
  ASSUME TypeOK, HandlesSound, StreamSound, Sane', NEW i, Deletes(i)
  PROVE  StreamSound'
<1>0. PICK n, f, g : n = handles[i].name /\ f = DelFrame(n) /\ g = RelistFrame(listed')
  OBVIOUS
<1>1. CaughtUp /\ i \in DOMAIN handles /\ Delete(i) /\ UNCHANGED <<view, view_listed, unsaid>>
  BY DEF Deletes, client
<1>2. /\ \A m \in Names : Shows(m)
      /\ view_listed = listed /\ ListIsTrue
  BY <1>1, Settled
<1>3. Sane
  BY DEF Sane, PropertiesType, TypeOK
<1>4. listed # None => listed = Registered(registry) \cap Persisted
  BY <1>2, <1>3, ExactIs DEF ListIsTrue
<1>5. ListIsExact
  BY <1>2 DEF ListIsTrue
<1>6. n \in Names
  BY <1>0, <1>1, HandlesAre DEF Handle
<1>7. handles' = Retracted({i})
  BY <1>1, <1>5, DeleteShape
<1>8. \A j \in DOMAIN handles : Shown(handles'[j]) = Shown(handles[j])
  BY <1>7, RetractedIs
<1>9. ListIsVisible'
  BY <1>1, <1>2 DEF ListIsTrue, ListIsVisible
<1>10. CASE registry[n] # i /\ registry' = registry /\ listed' = listed /\ outbox' = <<>>
  <2>1. \A m \in Names : Shows(m)'
    BY <1>1, <1>2, <1>8, <1>10, HandlesAre DEF Shows
  <2>2. ListIsExact'
    BY <1>4, <1>10, ExactIsNext
  <2>3. DOMAIN outbox' = {}
    BY <1>10, ShortQueues
  <2> QED BY <1>1, <1>2, <1>9, <1>10, <2>1, <2>2, <2>3
          DEF StreamSound, FramesSound, ListsSound, ListIsTrue
<1>11. CASE /\ registry[n] = i /\ registry'[n] = None
            /\ \A m \in Names : m # n => registry'[m] = registry[m]
            /\ listed # None => listed' = listed \ {n}
            /\ listed = None => listed' = None
            /\ \/ outbox' = <<f>> /\ listed' = listed
               \/ outbox' = <<g, f>> /\ listed' # None
  <2>1. \A m \in Names : m # n => Shows(m)'
    BY <1>1, <1>2, <1>8, <1>11, HandlesAre DEF Shows
  <2>2. Registered(registry') \cap Persisted = (Registered(registry) \cap Persisted) \ {n}
    BY <1>11 DEF Registered
  <2>3. listed' # None => listed' = Registered(registry') \cap Persisted
    BY <1>4, <1>11, <2>2
  <2>4. ListIsExact'
    BY <2>3, ExactIsNext
  <2>5. f \in Frame /\ f.tag = "del" /\ f.name = n
    BY <1>0, <1>6, FramesAre
  <2>6. IsTrue(f)' /\ ~OfList(f) /\ \A m : Says(f, m) <=> m = n
    BY <1>11, <2>5 DEF IsTrue, Says, OfList
  <2>7. CASE outbox' = <<f>> /\ listed' = listed
    <3>1. DOMAIN outbox' = {1} /\ outbox'[1] = f
      BY <2>5, <2>7, ShortQueues
    <3>2. view_listed' = None \/ n \notin view_listed'
      BY <1>1, <1>2, <1>11, <2>7
    <3>3. FramesSound'
      BY <1>1, <1>2, <2>1, <2>6, <2>7, <3>1 DEF FramesSound
    <3>4. ListsSound'
      BY <1>9, <2>4, <2>5, <2>6, <3>1, <3>2 DEF ListsSound, ListIsTrue
    <3> QED BY <3>3, <3>4 DEF StreamSound
  <2>8. CASE outbox' = <<g, f>> /\ listed' # None
    <3>1. listed' \in (SUBSET Names) \cup {None}
      BY DEF Sane, PropertiesType
    <3>2. g \in Frame /\ g.tag = "relist" /\ g.names = listed'
      BY <1>0, <2>8, <3>1, FramesAre
    <3>3. DOMAIN outbox' = {1, 2} /\ outbox'[1] = g /\ outbox'[2] = f
      BY <2>5, <2>8, <3>2, ShortQueues
    <3>4. IsTrue(g)' /\ OfList(g) /\ \A m : ~Says(g, m)
      BY <1>1, <1>2, <1>11, <2>8, <3>2 DEF IsTrue, Says, OfList
    <3>5. \A m \in g.names : view'[m] # None
      <4> SUFFICES ASSUME NEW m \in listed'  PROVE view[m] # None
        BY <1>1, <3>2
      <4>1. m \in Names /\ registry'[m] # None /\ registry[m] # None
        BY <1>6, <1>11, <2>3, <2>8 DEF Registered
      <4> QED BY <1>2, <4>1 DEF Shows
    <3>6. FramesSound'
      BY <1>1, <1>2, <2>1, <2>6, <3>3, <3>2, <3>4 DEF FramesSound
    <3>7. ListsSound'
      BY <1>9, <2>4, <2>5, <2>6, <3>2, <3>3, <3>4, <3>5 DEF ListsSound, ListIsTrue
    <3> QED BY <3>6, <3>7 DEF StreamSound
  <2> QED BY <1>11, <2>7, <2>8
<1>12. \/ /\ registry[n] # i /\ registry' = registry
          /\ listed' = listed /\ outbox' = <<>>
       \/ /\ registry[n] = i /\ registry'[n] = None
          /\ \A m \in Names : m # n => registry'[m] = registry[m]
          /\ listed # None => listed' = listed \ {n}
          /\ listed = None => listed' = None
          /\ \/ outbox' = <<f>> /\ listed' = listed
             \/ outbox' = <<g, f>> /\ listed' # None
  BY <1>0, <1>1, <1>5, DeleteShape
<1> QED BY <1>10, <1>11, <1>12

\* Everything is announced once more.
LEMMA RestatesStream ==
  ASSUME TypeOK, HandlesSound, StreamSound, Sane', Restates
  PROVE  StreamSound'
<1>1. CaughtUp /\ unsaid' = {} /\ UNCHANGED <<handles, registry, listed, view, view_listed>>
  BY DEF Restates, client
<1>2. /\ \A m \in Names : Shows(m)
      /\ view_listed = listed /\ ListIsTrue
  BY <1>1, Settled
<1>3. /\ OnceIn(outbox')
      /\ \A n \in Names : registry[n] # None => Speaks(outbox', n)
  BY RestatesIs
<1>4. \A k \in DOMAIN outbox' :
              \/ \E n \in Names : registry[n] # None /\ outbox'[k] = DefFrame(handles[registry[n]])
              \/ listed # None /\ outbox'[k] = ListFrame(listed)
  BY RestatesIs
<1>5. \A n \in Names : registry[n] # None =>
        /\ DefFrame(handles[registry[n]]).tag = "def" /\ DefFrame(handles[registry[n]]).name = n
        /\ DefFrame(handles[registry[n]]).shows = Shown(handles[registry[n]])
  BY HandlesAre, FramesAre DEF HandlesSound
<1>6. listed # None => ListFrame(listed).tag = "list" /\ ListFrame(listed).names = listed
  BY FramesAre DEF TypeOK
<1>7. \A k \in DOMAIN outbox' :
        \/ /\ outbox'[k].tag = "def" /\ registry'[outbox'[k].name] # None
           /\ outbox'[k].shows = Shown(handles'[registry'[outbox'[k].name]])
        \/ outbox'[k].tag = "list" /\ listed # None /\ outbox'[k].names = listed'
  BY <1>1, <1>4, <1>5, <1>6
<1>8. \A f : (\E k \in DOMAIN outbox' : f = outbox'[k]) => IsTrue(f)'
  BY <1>7 DEF IsTrue, OfOwner, OfList
<1>9. \A n \in Names : registry[n] = None => Shows(n)'
  BY <1>1, <1>2 DEF Shows
<1>10. FramesSound'
  <2>1. \A f : \A k \in DOMAIN outbox' : f = outbox'[k] => IsTrue(f)'
    BY <1>8
  <2> QED BY <1>1, <1>2, <1>3, <1>9, <2>1 DEF FramesSound, OnceIn, Speaks
<1>11. ListIsTrue'
  BY <1>1, <1>2 DEF ListIsTrue, ListIsVisible, ListIsExact
<1>12. listed # None => \A m \in listed : view[m] # None
  BY <1>2 DEF ListIsTrue, ListIsVisible
<1>13. ListsSound'
  BY <1>1, <1>7, <1>11, <1>12 DEF ListsSound, OfList
<1> QED BY <1>10, <1>13 DEF StreamSound

\* The list is published for the first time.
LEMMA ListsStream ==
  ASSUME TypeOK, HandlesSound, StreamSound, Sane', Lists
  PROVE  StreamSound'
<1>0. PICK S, g : S = PersistedNames(handles, registry) /\ g = ListFrame(S)
  OBVIOUS
<1>1. /\ CaughtUp /\ listed' = S /\ outbox' = <<g>>
      /\ UNCHANGED <<handles, registry, view, view_listed, unsaid>>
  BY <1>0 DEF Lists, client
<1>2. /\ \A m \in Names : Shows(m)
      /\ ListIsTrue
  BY <1>1, Settled
<1>3. S \in SUBSET Names /\ \A m \in S : registry[m] # None
  BY <1>0 DEF PersistedNames, Registered
<1>4. g \in Frame /\ g.tag = "list" /\ g.names = S
  BY <1>0, <1>3, FramesAre
<1>5. DOMAIN outbox' = {1} /\ outbox'[1] = g
  BY <1>1, <1>4, ShortQueues
<1>6. \A m \in Names : Shows(m)'
  BY <1>1, <1>2 DEF Shows
<1>7. IsTrue(g)' /\ OfList(g) /\ \A m : ~Says(g, m)
  BY <1>1, <1>4 DEF IsTrue, Says, OfList
<1>8. \A m \in S : view'[m] # None
  BY <1>1, <1>2, <1>3 DEF Shows
<1>9. ListIsTrue'
  BY <1>0, <1>1, <1>2 DEF ListIsTrue, ListIsVisible, ListIsExact
<1>10. FramesSound'
  BY <1>4, <1>5, <1>6, <1>7 DEF FramesSound
<1>11. ListsSound'
  BY <1>4, <1>5, <1>7, <1>8, <1>9 DEF ListsSound
<1> QED BY <1>10, <1>11 DEF StreamSound

\* A failed setup is rolled back.
LEMMA RollsBackStream ==
  ASSUME TypeOK, HandlesSound, StreamSound, Sane', RollsBack
  PROVE  StreamSound'
<1>1. CaughtUp /\ listed = None /\ RollBack /\ UNCHANGED <<view, view_listed>>
  BY DEF RollsBack, RollBack, client
<1>2. /\ \A m \in Names : Shows(m)
      /\ view_listed = listed /\ ListIsTrue
  BY <1>1, Settled
<1>3. /\ handles' = Retracted(Introduced) /\ registry' = Forget(Introduced)
      /\ unsaid' = {} /\ listed' = listed
      /\ OnceIn(outbox')
      /\ \A n \in Names : Speaks(outbox', n) <=> registry[n] # None
  BY <1>1, RollBackShape
<1>4. \A k \in DOMAIN outbox' : \E n \in Names :
              \/ registry'[n] = None /\ outbox'[k] = DelFrame(n)
              \/ registry'[n] # None /\ outbox'[k] = DefFrame(handles[registry'[n]])
  BY <1>1, RollBackShape
<1>5. \A n \in Names : registry'[n] = None \/ (registry'[n] = registry[n] /\ registry[n] \in DOMAIN handles)
  <2>1. None \notin Introduced
    BY IntroducedAre
  <2> QED BY <1>3, <2>1, ForgetIs, HandlesAre
<1>6. \A j \in DOMAIN handles : Shown(handles'[j]) = Shown(handles[j])
  BY <1>3, RetractedIs
<1>7. \A n \in Names : registry'[n] # None =>
        /\ DefFrame(handles[registry'[n]]).tag = "def" /\ DefFrame(handles[registry'[n]]).name = n
        /\ DefFrame(handles[registry'[n]]).shows = Shown(handles'[registry'[n]])
  BY <1>5, <1>6, HandlesAre, FramesAre DEF HandlesSound
<1>8. \A n \in Names : DelFrame(n).tag = "del" /\ DelFrame(n).name = n
  BY FramesAre
<1>9. \A k \in DOMAIN outbox' :
        \/ /\ outbox'[k].tag = "def" /\ registry'[outbox'[k].name] # None
           /\ outbox'[k].shows = Shown(handles'[registry'[outbox'[k].name]])
        \/ outbox'[k].tag = "del" /\ registry'[outbox'[k].name] = None
  BY <1>4, <1>7, <1>8
<1>10. \A f : (\E k \in DOMAIN outbox' : f = outbox'[k]) => IsTrue(f)'
  BY <1>9 DEF IsTrue, OfOwner, OfList
<1>11. \A n \in Names : registry[n] = None => Shows(n)'
  BY <1>1, <1>2, <1>5 DEF Shows
<1>12. FramesSound'
  <2>1. \A f : \A k \in DOMAIN outbox' : f = outbox'[k] => IsTrue(f)'
    BY <1>10
  <2> QED BY <1>1, <1>2, <1>3, <1>11, <2>1 DEF FramesSound, OnceIn, Speaks
<1>13. ListIsTrue'
  BY <1>1, <1>2, <1>3 DEF ListIsTrue, ListIsVisible, ListIsExact
<1>14. view_listed' = None
  BY <1>1, <1>2
<1>15. ListsSound'
  BY <1>9, <1>13, <1>14 DEF ListsSound, OfList
<1> QED BY <1>12, <1>15 DEF StreamSound

\* Saved values are put in place.
LEMMA AppliesStream ==
  ASSUME TypeOK, HandlesSound, StreamSound, Sane', Applies
  PROVE  StreamSound'
<1>1. CaughtUp /\ ApplyFile /\ UNCHANGED <<registry, listed, view, view_listed>>
  BY DEF Applies, ApplyFile, client
<1>2. /\ \A m \in Names : Shows(m)
      /\ view_listed = listed /\ ListIsTrue
  BY <1>1, Settled
<1>3. /\ \A i \in DOMAIN handles : handles'[i].name = handles[i].name
      /\ OnceIn(outbox')
  BY <1>1, ApplyFileShape
<1>4. \A k \in DOMAIN outbox' : \E n \in Names :
              registry[n] # None /\ outbox'[k] = SetFrame(handles'[registry[n]])
  BY <1>1, ApplyFileShape
<1>5. \A n \in Names : registry[n] # None =>
              \/ Speaks(outbox', n)
              \/ /\ Shown(handles'[registry[n]]) = Shown(handles[registry[n]])
                 /\ registry[n] \in unsaid => registry[n] \in unsaid'
  BY <1>1, ApplyFileShape
<1>6. \A n \in Names : registry[n] # None =>
        /\ SetFrame(handles'[registry[n]]).tag = "set" /\ SetFrame(handles'[registry[n]]).name = n
        /\ SetFrame(handles'[registry[n]]).shows = Shown(handles'[registry[n]])
  <2> TAKE n \in Names
  <2> SUFFICES ASSUME registry[n] # None
               PROVE  /\ SetFrame(handles'[registry[n]]).tag = "set"
                      /\ SetFrame(handles'[registry[n]]).name = n
                      /\ SetFrame(handles'[registry[n]]).shows = Shown(handles'[registry[n]])
    OBVIOUS
  <2>1. handles'[registry[n]].name = n
    BY <1>3, HandlesAre DEF HandlesSound
  <2>2. handles'[registry[n]] \in Handle
    <3>1. registry'[n] \in DOMAIN handles' /\ handles' \in Seq(Handle)
      BY <1>1 DEF Sane, PropertiesType
    <3>2. handles'[registry'[n]] \in Handle
      BY <3>1, ElementOfSeq, LenProperties
    <3> QED BY <1>1, <3>2
  <2> QED BY <2>1, <2>2, FramesAre
<1>7. \A k \in DOMAIN outbox' :
        /\ outbox'[k].tag = "set" /\ registry'[outbox'[k].name] # None
        /\ outbox'[k].shows = Shown(handles'[registry'[outbox'[k].name]])
        /\ view'[outbox'[k].name] # None
  BY <1>1, <1>2, <1>4, <1>6 DEF Shows
<1>8. \A f : (\E k \in DOMAIN outbox' : f = outbox'[k]) => IsTrue(f)'
  BY <1>7 DEF IsTrue, OfOwner, OfList
<1>9. \A n \in Names : Speaks(outbox', n) \/ Shows(n)'
  BY <1>1, <1>2, <1>5 DEF Shows
<1>10. FramesSound'
  <2>1. \A f : \A k \in DOMAIN outbox' : f = outbox'[k] => IsTrue(f)'
    BY <1>8
  <2> QED BY <1>1, <1>2, <1>3, <1>9, <2>1 DEF FramesSound, OnceIn, Speaks
<1>11. ListIsTrue'
  <2>1. ListIsVisible'
    BY <1>1, <1>2 DEF ListIsTrue, ListIsVisible
  <2>2. Sane
    BY DEF Sane, PropertiesType, TypeOK
  <2>3. listed # None => listed = Registered(registry) \cap Persisted
    BY <1>2, <2>2, ExactIs DEF ListIsTrue
  <2>4. ListIsExact'
    BY <1>1, <2>3, ExactIsNext
  <2> QED BY <2>1, <2>4 DEF ListIsTrue
<1>12. ListsSound'
  BY <1>7, <1>11 DEF ListsSound, OfList
<1> QED BY <1>10, <1>12 DEF StreamSound

\* What a client makes of a frame ...
LEMMA ReadingIs ==
  ASSUME NEW f \in Frame, NEW v \in [Names -> [val : Nat, state : State] \cup {None}]
  PROVE  /\ Reading(v, f) \in [Names -> [val : Nat, state : State] \cup {None}]
         /\ \A m \in Names : ~Says(f, m) => Reading(v, f)[m] = v[m]
         /\ \A m \in Names : Says(f, m) =>
              /\ f.tag = "def" => Reading(v, f)[m] = f.shows
              /\ f.tag = "set" => Reading(v, f)[m] = IF v[m] = None THEN None ELSE f.shows
              /\ f.tag = "del" => Reading(v, f)[m] = None
<1>1. /\ f.tag \in {"def", "set", "del", "list", "relist"}
      /\ ~OfList(f) => f.name \in Names /\ f.tag \in {"def", "set", "del"}
      /\ f.tag \in {"def", "set"} => f.shows \in [val : Nat, state : State]
  BY FrameForms
<1> DEFINE w == Reading(v, f)
<1>2. CASE f.tag = "def"
  <2>1. w = [v EXCEPT ![f.name] = f.shows]
    BY <1>2 DEF Reading
  <2> HIDE DEF w
  <2> QED BY <1>1, <1>2, <2>1 DEF Says, OfList, w
<1>3. CASE f.tag = "set" /\ v[f.name] # None
  <2>1. w = [v EXCEPT ![f.name] = f.shows]
    BY <1>3 DEF Reading
  <2> HIDE DEF w
  <2> QED BY <1>1, <1>3, <2>1 DEF Says, OfList, w
<1>4. CASE f.tag = "del"
  <2>1. w = [v EXCEPT ![f.name] = None]
    BY <1>4 DEF Reading
  <2> HIDE DEF w
  <2> QED BY <1>1, <1>4, <2>1 DEF Says, OfList, w
<1>5. CASE OfList(f) \/ (f.tag = "set" /\ v[f.name] = None)
  <2>1. w = v
    BY <1>5 DEF Reading, OfList
  <2> HIDE DEF w
  <2> QED BY <1>1, <1>5, <2>1 DEF Says, OfList, w
<1> QED BY <1>1, <1>2, <1>3, <1>4, <1>5 DEF OfList

\* ... about the list.
LEMMA ReadingListIs ==
  ASSUME NEW f \in Frame, NEW names \in (SUBSET Names) \cup {None}
  PROVE  /\ ReadingList(names, f) \in (SUBSET Names) \cup {None}
         /\ ~OfList(f) => ReadingList(names, f) = names
         /\ f.tag = "list" => ReadingList(names, f) = f.names
         /\ f.tag = "relist" => ReadingList(names, f) = IF names = None THEN None ELSE f.names
BY FrameForms DEF ReadingList, OfList

\* What the reader of the stream does with the frame at the head.
LEMMA WriteIs ==
  ASSUME TypeOK, StreamSound, Write
  PROVE  /\ UNCHANGED <<handles, registry, listed, unsaid, informed>>
         /\ Len(outbox) \in Nat /\ DOMAIN outbox = 1 .. Len(outbox) /\ 1 \in DOMAIN outbox
         /\ DOMAIN outbox' = 1 .. (Len(outbox) - 1)
         /\ \A k \in DOMAIN outbox' : k + 1 \in DOMAIN outbox /\ outbox'[k] = outbox[k + 1]
         /\ \A k \in DOMAIN outbox : k # 1 =>
              k - 1 \in DOMAIN outbox' /\ outbox'[k - 1] = outbox[k]
         /\ \A k \in DOMAIN outbox : outbox[k] \in Frame
         /\ \A m \in Names : ~Says(outbox[1], m) => view'[m] = view[m]
         /\ \A m \in Names : Says(outbox[1], m) =>
              /\ outbox[1].tag = "def" => view'[m] = outbox[1].shows
              /\ outbox[1].tag = "set" => view'[m] = IF view[m] = None THEN None ELSE outbox[1].shows
              /\ outbox[1].tag = "del" => view'[m] = None
         /\ view_listed' = IF OfList(outbox[1]) THEN outbox[1].names ELSE view_listed
<1> DEFINE f == Head(outbox)
<1>1. /\ outbox # <<>> /\ outbox' = Tail(outbox)
      /\ view' = Reading(view, f) /\ view_listed' = ReadingList(view_listed, f)
      /\ UNCHANGED <<handles, registry, listed, unsaid, informed>>
  BY DEF Write, properties, history
<1>2. /\ outbox \in Seq(Frame)
      /\ view \in [Names -> [val : Nat, state : State] \cup {None}]
      /\ view_listed \in (SUBSET Names) \cup {None}
  BY DEF TypeOK
<1>3. Len(outbox) \in Nat /\ DOMAIN outbox = 1 .. Len(outbox)
  BY <1>2, LenProperties
<1>4. Len(outbox) # 0
  BY <1>1, <1>2, EmptySeq
<1>5. 1 \in DOMAIN outbox /\ f = outbox[1]
  BY <1>2, <1>3, <1>4
<1>6. /\ outbox' \in Seq(Frame) /\ Len(outbox') = Len(outbox) - 1
      /\ \A k \in 1 .. Len(outbox') : outbox'[k] = outbox[k + 1]
  BY <1>1, <1>2, HeadTailProperties
<1>7. DOMAIN outbox' = 1 .. (Len(outbox) - 1)
  BY <1>6, LenProperties
<1>8. \A k \in DOMAIN outbox' : k + 1 \in DOMAIN outbox /\ outbox'[k] = outbox[k + 1]
  BY <1>3, <1>6, <1>7
<1>9. \A k \in DOMAIN outbox : k # 1 =>
              k - 1 \in DOMAIN outbox' /\ outbox'[k - 1] = outbox[k]
  BY <1>3, <1>6, <1>7
<1>10. \A k \in DOMAIN outbox : outbox[k] \in Frame
  BY <1>2, <1>3, ElementOfSeq
<1>11. f \in Frame
  BY <1>5, <1>10
<1>12. f.tag = "relist" => view_listed # None
  BY <1>5 DEF StreamSound, FramesSound, IsTrue
<1> HIDE DEF f
<1>13. /\ \A m \in Names : ~Says(f, m) => view'[m] = view[m]
       /\ \A m \in Names : Says(f, m) =>
              /\ f.tag = "def" => view'[m] = f.shows
              /\ f.tag = "set" => view'[m] = IF view[m] = None THEN None ELSE f.shows
              /\ f.tag = "del" => view'[m] = None
  BY <1>1, <1>2, <1>11, ReadingIs
<1>14. view_listed' = IF OfList(f) THEN f.names ELSE view_listed
  BY <1>1, <1>2, <1>11, <1>12, ReadingListIs DEF OfList
<1> QED BY <1>1, <1>3, <1>5, <1>7, <1>8, <1>9, <1>10, <1>13, <1>14

\* A true frame shows the truth, and the others stay true.
LEMMA WriteStream ==
  ASSUME TypeOK, HandlesSound, StreamSound, Sane', Write
  PROVE  StreamSound'
<1>0. PICK f : f = outbox[1]
  OBVIOUS
<1>1. /\ UNCHANGED <<handles, registry, listed, unsaid>>
      /\ 1 \in DOMAIN outbox
      /\ \A k \in DOMAIN outbox : outbox[k] \in Frame
      /\ \A m \in Names : ~Says(f, m) => view'[m] = view[m]
      /\ \A m \in Names : Says(f, m) =>
              /\ f.tag = "def" => view'[m] = f.shows
              /\ f.tag = "set" => view'[m] = IF view[m] = None THEN None ELSE f.shows
              /\ f.tag = "del" => view'[m] = None
      /\ view_listed' = IF OfList(f) THEN f.names ELSE view_listed
  BY <1>0, WriteIs
<1>2. /\ \A k \in DOMAIN outbox' : k + 1 \in DOMAIN outbox /\ outbox'[k] = outbox[k + 1]
      /\ \A k \in DOMAIN outbox : k # 1 =>
              k - 1 \in DOMAIN outbox' /\ outbox'[k - 1] = outbox[k]
      /\ \A k \in DOMAIN outbox : k \in Nat
      /\ \A k \in DOMAIN outbox' : k \in Nat /\ k + 1 # 1
  BY WriteIs
<1>3. /\ \A i, j \in DOMAIN outbox, n \in Names : Says(outbox[i], n) /\ Says(outbox[j], n) => i = j
      /\ \A n \in Names : Shows(n) \/ \E i \in DOMAIN outbox : Says(outbox[i], n)
      /\ view_listed = listed \/ \E i \in DOMAIN outbox : OfList(outbox[i])
  BY DEF StreamSound, FramesSound
<1>4. \A i \in DOMAIN outbox : IsTrue(outbox[i])
  BY DEF StreamSound, FramesSound
<1>5. IsTrue(f) /\ f \in Frame
  BY <1>0, <1>1, <1>4
<1>6. /\ OfList(f) => f.tag \notin {"def", "set", "del"}
      /\ ~OfList(f) => f.name \in Names /\ f.tag \in {"def", "set", "del"}
      /\ f.tag \in {"def", "set"} => f.shows # None
  BY <1>5, FrameForms
<1>7. \A m \in Names : Says(f, m) => Shows(m)'
  <2> TAKE m \in Names
  <2> SUFFICES ASSUME ~OfList(f), f.name = m  PROVE Shows(m)'
    BY DEF Says
  <2>0. Says(f, m)
    BY DEF Says
  <2>1. CASE f.tag = "def" \/ (f.tag = "set" /\ OfOwner(f) /\ view[m] # None)
    <3>1. view'[m] = f.shows
      BY <1>1, <2>0, <2>1
    <3>2. registry[m] # None /\ f.shows = Shown(handles[registry[m]])
      BY <1>5, <2>1 DEF IsTrue, OfOwner
    <3> QED BY <1>1, <1>6, <2>1, <3>1, <3>2 DEF Shows
  <2>3. CASE f.tag = "set" /\ OfAnother(f)
    <3>1. view'[m] = IF view[m] = None THEN None ELSE f.shows
      BY <1>1, <2>0, <2>3
    <3>2. /\ registry[m] = None \/ registry[m] \in unsaid
          /\ view[m] = None <=> registry[m] = None
      BY <2>3 DEF OfAnother
    <3> QED BY <1>1, <1>6, <2>3, <3>1, <3>2 DEF Shows
  <2>2. CASE f.tag = "del"
    <3>1. view'[m] = None
      BY <1>1, <2>0, <2>2
    <3>2. registry[m] = None
      BY <1>5, <2>2 DEF IsTrue
    <3> QED BY <1>1, <3>1, <3>2 DEF Shows
  <2>4. f.tag = "set" => (OfOwner(f) /\ view[m] # None) \/ OfAnother(f)
    BY <1>5 DEF IsTrue
  <2> QED BY <1>6, <2>1, <2>2, <2>3, <2>4
<1>8. \A m \in Names : ~Says(f, m) /\ Shows(m) => Shows(m)'
  BY <1>1 DEF Shows
<1>9. \A n \in Names : Shows(n)' \/ \E i \in DOMAIN outbox' : Says(outbox'[i], n)
  <2> TAKE n \in Names
  <2>1. CASE Says(f, n)
    BY <1>7, <2>1
  <2>2. CASE ~Says(f, n) /\ Shows(n)
    BY <1>8, <2>2
  <2>3. CASE ~Says(f, n) /\ ~Shows(n)
    <3>1. PICK i \in DOMAIN outbox : Says(outbox[i], n)
      BY <1>3, <2>3
    <3>2. i # 1
      BY <1>0, <2>3, <3>1
    <3>3. i - 1 \in DOMAIN outbox' /\ outbox'[i - 1] = outbox[i]
      BY <1>2, <3>2
    <3> QED BY <3>1, <3>3
  <2> QED BY <2>1, <2>2, <2>3
<1>10. view_listed' = listed' \/ \E i \in DOMAIN outbox' : OfList(outbox'[i])
  <2>1. CASE OfList(f)
    BY <1>1, <1>5, <2>1 DEF IsTrue
  <2>2. CASE ~OfList(f) /\ view_listed = listed
    BY <1>1, <2>2
  <2>3. CASE ~OfList(f) /\ view_listed # listed
    <3>1. PICK i \in DOMAIN outbox : OfList(outbox[i])
      BY <1>3, <2>3
    <3>2. i # 1
      BY <1>0, <2>3, <3>1
    <3>3. i - 1 \in DOMAIN outbox' /\ outbox'[i - 1] = outbox[i]
      BY <1>2, <3>2
    <3> QED BY <3>1, <3>3
  <2> QED BY <2>1, <2>2, <2>3
<1>11. \A i, j \in DOMAIN outbox', n \in Names : Says(outbox'[i], n) /\ Says(outbox'[j], n) => i = j
  <2> TAKE i, j \in DOMAIN outbox', n \in Names
  <2> SUFFICES ASSUME Says(outbox'[i], n), Says(outbox'[j], n)  PROVE i = j
    OBVIOUS
  <2>1. /\ i + 1 \in DOMAIN outbox /\ outbox'[i] = outbox[i + 1] /\ i \in Nat
        /\ j + 1 \in DOMAIN outbox /\ outbox'[j] = outbox[j + 1] /\ j \in Nat
    BY <1>2
  <2>2. i + 1 = j + 1
    BY <1>3, <2>1
  <2> QED BY <2>1, <2>2
\* A frame further back speaks of another property.
<1>12. ASSUME NEW k \in DOMAIN outbox', NEW m \in Names, Says(outbox[k + 1], m)
       PROVE  ~Says(f, m)
  <2>1. k + 1 \in DOMAIN outbox /\ k + 1 # 1
    BY <1>2
  <2> QED BY <1>0, <1>1, <1>3, <1>12, <2>1
<1>13. \A g : \A k \in DOMAIN outbox' : g = outbox'[k] => IsTrue(g)'
  <2> TAKE g
  <2> TAKE k \in DOMAIN outbox'
  <2> SUFFICES ASSUME g = outbox'[k]  PROVE IsTrue(g)'
    OBVIOUS
  <2>1. g = outbox[k + 1] /\ k + 1 \in DOMAIN outbox
    BY <1>2
  <2>2. IsTrue(g) /\ g \in Frame
    BY <1>1, <1>4, <2>1
  <2>3. g.tag = "set" => view'[g.name] = view[g.name]
    <3> SUFFICES ASSUME g.tag = "set"  PROVE view'[g.name] = view[g.name]
      OBVIOUS
    <3>1. g.name \in Names /\ Says(g, g.name)
      BY <2>2, FrameForms DEF Says, OfList
    <3>2. ~Says(f, g.name)
      BY <1>12, <2>1, <3>1
    <3> QED BY <1>1, <3>1, <3>2
  <2>4. OfOwner(g)' <=> OfOwner(g)
    BY <1>1 DEF OfOwner
  <2>5. g.tag = "set" => (OfAnother(g)' <=> OfAnother(g))
    BY <1>1, <2>3 DEF OfAnother, Superseded
  <2>6. g.tag = "relist" => view_listed' # None
    <3>1. OfList(f) => f.names # None
      BY <1>5, FrameForms, DeviceAssumption
    <3> QED BY <1>1, <2>2, <3>1 DEF IsTrue
  <2> QED BY <1>1, <2>2, <2>3, <2>4, <2>5, <2>6 DEF IsTrue
<1>14. FramesSound'
  BY <1>9, <1>10, <1>11, <1>13 DEF FramesSound
<1>15. Sane
  BY DEF Sane, PropertiesType, TypeOK
<1>16. ListIsExact /\ ListIsVisible
  BY DEF StreamSound, ListsSound, ListIsTrue
<1>17. listed # None => listed = Registered(registry) \cap Persisted
  BY <1>15, <1>16, ExactIs
<1>18. ListIsExact'
  BY <1>1, <1>17, ExactIsNext
\* What is listed is not being deleted.
<1>19. \A g \in Frame : IsTrue(g) /\ OfList(g) =>
         \A m \in g.names : m \in Names /\ registry[m] # None
  <2> TAKE g \in Frame
  <2> SUFFICES ASSUME IsTrue(g), OfList(g), NEW m \in g.names
               PROVE  m \in Names /\ registry[m] # None
    OBVIOUS
  <2>1. g.names = listed /\ g.names \in SUBSET Names
    BY FrameForms DEF IsTrue
  <2>2. listed # None
    BY <2>1, DeviceAssumption
  <2> QED BY <1>17, <2>1, <2>2 DEF Registered
<1>20. /\ \A i \in DOMAIN outbox : OfList(outbox[i]) =>
            \A n \in outbox[i].names :
              view[n] # None \/ \E j \in DOMAIN outbox : j < i /\ outbox[j].tag = "def" /\ outbox[j].name = n
       /\ \A i \in DOMAIN outbox : outbox[i].tag = "del" =>
            \/ view_listed = None
            \/ outbox[i].name \notin view_listed
            \/ \E j \in DOMAIN outbox : j < i /\ OfList(outbox[j])
  BY DEF StreamSound, ListsSound
<1>21. \A m \in Names : registry[m] # None /\ view[m] # None => view'[m] # None
  <2> TAKE m \in Names
  <2> SUFFICES ASSUME registry[m] # None, view[m] # None  PROVE view'[m] # None
    OBVIOUS
  <2>1. CASE Says(f, m)
    BY <1>1, <1>7, <2>1 DEF Shows
  <2>2. CASE ~Says(f, m)
    BY <1>1, <2>2
  <2> QED BY <2>1, <2>2
<1>22. ASSUME NEW i \in DOMAIN outbox', OfList(outbox'[i]), NEW n \in outbox'[i].names
       PROVE  view'[n] # None \/ \E j \in DOMAIN outbox' : j < i /\ outbox'[j].tag = "def" /\ outbox'[j].name = n
  <2>1. /\ i + 1 \in DOMAIN outbox /\ outbox'[i] = outbox[i + 1] /\ i \in Nat
        /\ OfList(outbox[i + 1]) /\ n \in outbox[i + 1].names
    BY <1>2, <1>22
  <2>2. n \in Names /\ registry[n] # None
    BY <1>1, <1>4, <1>19, <2>1
  <2>3. CASE view[n] # None
    BY <1>21, <2>2, <2>3
  <2>4. CASE \E j \in DOMAIN outbox : j < i + 1 /\ outbox[j].tag = "def" /\ outbox[j].name = n
    <3>1. PICK j \in DOMAIN outbox : j < i + 1 /\ outbox[j].tag = "def" /\ outbox[j].name = n
      BY <2>4
    <3>2. CASE j = 1
      <4>1. Says(f, n) /\ f.tag = "def"
        BY <1>0, <3>1, <3>2 DEF Says, OfList
      <4> QED BY <1>1, <1>6, <2>2, <4>1
    <3>3. CASE j # 1
      <4>1. j - 1 \in DOMAIN outbox' /\ outbox'[j - 1] = outbox[j] /\ j \in Nat
        BY <1>2, <3>3
      <4>2. j - 1 < i
        BY <2>1, <3>1, <4>1
      <4> QED BY <3>1, <4>1, <4>2
    <3> QED BY <3>2, <3>3
  <2> QED BY <1>20, <2>1, <2>3, <2>4
<1>23. ASSUME NEW i \in DOMAIN outbox', outbox'[i].tag = "del"
       PROVE  \/ view_listed' = None
              \/ outbox'[i].name \notin view_listed'
              \/ \E j \in DOMAIN outbox' : j < i /\ OfList(outbox'[j])
  <2>1. /\ i + 1 \in DOMAIN outbox /\ outbox'[i] = outbox[i + 1] /\ i \in Nat
        /\ outbox[i + 1].tag = "del"
    BY <1>2, <1>23
  <2>2. registry[outbox[i + 1].name] = None
    BY <1>4, <2>1 DEF IsTrue
  <2>3. CASE OfList(f)
    <3>1. view_listed' = f.names
      BY <1>1, <2>3
    <3>2. outbox[i + 1].name \notin f.names
      BY <1>5, <1>19, <2>2, <2>3
    <3> QED BY <2>1, <3>1, <3>2
  <2>4. CASE ~OfList(f)
    <3>1. view_listed' = view_listed
      BY <1>1, <2>4
    <3>2. CASE \E j \in DOMAIN outbox : j < i + 1 /\ OfList(outbox[j])
      <4>1. PICK j \in DOMAIN outbox : j < i + 1 /\ OfList(outbox[j])
        BY <3>2
      <4>2. j # 1
        BY <1>0, <2>4, <4>1
      <4>3. j - 1 \in DOMAIN outbox' /\ outbox'[j - 1] = outbox[j] /\ j \in Nat
        BY <1>2, <4>2
      <4>4. j - 1 < i
        BY <2>1, <4>1, <4>3
      <4> QED BY <4>1, <4>3, <4>4
    <3> QED BY <1>20, <2>1, <3>1, <3>2
  <2> QED BY <2>3, <2>4
<1>24. ListIsVisible'
  <2> SUFFICES ASSUME view_listed' # None, NEW n \in view_listed'  PROVE view'[n] # None
    BY DEF ListIsVisible
  <2>1. CASE OfList(f)
    <3>1. n \in f.names
      BY <1>1, <2>1
    <3>2. n \in Names /\ registry[n] # None
      BY <1>5, <1>19, <2>1, <3>1
    <3>3. \A j \in DOMAIN outbox : ~(j < 1)
      BY WriteIs
    <3>4. view[n] # None
      BY <1>0, <1>1, <1>20, <2>1, <3>1, <3>3
    <3> QED BY <1>21, <3>2, <3>4
  <2>2. CASE ~OfList(f)
    <3>1. n \in view_listed /\ view_listed # None /\ view[n] # None
      BY <1>1, <1>16, <2>2 DEF ListIsVisible
    <3>2. n \in Names
      BY <3>1 DEF TypeOK
    <3>3. CASE ~Says(f, n)
      BY <1>1, <3>1, <3>2, <3>3
    <3>4. CASE Says(f, n) /\ f.tag \in {"def", "set"}
      <4>1. view'[n] = f.shows
        BY <1>1, <3>1, <3>2, <3>4
      <4> QED BY <1>6, <3>4, <4>1
    <3>5. CASE Says(f, n) /\ f.tag = "del"
      <4>1. \A j \in DOMAIN outbox : ~(j < 1)
        BY WriteIs
      <4>2. f.name = n
        BY <3>5 DEF Says
      <4> QED BY <1>0, <1>1, <1>20, <3>1, <3>5, <4>1, <4>2
    <3> QED BY <1>6, <2>2, <3>3, <3>4, <3>5
  <2> QED BY <2>1, <2>2
<1>25. ListsSound'
  BY <1>18, <1>22, <1>23, <1>24 DEF ListsSound, ListIsTrue
<1> QED BY <1>14, <1>25 DEF StreamSound

\* Every step keeps the stream true.
LEMMA StepStream ==
  ASSUME TypeOK, HandlesSound, BoundSound, AttemptSound, StreamSound, [Next]_vars
  PROVE  StreamSound'
<1>1. ListIsExact
  BY DEF StreamSound, ListsSound, ListIsTrue
<1>2. Sane'
  BY <1>1, StepSane
<1> QED BY <1>2, StepIs, QuietStream, WriteStream, UpdatesStream, MisspeaksStream, MumblesStream, DefinesStream,
           DeletesStream, RestatesStream, ListsStream, RollsBackStream, AppliesStream

-----------------------------------------------------------------------------
(* Types.                                                                  *)

\* A dictionary of values, brought up to date with the properties there are ...
LEMMA RefreshedType ==
  ASSUME TypeOK
  PROVE  Refreshed \in Dict
<1>1. \A n \in Names : n \in PersistedNames(handles, registry) => handles[registry[n]].val \in Nat
  BY HandlesAre DEF PersistedNames, Registered, Handle
<1> QED BY <1>1 DEF Refreshed, TypeOK, Dict

\* ... or with a document.
LEMMA MergedType ==
  ASSUME TypeOK
  PROVE  Merged \in Dict /\ \A n \in Names : InFile(n) => file[n] \in Nat
<1>1. \A n \in Names : InFile(n) => file[n] \in Nat
  BY DEF TypeOK, Dict, InFile
<1> QED BY <1>1 DEF Merged, TypeOK, Dict

\* The part that speaks of the configuration.
ConfigType ==
  /\ config_values \in Dict /\ document \in Dict /\ file \in Dict \cup {None}
  /\ kept \in Dict /\ due \in Dict

\* It is kept: what comes from a property or a file is a value.
LEMMA StepConfigType ==
  ASSUME TypeOK, HandlesSound, [Next]_vars
  PROVE  ConfigType'
<1>0. ConfigType
  BY DEF TypeOK, ConfigType
<1> USE <1>0 DEF ConfigType, config, history
<1>1. CASE \/ Write \/ NewcomerJoins \/ SetupLoads \/ UNCHANGED vars
           \/ \E r \in Asked : Receive(r)
           \/ \E t \in Ticks : Tick(t)
           \/ \E n \in BuiltIn : DefineBuiltIn(n)
  BY <1>1 DEF Write, NewcomerJoins, SetupLoads, Receive, Tick, DefineBuiltIn, Operate, vars
<1>2. CASE \/ BeginSetup \/ Reannounce \/ BeginHandler \/ NothingSelected \/ BeginPurge \/ BeginLoad
           \/ \E r \in {"CONNECT", "DISCONNECT"} : BeginConnection(r)
  BY <1>2 DEF BeginSetup, Reannounce, BeginHandler, NothingSelected, BeginPurge, BeginLoad,
              BeginConnection
<1>3. CASE BeginSave
  BY <1>3, RefreshedType DEF BeginSave
<1>4. CASE \/ SetupReturns \/ HookReturns \/ HookRaises \/ HandlerEnds
           \/ SetupLoadFails \/ LoadedReturns \/ ConfigFails
  BY <1>4 DEF SetupReturns, HookReturns, HookRaises, HandlerEnds, SetupLoadFails, LoadedReturns,
              ConfigFails
<1>5. CASE Saved \/ Purged
  BY <1>5 DEF Saved, Purged
<1>6. CASE SetupRaises
  <2>1. None \notin Introduced
    BY IntroducedAre
  <2> QED BY <1>6, <2>1, ForgetIs DEF SetupRaises, RollBack
<1>7. CASE Loaded \/ SetupLoaded
  <2>1. ApplyFile
    BY <1>7 DEF Loaded, SetupLoaded
  <2>2. /\ config_values' = Merged /\ UNCHANGED <<document, file, due>>
        /\ kept' = [n \in Names |-> IF n \in Persisted /\ InFile(n) THEN file[n] ELSE kept[n]]
    BY <2>1 DEF ApplyFile
  <2>3. kept' \in Dict
    BY <2>2, MergedType DEF Dict
  <2> QED BY <2>2, <2>3, MergedType
<1>8. ASSUME NEW a \in Actors, AuthorsCode(a)  PROVE ConfigType'
  <2>1. ASSUME NEW n \in OwnNames, DefineOwn(a, n)  PROVE ConfigType'
    <3>1. UNCHANGED <<config_values, document, file, due>>
      BY <2>1 DEF DefineOwn, Operate
    <3>2. kept' = IF n \in Persisted /\ registry[n] # None
                    THEN [kept EXCEPT ![n] = handles'[registry'[n]].val] ELSE kept
      BY <2>1 DEF DefineOwn
    <3>3. Defines(a, n)
      BY <2>1 DEF DefineOwn, Defines, Names, Operate
    <3>4. handles'[registry'[n]].val \in Nat
      BY <3>3, DefineShape DEF Handle
    <3>5. kept' \in Dict
      BY <3>2, <3>4 DEF Dict
    <3> QED BY <3>1, <3>5
  <2>2. ASSUME NEW i \in DOMAIN handles, NEW v \in Values, SetOwn(a, i, v) \/ SetOwnHalfway(a, i, v)
        PROVE  ConfigType'
    <3>1. UNCHANGED <<config_values, document, file, due>>
      BY <2>2 DEF SetOwn, SetOwnHalfway, Sets, Operate
    <3>2. kept' = IF handles[i].name \in Persisted /\ ~Superseded(i)
                    THEN [kept EXCEPT ![handles[i].name] = v] ELSE kept
      BY <2>2 DEF SetOwn, SetOwnHalfway, Sets
    <3>3. v \in Nat
      BY DeviceAssumption
    <3>4. kept' \in Dict
      BY <3>2, <3>3 DEF Dict
    <3> QED BY <3>1, <3>4
  <2>3. ASSUME NEW i \in DOMAIN handles, DeleteHandle(a, i)  PROVE ConfigType'
    <3>1. UNCHANGED <<document, file, kept, due>> /\ config_values' = Captured({i})
      BY <2>3 DEF DeleteHandle, Delete, Operate
    <3>2. None \notin {i}
      BY HandlesAre
    <3> QED BY <3>1, <3>2, ForgetIs
  <2> QED BY <1>8, <2>1, <2>2, <2>3 DEF AuthorsCode
<1> QED BY <1>1, <1>2, <1>3, <1>4, <1>5, <1>6, <1>7, <1>8 DEF Next, Driver, ReaderBegins, ReaderEnds

\* The part that speaks of setup and of the tasks.
TasksType ==
  /\ setup_done \in BOOLEAN /\ setup_complete \in BOOLEAN
  /\ announced \in [Names -> DOMAIN handles \cup {None}]
  /\ request \in Requests \cup {"none"}
  /\ bound \in DOMAIN handles \cup {None}
  /\ ops \in Nat
  /\ link \in BOOLEAN /\ informed \in BOOLEAN

\* It is kept: the handles that are referred to are still there.
LEMMA StepTasksType ==
  ASSUME TypeOK, HandlesSound, Grown, [Next]_vars
  PROVE  TasksType'
<1>1. /\ setup_done \in BOOLEAN /\ setup_complete \in BOOLEAN
      /\ request \in Requests \cup {"none"} /\ ops \in Nat /\ link \in BOOLEAN
      /\ informed \in BOOLEAN
  BY DEF TypeOK
<1>2. /\ announced \in [Names -> DOMAIN handles' \cup {None}]
      /\ registry \in [Names -> DOMAIN handles' \cup {None}]
      /\ Nothing \in [Names -> DOMAIN handles' \cup {None}]
      /\ bound \in DOMAIN handles' \cup {None}
  BY DEF TypeOK, Grown, Nothing
<1>3. \A n \in Registered(registry) : registry[n] \in DOMAIN handles'
  BY HandlesAre DEF Registered, Grown
<1>4. Asked \subseteq Requests /\ MaxOps \in Nat
  BY DeviceAssumption
<1> USE <1>1, <1>2 DEF TasksType, startup, tasks, history
<1>5. CASE \/ Write \/ NewcomerJoins \/ SetupLoads \/ UNCHANGED vars
           \/ \E t \in Ticks : Tick(t)
           \/ \E n \in BuiltIn : DefineBuiltIn(n)
           \/ \E a \in Actors : AuthorsCode(a)
  <2>1. /\ UNCHANGED <<startup, request, bound, link>> /\ ops' \in {ops, ops + 1}
        /\ informed' \in {informed, FALSE}
    BY <1>5 DEF Write, NewcomerJoins, SetupLoads, Tick, TickGate, TickWake, TickBegins, TickEnds,
                DefineBuiltIn, AuthorsCode, DefineOwn, Sets, SetOwn, SetOwnHalfway, DeleteHandle,
                Operate, vars
  <2>2. ops' \in Nat
    <3>1. ops' = ops \/ ops' = ops + 1
      BY <2>1
    <3> QED BY <3>1
  <2>3. UNCHANGED <<setup_done, setup_complete, announced, request, bound, link>>
    BY <2>1
  <2>4. informed' \in BOOLEAN
    BY <2>1
  <2> QED BY <2>2, <2>3, <2>4
<1>6. ASSUME NEW r \in Asked, Receive(r)  PROVE TasksType'
  BY <1>4, <1>6 DEF Receive
<1>7. CASE BeginSetup
  BY <1>7 DEF BeginSetup, Goto
<1>8. CASE Reannounce \/ NothingSelected
  BY <1>8 DEF Reannounce, NothingSelected, Done
<1>9. CASE BeginHandler \/ SetupLoadFails
  BY <1>9 DEF BeginHandler, SetupLoadFails, Goto
<1>10. ASSUME NEW r \in {"CONNECT", "DISCONNECT"}, BeginConnection(r)  PROVE TasksType'
  BY <1>3, <1>10 DEF BeginConnection, Press
<1>11. CASE BeginSave \/ BeginPurge \/ BeginLoad
  BY <1>3, <1>11 DEF BeginSave, BeginPurge, BeginLoad, BeginConfig, Press
<1>12. CASE SetupReturns
  BY <1>12 DEF SetupReturns, Done
<1>13. CASE SetupRaises
  BY <1>13 DEF SetupRaises, RollBack, Done
<1>14. CASE HookReturns
  BY <1>14 DEF HookReturns, Done
<1>15. CASE HookRaises
  BY <1>15 DEF HookRaises, Done
<1>16. CASE HandlerEnds \/ Saved \/ Purged \/ LoadedReturns \/ ConfigFails
  BY <1>16 DEF HandlerEnds, Saved, Purged, LoadedReturns, ConfigFails, Done
<1>17. CASE Loaded \/ SetupLoaded
  BY <1>17 DEF Loaded, SetupLoaded, ApplyFile, Goto
<1> QED BY <1>5, <1>6, <1>7, <1>8, <1>9, <1>10, <1>11, <1>12, <1>13, <1>14, <1>15, <1>16, <1>17
        DEF Next, Driver, ReaderBegins, ReaderEnds

\* The part that speaks of the clients.
ClientType ==
  /\ view \in [Names -> [val : Nat, state : State] \cup {None}]
  /\ view_listed \in (SUBSET Names) \cup {None}
  /\ late_view \in [Names -> [val : Nat, state : State] \cup {None}]
  /\ late_listed \in (SUBSET Names) \cup {None}

\* Nobody but the reader of the stream changes what is shown.
LEMMA ClientsRead == [Next]_vars => Write \/ NewcomerJoins \/ UNCHANGED client
BY DEF Next, Driver, ReaderBegins, ReaderEnds, AuthorsCode, vars,
     Receive, BeginSetup, Reannounce, BeginHandler, BeginConnection, NothingSelected, BeginSave,
     BeginPurge, BeginLoad, SetupReturns, SetupRaises, RollBack, HookReturns, HookRaises, HandlerEnds,
     Saved, Purged, Loaded, SetupLoaded, SetupLoadFails, LoadedReturns, ConfigFails, ApplyFile, Tick,
     DefineOwn, Sets, SetOwn, SetOwnHalfway, DeleteHandle, DefineBuiltIn, Operate, SetupLoads

\* It is kept: frames carry what a client can show.
LEMMA StepClientType ==
  ASSUME TypeOK, [Next]_vars
  PROVE  ClientType'
<1>1. ClientType
  BY DEF TypeOK, ClientType
<1>2. CASE UNCHANGED client
  BY <1>1, <1>2 DEF ClientType, client
<1>3. CASE Write
  <2>1. /\ view' = Reading(view, Head(outbox)) /\ view_listed' = ReadingList(view_listed, Head(outbox))
        /\ late_view' = Reading(late_view, Head(outbox))
        /\ late_listed' = ReadingList(late_listed, Head(outbox))
    BY <1>3 DEF Write
  <2>2. Head(outbox) \in Frame
    BY <1>3, HeadTailProperties DEF Write, TypeOK
  <2>3. /\ Reading(view, Head(outbox)) \in [Names -> [val : Nat, state : State] \cup {None}]
        /\ Reading(late_view, Head(outbox)) \in [Names -> [val : Nat, state : State] \cup {None}]
    BY <1>1, <2>2, ReadingIs DEF ClientType
  <2>4. /\ ReadingList(view_listed, Head(outbox)) \in (SUBSET Names) \cup {None}
        /\ ReadingList(late_listed, Head(outbox)) \in (SUBSET Names) \cup {None}
    BY <1>1, <2>2, ReadingListIs DEF ClientType
  <2> QED BY <2>1, <2>3, <2>4 DEF ClientType
<1>4. CASE NewcomerJoins
  BY <1>1, <1>4 DEF NewcomerJoins, ClientType, Nothing
<1> QED BY <1>2, <1>3, <1>4, ClientsRead

\* Every step keeps the types.
LEMMA StepType ==
  ASSUME TypeOK, HandlesSound, BoundSound, AttemptSound, StreamSound, GuardInv, [Next]_vars
  PROVE  TypeOK' /\ HandlesSound' /\ Grown
<1>1. ListIsExact
  BY DEF StreamSound, ListsSound, ListIsTrue
<1>2. Sane' /\ Grown
  BY <1>1, StepSane
<1>3. ConfigType' /\ TasksType' /\ ClientType'
  BY <1>2, StepConfigType, StepTasksType, StepClientType
<1>4. GuardInv'
  BY GuardStep
<1>5. guard' \in Seq(Actors)
  BY <1>4 DEF GuardInv, GuardType
<1>6. pc' \in [Actors -> {"idle", "queued", "setup", "setup_loading", "hook", "handler",
                        "saving", "purging", "loading", "loaded",
                        "gated", "sleeping", "ticking"}]
  <2>1. Outside \cup {"queued", "setup", "setup_loading", "hook", "handler",
                      "saving", "purging", "loading", "loaded", "ticking"}
         = {"idle", "queued", "setup", "setup_loading", "hook", "handler",
                        "saving", "purging", "loading", "loaded",
                        "gated", "sleeping", "ticking"}
    BY DEF Outside
  <2> QED BY <1>4, <2>1 DEF GuardInv, GuardType
<1>7. TypeOK'
  BY <1>2, <1>3, <1>5, <1>6 DEF TypeOK, Sane, PropertiesType, ConfigType, TasksType, ClientType
<1> QED BY <1>2, <1>7 DEF Sane

-----------------------------------------------------------------------------
(* Setup.                                                                  *)

\* A step that is no part of an attempt keeps what is known of it if every
\* property it adds is somebody else's.
LEMMA AttemptKept ==
  ASSUME TypeOK, AttemptSound, Grown, UNCHANGED <<setup_done, announced>>,
         Attempting' => Attempting,
         listed = None => listed' = None,
         \A n \in Names : \/ registry'[n] \in {None, registry[n]}
                          \/ setup_done \/ handles'[registry'[n]].during # "setup"
  PROVE  AttemptSound'
<1>1. Attempting' => \A n \in Names : announced'[n] # None => handles'[announced'[n]].during # "setup"
  BY HandlesAre DEF AttemptSound, Grown
<1>2. FailedAttemptLeavesNoProperty'
  <2> SUFFICES ASSUME ~setup_done, NEW n \in Names, registry'[n] # None
               PROVE  handles'[registry'[n]].during # "setup"
    BY DEF FailedAttemptLeavesNoProperty, Registered
  <2>1. CASE registry'[n] = registry[n]
    BY <2>1, HandlesAre DEF AttemptSound, FailedAttemptLeavesNoProperty, Registered, Grown
  <2>2. CASE registry'[n] # registry[n]
    BY <2>2
  <2> QED BY <2>1, <2>2
<1> QED BY <1>1, <1>2 DEF AttemptSound

\* Every step keeps what is known of the attempts.
LEMMA StepAttempt ==
  ASSUME TypeOK, HandlesSound, AttemptSound, BoundSound, ListIsExact, GuardInv, Grown, [Next]_vars
  PROVE  AttemptSound'
<1> USE DEF At, Goto, Done, Release, properties, startup, tasks, config
<1>0. Reader \in Actors /\ pc \in [Actors -> {"idle", "queued", "setup", "setup_loading", "hook",
             "handler", "saving", "purging", "loading", "loaded", "gated", "sleeping", "ticking"}]
  BY DEF TypeOK, Actors
<1>1. ASSUME UNCHANGED <<properties, setup_done, announced>>, Attempting' => Attempting
      PROVE  AttemptSound'
  BY <1>1, AttemptKept
<1>2. ASSUME NEW a \in Actors, NEW n, Defines(a, n), UNCHANGED <<setup_done, announced, pc>>
      PROVE  AttemptSound'
  <2>1. pc[a] = "setup" => setup_done
    <3>1. CASE a = Reader
      BY <3>1 DEF AttemptSound, Attempting
    <3>2. CASE a \in Ticks
      BY <3>2 DEF GuardInv, GuardType
    <3> QED BY <3>1, <3>2 DEF Actors
  <2>2. /\ handles'[Newest].during = pc[a] /\ registry'[n] = Newest
        /\ \A m \in Names : m # n => registry'[m] = registry[m]
        /\ listed = None => listed' = None
    BY <1>2, DefineShape
  <2>3. \A m \in Names : \/ registry'[m] \in {None, registry[m]}
                         \/ setup_done \/ handles'[registry'[m]].during # "setup"
    BY <2>1, <2>2
  <2> QED BY <1>2, <2>2, <2>3, AttemptKept DEF Attempting
<1>3. ASSUME NEW i, Deletes(i), UNCHANGED <<setup_done, announced, pc>>
      PROVE  AttemptSound'
  <2>1. i \in DOMAIN handles /\ Delete(i)
    BY <1>3 DEF Deletes
  <2>2. listed = None => listed' = None
    BY <2>1, DeleteShape
  <2>3. registry' = Forget({i}) /\ None \notin {i}
    BY <2>1, DeleteShape, HandlesAre
  <2>4. \A m \in Names : registry'[m] \in {None, registry[m]}
    BY <2>3, ForgetIs
  <2> QED BY <1>3, <2>2, <2>4, AttemptKept DEF Attempting
<1>4. CASE Write \/ NewcomerJoins \/ UNCHANGED vars
  BY <1>1, <1>4 DEF Write, NewcomerJoins, Attempting, vars
<1>5. ASSUME NEW r \in Asked, Receive(r)  PROVE AttemptSound'
  BY <1>0, <1>1, <1>5 DEF Receive, Attempting
<1>6. ASSUME NEW t \in Ticks, Tick(t)  PROVE AttemptSound'
  <2>1. pc'[Reader] = pc[Reader]
    BY <1>0, <1>6, DeviceAssumption DEF Tick, TickGate, TickWake, TickBegins, TickEnds, Actors
  <2> QED BY <1>1, <1>6, <2>1 DEF Tick, Attempting
<1>7. CASE SetupLoads \/ SetupLoadFails
  BY <1>0, <1>1, <1>7 DEF SetupLoads, SetupLoadFails, Attempting
<1>8. ASSUME NEW a \in Actors, AuthorsCode(a)  PROVE AttemptSound'
  <2>1. ASSUME NEW n \in OwnNames, DefineOwn(a, n)  PROVE AttemptSound'
    <3>1. Defines(a, n)
      BY <2>1 DEF DefineOwn, Defines, Names, Operate, client
    <3> QED BY <1>2, <2>1, <3>1 DEF DefineOwn, Operate
  <2>2. ASSUME NEW i \in DOMAIN handles, NEW v \in Values, SetOwn(a, i, v) \/ SetOwnHalfway(a, i, v)
        PROVE  AttemptSound'
    <3>1. UNCHANGED <<registry, listed, setup_done, announced, pc>>
      BY <2>2 DEF SetOwn, SetOwnHalfway, Sets, Operate
    <3> QED BY <3>1, AttemptKept DEF Attempting
  <2>3. ASSUME NEW i \in DOMAIN handles, DeleteHandle(a, i)  PROVE AttemptSound'
    <3>1. Deletes(i)
      BY <2>3 DEF DeleteHandle, Deletes, Operate, client
    <3> QED BY <1>3, <2>3, <3>1 DEF DeleteHandle, Operate
  <2> QED BY <1>8, <2>1, <2>2, <2>3 DEF AuthorsCode
<1>9. ASSUME NEW n \in BuiltIn, DefineBuiltIn(n)  PROVE AttemptSound'
  <2>1. Defines(Reader, n)
    BY <1>9, BuiltInIs
  <2> QED BY <1>0, <1>2, <1>9, <2>1 DEF DefineBuiltIn, Operate
<1>10. CASE BeginSetup
  <2>1. /\ ~setup_done /\ setup_done' = TRUE /\ announced' = registry
        /\ UNCHANGED <<handles, registry, listed>>
    BY <1>10 DEF BeginSetup
  <2>2. listed' = None /\ \A n \in Names : announced'[n] # None => handles'[announced'[n]].during # "setup"
    BY <2>1 DEF AttemptSound, FailedAttemptLeavesNoProperty, Registered
  <2> QED BY <2>1, <2>2 DEF AttemptSound, FailedAttemptLeavesNoProperty
<1>11. CASE SetupReturns
  <2>1. setup_done' = TRUE
    BY <1>11 DEF SetupReturns, AttemptSound, Attempting, TypeOK
  <2>2. pc'[Reader] = "idle"
    BY <1>0, <1>11 DEF SetupReturns
  <2> QED BY <2>1, <2>2 DEF AttemptSound, Attempting, FailedAttemptLeavesNoProperty
<1>12. CASE SetupRaises
  <2>1. pc'[Reader] = "idle"
    BY <1>0, <1>12 DEF SetupRaises
  <2>2. Attempting /\ UNCHANGED listed /\ registry' = Forget(Introduced)
    BY <1>12 DEF SetupRaises, RollBack, Attempting
  <2>3. \A n \in Names : registry'[n] # None => registry'[n] = announced[n]
    BY <2>2, ForgetIs, IntroducedAre
  <2>4. \A n \in Names : registry'[n] # None => handles'[registry'[n]].during # "setup"
    BY <2>2, <2>3, HandlesAre DEF AttemptSound, Grown
  <2> QED BY <2>1, <2>2, <2>4 DEF AttemptSound, Attempting, FailedAttemptLeavesNoProperty, Registered
<1>13. CASE \/ Reannounce \/ BeginHandler \/ NothingSelected \/ BeginSave \/ BeginPurge \/ BeginLoad
            \/ \E r \in {"CONNECT", "DISCONNECT"} : BeginConnection(r)
  <2>1. UNCHANGED <<registry, listed, setup_done, announced>>
    BY <1>13 DEF Reannounce, BeginHandler, NothingSelected, BeginSave, BeginPurge, BeginLoad,
                 BeginConnection, Press
  <2>2. ~Attempting'
    BY <1>0, <1>13 DEF Reannounce, BeginHandler, NothingSelected, BeginSave, BeginPurge, BeginLoad,
                 BeginConnection, Attempting
  <2> QED BY <2>1, <2>2, AttemptKept
<1>14. CASE \/ HookReturns \/ HookRaises \/ HandlerEnds \/ Saved \/ Purged \/ Loaded
            \/ LoadedReturns \/ ConfigFails
  <2>1. UNCHANGED <<registry, listed, setup_done, announced>>
    BY <1>14 DEF HookReturns, HookRaises, HandlerEnds, Saved, Purged, Loaded, LoadedReturns,
                 ConfigFails, ApplyFile
  <2>2. ~Attempting'
    BY <1>0, <1>14 DEF HookReturns, HookRaises, HandlerEnds, Saved, Purged, Loaded, LoadedReturns,
                       ConfigFails, Attempting
  <2> QED BY <2>1, <2>2, AttemptKept
<1>15. CASE SetupLoaded
  <2>1. UNCHANGED <<registry, listed, setup_done, announced>> /\ Attempting
    BY <1>15 DEF SetupLoaded, ApplyFile, Attempting
  <2> QED BY <2>1, AttemptKept
<1> QED BY <1>4, <1>5, <1>6, <1>7, <1>8, <1>9, <1>10, <1>11, <1>12, <1>13, <1>14, <1>15
        DEF Next, Driver, ReaderBegins, ReaderEnds

-----------------------------------------------------------------------------
(* The built-in switches.                                                  *)

\* A step of somebody else: no handle changes its state, no built-in switch its
\* value, and what is new is Idle.
LEMMA SwitchesKept ==
  ASSUME TypeOK, HandlesSound, SwitchesSound, Grown, UNCHANGED <<bound, link>>,
         pc'[Reader] = "hook" <=> pc[Reader] = "hook", InConfig' <=> InConfig,
         pc[Reader] = "hook" => request' = request,
         \A i \in DOMAIN handles : handles'[i].state = handles[i].state,
         \A i \in DOMAIN handles :
           handles[i].name \in {Connection, ConfigProcess} => handles'[i].val = handles[i].val,
         \A n \in Names :
           \/ registry'[n] = registry[n]
           \/ registry'[n] = None /\ registry[n] # None /\ handles'[registry[n]].retracted
           \/ /\ handles'[registry'[n]].state = "Idle"
              /\ n \in {Connection, ConfigProcess} => bound = None /\ handles'[registry'[n]].val = 0
  PROVE  SwitchesSound'
<1>1. bound # None =>
        /\ bound \in DOMAIN handles /\ handles[bound].name \in {Connection, ConfigProcess}
        /\ handles[bound].name \in Names
  BY HandlesAre DEF SwitchesSound, BoundSound, TypeOK, Handle
<1>2. \A n \in Names : registry[n] # None => registry[n] \in DOMAIN handles /\ handles[registry[n]].name = n
  BY HandlesAre DEF HandlesSound
<1>3. BoundSound'
  <2>1. bound' # None <=> pc'[Reader] = "hook" \/ InConfig'
    BY DEF SwitchesSound, BoundSound
  <2>2. bound' # None =>
          /\ handles'[bound'].name = IF InConfig' THEN ConfigProcess ELSE Connection
          /\ registry'[handles'[bound'].name] \in {bound', None}
          /\ ~handles'[bound'].retracted => registry'[handles'[bound'].name] = bound'
    <3> SUFFICES ASSUME bound # None
                 PROVE  /\ handles'[bound].name = IF InConfig' THEN ConfigProcess ELSE Connection
                        /\ registry'[handles'[bound].name] \in {bound, None}
                        /\ ~handles'[bound].retracted => registry'[handles'[bound].name] = bound
      OBVIOUS
    <3>1. /\ handles'[bound].name = handles[bound].name
          /\ handles[bound].retracted => handles'[bound].retracted
      BY <1>1 DEF Grown
    <3>2. /\ handles[bound].name = IF InConfig THEN ConfigProcess ELSE Connection
          /\ registry[handles[bound].name] \in {bound, None}
          /\ ~handles[bound].retracted => registry[handles[bound].name] = bound
      BY DEF SwitchesSound, BoundSound
    <3>3. PICK n \in Names : n = handles[bound].name
      BY <1>1
    <3>4. \/ registry'[n] = registry[n]
          \/ registry'[n] = None /\ registry[n] # None /\ handles'[registry[n]].retracted
      BY <1>1, <3>3
    <3> QED BY <3>1, <3>2, <3>3, <3>4
  <2>3. pc'[Reader] = "hook" =>
          /\ request' \in {"CONNECT", "DISCONNECT"}
          /\ handles'[bound'].val = IF request' = "CONNECT" THEN 1 ELSE 0
    BY <1>1, <2>1 DEF SwitchesSound, BoundSound
  <2> QED BY <2>1, <2>2, <2>3 DEF BoundSound
<1>4. \A n \in Names : registry'[n] # None /\ handles'[registry'[n]].state = "Busy" => registry'[n] = bound'
  BY <1>2 DEF SwitchesSound
<1>5. ConfigProcess \in Registered(registry') /\ handles'[registry'[ConfigProcess]].val # 0 =>
       registry'[ConfigProcess] = bound'
  BY <1>2 DEF SwitchesSound, Registered
<1>6. OkMeansLinked'
  BY <1>2 DEF SwitchesSound, OkMeansLinked, Registered
<1> QED BY <1>3, <1>4, <1>5, <1>6 DEF SwitchesSound

\* A built-in handler begins: it holds the switch, which is Busy.
LEMMA PressSwitches ==
  ASSUME TypeOK, HandlesSound, SwitchesSound, Grown, bound = None, UNCHANGED <<link, request>>,
         NEW n \in {Connection, ConfigProcess}, n \in Registered(registry),
         NEW v \in Nat, Press(n, v),
         pc'[Reader] = "hook" <=> n = Connection, InConfig' <=> n = ConfigProcess,
         n = Connection => /\ request \in {"CONNECT", "DISCONNECT"}
                           /\ v = IF request = "CONNECT" THEN 1 ELSE 0
  PROVE  SwitchesSound'
<1>1. PICK i \in DOMAIN handles : i = registry[n] /\ handles[i].name = n /\ n \in Names
                                  /\ ~handles[i].retracted /\ i # None
  BY HandlesAre DEF Registered, HandlesSound
<1>2. handles' = Assigned(i, v, "Busy") /\ bound' = i /\ UNCHANGED registry
  BY <1>1 DEF Press, Publish
<1>3. /\ \A j \in DOMAIN handles : j # i => handles'[j] = handles[j]
      /\ handles'[i].name = n /\ ~handles'[i].retracted
      /\ handles'[i].val = v /\ handles'[i].state = "Busy"
  BY <1>1, <1>2, AssignedIs DEF State
<1>4. \A m \in Names : registry[m] # None => registry[m] \in DOMAIN handles /\ handles[registry[m]].name = m
  BY HandlesAre DEF HandlesSound
<1>5. Connection # ConfigProcess
  BY DeviceAssumption
<1>6. BoundSound'
  BY <1>1, <1>2, <1>3, <1>5 DEF BoundSound
<1>7. \A m \in Names : registry'[m] # None /\ handles'[registry'[m]].state = "Busy" => registry'[m] = bound'
  BY <1>1, <1>2, <1>3, <1>4 DEF SwitchesSound
<1>8. ConfigProcess \in Registered(registry') /\ handles'[registry'[ConfigProcess]].val # 0 =>
       registry'[ConfigProcess] = bound'
  BY <1>1, <1>2, <1>3, <1>4 DEF SwitchesSound, Registered
<1>9. OkMeansLinked'
  BY <1>1, <1>2, <1>3, <1>4 DEF SwitchesSound, OkMeansLinked, Registered
<1> QED BY <1>6, <1>7, <1>8, <1>9 DEF SwitchesSound

\* It ends: unless the switch is gone it says how, and it is not Busy.
LEMMA SettleSwitches ==
  ASSUME TypeOK, HandlesSound, SwitchesSound, pc[Reader] = "hook" \/ InConfig,
         NEW v \in Nat, NEW s \in State, s # "Busy", PublishIfLive(bound, v, s),
         UNCHANGED registry, pc'[Reader] = "idle", bound' = None,
         InConfig => v = 0 /\ link' = link,
         pc[Reader] = "hook" /\ s = "Ok" => (v = 1 <=> link')
  PROVE  SwitchesSound'
<1>1. PICK i \in DOMAIN handles : i = bound /\ i # None
  BY DEF SwitchesSound, BoundSound, TypeOK
<1>2. /\ handles[i].name = IF InConfig THEN ConfigProcess ELSE Connection
      /\ registry[handles[i].name] \in {i, None}
      /\ ~handles[i].retracted => registry[handles[i].name] = i
  BY <1>1 DEF SwitchesSound, BoundSound
<1>3. \A m \in Names : registry[m] # None =>
        registry[m] \in DOMAIN handles /\ handles[registry[m]].name = m /\ ~handles[registry[m]].retracted
  BY HandlesAre DEF HandlesSound
<1>4. /\ \A j \in DOMAIN handles : j # i => handles'[j] = handles[j]
      /\ ~handles[i].retracted => handles'[i].val = v /\ handles'[i].state = s
  <2>1. CASE handles[i].retracted
    BY <1>1, <2>1 DEF PublishIfLive
  <2>2. CASE ~handles[i].retracted
    <3>1. handles' = Assigned(i, v, s)
      BY <1>1, <2>2 DEF PublishIfLive, Publish
    <3> QED BY <3>1, AssignedIs
  <2> QED BY <2>1, <2>2
<1>5. Connection # ConfigProcess /\ (pc[Reader] = "hook" => ~InConfig)
  BY DeviceAssumption DEF InConfig
<1>6. BoundSound'
  <2>1. ~InConfig' /\ pc'[Reader] # "hook"
    BY DEF InConfig
  <2> QED BY <2>1 DEF BoundSound
<1>7. \A m \in Names : registry'[m] # None /\ handles'[registry'[m]].state = "Busy" => registry'[m] = bound'
  BY <1>1, <1>3, <1>4 DEF SwitchesSound
<1>8. ConfigProcess \in Registered(registry') /\ handles'[registry'[ConfigProcess]].val # 0 =>
       registry'[ConfigProcess] = bound'
  <2> SUFFICES ASSUME ConfigProcess \in Names, registry[ConfigProcess] # None
               PROVE  handles'[registry[ConfigProcess]].val = 0
    BY DEF Registered
  <2>1. CASE registry[ConfigProcess] = i
    BY <1>2, <1>3, <1>4, <1>5, <2>1
  <2>2. CASE registry[ConfigProcess] # i
    BY <1>1, <1>3, <1>4, <2>2 DEF SwitchesSound, Registered
  <2> QED BY <2>1, <2>2
<1>9. OkMeansLinked'
  <2> SUFFICES ASSUME Connection \in Names, registry[Connection] # None,
                      handles'[registry[Connection]].state = "Ok"
               PROVE  handles'[registry[Connection]].val = 1 <=> link'
    BY DEF OkMeansLinked, Registered
  <2>1. CASE registry[Connection] = i
    <3>1. handles[i].name = Connection /\ ~InConfig /\ ~handles[i].retracted
      BY <1>2, <1>3, <1>5, <2>1
    <3> QED BY <1>4, <2>1, <3>1
  <2>2. CASE registry[Connection] # i
    <3>1. InConfig
      BY <1>2, <1>3, <2>2
    <3>2. handles'[registry[Connection]] = handles[registry[Connection]]
      BY <1>3, <1>4, <2>2
    <3> QED BY <3>1, <3>2 DEF SwitchesSound, OkMeansLinked, Registered
  <2> QED BY <2>1, <2>2
<1> QED BY <1>6, <1>7, <1>8, <1>9 DEF SwitchesSound

\* A step that leaves the switches and the places of the reader alone.
LEMMA SwitchesStay ==
  ASSUME TypeOK, HandlesSound, SwitchesSound, Grown, UNCHANGED <<handles, registry, bound, link>>,
         pc'[Reader] = "hook" <=> pc[Reader] = "hook", InConfig' <=> InConfig,
         pc[Reader] = "hook" => request' = request
  PROVE  SwitchesSound'
BY SwitchesKept

\* The author's code defines, sets and deletes.
LEMMA AuthorSwitches ==
  ASSUME TypeOK, HandlesSound, SwitchesSound, ListIsExact, Grown, UNCHANGED <<bound, link, request, pc>>
  PROVE  /\ \A a, n : Defines(a, n) /\ (n \in {Connection, ConfigProcess} => bound = None)
                        => SwitchesSound'
         /\ \A i : Deletes(i) => SwitchesSound'
         /\ \A i \in DOMAIN handles, v \in Nat :
              /\ handles[i].name \in OwnNames
              /\ handles' = Assigned(i, v, handles[i].state) /\ UNCHANGED registry
              => SwitchesSound'
<1>1. InConfig' <=> InConfig
  BY DEF InConfig
<1>2. ASSUME NEW a, NEW n, Defines(a, n), n \in {Connection, ConfigProcess} => bound = None
      PROVE  SwitchesSound'
  <2>1. /\ \A j \in DOMAIN handles : handles'[j] = handles[j]
        /\ registry'[n] = Newest /\ \A m \in Names : m # n => registry'[m] = registry[m]
        /\ handles'[Newest].state = "Idle"
        /\ handles'[Newest].val = IF n \in Persisted /\ config_values[n] # None THEN config_values[n] ELSE 0
    BY <1>2, DefineShape
  <2>2. n \in {Connection, ConfigProcess} => n \notin Persisted
    BY DeviceAssumption
  <2> QED BY <1>1, <1>2, <2>1, <2>2, SwitchesKept
<1>3. ASSUME NEW i, Deletes(i)  PROVE SwitchesSound'
  <2>1. i \in DOMAIN handles /\ Delete(i)
    BY <1>3 DEF Deletes
  <2>2. registry' = Forget({i}) /\ None \notin {i} /\ handles' = Retracted({i})
    BY <2>1, DeleteShape, HandlesAre
  <2>3. \A m \in Names : registry'[m] = IF registry[m] = i THEN None ELSE registry[m]
    BY <2>2, ForgetIs
  <2>4. \A j \in DOMAIN handles :
              /\ handles'[j].val = handles[j].val /\ handles'[j].state = handles[j].state
              /\ handles'[j].retracted <=> handles[j].retracted \/ j = i
    BY <2>2, RetractedIs
  <2>5. \A m \in Names :
           \/ registry'[m] = registry[m]
           \/ registry'[m] = None /\ registry[m] # None /\ handles'[registry[m]].retracted
    BY <2>1, <2>2, <2>3, <2>4
  <2> QED BY <1>1, <2>4, <2>5, SwitchesKept
<1>4. ASSUME NEW i \in DOMAIN handles, NEW v \in Nat, handles[i].name \in OwnNames,
             handles' = Assigned(i, v, handles[i].state), UNCHANGED registry
      PROVE  SwitchesSound'
  <2>1. handles[i].state \in State
    BY HandlesAre DEF Handle
  <2>2. /\ \A j \in DOMAIN handles : j # i => handles'[j] = handles[j]
        /\ handles'[i].state = handles[i].state
    <3>1. PICK s \in State : s = handles[i].state
      BY <2>1
    <3>2. /\ \A j \in DOMAIN handles : j # i => Assigned(i, v, s)[j] = handles[j]
          /\ Assigned(i, v, s)[i].state = s
      BY <1>1, <3>1, AssignedIs
    <3> QED BY <1>4, <3>1, <3>2
  <2>3. handles[i].name \notin {Connection, ConfigProcess}
    BY <1>4, DeviceAssumption
  <2> QED BY <1>1, <1>4, <2>2, <2>3, SwitchesKept
<1> QED BY <1>2, <1>3, <1>4

\* The reader takes a request up.
LEMMA BeginsSwitches ==
  ASSUME TypeOK, HandlesSound, SwitchesSound, Grown, ReaderBegins
  PROVE  SwitchesSound'
<1> USE DEF Begins, BeginConfig, At, Goto, Done, Release, properties, history, tasks
<1>0. pc \in [Actors -> {"idle", "queued", "setup", "setup_loading", "hook",
             "handler", "saving", "purging", "loading", "loaded", "gated", "sleeping", "ticking"}]
      /\ Reader \in Actors
  BY DEF TypeOK, Actors
<1>1. pc[Reader] = "queued"
  BY DEF ReaderBegins, BeginSetup, Reannounce, BeginHandler, BeginConnection, NothingSelected, BeginSave,
         BeginPurge, BeginLoad
<1>2. bound = None /\ ~InConfig
  BY <1>1 DEF SwitchesSound, BoundSound, InConfig
<1>3. CASE BeginSetup \/ Reannounce \/ BeginHandler
  <2>1. UNCHANGED <<handles, registry, link>> /\ bound' = None
    BY <1>2, <1>3 DEF BeginSetup, Reannounce, BeginHandler
  <2>2. pc'[Reader] \in {"setup", "idle", "handler"}
    BY <1>0, <1>3 DEF BeginSetup, Reannounce, BeginHandler
  <2>3. ~InConfig' /\ pc'[Reader] # "hook"
    BY <2>2 DEF InConfig
  <2> QED BY <1>1, <1>2, <2>1, <2>3, SwitchesStay
<1>4. ASSUME NEW r \in {"CONNECT", "DISCONNECT"}, BeginConnection(r)  PROVE SwitchesSound'
  <2>1. PICK v \in Nat : v = IF r = "CONNECT" THEN 1 ELSE 0
    OBVIOUS
  <2>2. Press(Connection, v) /\ Connection \in Registered(registry) /\ request = r /\ link' = link
    BY <1>4, <2>1, Zenon DEF BeginConnection
  <2>3. request' = request /\ pc'[Reader] = "hook"
    BY <1>0, <1>4 DEF BeginConnection, Press
  <2>4. ~InConfig' /\ Connection # ConfigProcess
    BY <2>3, DeviceAssumption DEF InConfig
  <2>5. /\ request \in {"CONNECT", "DISCONNECT"}
        /\ v = IF request = "CONNECT" THEN 1 ELSE 0
    BY <2>1, <2>2
  <2> QED BY <1>2, <2>2, <2>3, <2>4, <2>5, PressSwitches
<1>5. CASE BeginSave \/ BeginPurge \/ BeginLoad
  <2>1. Press(ConfigProcess, 1) /\ ConfigProcess \in Registered(registry) /\ link' = link
    BY <1>5 DEF BeginSave, BeginPurge, BeginLoad
  <2>2. request' = request
    BY <2>1 DEF Press
  <2>3. InConfig' /\ pc'[Reader] # "hook" /\ Connection # ConfigProcess
    BY <1>0, <1>5, DeviceAssumption DEF BeginSave, BeginPurge, BeginLoad, InConfig
  <2> QED BY <1>2, <2>1, <2>2, <2>3, PressSwitches
<1>6. CASE NothingSelected
  <2>1. PICK i \in DOMAIN handles : i = registry[ConfigProcess] /\ handles[i].name = ConfigProcess
    BY <1>6, HandlesAre DEF NothingSelected, Registered, HandlesSound
  <2>2. handles' = Assigned(i, 0, "Idle") /\ UNCHANGED <<registry, link>> /\ bound' = None
        /\ pc'[Reader] = "idle"
    BY <1>0, <1>6, <2>1 DEF NothingSelected, Publish
  <2>3. /\ \A j \in DOMAIN handles : j # i => handles'[j] = handles[j]
        /\ handles'[i].val = 0 /\ handles'[i].state = "Idle"
    BY <2>2, AssignedIs DEF State
  <2>4. \A m \in Names : registry[m] # None => registry[m] \in DOMAIN handles
    BY HandlesAre
  <2>5. BoundSound'
    BY <2>2 DEF BoundSound, InConfig
  <2>6. \A m \in Names : registry'[m] # None /\ handles'[registry'[m]].state = "Busy" => registry'[m] = bound'
    BY <1>2, <2>2, <2>3, <2>4 DEF SwitchesSound
  <2>7. ConfigProcess \in Registered(registry') /\ handles'[registry'[ConfigProcess]].val # 0 =>
       registry'[ConfigProcess] = bound'
    BY <2>1, <2>2, <2>3
  <2>8. OkMeansLinked'
    BY <2>1, <2>2, <2>3, <2>4 DEF SwitchesSound, OkMeansLinked, Registered
  <2> QED BY <2>5, <2>6, <2>7, <2>8 DEF SwitchesSound
<1> QED BY <1>3, <1>4, <1>5, <1>6 DEF ReaderBegins

\* ... and brings it to an end.
LEMMA EndsSwitches ==
  ASSUME TypeOK, HandlesSound, SwitchesSound, Grown, ReaderEnds
  PROVE  SwitchesSound'
<1> USE DEF At, Goto, Done, Release, properties, history, tasks, client
<1>0. pc \in [Actors -> {"idle", "queued", "setup", "setup_loading", "hook",
             "handler", "saving", "purging", "loading", "loaded", "gated", "sleeping", "ticking"}]
      /\ Reader \in Actors
  BY DEF TypeOK, Actors
<1>1. CASE SetupReturns \/ HandlerEnds \/ SetupLoadFails
  <2>1. UNCHANGED <<handles, registry, link>> /\ pc[Reader] \in {"setup", "setup_loading", "handler"}
    BY <1>1 DEF SetupReturns, HandlerEnds, SetupLoadFails
  <2>2. pc'[Reader] \in {"setup", "idle"} /\ bound' \in {None, bound}
    BY <1>0, <1>1 DEF SetupReturns, HandlerEnds, SetupLoadFails
  <2>3. bound = None
    BY <2>1 DEF SwitchesSound, BoundSound, InConfig
  <2> QED BY <2>1, <2>2, <2>3, SwitchesStay DEF InConfig
<1>2. CASE SetupRaises
  <2>1. /\ pc[Reader] = "setup" /\ pc'[Reader] = "idle" /\ bound' = None /\ link' = link
        /\ handles' = Retracted(Introduced) /\ registry' = Forget(Introduced)
    BY <1>0, <1>2 DEF SetupRaises, RollBack
  <2>2. bound = None
    BY <2>1 DEF SwitchesSound, BoundSound, InConfig
  <2>3. None \notin Introduced
    BY IntroducedAre
  <2>4. \A j \in DOMAIN handles :
              /\ handles'[j].val = handles[j].val /\ handles'[j].state = handles[j].state
              /\ handles'[j].retracted <=> handles[j].retracted \/ j \in Introduced
    BY <2>1, RetractedIs
  <2>5. \A m \in Names : registry'[m] = IF registry[m] \in Introduced THEN None ELSE registry[m]
    BY <2>1, <2>3, ForgetIs
  <2>6. \A m \in Names :
           \/ registry'[m] = registry[m]
           \/ registry'[m] = None /\ registry[m] # None /\ handles'[registry[m]].retracted
    BY <2>3, <2>4, <2>5, HandlesAre
  <2>7. InConfig' <=> InConfig
    BY <2>1 DEF InConfig
  <2> QED BY <2>1, <2>2, <2>4, <2>6, <2>7, SwitchesKept
<1>3. CASE HookReturns
  <2>1. /\ pc[Reader] = "hook" /\ pc'[Reader] = "idle" /\ bound' = None /\ UNCHANGED registry
        /\ (link' <=> request = "CONNECT")
    BY <1>0, <1>3 DEF HookReturns
  <2>2. PICK v \in Nat : v = handles[bound].val
    BY <2>1, HandlesAre DEF SwitchesSound, BoundSound, TypeOK, Handle
  <2>3. PublishIfLive(bound, v, "Ok")
    BY <1>3, <2>2 DEF HookReturns
  <2>4. v = 1 <=> link'
    BY <2>1, <2>2 DEF SwitchesSound, BoundSound
  <2>5. ~InConfig
    BY <2>1 DEF InConfig
  <2> QED BY <2>1, <2>3, <2>4, <2>5, SettleSwitches DEF State
<1>4. CASE HookRaises
  <2>1. /\ pc[Reader] = "hook" /\ pc'[Reader] = "idle" /\ bound' = None /\ UNCHANGED registry
    BY <1>0, <1>4 DEF HookRaises
  <2>2. PICK v \in Nat : v = IF request = "CONNECT" THEN 0 ELSE 1
    OBVIOUS
  <2>3. PublishIfLive(bound, v, "Alert")
    BY <1>4, <2>2, Zenon DEF HookRaises
  <2>4. ~InConfig
    BY <2>1 DEF InConfig
  <2> QED BY <2>1, <2>3, <2>4, SettleSwitches DEF State
<1>5. CASE Saved \/ Purged \/ LoadedReturns
  <2>1. /\ InConfig /\ pc[Reader] # "hook" /\ pc'[Reader] = "idle" /\ bound' = None
        /\ UNCHANGED <<registry, link>> /\ PublishIfLive(bound, 0, "Ok")
    BY <1>0, <1>5 DEF Saved, Purged, LoadedReturns, Settle, InConfig
  <2> QED BY <2>1, SettleSwitches DEF State
<1>6. CASE ConfigFails
  <2>1. /\ InConfig /\ pc[Reader] # "hook" /\ pc'[Reader] = "idle" /\ bound' = None
        /\ UNCHANGED <<registry, link>> /\ PublishIfLive(bound, 0, "Alert")
    BY <1>0, <1>6 DEF ConfigFails, Settle, InConfig
  <2> QED BY <2>1, SettleSwitches DEF State
<1>7. CASE Loaded \/ SetupLoaded
  <2>1. ApplyFile /\ UNCHANGED <<bound, link, registry>>
    BY <1>7 DEF Loaded, SetupLoaded, ApplyFile
  <2>2. /\ \A i \in DOMAIN handles : handles'[i].state = handles[i].state
        /\ \A i \in DOMAIN handles :
              \/ handles'[i] = handles[i]
              \/ \E n \in Applied : registry[n] = i
        /\ \A n \in Applied : n \in Persisted /\ registry[n] # None
    BY <2>1, ApplyFileShape
  <2>3. \A n \in Applied : handles[registry[n]].name = n /\ n \notin {Connection, ConfigProcess}
    BY <2>2, DeviceAssumption DEF HandlesSound, Names
  <2>4. \A i \in DOMAIN handles :
           handles[i].name \in {Connection, ConfigProcess} => handles'[i].val = handles[i].val
    BY <2>2, <2>3
  <2>5. /\ pc'[Reader] \in {"loaded", "setup"} /\ pc[Reader] \in {"loading", "setup_loading"}
        /\ pc'[Reader] = "loaded" <=> pc[Reader] = "loading"
    BY <1>0, <1>7 DEF Loaded, SetupLoaded
  <2>6. (InConfig' <=> InConfig) /\ pc[Reader] # "hook" /\ pc'[Reader] # "hook"
    BY <2>5 DEF InConfig
  <2> QED BY <2>1, <2>2, <2>4, <2>6, SwitchesKept
<1> QED BY <1>1, <1>2, <1>3, <1>4, <1>5, <1>6, <1>7 DEF ReaderEnds

\* Every step keeps the switches sound.
LEMMA StepSwitches ==
  ASSUME TypeOK, HandlesSound, SwitchesSound, ListIsExact, Grown, [Next]_vars
  PROVE  SwitchesSound'
<1> USE DEF At, properties, history, tasks, client
<1>0. pc \in [Actors -> {"idle", "queued", "setup", "setup_loading", "hook",
             "handler", "saving", "purging", "loading", "loaded", "gated", "sleeping", "ticking"}]
      /\ Reader \in Actors
  BY DEF TypeOK, Actors
<1>1. CASE Write \/ NewcomerJoins \/ UNCHANGED vars
  BY <1>1, SwitchesStay DEF Write, NewcomerJoins, vars, InConfig
<1>2. ASSUME NEW r \in Asked, Receive(r)  PROVE SwitchesSound'
  BY <1>0, <1>2, SwitchesStay DEF Receive, InConfig
<1>3. ASSUME NEW t \in Ticks, Tick(t)  PROVE SwitchesSound'
  <2>1. pc'[Reader] = pc[Reader] /\ UNCHANGED <<bound, request, link, handles, registry>>
    BY <1>0, <1>3, DeviceAssumption DEF Tick, TickGate, TickWake, TickBegins, TickEnds, Release, Actors
  <2> QED BY <2>1, SwitchesStay DEF InConfig
<1>4. CASE SetupLoads
  BY <1>0, <1>4, SwitchesStay DEF SetupLoads, InConfig
<1>5. ASSUME NEW a \in Actors, AuthorsCode(a)  PROVE SwitchesSound'
  <2>1. ASSUME NEW n \in OwnNames, DefineOwn(a, n)  PROVE SwitchesSound'
    <3>1. Defines(a, n) /\ UNCHANGED <<bound, link, request, pc>>
      BY <2>1 DEF DefineOwn, Defines, Names, Operate
    <3>2. n \notin {Connection, ConfigProcess}
      BY DeviceAssumption
    <3> QED BY <3>1, <3>2, AuthorSwitches
  <2>2. ASSUME NEW i \in DOMAIN handles, NEW v \in Values, SetOwn(a, i, v) \/ SetOwnHalfway(a, i, v)
        PROVE  SwitchesSound'
    <3>1. /\ handles' = Assigned(i, v, handles[i].state) /\ handles[i].name \in OwnNames
          /\ UNCHANGED <<registry, bound, link, request, pc>>
      BY <2>2 DEF SetOwn, SetOwnHalfway, Sets, Operate, Publish
    <3>2. v \in Nat
      BY DeviceAssumption
    <3> QED BY <3>1, <3>2, AuthorSwitches
  <2>3. ASSUME NEW i \in DOMAIN handles, DeleteHandle(a, i)  PROVE SwitchesSound'
    <3>1. Deletes(i) /\ UNCHANGED <<bound, link, request, pc>>
      BY <2>3 DEF DeleteHandle, Deletes, Operate
    <3> QED BY <3>1, AuthorSwitches
  <2> QED BY <1>5, <2>1, <2>2, <2>3 DEF AuthorsCode
<1>6. ASSUME NEW n \in BuiltIn, DefineBuiltIn(n)  PROVE SwitchesSound'
  <2>1. Defines(Reader, n)
    BY <1>6, BuiltInIs
  <2>2. UNCHANGED <<bound, link, request, pc>> /\ pc[Reader] = "setup"
    BY <1>6 DEF DefineBuiltIn, Operate
  <2>3. bound = None
    BY <2>2 DEF SwitchesSound, BoundSound, InConfig
  <2> QED BY <2>1, <2>2, <2>3, AuthorSwitches
<1>7. CASE ReaderBegins
  BY <1>7, BeginsSwitches
<1>8. CASE ReaderEnds
  BY <1>8, EndsSwitches
<1> QED BY <1>1, <1>2, <1>3, <1>4, <1>5, <1>6, <1>7, <1>8 DEF Next, Driver

-----------------------------------------------------------------------------
(* The newcomer.                                                           *)

\* The frame f defines n or withdraws it: whoever reads it shows what it says.
Tells(f, n) == Says(f, n) /\ f.tag \in {"def", "del"}

\* What a newcomer shows is what one shows who has read from the start; and once
\* everything has been announced the two show the same, or a frame is on its way
\* that makes it so.
NewcomerSound ==
  /\ \A n \in Names : late_view[n] # None => late_view[n] = view[n]
  /\ late_listed # None => late_listed = view_listed
  /\ informed =>
       /\ \A n \in Names :
            late_view[n] = view[n] \/ \E k \in DOMAIN outbox : Tells(outbox[k], n)
       /\ late_listed = view_listed \/ \E k \in DOMAIN outbox : outbox[k].tag = "list"

\* Nothing is left to be read, and the clients stay as they are.
LEMMA NewcomerKept ==
  ASSUME NewcomerSound, CaughtUp, UNCHANGED client,
         \/ informed' = informed
         \/ /\ \A n \in Names : view[n] = None \/ \E k \in DOMAIN outbox' : Tells(outbox'[k], n)
            /\ view_listed = None \/ \E k \in DOMAIN outbox' : outbox'[k].tag = "list"
  PROVE  NewcomerSound'
<1>1. DOMAIN outbox = {}
  BY DEF CaughtUp
<1>2. UNCHANGED <<view, view_listed, late_view, late_listed>>
  BY DEF client
<1>3. /\ \A n \in Names : late_view[n] # None => late_view[n] = view[n]
      /\ late_listed # None => late_listed = view_listed
      /\ informed => /\ \A n \in Names : late_view[n] = view[n]
                     /\ late_listed = view_listed
  BY <1>1 DEF NewcomerSound
<1>4. CASE informed' = informed
  BY <1>2, <1>3, <1>4 DEF NewcomerSound
<1>5. CASE /\ \A n \in Names : view[n] = None \/ \E k \in DOMAIN outbox' : Tells(outbox'[k], n)
           /\ view_listed = None \/ \E k \in DOMAIN outbox' : outbox'[k].tag = "list"
  BY <1>2, <1>3, <1>5 DEF NewcomerSound, Tells, Says, OfList
<1> QED BY <1>4, <1>5

\* A restatement defines all there is, ...
LEMMA RestatesTells ==
  ASSUME TypeOK, HandlesSound, StreamSound, NewcomerSound, Restates
  PROVE  NewcomerSound'
<1>1. CaughtUp /\ UNCHANGED client
  BY DEF Restates
<1>2. \A n \in Names : view[n] # None => \E k \in DOMAIN outbox' : Tells(outbox'[k], n)
  <2> SUFFICES ASSUME NEW n \in Names, view[n] # None
               PROVE  \E k \in DOMAIN outbox' : Tells(outbox'[k], n)
    OBVIOUS
  <2>1. registry[n] # None
    BY <1>1, Settled DEF Shows
  <2>2. PICK k \in DOMAIN outbox' : Says(outbox'[k], n)
    BY <2>1, RestatesIs DEF Speaks
  <2>3. outbox'[k].tag \in {"def", "list"}
    BY RestatesIs DEF DefFrame, ListFrame
  <2> QED BY <2>2, <2>3 DEF Tells, Says, OfList
<1>3. view_listed # None => \E k \in DOMAIN outbox' : outbox'[k].tag = "list"
  <2>1. view_listed = listed
    BY <1>1, Settled
  <2> QED BY <2>1, RestatesIs DEF ListFrame
<1> QED BY <1>1, <1>2, <1>3, NewcomerKept

\* ... a roll-back defines or withdraws it, ...
LEMMA RollsBackTells ==
  ASSUME TypeOK, HandlesSound, StreamSound, NewcomerSound, RollsBack
  PROVE  NewcomerSound'
<1>1. CaughtUp /\ UNCHANGED client /\ listed = None /\ RollBack
  BY RollBackShape DEF RollsBack
<1>2. \A n \in Names : view[n] # None => \E k \in DOMAIN outbox' : Tells(outbox'[k], n)
  <2> SUFFICES ASSUME NEW n \in Names, view[n] # None
               PROVE  \E k \in DOMAIN outbox' : Tells(outbox'[k], n)
    OBVIOUS
  <2>1. registry[n] # None
    BY <1>1, Settled DEF Shows
  <2>2. PICK k \in DOMAIN outbox' : Says(outbox'[k], n)
    BY <1>1, <2>1, RollBackShape DEF Speaks
  <2>3. outbox'[k].tag \in {"def", "del"}
    BY <1>1, RollBackShape DEF DefFrame, DelFrame
  <2> QED BY <2>2, <2>3 DEF Tells
<1>3. view_listed = None
  BY <1>1, Settled
<1> QED BY <1>1, <1>2, <1>3, NewcomerKept

\* ... and before the first setup() there is nothing to tell, unless a tick was early.
LEMMA QuietTells ==
  ASSUME TypeOK, AttemptSound, StreamSound, NewcomerSound, Quiet
  PROVE  NewcomerSound'
<1>1. CASE NewcomerJoins
  <2>1. late_view' = Nothing /\ late_listed' = None /\ informed' = FALSE
    BY <1>1 DEF NewcomerJoins
  <2> QED BY <2>1 DEF NewcomerSound, Nothing
<1>2. CASE UNCHANGED <<late_view, late_listed, informed>>
  BY <1>2 DEF Quiet, NewcomerSound
<1>3. CASE BeginSetup
  <2>1. /\ CaughtUp /\ ~setup_done /\ UNCHANGED client
        /\ informed' = (informed \/ registry = Nothing)
    BY <1>3 DEF BeginSetup, Begins, At
  <2>2. ASSUME registry = Nothing
        PROVE  view_listed = None /\ \A n \in Names : view[n] = None
    <3>1. listed = None
      BY <2>1 DEF AttemptSound
    <3> QED BY <2>1, <2>2, <3>1, Settled DEF Shows, Nothing
  <2>3. CASE registry = Nothing
    BY <2>1, <2>2, <2>3, NewcomerKept
  <2>4. CASE registry # Nothing
    <3>1. informed' = informed
      BY <2>1, <2>4 DEF TypeOK
    <3> QED BY <2>1, <3>1, NewcomerKept
  <2> QED BY <2>3, <2>4
<1> QED BY <1>1, <1>2, <1>3 DEF Quiet

\* A frame read is read by both.
LEMMA WriteTells ==
  ASSUME TypeOK, StreamSound, NewcomerSound, Write
  PROVE  NewcomerSound'
<1>1. PICK f \in Frame : f = Head(outbox) /\ f = outbox[1]
  BY WriteIs, HeadTailProperties DEF Write, TypeOK
<1>2. /\ view' = Reading(view, f) /\ late_view' = Reading(late_view, f)
      /\ view_listed' = ReadingList(view_listed, f) /\ late_listed' = ReadingList(late_listed, f)
      /\ informed' = informed
  BY <1>1 DEF Write, history
<1>3. /\ view \in [Names -> [val : Nat, state : State] \cup {None}]
      /\ late_view \in [Names -> [val : Nat, state : State] \cup {None}]
      /\ view_listed \in (SUBSET Names) \cup {None}
      /\ late_listed \in (SUBSET Names) \cup {None}
  BY DEF TypeOK
<1>4. /\ f.tag \in {"def", "set", "del", "list", "relist"}
      /\ f.tag \in {"def", "set"} => f.shows # None
  BY FrameForms, DeviceAssumption DEF State
<1>5. \A m \in Names :
        /\ ~Says(f, m) => view'[m] = view[m] /\ late_view'[m] = late_view[m]
        /\ Says(f, m) /\ f.tag = "def" => view'[m] = f.shows /\ late_view'[m] = f.shows
        /\ Says(f, m) /\ f.tag = "set" =>
             /\ view'[m] = IF view[m] = None THEN None ELSE f.shows
             /\ late_view'[m] = IF late_view[m] = None THEN None ELSE f.shows
        /\ Says(f, m) /\ f.tag = "del" => view'[m] = None /\ late_view'[m] = None
  BY <1>2, <1>3, ReadingIs
<1>6. /\ ~OfList(f) => view_listed' = view_listed /\ late_listed' = late_listed
      /\ f.tag = "list" => view_listed' = f.names /\ late_listed' = f.names
      /\ f.tag = "relist" =>
           /\ view_listed' = IF view_listed = None THEN None ELSE f.names
           /\ late_listed' = IF late_listed = None THEN None ELSE f.names
  BY <1>2, <1>3, ReadingListIs
<1>7. \A k \in DOMAIN outbox : k # 1 => k - 1 \in DOMAIN outbox' /\ outbox'[k - 1] = outbox[k]
  BY WriteIs
<1>8. \A n \in Names : late_view'[n] # None => late_view'[n] = view'[n]
  <2> SUFFICES ASSUME NEW n \in Names, late_view'[n] # None  PROVE late_view'[n] = view'[n]
    OBVIOUS
  <2>1. late_view[n] # None => late_view[n] = view[n]
    BY DEF NewcomerSound
  <2>2. CASE ~Says(f, n)
    BY <1>5, <2>1, <2>2
  <2>3. CASE Says(f, n)
    <3>1. f.tag \in {"def", "set", "del"}
      BY <1>4, <2>3 DEF Says, OfList
    <3> QED BY <1>5, <2>1, <2>3, <3>1
  <2> QED BY <2>2, <2>3
<1>9. late_listed' # None => late_listed' = view_listed'
  BY <1>4, <1>6 DEF NewcomerSound, OfList
<1>10. ASSUME informed, NEW n \in Names
       PROVE  late_view'[n] = view'[n] \/ \E k \in DOMAIN outbox' : Tells(outbox'[k], n)
  <2>1. CASE Tells(f, n)
    BY <1>5, <2>1 DEF Tells
  <2>2. CASE ~Tells(f, n) /\ late_view[n] = view[n]
    <3>1. CASE ~Says(f, n)
      BY <1>5, <2>2, <3>1
    <3>2. CASE Says(f, n)
      <4>1. f.tag = "set"
        BY <1>4, <2>2, <3>2 DEF Tells, Says, OfList
      <4> QED BY <1>5, <2>2, <3>2, <4>1
    <3> QED BY <3>1, <3>2
  <2>3. CASE ~Tells(f, n) /\ \E k \in DOMAIN outbox : Tells(outbox[k], n)
    BY <1>1, <1>7, <2>3
  <2> QED BY <1>10, <2>1, <2>2, <2>3 DEF NewcomerSound
<1>11. ASSUME informed
       PROVE  late_listed' = view_listed' \/ \E k \in DOMAIN outbox' : outbox'[k].tag = "list"
  <2>1. CASE f.tag = "list"
    BY <1>6, <2>1
  <2>2. CASE f.tag # "list" /\ late_listed = view_listed
    BY <1>6, <2>2 DEF OfList
  <2>3. CASE f.tag # "list" /\ \E k \in DOMAIN outbox : outbox[k].tag = "list"
    BY <1>1, <1>7, <2>3
  <2> QED BY <1>11, <2>1, <2>2, <2>3 DEF NewcomerSound
<1> QED BY <1>2, <1>8, <1>9, <1>10, <1>11 DEF NewcomerSound

\* Every step keeps the newcomer where it is, or brings it nearer.
LEMMA StepNewcomer ==
  ASSUME TypeOK, HandlesSound, BoundSound, AttemptSound, StreamSound, NewcomerSound, [Next]_vars
  PROVE  NewcomerSound'
<1>1. ASSUME CaughtUp, UNCHANGED <<client, informed>>  PROVE NewcomerSound'
  BY <1>1, NewcomerKept
<1>2. CASE \/ Lists \/ Applies
           \/ \E a, n : Defines(a, n)
           \/ \E i : Deletes(i)
           \/ \E i, v, s : Updates(i, v, s) \/ Misspeaks(i, v, s)
           \/ \E i, v : Mumbles(i, v)
  BY <1>1, <1>2 DEF Lists, Applies, ApplyFile, Defines, Deletes, Updates, Misspeaks, Mumbles
<1>3. \/ Quiet \/ Write \/ Restates \/ Lists \/ RollsBack \/ Applies
      \/ \E a, n : Defines(a, n)
      \/ \E i : Deletes(i)
      \/ \E i, v, s : Updates(i, v, s) \/ Misspeaks(i, v, s)
      \/ \E i, v : Mumbles(i, v)
  BY StepIs
<1> QED BY <1>2, <1>3, QuietTells, WriteTells, RestatesTells, RollsBackTells

-----------------------------------------------------------------------------
(* The inductive invariant.                                                *)

DeviceInv ==
  /\ TypeOK /\ GuardInv /\ HandlesSound /\ AttemptSound /\ SwitchesSound /\ StreamSound
  /\ NewcomerSound

\* A device that has not been asked for anything.
LEMMA InitDevice == Init => DeviceInv
<1> SUFFICES ASSUME Init  PROVE DeviceInv
  OBVIOUS
<1> USE DEF Init
<1>1. GuardInv
  BY DeviceAssumption, EmptySeq DEF GuardInv, GuardType, Queue, Inside, Outside, Actors
<1>2. Nothing \in Dict /\ \A n \in Names : Nothing[n] = None
  BY DEF Nothing, Dict
<1>3. Registered(registry) = {}
  BY <1>2 DEF Registered
<1>4. file \in Dict \cup {None}
  BY DEF Documents, Dict
<1>5. pc \in [Actors -> {"idle", "queued", "setup", "setup_loading", "hook", "handler",
                        "saving", "purging", "loading", "loaded",
                        "gated", "sleeping", "ticking"}] /\ pc[Reader] = "idle"
  BY DEF Actors
<1>6. TypeOK
  <2>1. handles \in Seq(Handle) /\ outbox \in Seq(Frame) /\ guard \in Seq(Actors)
    BY EmptySeq
  <2>2. Nothing \in [Names -> DOMAIN handles \cup {None}]
        /\ Nothing \in [Names -> [val : Nat, state : State] \cup {None}]
    BY DEF Nothing
  <2> QED BY <1>2, <1>4, <1>5, <2>1, <2>2 DEF TypeOK
<1>7. HandlesSound
  BY <1>2 DEF HandlesSound
<1>8. AttemptSound
  BY <1>3, <1>5 DEF AttemptSound, Attempting, FailedAttemptLeavesNoProperty
<1>9. SwitchesSound
  BY <1>2, <1>3, <1>5 DEF SwitchesSound, BoundSound, InConfig, OkMeansLinked
<1>10. StreamSound
  BY <1>2 DEF StreamSound, FramesSound, ListsSound, Shows, ListIsTrue, ListIsVisible, ListIsExact
<1>11. NewcomerSound
  BY <1>2 DEF NewcomerSound
<1> QED BY <1>1, <1>6, <1>7, <1>8, <1>9, <1>10, <1>11 DEF DeviceInv

\* Each part is kept by every step, given the others.
LEMMA StepDevice == DeviceInv /\ [Next]_vars => DeviceInv'
<1> SUFFICES ASSUME DeviceInv, [Next]_vars  PROVE DeviceInv'
  OBVIOUS
<1>1. /\ TypeOK /\ GuardInv /\ HandlesSound /\ AttemptSound /\ SwitchesSound /\ StreamSound
      /\ NewcomerSound /\ BoundSound /\ ListIsExact
  BY DEF DeviceInv, SwitchesSound, StreamSound, ListsSound, ListIsTrue
<1>2. TypeOK' /\ HandlesSound' /\ Grown
  BY <1>1, StepType
<1>3. GuardInv'
  BY <1>1, GuardStep
<1>4. AttemptSound'
  BY <1>1, <1>2, StepAttempt
<1>5. SwitchesSound'
  BY <1>1, <1>2, StepSwitches
<1>6. StreamSound'
  BY <1>1, StepStream
<1>7. NewcomerSound'
  BY <1>1, StepNewcomer
<1> QED BY <1>2, <1>3, <1>4, <1>5, <1>6, <1>7 DEF DeviceInv

\* The invariant holds in every reachable state, with and without serialize_dispatch,
\* redefinitions and withdrawals included.
THEOREM DeviceSound == Spec => []DeviceInv
BY InitDevice, StepDevice, PTL DEF Spec

-----------------------------------------------------------------------------

\* The type invariant of Device, for any set of own properties, ticks and requests
\* (device.py, property.py, runtime.py).
THEOREM TypeCorrect == Spec => []TypeOK
<1>1. DeviceInv => TypeOK
  BY DEF DeviceInv
<1> QED BY <1>1, DeviceSound, PTL

\* What a client shows that has read the stream from the start is what the device has:
\* through definitions, retractions, failed setups (device.py:1489), restored
\* configurations (device.py:490) and whatever a tick does between two awaits - except
\* what a set that raised halfway assigned and what a superseded handle has said
\* (property.py:227), until the owner of the name speaks again.  A client that joined
\* later shows the same once there has been an announcement (device.py:1464).
THEOREM MirrorIsFaithful == Spec => []ClientMirrorsDevice
<1>1. DeviceInv => ClientMirrorsDevice
  <2> SUFFICES ASSUME DeviceInv, CaughtUp
               PROVE  /\ MirroredFromTheStart
                      /\ informed => late_view = view /\ late_listed = view_listed
    BY DEF ClientMirrorsDevice
  <2>1. MirroredFromTheStart
    BY Settled DEF DeviceInv, MirroredFromTheStart, Shows
  <2>2. ASSUME informed  PROVE late_view = view /\ late_listed = view_listed
    <3>1. DOMAIN outbox = {}
      BY DEF CaughtUp
    <3>2. (\A n \in Names : late_view[n] = view[n]) /\ late_listed = view_listed
      BY <2>2, <3>1 DEF DeviceInv, NewcomerSound
    <3> QED BY <3>2 DEF DeviceInv, TypeOK
  <2> QED BY <2>1, <2>2
<1> QED BY <1>1, DeviceSound, PTL

\* BoundProperty.delete and .set (property.py:174, 337): an update for a property that
\* the client has been told no longer exists comes, if at all, from a handle that a
\* redefinition superseded and that was not itself deleted.
THEOREM RetractionsAreFinal == Spec => []NoUpdateAfterRetraction
<1>1. DeviceInv => NoUpdateAfterRetraction
  <2> SUFFICES ASSUME DeviceInv, outbox # <<>>, Head(outbox).tag = "set", view[Head(outbox).name] = None
               PROVE  \E i \in DOMAIN handles : /\ handles[i].name = Head(outbox).name /\ Superseded(i)
                                                /\ Shown(handles[i]) = Head(outbox).shows
    BY DEF NoUpdateAfterRetraction
  <2>1. 1 \in DOMAIN outbox /\ Head(outbox) = outbox[1]
    BY HeadTailProperties, LenProperties, EmptySeq DEF DeviceInv, TypeOK
  <2>2. OfAnother(outbox[1])
    BY <2>1 DEF DeviceInv, StreamSound, FramesSound, IsTrue
  <2> QED BY <2>1, <2>2 DEF OfAnother
<1> QED BY <1>1, DeviceSound, PTL

\* define_config and _forget (device.py:358, 1119): the list of persisted properties
\* is what the device would save, and never names one that its reader cannot see, not
\* even between two frames of one step.  Its reader is one who has read from the start;
\* for one who joined later MirrorIsFaithful says so of the end of an announcement.
THEOREM ListIsAlwaysTrue == Spec => []ListIsTrue
<1>1. DeviceInv => ListIsTrue
  BY DEF DeviceInv, StreamSound, ListsSound
<1> QED BY <1>1, DeviceSound, PTL

\* _on_connection_write (device.py:286): a CONNECTION switch that says Ok says what
\* the last hook that returned did, whatever was withdrawn while the hook ran.
THEOREM OkIsTheTruth == Spec => []OkMeansLinked
<1>1. DeviceInv => OkMeansLinked
  BY DEF DeviceInv, SwitchesSound
<1> QED BY <1>1, DeviceSound, PTL

\* _on_connection_write and _on_config_write (device.py:286, 620): once the reader is
\* done with a request, however it went, no property is Busy and no CONFIG_PROCESS
\* button is pressed.
THEOREM SwitchesAreReleased == Spec => []NothingStuckBusy
<1>1. DeviceInv => NothingStuckBusy
  <2> SUFFICES ASSUME DeviceInv, pc[Reader] \in {"idle", "queued"}
               PROVE  /\ \A n \in Registered(registry) : handles[registry[n]].state # "Busy"
                      /\ ConfigProcess \in Registered(registry) => handles[registry[ConfigProcess]].val = 0
    BY DEF NothingStuckBusy
  <2>1. bound = None
    BY DEF DeviceInv, SwitchesSound, BoundSound, InConfig
  <2> QED BY <2>1 DEF DeviceInv, SwitchesSound, Registered
<1> QED BY <1>1, DeviceSound, PTL

\* With serialize_dispatch nobody but setup() defines anything while setup() runs: what
\* somebody else has defined was there before.
OthersWereFirst ==
  Attempting =>
    \A n \in Names : registry[n] # None /\ handles[registry[n]].during # "setup" =>
                       announced[n] = registry[n]

LEMMA StepOthers ==
  ASSUME DeviceInv, Serialize, OthersWereFirst, [Next]_vars
  PROVE  OthersWereFirst'
<1> USE DEF At, Goto, Done, Release, properties, startup, tasks, config
<1>0. /\ TypeOK /\ HandlesSound /\ AttemptSound /\ BoundSound /\ Grown
      /\ Reader \in Actors /\ pc \in [Actors -> {"idle", "queued", "setup", "setup_loading", "hook",
             "handler", "saving", "purging", "loading", "loaded", "gated", "sleeping", "ticking"}]
  <2>1. TypeOK /\ HandlesSound /\ BoundSound /\ AttemptSound /\ ListIsExact
    BY DEF DeviceInv, SwitchesSound, StreamSound, ListsSound, ListIsTrue
  <2>2. Grown
    BY <2>1, StepSane
  <2> QED BY <2>1, <2>2 DEF TypeOK, Actors
<1>1. ASSUME UNCHANGED announced, Attempting' => Attempting,
             \A n \in Names : \/ registry'[n] \in {None, registry[n]}
                              \/ ~Attempting \/ handles'[registry'[n]].during = "setup"
      PROVE  OthersWereFirst'
  <2> SUFFICES ASSUME Attempting', NEW n \in Names, registry'[n] # None,
                      handles'[registry'[n]].during # "setup"
               PROVE  announced'[n] = registry'[n]
    BY DEF OthersWereFirst
  <2>1. registry'[n] = registry[n] /\ registry[n] # None
    BY <1>1
  <2>2. handles'[registry[n]].during = handles[registry[n]].during
    BY <1>0, <2>1, HandlesAre DEF Grown
  <2> QED BY <1>1, <2>1, <2>2 DEF OthersWereFirst
<1>2. ASSUME ~Attempting'  PROVE OthersWereFirst'
  BY <1>2 DEF OthersWereFirst
<1>3. CASE Write \/ NewcomerJoins \/ UNCHANGED vars
  BY <1>1, <1>3 DEF Write, NewcomerJoins, Attempting, vars
<1>4. ASSUME NEW r \in Asked, Receive(r)  PROVE OthersWereFirst'
  BY <1>0, <1>2, <1>4 DEF Receive, Attempting
<1>5. ASSUME NEW t \in Ticks, Tick(t)  PROVE OthersWereFirst'
  <2>1. pc'[Reader] = pc[Reader]
    BY <1>0, <1>5, DeviceAssumption DEF Tick, TickGate, TickWake, TickBegins, TickEnds, Actors
  <2> QED BY <1>1, <1>5, <2>1 DEF Tick, Attempting
<1>6. CASE SetupLoads \/ SetupLoadFails
  BY <1>0, <1>1, <1>6 DEF SetupLoads, SetupLoadFails, Attempting
<1>7. ASSUME NEW a \in Actors, NEW n, Defines(a, n), UNCHANGED <<announced, pc>>  PROVE OthersWereFirst'
  <2>1. /\ handles'[Newest].during = pc[a] /\ registry'[n] = Newest
        /\ \A m \in Names : m # n => registry'[m] = registry[m]
        /\ InBody(a)
    BY <1>0, <1>7, DefineShape
  <2>2. Attempting => pc[a] = "setup"
    <3> SUFFICES ASSUME Attempting  PROVE pc[a] = "setup"
      OBVIOUS
    <3>1. Inside(a) /\ Inside(Reader)
      BY <2>1 DEF InBody, Inside, Attempting
    <3>2. a = Reader
      BY <1>0, <3>1 DEF DeviceInv, GuardInv, Queue
    <3> QED BY <2>1, <3>2 DEF InBody, Attempting
  <2> QED BY <1>1, <1>7, <2>1, <2>2 DEF Attempting
<1>8. ASSUME NEW a \in Actors, AuthorsCode(a)  PROVE OthersWereFirst'
  <2>1. ASSUME NEW n \in OwnNames, DefineOwn(a, n)  PROVE OthersWereFirst'
    <3>1. Defines(a, n)
      BY <2>1 DEF DefineOwn, Defines, Names, Operate, client
    <3> QED BY <1>7, <2>1, <3>1 DEF DefineOwn, Operate
  <2>2. ASSUME NEW i \in DOMAIN handles, NEW v \in Values, SetOwn(a, i, v) \/ SetOwnHalfway(a, i, v)
        PROVE  OthersWereFirst'
    <3>1. UNCHANGED <<registry, announced, pc>>
      BY <2>2 DEF SetOwn, SetOwnHalfway, Sets, Operate
    <3> QED BY <1>1, <3>1 DEF Attempting
  <2>3. ASSUME NEW i \in DOMAIN handles, DeleteHandle(a, i)  PROVE OthersWereFirst'
    <3>1. Delete(i) /\ UNCHANGED <<announced, pc>>
      BY <2>3 DEF DeleteHandle, Operate
    <3>2. registry' = Forget({i}) /\ None \notin {i}
      <4>1. registry' = Forget({i})
        BY <3>1 DEF Delete
      <4> QED BY <1>0, <4>1, HandlesAre
    <3>3. \A m \in Names : registry'[m] \in {None, registry[m]}
      BY <1>0, <3>2, ForgetIs
    <3> QED BY <1>1, <3>1, <3>3 DEF Attempting
  <2> QED BY <1>8, <2>1, <2>2, <2>3 DEF AuthorsCode
<1>9. ASSUME NEW n \in BuiltIn, DefineBuiltIn(n)  PROVE OthersWereFirst'
  <2>1. Defines(Reader, n)
    BY <1>9, BuiltInIs
  <2> QED BY <1>0, <1>7, <1>9, <2>1 DEF DefineBuiltIn, Operate
<1>10. CASE BeginSetup
  BY <1>10 DEF BeginSetup, OthersWereFirst
<1>11. CASE \/ Reannounce \/ BeginHandler \/ NothingSelected \/ BeginSave \/ BeginPurge \/ BeginLoad
            \/ \E r \in {"CONNECT", "DISCONNECT"} : BeginConnection(r)
  <2>1. ~Attempting'
    BY <1>0, <1>11 DEF Reannounce, BeginHandler, NothingSelected, BeginSave, BeginPurge, BeginLoad,
                 BeginConnection, Attempting
  <2> QED BY <1>2, <2>1
<1>12. CASE \/ SetupReturns \/ SetupRaises \/ HookReturns \/ HookRaises \/ HandlerEnds \/ Saved
            \/ Purged \/ Loaded \/ LoadedReturns \/ ConfigFails
  <2>1. ~Attempting'
    BY <1>0, <1>12 DEF SetupReturns, SetupRaises, HookReturns, HookRaises, HandlerEnds, Saved, Purged,
                       Loaded, LoadedReturns, ConfigFails, Attempting
  <2> QED BY <1>2, <2>1
<1>13. CASE SetupLoaded
  <2>1. UNCHANGED <<registry, announced>> /\ Attempting
    BY <1>13 DEF SetupLoaded, ApplyFile, Attempting
  <2> QED BY <1>1, <2>1
<1> QED BY <1>3, <1>4, <1>5, <1>6, <1>8, <1>9, <1>10, <1>11, <1>12, <1>13
        DEF Next, Driver, ReaderBegins, ReaderEnds

\* setup and _roll_back_setup (device.py:183, 1489): a failed attempt leaves none of the
\* properties it defined, whatever ticks do meanwhile and with the guard or without.
THEOREM FailedAttemptsLeaveNothing == Spec => []FailedAttemptLeavesNoProperty
<1>1. DeviceInv => FailedAttemptLeavesNoProperty
  BY DEF DeviceInv, AttemptSound
<1> QED BY <1>1, DeviceSound, PTL

\* _roll_back_setup (device.py:1489): with serialize_dispatch, which is the default, a
\* failed attempt leaves none of the properties it defined, and takes none that a tick
\* defined and that is defined still.  (Without it, a tick may define a property between
\* two awaits of the attempt, and device.py:1526 takes it for one of the attempt's; and
\* with it or without, what the attempt itself redefined is gone: FirstComersSurvive.)
THEOREM RollBackIsExact ==
  ASSUME Serialize
  PROVE  Spec => FailedAttemptUndone
<1>1. Spec => []FailedAttemptLeavesNoProperty
  BY FailedAttemptsLeaveNothing
<1>2. Init => OthersWereFirst
  BY DEF Init, OthersWereFirst, Attempting, Actors
<1>3. DeviceInv /\ OthersWereFirst /\ [Next]_vars => OthersWereFirst'
  BY StepOthers
<1> DEFINE Survive ==
      SetupRaises =>
        \A n \in Registered(registry) :
          handles[registry[n]].during # "setup" =>
            registry'[n] = registry[n] /\ ~handles'[registry[n]].retracted
<1>4. DeviceInv /\ OthersWereFirst => Survive
  <2> SUFFICES ASSUME DeviceInv, OthersWereFirst, SetupRaises, NEW n \in Registered(registry),
                      handles[registry[n]].during # "setup"
               PROVE  registry'[n] = registry[n] /\ ~handles'[registry[n]].retracted
    OBVIOUS
  <2>1. TypeOK /\ HandlesSound
    BY DEF DeviceInv
  <2>2. handles' = Retracted(Introduced) /\ registry' = Forget(Introduced)
    BY DEF SetupRaises, RollBack
  <2>3. n \in Names /\ registry[n] # None /\ announced[n] = registry[n]
    BY DEF SetupRaises, At, Attempting, OthersWereFirst, Registered
  <2>4. registry[n] \notin Introduced /\ None \notin Introduced
    BY <2>1, <2>3, IntroducedAre
  <2>5. registry'[n] = registry[n]
    BY <2>1, <2>2, <2>3, <2>4, ForgetIs
  <2>6. ~handles'[registry[n]].retracted
    <3>1. registry[n] \in DOMAIN handles /\ ~handles[registry[n]].retracted
      BY <2>1, <2>3, HandlesAre DEF HandlesSound
    <3> QED BY <2>1, <2>2, <2>4, <3>1, RetractedIs
  <2> QED BY <2>5, <2>6
<1>5. FailedAttemptUndone <=> []FailedAttemptLeavesNoProperty /\ [][Survive]_vars
  BY DEF FailedAttemptUndone, OthersDefinitionsSurvive
<1> HIDE DEF Survive
<1> QED BY <1>1, <1>2, <1>3, <1>4, <1>5, DeviceSound, PTL DEF Spec

-----------------------------------------------------------------------------
(* The configuration.                                                      *)

\* The value a persisted property has, or would come back with.
Current(n) == IF registry[n] = None THEN config_values[n] ELSE handles[registry[n]].val

\* What is kept is what is current, ...
LEMMA CurrentIs == ValuesSurvive <=> \A n \in Persisted : kept[n] # None => Current(n) = kept[n]
BY DEF ValuesSurvive, Current

\* ... and in the next state likewise.
LEMMA CurrentIsNext ==
  ValuesSurvive' <=> \A n \in Persisted : kept'[n] # None =>
    (IF registry'[n] = None THEN config_values'[n] ELSE handles'[registry'[n]].val) = kept'[n]
BY DEF ValuesSurvive

\* A step that gives no persisted property a value.
LEMMA ValuesStay ==
  ASSUME ValuesSurvive, kept' = kept,
         \A n \in Persisted : Current(n) # None =>
           (IF registry'[n] = None THEN config_values'[n] ELSE handles'[registry'[n]].val) = Current(n)
  PROVE  ValuesSurvive'
BY CurrentIs, CurrentIsNext

\* A built-in switch is no persisted property.
LEMMA SwitchValues ==
  ASSUME TypeOK, HandlesSound, NEW i \in DOMAIN handles, handles[i].name \in {Connection, ConfigProcess},
         NEW v \in Nat, NEW s \in State, handles' = Assigned(i, v, s)
  PROVE  \A n \in Persisted : registry[n] # None => handles'[registry[n]].val = handles[registry[n]].val
<1>1. \A j \in DOMAIN handles : j # i => handles'[j] = handles[j]
  BY AssignedIs
<1>2. \A n \in Persisted : registry[n] # None =>
        /\ registry[n] \in DOMAIN handles /\ handles[registry[n]].name = n
        /\ n \notin {Connection, ConfigProcess}
  BY HandlesAre, DeviceAssumption DEF HandlesSound, Names
<1> QED BY <1>1, <1>2

\* So what is said of one changes nothing here.
LEMMA SwitchSteps ==
  ASSUME DeviceInv, ValuesSurvive, kept' = kept, UNCHANGED registry,
         NEW i \in DOMAIN handles, handles[i].name \in {Connection, ConfigProcess},
         NEW v \in Nat, NEW s \in State, handles' = Assigned(i, v, s) \/ handles' = handles,
         \A n \in Persisted : registry[n] = None => config_values'[n] = config_values[n]
  PROVE  ValuesSurvive'
<1>1. TypeOK /\ HandlesSound
  BY DEF DeviceInv
<1>2. \A n \in Persisted : registry[n] # None => handles'[registry[n]].val = handles[registry[n]].val
  BY <1>1, SwitchValues
<1> QED BY <1>2, ValuesStay DEF Current

\* The reader takes a request up: a Save looks at every value and changes none.
LEMMA BeginsValues ==
  ASSUME DeviceInv, ValuesSurvive, ReaderBegins
  PROVE  ValuesSurvive'
<1> USE DEF properties, config, history, BeginConfig
<1>1. CASE BeginSetup \/ Reannounce \/ BeginHandler
  BY <1>1, ValuesStay DEF BeginSetup, Reannounce, BeginHandler, Current
<1>2. ASSUME NEW n \in {Connection, ConfigProcess}, n \in Registered(registry), NEW v \in Nat,
             NEW s \in State, Publish(registry[n], v, s), UNCHANGED <<registry, kept>>,
             \A m \in Persisted : registry[m] = None => config_values'[m] = config_values[m]
      PROVE  ValuesSurvive'
  <2>1. PICK i \in DOMAIN handles : i = registry[n] /\ handles[i].name = n
    BY <1>2, HandlesAre DEF DeviceInv, Registered, HandlesSound
  <2>2. handles' = Assigned(i, v, s)
    BY <1>2, <2>1 DEF Publish
  <2> QED BY <1>2, <2>1, <2>2, SwitchSteps
<1>3. ASSUME NEW r \in {"CONNECT", "DISCONNECT"}, BeginConnection(r)  PROVE ValuesSurvive'
  <2>1. PICK v \in Nat : v = IF r = "CONNECT" THEN 1 ELSE 0
    OBVIOUS
  <2>2. Press(Connection, v) /\ Connection \in Registered(registry) /\ UNCHANGED <<config, history>>
    BY <1>3, <2>1, Zenon DEF BeginConnection
  <2> QED BY <1>2, <2>2 DEF Press, State
<1>4. CASE NothingSelected
  BY <1>2, <1>4 DEF NothingSelected, State
<1>5. CASE BeginPurge \/ BeginLoad
  BY <1>2, <1>5 DEF BeginPurge, BeginLoad, Press, State
<1>6. CASE BeginSave
  <2>1. \A m \in Persisted : registry[m] = None => config_values'[m] = config_values[m]
    BY <1>6, DeviceAssumption DEF BeginSave, Refreshed, PersistedNames, Registered, Names
  <2> QED BY <1>2, <1>6, <2>1 DEF BeginSave, Press, State
<1> QED BY <1>1, <1>3, <1>4, <1>5, <1>6 DEF ReaderBegins

\* ... and brings it to an end: a roll-back captures what it takes back, a load
\* gives a value and remembers it.
LEMMA EndsValues ==
  ASSUME DeviceInv, ValuesSurvive, ReaderEnds
  PROVE  ValuesSurvive'
<1> USE DEF At, properties, config, history
<1>0. TypeOK /\ HandlesSound /\ BoundSound /\ Persisted \subseteq Names
  BY DeviceAssumption DEF DeviceInv, SwitchesSound, Names
<1>1. CASE SetupReturns \/ HandlerEnds \/ SetupLoadFails
  BY <1>1, ValuesStay DEF SetupReturns, HandlerEnds, SetupLoadFails, Current
<1>2. ASSUME pc[Reader] = "hook" \/ InConfig, NEW v \in Nat, NEW s \in State, PublishIfLive(bound, v, s),
             UNCHANGED <<registry, config_values, kept>>
      PROVE  ValuesSurvive'
  <2>1. bound \in DOMAIN handles /\ handles[bound].name \in {Connection, ConfigProcess}
    BY <1>0, <1>2 DEF BoundSound, TypeOK
  <2>2. handles' = Assigned(bound, v, s) \/ handles' = handles
    BY <1>2 DEF PublishIfLive, Publish
  <2> QED BY <1>2, <2>1, <2>2, SwitchSteps
<1>3. CASE HookReturns
  <2>1. PICK v \in Nat : v = handles[bound].val
    BY <1>0, <1>3, HandlesAre DEF HookReturns, BoundSound, TypeOK, Handle
  <2> QED BY <1>2, <1>3, <2>1 DEF HookReturns, State
<1>4. CASE HookRaises
  <2>1. PICK v \in Nat : v = IF request = "CONNECT" THEN 0 ELSE 1
    OBVIOUS
  <2>2. PublishIfLive(bound, v, "Alert")
    BY <1>4, <2>1, Zenon DEF HookRaises
  <2> QED BY <1>2, <1>4, <2>2 DEF HookRaises, State
<1>5. CASE Saved \/ Purged \/ LoadedReturns
  BY <1>2, <1>5 DEF Saved, Purged, LoadedReturns, Settle, State, InConfig
<1>6. CASE ConfigFails
  BY <1>2, <1>6 DEF ConfigFails, Settle, State, InConfig
<1>7. CASE SetupRaises
  <2>1. /\ handles' = Retracted(Introduced) /\ registry' = Forget(Introduced)
        /\ config_values' = Captured(Introduced) /\ kept' = kept
    BY <1>7 DEF SetupRaises, RollBack
  <2>2. None \notin Introduced
    BY <1>0, IntroducedAre
  <2>3. /\ \A m \in Names : registry'[m] = IF registry[m] \in Introduced THEN None ELSE registry[m]
        /\ \A j \in DOMAIN handles : handles'[j].val = handles[j].val
    BY <1>0, <2>1, <2>2, ForgetIs, RetractedIs
  <2>4. \A m \in Persisted : registry[m] # None => handles[registry[m]].persist
    BY <1>0, HandlesAre DEF HandlesSound
  <2>5. \A m \in Names : config_values'[m] = IF registry[m] \in Introduced /\ handles[registry[m]].persist
                                               THEN handles[registry[m]].val ELSE config_values[m]
    BY <2>1 DEF Captured
  <2>6. ASSUME NEW m \in Persisted
        PROVE  (IF registry'[m] = None THEN config_values'[m] ELSE handles'[registry'[m]].val) = Current(m)
    <3>1. CASE registry[m] = None
      BY <1>0, <2>2, <2>3, <2>5, <3>1 DEF Current
    <3>2. CASE registry[m] # None /\ registry[m] \in Introduced
      BY <1>0, <2>3, <2>4, <2>5, <3>2 DEF Current
    <3>3. CASE registry[m] # None /\ registry[m] \notin Introduced
      BY <1>0, <2>3, <3>3, HandlesAre DEF Current
    <3> QED BY <3>1, <3>2, <3>3
  <2> QED BY <2>1, <2>6, ValuesStay
<1>8. CASE Loaded \/ SetupLoaded
  <2>1. ApplyFile
    BY <1>8 DEF Loaded, SetupLoaded
  <2>2. /\ registry' = registry /\ config_values' = Merged
        /\ kept' = [n \in Names |-> IF n \in Persisted /\ InFile(n) THEN file[n] ELSE kept[n]]
    BY <2>1 DEF ApplyFile
  <2>3. /\ \A n \in Applied : handles'[registry[n]].val = file[n]
        /\ \A n \in Names : registry[n] # None /\ n \notin Applied =>
             handles'[registry[n]] = handles[registry[n]]
    BY <1>0, <2>1, ApplyFileShape
  <2>4. \A n \in Persisted : n \in Applied <=> registry[n] # None /\ InFile(n)
    BY <1>0, HandlesAre DEF Applied, PersistedNames, Registered, HandlesSound
  <2>5. ASSUME NEW n \in Persisted, kept'[n] # None
        PROVE  (IF registry'[n] = None THEN config_values'[n] ELSE handles'[registry'[n]].val) = kept'[n]
    <3>1. kept[n] # None => Current(n) = kept[n]
      BY CurrentIs
    <3>2. CASE InFile(n)
      BY <1>0, <2>2, <2>3, <2>4, <3>2 DEF Merged
    <3>3. CASE ~InFile(n)
      BY <1>0, <2>2, <2>3, <2>4, <2>5, <3>1, <3>3 DEF Merged, Current
    <3> QED BY <3>2, <3>3
  <2> QED BY <2>5, CurrentIsNext
<1> QED BY <1>1, <1>3, <1>4, <1>5, <1>6, <1>7, <1>8 DEF ReaderEnds

\* The author's code: a definition restores, a deletion captures.
LEMMA AuthorValues ==
  ASSUME DeviceInv, ValuesSurvive, NEW a \in Actors, AuthorsCode(a)
  PROVE  ValuesSurvive'
<1>0. TypeOK /\ HandlesSound /\ ListIsExact /\ Persisted \subseteq Names
  BY DeviceAssumption DEF DeviceInv, StreamSound, ListsSound, ListIsTrue, Names
<1>1. ASSUME NEW n \in OwnNames, DefineOwn(a, n)  PROVE ValuesSurvive'
  <2>1. /\ Defines(a, n) /\ config_values' = config_values /\ n \in Names
        /\ kept' = IF n \in Persisted /\ registry[n] # None
                     THEN [kept EXCEPT ![n] = handles'[registry'[n]].val] ELSE kept
    BY <1>1 DEF DefineOwn, Defines, Names, Operate, client, Registered
  <2>2. /\ \A j \in DOMAIN handles : handles'[j] = handles[j]
        /\ registry'[n] = Newest /\ Newest # None
        /\ \A m \in Names : m # n => registry'[m] = registry[m]
        /\ handles'[Newest].val = IF n \in Persisted /\ config_values[n] # None THEN config_values[n] ELSE 0
    BY <1>0, <2>1, DefineShape
  <2>3. \A m \in Persisted : kept'[m] = IF m = n /\ registry[n] # None THEN handles'[Newest].val ELSE kept[m]
    BY <1>0, <2>1, <2>2 DEF TypeOK, Dict
  <2>4. ASSUME NEW m \in Persisted, kept'[m] # None
        PROVE  (IF registry'[m] = None THEN config_values'[m] ELSE handles'[registry'[m]].val) = kept'[m]
    <3>1. kept[m] # None => Current(m) = kept[m]
      BY CurrentIs
    <3>2. CASE m = n /\ registry[n] # None
      BY <2>2, <2>3, <3>2
    <3>3. CASE m = n /\ registry[n] = None
      BY <2>2, <2>3, <2>4, <3>1, <3>3 DEF Current
    <3>4. CASE m # n
      BY <1>0, <2>1, <2>2, <2>3, <2>4, <3>1, <3>4, HandlesAre DEF Current
    <3> QED BY <3>2, <3>3, <3>4
  <2> QED BY <2>4, CurrentIsNext
<1>2. ASSUME NEW i \in DOMAIN handles, NEW v \in Values, SetOwn(a, i, v) \/ SetOwnHalfway(a, i, v)
      PROVE  ValuesSurvive'
  <2>1. /\ handles' = Assigned(i, v, handles[i].state) /\ UNCHANGED <<registry, config_values>>
        /\ kept' = IF handles[i].name \in Persisted /\ ~Superseded(i)
                     THEN [kept EXCEPT ![handles[i].name] = v] ELSE kept
        /\ ~handles[i].retracted /\ v \in Nat
    BY <1>2, DeviceAssumption DEF SetOwn, SetOwnHalfway, Sets, Publish
  <2>2. handles[i].state \in State /\ handles[i].name \in Names
    BY <1>0, HandlesAre DEF Handle
  <2>3. /\ \A j \in DOMAIN handles : j # i => handles'[j] = handles[j]
        /\ handles'[i].val = v
    BY <1>0, <2>1, <2>2, AssignedIs
  <2>4. \A m \in Names : registry[m] # None => registry[m] \in DOMAIN handles /\ handles[registry[m]].name = m
    BY <1>0, HandlesAre DEF HandlesSound
  <2>5. \A m \in Persisted : kept'[m] = IF m = handles[i].name /\ registry[m] = i THEN v ELSE kept[m]
    BY <1>0, <2>1, <2>2 DEF TypeOK, Dict, Superseded
  <2>6. ASSUME NEW m \in Persisted, kept'[m] # None
        PROVE  (IF registry'[m] = None THEN config_values'[m] ELSE handles'[registry'[m]].val) = kept'[m]
    <3>1. kept[m] # None => Current(m) = kept[m]
      BY CurrentIs
    <3>2. CASE registry[m] = i
      <4>1. registry[m] # None /\ m = handles[i].name
        BY <1>0, <2>4, <3>2, HandlesAre
      <4> QED BY <2>1, <2>3, <2>5, <3>2, <4>1
    <3>3. CASE registry[m] # i
      BY <1>0, <2>1, <2>3, <2>4, <2>5, <2>6, <3>1, <3>3 DEF Current
    <3> QED BY <3>2, <3>3
  <2> QED BY <2>6, CurrentIsNext
<1>3. ASSUME NEW i \in DOMAIN handles, DeleteHandle(a, i)  PROVE ValuesSurvive'
  <2>1. Delete(i) /\ kept' = kept
    BY <1>3 DEF DeleteHandle
  <2>2. /\ registry' = Forget({i}) /\ None \notin {i} /\ handles' = Retracted({i})
        /\ config_values' = Captured({i})
    BY <1>0, <2>1, DeleteShape, HandlesAre
  <2>3. \A m \in Names : registry'[m] = IF registry[m] = i THEN None ELSE registry[m]
    BY <1>0, <2>2, ForgetIs
  <2>4. \A j \in DOMAIN handles : handles'[j].val = handles[j].val
    BY <1>0, <2>2, RetractedIs
  <2>5. \A m \in Persisted : registry[m] # None => handles[registry[m]].persist
    BY <1>0, HandlesAre DEF HandlesSound
  <2>6. \A m \in Names : config_values'[m] = IF registry[m] = i /\ handles[registry[m]].persist
                                               THEN handles[registry[m]].val ELSE config_values[m]
    BY <2>2 DEF Captured
  <2>7. ASSUME NEW m \in Persisted
        PROVE  (IF registry'[m] = None THEN config_values'[m] ELSE handles'[registry'[m]].val) = Current(m)
    <3>1. CASE registry[m] = None
      BY <1>0, <2>2, <2>3, <2>6, <3>1 DEF Current
    <3>2. CASE registry[m] # None /\ registry[m] = i
      BY <1>0, <2>3, <2>5, <2>6, <3>2 DEF Current
    <3>3. CASE registry[m] # None /\ registry[m] # i
      BY <1>0, <2>3, <2>4, <3>3, HandlesAre DEF Current
    <3> QED BY <3>1, <3>2, <3>3
  <2> QED BY <2>1, <2>7, ValuesStay
<1> QED BY <1>1, <1>2, <1>3 DEF AuthorsCode

\* No step loses a value.
LEMMA StepValues ==
  ASSUME DeviceInv, ValuesSurvive, [Next]_vars
  PROVE  ValuesSurvive'
<1> USE DEF properties, config, history
<1>1. CASE \/ Write \/ NewcomerJoins \/ SetupLoads \/ UNCHANGED vars
           \/ \E r \in Asked : Receive(r)
           \/ \E t \in Ticks : Tick(t)
  BY <1>1, ValuesStay DEF Write, NewcomerJoins, SetupLoads, Receive, Tick, vars, Current
<1>2. ASSUME NEW n \in BuiltIn, DefineBuiltIn(n)  PROVE ValuesSurvive'
  <2>1. TypeOK /\ Persisted \subseteq Names /\ Defines(Reader, n) /\ n \notin Persisted
    BY <1>2, BuiltInIs, DeviceAssumption DEF DeviceInv, Names
  <2>2. UNCHANGED <<config_values, kept>>
    BY <1>2 DEF DefineBuiltIn
  <2>3. /\ \A j \in DOMAIN handles : handles'[j] = handles[j]
        /\ \A m \in Names : m # n => registry'[m] = registry[m]
    BY <2>1, DefineShape
  <2> QED BY <2>1, <2>2, <2>3, ValuesStay, HandlesAre DEF Current
<1>3. CASE ReaderBegins
  BY <1>3, BeginsValues
<1>4. CASE ReaderEnds
  BY <1>4, EndsValues
<1>5. ASSUME NEW a \in Actors, AuthorsCode(a)  PROVE ValuesSurvive'
  BY <1>5, AuthorValues
<1> QED BY <1>1, <1>2, <1>3, <1>4, <1>5 DEF Next, Driver

\* What is being written is what was kept when the save was asked for: the document
\* is a copy, and neither it nor what is due changes until it is written.
SavedComplete ==
  pc[Reader] = "saving" => \A n \in Persisted : due[n] # None => document[n] = due[n]

LEMMA StepSaved ==
  ASSUME DeviceInv, ValuesSurvive, SavedComplete, [Next]_vars
  PROVE  SavedComplete'
<1> USE DEF At, Goto, Done, Release, config, history, tasks
<1>0. TypeOK /\ HandlesSound /\ Persisted \subseteq Names
      /\ pc \in [Actors -> {"idle", "queued", "setup", "setup_loading", "hook",
             "handler", "saving", "purging", "loading", "loaded", "gated", "sleeping", "ticking"}]
      /\ Reader \in Actors
  BY DeviceAssumption DEF DeviceInv, TypeOK, Actors, Names
<1>1. ASSUME pc'[Reader] = "saving" => pc[Reader] = "saving", UNCHANGED <<document, due>>
      PROVE  SavedComplete'
  BY <1>1 DEF SavedComplete
<1>2. ASSUME pc'[Reader] # "saving"  PROVE SavedComplete'
  BY <1>2 DEF SavedComplete
<1>3. CASE Write \/ NewcomerJoins \/ UNCHANGED vars
  BY <1>1, <1>3 DEF Write, NewcomerJoins, vars
<1>4. ASSUME NEW r \in Asked, Receive(r)  PROVE SavedComplete'
  BY <1>0, <1>2, <1>4 DEF Receive
<1>5. ASSUME NEW t \in Ticks, Tick(t)  PROVE SavedComplete'
  <2>1. pc'[Reader] = pc[Reader]
    BY <1>0, <1>5, DeviceAssumption DEF Tick, TickGate, TickWake, TickBegins, TickEnds, Actors
  <2> QED BY <1>1, <1>5, <2>1 DEF Tick
<1>6. CASE SetupLoads
  BY <1>0, <1>2, <1>6 DEF SetupLoads
<1>7. ASSUME NEW a \in Actors, AuthorsCode(a)  PROVE SavedComplete'
  BY <1>1, <1>7 DEF AuthorsCode, DefineOwn, Sets, SetOwn, SetOwnHalfway, DeleteHandle, Operate
<1>8. ASSUME NEW n \in BuiltIn, DefineBuiltIn(n)  PROVE SavedComplete'
  BY <1>1, <1>8 DEF DefineBuiltIn, Operate
<1>9. CASE \/ BeginSetup \/ Reannounce \/ BeginHandler \/ NothingSelected \/ BeginPurge \/ BeginLoad
           \/ \E r \in {"CONNECT", "DISCONNECT"} : BeginConnection(r)
  BY <1>0, <1>2, <1>9 DEF BeginSetup, Reannounce, BeginHandler, NothingSelected, BeginPurge, BeginLoad,
                          BeginConnection
<1>10. CASE BeginSave
  <2>1. document' = Refreshed /\ due' = kept
    BY <1>10 DEF BeginSave
  <2>2. ASSUME NEW n \in Persisted, kept[n] # None  PROVE Refreshed[n] = kept[n]
    <3>1. Current(n) = kept[n]
      BY <2>2, CurrentIs
    <3>2. n \in PersistedNames(handles, registry) <=> registry[n] # None
      BY <1>0, PersistedIs DEF Registered
    <3> QED BY <1>0, <3>1, <3>2 DEF Refreshed, Current
  <2> QED BY <2>1, <2>2 DEF SavedComplete
<1>11. CASE ReaderEnds
  BY <1>0, <1>2, <1>11 DEF ReaderEnds, SetupReturns, SetupRaises, HookReturns, HookRaises, HandlerEnds,
       Saved, Purged, Loaded, SetupLoaded, SetupLoadFails, LoadedReturns, ConfigFails
<1> QED BY <1>3, <1>4, <1>5, <1>6, <1>7, <1>8, <1>9, <1>10, <1>11 DEF Next, Driver, ReaderBegins

LEMMA ValuesKept == Spec => [](DeviceInv /\ ValuesSurvive)
<1>1. Init => ValuesSurvive
  BY DeviceAssumption DEF Init, ValuesSurvive, Nothing, Names
<1>2. DeviceInv /\ ValuesSurvive /\ [Next]_vars => ValuesSurvive'
  BY StepValues
<1> QED BY <1>1, <1>2, DeviceSound, PTL DEF Spec

\* save_config and load_config (device.py:490, 551), define and _forget (device.py:661,
\* 1078): a persisted property comes back with the value it was last given, by a set, a
\* load or a redefinition, and a Save that succeeds has written the values of the moment
\* it was asked for - with and without serialize_dispatch, so whatever ticks and handlers
\* do while it is written.
THEOREM NoValueIsLost == Spec => ConfigurationKept
<1>1. Init => SavedComplete
  BY DEF Init, SavedComplete, Actors
<1>2. DeviceInv /\ ValuesSurvive /\ SavedComplete /\ [Next]_vars => SavedComplete'
  BY StepSaved
<1>3. Spec => []SavedComplete
  BY <1>1, <1>2, ValuesKept, PTL DEF Spec
<1> DEFINE Complete == Saved => \A n \in Persisted : due[n] # None => file'[n] = due[n]
<1>4. SavedComplete => Complete
  BY DEF SavedComplete, Saved, At
<1>5. ConfigurationKept <=> [][ValuesSurvive']_vars /\ [][Complete]_vars
  BY DEF ConfigurationKept, SaveIsComplete
<1> HIDE DEF Complete
<1> QED BY <1>3, <1>4, <1>5, ValuesKept, PTL

=============================================================================
