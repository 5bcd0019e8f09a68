---------------------------- MODULE MountSession -----------------------------
(***************************************************************************)
(* A scripted session (src/examples/scripted_session.py) that points the   *)
(* mount, while other clients command it too: the mount, what it publishes *)
(* on its way to the script, and what the script writes on its way to the  *)
(* mount.  Both ways are FIFO.  (The link that is lost in between is the   *)
(* module Client.)                                                         *)
(***************************************************************************)
EXTENDS Mount, Sequences

CONSTANTS
  Destination, \* the position the script asks for
  Tolerance,   \* _arrived_at's
  Unseen,      \* the script's cache before the mount's announcement
  MaxLag,      \* bound: frames on their way to the script
  MaxWrites    \* bound: the writes of other clients

ASSUME SessionAssumption ==
  Destination \in Position /\ Tolerance \in Nat /\ MaxLag \in Nat \ {0} /\ MaxWrites \in Nat

VARIABLES
  session, \* where the script is
  sent,    \* the script's writes on their way to the mount
  stream,  \* the mount's vectors on their way to the script
  cache,   \* the script's cache of them
  answer,  \* what slew() returned
  goto,    \* what became of the script's goto
  (* history *)
  writes,  \* the writes of other clients so far
  meddled  \* was there one since the script's first?

script == <<session, sent, cache, answer, goto>>
others == <<writes, meddled>>
vars == <<mount, script, stream, others>>

\* The vectors EQUATORIAL_EOD_COORD and CONNECTION.
Shown == [at |-> at, coord |-> coord, connected |-> connected]

Init ==
  /\ MountInit
  /\ session = "absent" /\ sent = <<>> /\ stream = <<>>
  /\ cache = Unseen /\ answer = Unseen /\ goto = "unsent" /\ writes = 0 /\ meddled = FALSE

\* The mount publishes what a step of it changed, to a script that is there.
Publish == stream' = IF Shown' = Shown \/ session = "absent" THEN stream ELSE Append(stream, Shown')
Room == Len(stream) < MaxLag

MountTicks == Room /\ Tick /\ Publish /\ UNCHANGED <<script, others>>
OthersWrite ==
  /\ Room /\ Write /\ Publish
  /\ writes < MaxWrites /\ writes' = writes + 1
  /\ meddled' = (meddled \/ session \notin {"absent", "appearing"})
  /\ UNCHANGED script

\* The mount handles what the script wrote: CONNECT, or the coordinates.
ConnectArrives ==
  /\ Room /\ sent # <<>> /\ Head(sent) = "CONNECT"
  /\ Connect /\ Publish
  /\ sent' = Tail(sent)
  /\ UNCHANGED <<session, cache, answer, goto, others>>
GotoArrives ==
  /\ Room /\ sent # <<>> /\ Head(sent) = "GOTO"
  /\ \/ Goto(Destination.ra, Destination.dec) /\ goto' = "taken"
     \/ ~MayMove /\ UNCHANGED mount /\ goto' = "refused"
  /\ Publish
  /\ sent' = Tail(sent)
  /\ UNCHANGED <<session, cache, answer, others>>

-----------------------------------------------------------------------------
(* scripted_session.session, slew                                          *)

Near(a, b) == a - b <= Tolerance /\ b - a <= Tolerance

\* Mutant: "waiting for no longer Busy alone".
StoppedAnywhere(vector) == vector.coord # "Busy"
\* _arrived_at: the mount stopped, and it stopped there.
ArrivedAt(vector) ==
  /\ vector.coord # "Busy"
  /\ Near(vector.at.ra, Destination.ra) /\ Near(vector.at.dec, Destination.dec)

\* wait_for looks at the cache at once, and then at every event.
Answered(seen) ==
  IF ArrivedAt(seen) THEN session' = "arrived" /\ answer' = seen
  ELSE session' = "slewing" /\ UNCHANGED answer

\* set_switch, set_number
Sends(message) == sent' = Append(sent, message)

\* The script's client asks for the properties, and the mount announces them.
Begins ==
  /\ session = "absent"
  /\ session' = "appearing" /\ stream' = <<Shown>>
  /\ UNCHANGED <<mount, sent, cache, answer, goto, others>>

\* A vector reaches the script, and the predicate of the wait it is parked in.
Event ==
  /\ stream # <<>>
  /\ cache' = Head(stream) /\ stream' = Tail(stream)
  /\ CASE session = "appearing" ->
            /\ session' = "connecting" /\ Sends("CONNECT")
            /\ UNCHANGED <<answer, goto>>
       [] session = "connecting" /\ cache'.connected ->
            /\ Sends("GOTO") /\ goto' = "sent"
            /\ Answered(cache')
       [] session = "slewing" -> Answered(cache') /\ UNCHANGED <<sent, goto>>
       [] OTHER -> UNCHANGED <<session, sent, answer, goto>>
  /\ UNCHANGED <<mount, others>>

\* The cache already shows a mount that another client connected.
AlreadyConnected ==
  /\ session = "connecting" /\ cache.connected
  /\ Sends("GOTO") /\ goto' = "sent"
  /\ Answered(cache)
  /\ UNCHANGED <<mount, stream, cache, others>>

\* A wait's timeout elapses.
TimesOut ==
  /\ session \in {"appearing", "connecting", "slewing"}
  /\ session' = "gave up"
  /\ UNCHANGED <<mount, sent, cache, answer, goto, stream, others>>

Handled == ConnectArrives \/ GotoArrives
Script == Event \/ AlreadyConnected

Next == Begins \/ MountTicks \/ OthersWrite \/ Handled \/ Script \/ TimesOut
Spec == Init /\ [][Next]_vars

\* The event loops of both ends run what is ready; nothing says that others ever write, or
\* that a timeout is short.
FairSpec ==
  Spec /\ WF_vars(MountTicks) /\ WF_vars(ConnectArrives) /\ WF_vars(GotoArrives) /\ WF_vars(Script)

-----------------------------------------------------------------------------
\* What slew() returned is the mount at rest at the destination; and unless somebody else
\* commands the mount, or left a paddle pressed, it is there and tracks the sky, or its goto
\* is under way.  ("Naming the destination as well as the state makes the wait describe an
\* outcome instead of a transition.")
SlewTellsTheTruth ==
  session = "arrived" =>
    /\ answer.coord # "Busy"
    /\ Near(answer.at.ra, Destination.ra) /\ Near(answer.at.dec, Destination.dec)
    /\ ~meddled /\ goto = "taken" /\ onCoordSet = "TRACK" /\ paddle = Released =>
         \/ target = Destination /\ trackAfter
         \/ /\ target = NoTarget /\ tracking /\ at.dec = Destination.dec
            /\ Drift[trackMode] = 0 => at.ra = Destination.ra

\* A goto that the mount takes is answered, once it is there, unless somebody else commands
\* the mount or the script gives up: whatever the mount was doing before.  (slew.)
SlewAnswers ==
  goto = "taken" /\ ~meddled ~> session \in {"arrived", "gave up"} \/ meddled

=============================================================================
