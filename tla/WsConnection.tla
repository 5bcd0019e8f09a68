---------------------------- MODULE WsConnection ----------------------------
(***************************************************************************)
(* The page's link to the bridge: ReconnectingConnection                   *)
(* (src/web/packages/client/src/connection.ts) and what IndiClient         *)
(* (client.ts) does when it opens, closes and brings a frame.              *)
(*                                                                         *)
(* JavaScript runs one callback at a time to its end: an action is a call  *)
(* of the application, an event of a socket or the timer, with every       *)
(* callback it makes.  A subscriber told of a change of the link may call  *)
(* connect() or close() there and then.  Where nothing follows the call    *)
(* that is an action of its own; what follows it in onclose and behind the *)
(* version latch has actions for it.                                       *)
(*                                                                         *)
(* Abstractions.  A socket that has closed is free to stand for the next   *)
(* one.  A bridge either greets with hello, in version 1, or is older than *)
(* that.  Commands stand for every frame the client does not remember,     *)
(* getProperties among them, but for the one a new socket starts with.     *)
(* The store, its events and the log of messages are left out.             *)
(***************************************************************************)
EXTENDS Integers, Sequences, FiniteSets, SequencesExt

CONSTANTS
  Sockets,   \* as many as may be alive at once
  Keys,      \* what a BLOB policy is remembered under
  Policies,  \* the BLOB policies
  None,      \* null
  MaxCalls,  \* bound: calls of connect and close in one behaviour
  MaxSends   \* bound: commands and policies sent in one behaviour

ASSUME WsAssumption ==
  /\ None \notin Sockets /\ None \notin Policies /\ None \notin {0, 1}
  /\ IsFiniteSet(Keys)
  /\ MaxCalls \in Nat /\ MaxSends \in Nat

VARIABLES
  (* ReconnectingConnection *)
  socket,        \* the current socket
  outbox,        \* frames sent while there was no open one
  closing,
  reconnectTimer, \* is one booked?
  (* IndiClient *)
  state,         \* _state
  sawFrame,
  blobPolicies,
  (* the browser's sockets, and the bridge behind the current one *)
  readyState,
  version,       \* 1 if it greets with hello, 0 if it is older
  spoken,        \* has it sent anything on this socket?
  in_force,      \* the policies it has been sent on this socket
  (* history *)
  calls,
  sends,
  commands,      \* commands the application has sent, in all
  gone_out       \* those that have gone out, on whichever socket

connection == <<socket, outbox, closing, reconnectTimer>>
indiClient == <<state, sawFrame, blobPolicies>>
bridge == <<version, spoken, in_force>>
history == <<calls, sends, commands, gone_out>>
vars == <<connection, indiClient, readyState, bridge, history>>

-----------------------------------------------------------------------------
(* Frames.                                                                 *)

Command(n) == [tag |-> "new", number |-> n]
EnableBlob(k, p) == [tag |-> "enableBLOB", key |-> k, policy |-> p]
Frame ==
  [tag : {"new"}, number : Nat] \cup [tag : {"enableBLOB"}, key : Keys, policy : Policies]

\* The commands among the frames, by their numbers.
Numbers(frames) ==
  LET among[i \in 0 .. Len(frames)] ==
        IF i = 0 THEN <<>>
        ELSE IF frames[i].tag = "new" THEN Append(among[i - 1], frames[i].number)
        ELSE among[i - 1]
  IN  among[Len(frames)]

\* What a bridge makes of the policies it is sent, one after another.
Applied(force, frames) ==
  [k \in Keys |->
    LET for == {i \in DOMAIN frames : frames[i].tag = "enableBLOB" /\ frames[i].key = k}
    IN  IF for = {} THEN force[k]
        ELSE frames[CHOOSE i \in for : \A j \in for : j <= i].policy]

\* handleOpen: every remembered policy, each under a key of its own.
Replay ==
  LET order == SetToSeq({k \in Keys : blobPolicies[k] # None})
  IN  [i \in DOMAIN order |-> EnableBlob(order[i], blobPolicies[order[i]])]

-----------------------------------------------------------------------------
(* ReconnectingConnection.                                                 *)

Connected == socket # None /\ readyState[socket] = "open"

\* open(): a new socket, to a bridge of either kind.  "ready" is what has
\* become of the others.
Open(ready) ==
  \E s \in Sockets :
    /\ ready[s] = "closed"
    /\ readyState' = [ready EXCEPT ![s] = "connecting"]
    /\ socket' = s
    /\ version' \in {0, 1}
    /\ spoken' = FALSE
    /\ in_force' = [k \in Keys |-> None]

\* Mutant: any socket will do, and one that is not open throws the frame away.
SendFrameToAny(f) ==
  /\ IF Connected
       THEN /\ gone_out' = gone_out \o Numbers(<<f>>)
            /\ in_force' = Applied(in_force, <<f>>)
       ELSE UNCHANGED <<gone_out, in_force>>
  /\ outbox' = IF socket = None THEN Append(outbox, f) ELSE outbox
\* send(): straight out, or kept for the next socket.
SendFrame(f) ==
  IF Connected
    THEN /\ gone_out' = gone_out \o Numbers(<<f>>)
         /\ in_force' = Applied(in_force, <<f>>)
         /\ UNCHANGED outbox
    ELSE /\ outbox' = Append(outbox, f)
         /\ UNCHANGED <<gone_out, in_force>>

LinkState == [transport : BOOLEAN, upstream : BOOLEAN, protocol : {None, 0, 1}]
Down == [transport |-> FALSE, upstream |-> FALSE, protocol |-> None]

\* Mutant: the latch is left as the last bridge set it.
HandleCloseLatched ==
  /\ state' = Down
  /\ UNCHANGED sawFrame
\* handleClose
HandleClose ==
  /\ state' = Down
  /\ sawFrame' = FALSE

\* start()
Start ==
  /\ calls < MaxCalls /\ calls' = calls + 1
  /\ closing' = FALSE
  /\ reconnectTimer' = FALSE
  /\ IF socket # None THEN UNCHANGED <<socket, readyState, bridge>> ELSE Open(readyState)
  /\ UNCHANGED <<outbox, indiClient, sends, commands, gone_out>>

\* close(): the socket is let go, and closes later.
Close ==
  /\ calls < MaxCalls /\ calls' = calls + 1
  /\ closing' = TRUE
  /\ reconnectTimer' = FALSE
  /\ socket' = None
  /\ IF socket = None THEN UNCHANGED <<readyState, state, sawFrame>>
     ELSE /\ readyState' = [readyState EXCEPT ![socket] = "closing"]
          /\ HandleClose
  /\ UNCHANGED <<outbox, blobPolicies, bridge, sends, commands, gone_out>>

\* onopen: what was kept goes out, then the policies.
Flushed == outbox \o Replay

\* onopen of the current socket.
Opens ==
  /\ socket # None /\ readyState[socket] = "connecting"
  /\ readyState' = [readyState EXCEPT ![socket] = "open"]
  /\ gone_out' = gone_out \o Numbers(Flushed)
  /\ in_force' = Applied(in_force, Flushed)
  /\ outbox' = <<>>
  /\ state' = [state EXCEPT !.transport = TRUE]
  /\ UNCHANGED <<socket, closing, reconnectTimer, sawFrame, blobPolicies, version, spoken,
                 calls, sends, commands>>

\* onerror: the close event is to follow.
Fails(s) ==
  /\ readyState[s] \in {"connecting", "open"}
  /\ readyState' = [readyState EXCEPT ![s] = "closing"]
  /\ UNCHANGED <<connection, indiClient, bridge, history>>

\* onclose of a socket that is not the current one any more.
OldCloses(s) ==
  /\ s # socket /\ readyState[s] # "closed"
  /\ readyState' = [readyState EXCEPT ![s] = "closed"]
  /\ UNCHANGED <<connection, indiClient, bridge, history>>

\* Mutant: only a link that was up is made again.
ReconnectsIfUp == reconnectTimer \/ (~closing /\ state.transport)
\* scheduleReconnect, from onclose.
Reconnects == reconnectTimer \/ ~closing

\* onclose of the current one.
Closes ==
  /\ socket # None /\ readyState[socket] # "closed"
  /\ readyState' = [readyState EXCEPT ![socket] = "closed"]
  /\ socket' = None
  /\ HandleClose
  /\ reconnectTimer' = Reconnects
  /\ UNCHANGED <<outbox, closing, blobPolicies, bridge, history>>

\* ... and a subscriber that is told of it calls connect().
ClosesAndStarts ==
  /\ socket # None /\ readyState[socket] # "closed"
  /\ state # Down /\ calls < MaxCalls /\ calls' = calls + 1
  /\ Open([readyState EXCEPT ![socket] = "closed"])
  /\ HandleClose
  /\ closing' = FALSE
  /\ reconnectTimer' = TRUE
  /\ UNCHANGED <<outbox, blobPolicies, sends, commands, gone_out>>

\* ... or close().
ClosesForGood ==
  /\ socket # None /\ readyState[socket] # "closed"
  /\ state # Down /\ calls < MaxCalls /\ calls' = calls + 1
  /\ readyState' = [readyState EXCEPT ![socket] = "closed"]
  /\ socket' = None
  /\ HandleClose
  /\ closing' = TRUE
  /\ reconnectTimer' = FALSE
  /\ UNCHANGED <<outbox, blobPolicies, bridge, sends, commands, gone_out>>

\* Mutant: nobody looks whether a socket has arrived meanwhile.
TimerFiresBlindly ==
  /\ reconnectTimer
  /\ reconnectTimer' = FALSE
  /\ IF closing THEN UNCHANGED <<socket, readyState, bridge>> ELSE Open(readyState)
  /\ UNCHANGED <<outbox, closing, indiClient, history>>
TimerFires ==
  /\ reconnectTimer
  /\ reconnectTimer' = FALSE
  /\ IF closing \/ socket # None THEN UNCHANGED <<socket, readyState, bridge>>
                                 ELSE Open(readyState)
  /\ UNCHANGED <<outbox, closing, indiClient, history>>

-----------------------------------------------------------------------------
(* IndiClient.                                                             *)

\* handleMessage: the version latch, before anything else is done with the frame.
Hello == version = 1 /\ ~spoken
Latched == IF sawFrame THEN state.protocol ELSE 0

\* What handleMessage leaves of the state: a hello, a connection frame or any other.
Told(next) ==
  \/ Hello /\ next = [state EXCEPT !.protocol = version]
  \/ ~Hello /\ next = [state EXCEPT !.protocol = Latched]
  \/ /\ ~Hello
     /\ \E up \in BOOLEAN : next = [state EXCEPT !.protocol = Latched, !.upstream = up]

Receive ==
  /\ Connected
  /\ spoken' = TRUE /\ sawFrame' = TRUE
  /\ state' \in {next \in LinkState : Told(next)}
  /\ UNCHANGED <<connection, blobPolicies, readyState, version, in_force, history>>

\* ... and a subscriber that is told the bridge is an old one calls close(): the
\* rest of the handler works on the state that close() has left.
ReceiveAndClose ==
  /\ Connected /\ ~sawFrame /\ ~Hello
  /\ calls < MaxCalls /\ calls' = calls + 1
  /\ spoken' = TRUE /\ sawFrame' = FALSE
  /\ \E up \in BOOLEAN : state' = [Down EXCEPT !.upstream = up]
  /\ closing' = TRUE
  /\ reconnectTimer' = FALSE
  /\ socket' = None
  /\ readyState' = [readyState EXCEPT ![socket] = "closing"]
  /\ UNCHANGED <<outbox, blobPolicies, version, in_force, sends, commands, gone_out>>

\* setNumber and its like.
Send ==
  /\ sends < MaxSends /\ sends' = sends + 1
  /\ commands' = commands + 1
  /\ SendFrame(Command(commands + 1))
  /\ UNCHANGED <<socket, closing, reconnectTimer, indiClient, readyState, version, spoken, calls>>

\* enableBlob()
SendPolicy(k, p) ==
  /\ sends < MaxSends /\ sends' = sends + 1
  /\ blobPolicies' = [blobPolicies EXCEPT ![k] = p]
  /\ SendFrame(EnableBlob(k, p))
  /\ UNCHANGED <<socket, closing, reconnectTimer, state, sawFrame, readyState, version, spoken,
                 calls, commands>>

-----------------------------------------------------------------------------
Init ==
  /\ socket = None /\ outbox = <<>> /\ closing = FALSE /\ reconnectTimer = FALSE
  /\ state = Down /\ sawFrame = FALSE /\ blobPolicies = [k \in Keys |-> None]
  /\ readyState = [s \in Sockets |-> "closed"]
  /\ version = 0 /\ spoken = FALSE /\ in_force = [k \in Keys |-> None]
  /\ calls = 0 /\ sends = 0 /\ commands = 0 /\ gone_out = <<>>

SocketEvent ==
  \/ Closes \/ ClosesAndStarts \/ ClosesForGood
  \/ \E s \in Sockets : OldCloses(s)

Next ==
  \/ Start \/ Close
  \/ Opens \/ SocketEvent \/ TimerFires
  \/ \E s \in Sockets : Fails(s)
  \/ Receive \/ ReceiveAndClose \/ Send
  \/ \E k \in Keys, p \in Policies : SendPolicy(k, p)

Spec == Init /\ [][Next]_vars

\* A timeout is over some day, and a socket that is closing closes.
FairSpec ==
  /\ Spec
  /\ WF_vars(TimerFires)
  /\ \A s \in Sockets : WF_vars(OldCloses(s))
  /\ WF_vars(socket # None /\ readyState[socket] = "closing" /\ Closes)

-----------------------------------------------------------------------------
(* Type invariant.                                                         *)

TypeOK ==
  /\ socket \in Sockets \cup {None}
  /\ outbox \in Seq(Frame)
  /\ closing \in BOOLEAN /\ reconnectTimer \in BOOLEAN
  /\ state \in LinkState
  /\ sawFrame \in BOOLEAN
  /\ blobPolicies \in [Keys -> Policies \cup {None}]
  /\ readyState \in [Sockets -> {"connecting", "open", "closing", "closed"}]
  /\ version \in {0, 1} /\ spoken \in BOOLEAN
  /\ in_force \in [Keys -> Policies \cup {None}]
  /\ calls \in Nat /\ sends \in Nat /\ commands \in Nat
  /\ gone_out \in Seq(Nat)

-----------------------------------------------------------------------------
(* Properties.                                                             *)

\* open(), scheduleReconnect: no socket is left "alive, unowned and unclosed",
\* whatever the order of calls, closings and timers.
NoOrphan == \A s \in Sockets : readyState[s] \in {"connecting", "open"} => socket = s

\* handleClose, handleMessage: what is said of the link is said of the present
\* socket - the version this bridge speaks once it has said something, and nothing
\* of the bridge before.
StateOfThisSocket ==
  /\ Connected => state.transport
  /\ socket = None => ~state.transport
  /\ state.protocol = IF socket # None /\ spoken THEN version ELSE None

\* handleClose: "With the socket down we cannot know the upstream state; report
\* both down."
\* The code does otherwise (README, section 7): no configuration checks this.
BothDown == socket = None => ~state.transport /\ ~state.upstream

\* send(): every command goes out once and in the order it was given, over any
\* number of sockets, or is still kept.
CommandsOnceInOrder == gone_out \o Numbers(outbox) = [n \in 1 .. commands |-> n]

\* enableBlob(): every bridge that is connected holds the policy last asked for,
\* although older ones may be kept in the outbox.
PoliciesInForce == Connected => in_force = blobPolicies

\* What the application asked for reaches a bridge: its commands once and in
\* order, its policies as they are now, over any number of sockets.
SendsAreKept == CommandsOnceInOrder /\ PoliciesInForce

\* While the application wants a link there is a socket, or there will be one.
LinkComesBack ==
  calls > 0 /\ ~closing /\ socket = None ~> socket # None \/ closing

=============================================================================
