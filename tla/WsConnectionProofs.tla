------------------------- MODULE WsConnectionProofs -------------------------
(* What is proved of WsConnection: no socket is left unowned; what the     *)
(* client says of its link is said of the socket it has now; and what the  *)
(* application asked for reaches a bridge, commands once and in order,     *)
(* policies as they are now.                                               *)
EXTENDS WsConnection, TLAPS, NaturalsInduction, WellFoundedInduction, SequenceTheorems,
        FiniteSetTheorems, FunctionTheorems

-----------------------------------------------------------------------------
(* The inductive invariant.  The latch of the client and the bridge's own  *)
(* memory of having spoken agree, and a socket that is held has not closed.*)

LinkTypes ==
  /\ socket \in Sockets \cup {None}
  /\ state \in LinkState
  /\ sawFrame \in BOOLEAN /\ spoken \in BOOLEAN /\ version \in {0, 1}
  /\ readyState \in [Sockets -> {"connecting", "open", "closing", "closed"}]

HeldIsAlive == socket # None => readyState[socket] # "closed"

LatchIsOfThisSocket == sawFrame = (socket # None /\ spoken)

LinkInv ==
  /\ LinkTypes
  /\ NoOrphan
  /\ HeldIsAlive
  /\ LatchIsOfThisSocket
  /\ StateOfThisSocket

\* What open() leaves of the sockets, whatever has become of the others: the
\* new one is the only one that is not closing or closed.
LEMMA OpenSound ==
  ASSUME NEW ready \in [Sockets -> {"connecting", "open", "closing", "closed"}],
         \A s \in Sockets : ready[s] \notin {"connecting", "open"},
         Open(ready)
  PROVE  /\ socket' \in Sockets /\ socket' # None
         /\ readyState' \in [Sockets -> {"connecting", "open", "closing", "closed"}]
         /\ readyState'[socket'] = "connecting"
         /\ NoOrphan'
         /\ version' \in {0, 1} /\ spoken' = FALSE
  BY WsAssumption DEF Open, NoOrphan

\* Nothing is known of a link that is down.
LEMMA DownIsDown ==
  /\ Down \in LinkState
  /\ ~Down.transport /\ ~Down.upstream /\ Down.protocol = None
  BY DEF Down, LinkState

LEMMA LinkInit == Init => LinkInv
  BY WsAssumption, DownIsDown
  DEF Init, LinkInv, LinkTypes, NoOrphan, HeldIsAlive, LatchIsOfThisSocket,
      StateOfThisSocket, Connected

\* A step that leaves the socket, the state, the latch and the bridge's version alone.
LEMMA LinkStutters ==
  ASSUME LinkInv, UNCHANGED <<socket, state, sawFrame, readyState, version, spoken>>
  PROVE  LinkInv'
  BY DEF LinkInv, LinkTypes, NoOrphan, HeldIsAlive, LatchIsOfThisSocket,
         StateOfThisSocket, Connected

\* A new socket in the place of none, with nothing said of the link.
LEMMA LinkOpens ==
  ASSUME LinkInv,
         NEW ready \in [Sockets -> {"connecting", "open", "closing", "closed"}],
         \A s \in Sockets : ready[s] \notin {"connecting", "open"},
         Open(ready),
         state' \in LinkState, state'.protocol = None, sawFrame' = FALSE
  PROVE  LinkInv'
  BY OpenSound
  DEF LinkInv, LinkTypes, HeldIsAlive, LatchIsOfThisSocket, StateOfThisSocket, Connected

\* The socket is let go, in whatever way, and nothing but the upstream is said of the link.
LEMMA LinkLets ==
  ASSUME LinkInv, NEW was \in {"closing", "closed"},
         socket # None, socket' = None,
         readyState' = [readyState EXCEPT ![socket] = was],
         state' \in LinkState, ~state'.transport, state'.protocol = None,
         sawFrame' = FALSE, spoken' \in BOOLEAN, version' \in {0, 1}
  PROVE  LinkInv'
  BY WsAssumption
  DEF LinkInv, LinkTypes, NoOrphan, HeldIsAlive, LatchIsOfThisSocket,
      StateOfThisSocket, Connected

-----------------------------------------------------------------------------
(* The steps.                                                              *)

LEMMA StartKeeps == ASSUME LinkInv, Start PROVE LinkInv'
<1>1. CASE socket # None
  BY <1>1, LinkStutters DEF Start, indiClient, bridge
<1>2. CASE socket = None
  <2>1. \A s \in Sockets : readyState[s] \notin {"connecting", "open"}
    BY <1>2, WsAssumption DEF LinkInv, NoOrphan
  <2>2. state.protocol = None /\ sawFrame = FALSE
    BY <1>2 DEF LinkInv, LatchIsOfThisSocket, StateOfThisSocket
  <2> QED
    BY <1>2, <2>1, <2>2, LinkOpens DEF Start, LinkInv, LinkTypes, indiClient
<1> QED
  BY <1>1, <1>2

LEMMA CloseKeeps == ASSUME LinkInv, Close PROVE LinkInv'
<1>1. CASE socket = None
  BY <1>1, LinkStutters DEF Close, bridge
<1>2. CASE socket # None
  BY <1>2, LinkLets, DownIsDown DEF Close, HandleClose, bridge, LinkInv, LinkTypes
<1> QED
  BY <1>1, <1>2

LEMMA OpensKeeps == ASSUME LinkInv, Opens PROVE LinkInv'
BY DEF Opens, LinkInv, LinkTypes, LinkState, NoOrphan, HeldIsAlive, LatchIsOfThisSocket,
       StateOfThisSocket, Connected

LEMMA FailsKeeps == ASSUME LinkInv, NEW s \in Sockets, Fails(s) PROVE LinkInv'
BY DEF Fails, LinkInv, LinkTypes, NoOrphan, HeldIsAlive, LatchIsOfThisSocket,
       StateOfThisSocket, Connected, connection, indiClient, bridge

LEMMA OldClosesKeeps == ASSUME LinkInv, NEW s \in Sockets, OldCloses(s) PROVE LinkInv'
BY DEF OldCloses, LinkInv, LinkTypes, NoOrphan, HeldIsAlive, LatchIsOfThisSocket,
       StateOfThisSocket, Connected, connection, indiClient, bridge

LEMMA ClosesKeeps == ASSUME LinkInv, Closes PROVE LinkInv'
BY LinkLets, DownIsDown DEF Closes, HandleClose, bridge, LinkInv, LinkTypes

LEMMA ClosesAndStartsKeeps == ASSUME LinkInv, ClosesAndStarts PROVE LinkInv'
<1> DEFINE ready == [readyState EXCEPT ![socket] = "closed"]
<1>1. /\ ready \in [Sockets -> {"connecting", "open", "closing", "closed"}]
      /\ \A s \in Sockets : ready[s] \notin {"connecting", "open"}
  BY DEF ClosesAndStarts, LinkInv, LinkTypes, NoOrphan
<1>2. Open(ready)
  BY DEF ClosesAndStarts
<1> HIDE DEF ready
<1> QED
  BY <1>1, <1>2, LinkOpens, DownIsDown DEF ClosesAndStarts, HandleClose

LEMMA ClosesForGoodKeeps == ASSUME LinkInv, ClosesForGood PROVE LinkInv'
BY LinkLets, DownIsDown DEF ClosesForGood, HandleClose, bridge, LinkInv, LinkTypes

LEMMA TimerFiresKeeps == ASSUME LinkInv, TimerFires PROVE LinkInv'
<1>1. CASE closing \/ socket # None
  BY <1>1, LinkStutters DEF TimerFires, indiClient, bridge
<1>2. CASE ~(closing \/ socket # None)
  <2>1. \A s \in Sockets : readyState[s] \notin {"connecting", "open"}
    BY <1>2, WsAssumption DEF LinkInv, NoOrphan
  <2>2. state.protocol = None /\ sawFrame = FALSE
    BY <1>2 DEF LinkInv, LatchIsOfThisSocket, StateOfThisSocket
  <2> QED
    BY <1>2, <2>1, <2>2, LinkOpens DEF TimerFires, LinkInv, LinkTypes, indiClient
<1> QED
  BY <1>1, <1>2

\* The first frame of a socket settles the version; a later one repeats it.
LEMMA ReceiveKeeps == ASSUME LinkInv, Receive PROVE LinkInv'
<1>1. state' \in LinkState /\ Told(state')
  BY DEF Receive
<1>2. state'.transport = state.transport /\ state'.protocol = version
  <2>1. CASE Hello
    BY <1>1, <2>1 DEF Told, LinkInv, LinkTypes, LinkState
  <2>2. CASE ~Hello
    <3>1. Latched = version
      BY <2>2 DEF Receive, Hello, Latched, Connected, LinkInv, LinkTypes,
                  LatchIsOfThisSocket, StateOfThisSocket
    <3> QED
      BY <1>1, <2>2, <3>1 DEF Told, LinkInv, LinkTypes, LinkState
  <2> QED
    BY <2>1, <2>2
<1> QED
  BY <1>1, <1>2
  DEF Receive, LinkInv, LinkTypes, NoOrphan, HeldIsAlive, LatchIsOfThisSocket,
      StateOfThisSocket, Connected, connection

LEMMA ReceiveAndCloseKeeps == ASSUME LinkInv, ReceiveAndClose PROVE LinkInv'
<1>1. PICK up \in BOOLEAN : state' = [Down EXCEPT !.upstream = up]
  BY DEF ReceiveAndClose
<1>2. state' \in LinkState /\ ~state'.transport /\ state'.protocol = None
  BY <1>1, DownIsDown DEF LinkState
<1> QED
  BY <1>2, LinkLets DEF ReceiveAndClose, Connected, LinkInv, LinkTypes

-----------------------------------------------------------------------------
(* The theorems.                                                           *)

LEMMA LinkStep == LinkInv /\ [Next]_vars => LinkInv'
<1> SUFFICES ASSUME LinkInv, [Next]_vars PROVE LinkInv'
  OBVIOUS
<1>1. CASE Start
  BY <1>1, StartKeeps
<1>2. CASE Close
  BY <1>2, CloseKeeps
<1>3. CASE Opens
  BY <1>3, OpensKeeps
<1>4. CASE SocketEvent
  BY <1>4, ClosesKeeps, ClosesAndStartsKeeps, ClosesForGoodKeeps, OldClosesKeeps
  DEF SocketEvent
<1>5. CASE TimerFires
  BY <1>5, TimerFiresKeeps
<1>6. CASE \E s \in Sockets : Fails(s)
  BY <1>6, FailsKeeps
<1>7. CASE Receive
  BY <1>7, ReceiveKeeps
<1>8. CASE ReceiveAndClose
  BY <1>8, ReceiveAndCloseKeeps
<1>9. CASE Send
  BY <1>9, LinkStutters DEF Send, indiClient
<1>10. CASE \E k \in Keys, p \in Policies : SendPolicy(k, p)
  BY <1>10, LinkStutters DEF SendPolicy
<1>11. CASE UNCHANGED vars
  BY <1>11, LinkStutters DEF vars, connection, indiClient, bridge
<1> QED
  BY <1>1, <1>2, <1>3, <1>4, <1>5, <1>6, <1>7, <1>8, <1>9, <1>10, <1>11 DEF Next

\* The invariant, for any number of sockets.
THEOREM LinkInvariant == Spec => []LinkInv
BY LinkInit, LinkStep, PTL DEF Spec

\* open() never leaves a socket alive, unowned and unclosed, whatever the order of
\* calls, closings and timers.
THEOREM NeverOrphans == Spec => []NoOrphan
<1>1. LinkInv => NoOrphan
  BY DEF LinkInv
<1> QED
  BY <1>1, LinkInvariant, PTL

\* What connectionState says of the link and of the bridge's version is true of the
\* socket that is there, and of no socket before it.
THEOREM StateIsOfThisSocket == Spec => []StateOfThisSocket
<1>1. LinkInv => StateOfThisSocket
  BY DEF LinkInv
<1> QED
  BY <1>1, LinkInvariant, PTL

-----------------------------------------------------------------------------
(* The commands among a sequence of frames.  Numbers is a recursive        *)
(* function; what it computes is followed from a least counterexample.     *)

\* Among numbers there is a least one: what the inductions below stand on.
LEMMA LeastOf ==
  ASSUME NEW T, T \subseteq Nat, T # {}
  PROVE  \E n \in T : \A m \in T : n <= m
<1>1. \E n \in T : \A m \in T : ~ (<<m, n>> \in OpToRel(<, Nat))
  BY NatLessThanWellFounded, WFMin, Zenon
<1>2. PICK n \in T : \A m \in T : ~ (<<m, n>> \in OpToRel(<, Nat))
  BY <1>1
<1>3. \A m \in T : ~ (m < n)
  BY <1>2, Zenon DEF OpToRel
<1> QED BY <1>3

\* ... and, of those up to some bound, a greatest.
LEMMA GreatestOf ==
  ASSUME NEW n \in Nat, NEW T, T \subseteq 1..n, T # {}
  PROVE  \E i \in T : \A j \in T : j <= i
<1> DEFINE U == {n - i : i \in T}
<1>1. U \subseteq Nat /\ U # {}
  <2>1. \A i \in T : n - i \in Nat
    OBVIOUS
  <2>2. PICK i : i \in T
    OBVIOUS
  <2>3. n - i \in U
    BY <2>2
  <2> QED BY <2>1, <2>3
<1>2. PICK u \in U : \A v \in U : u <= v
  BY <1>1, LeastOf
<1>3. PICK i \in T : u = n - i
  BY <1>2
<1>4. \A j \in T : n - j \in U
  OBVIOUS
<1>5. \A j \in T : n - i <= n - j
  BY <1>2, <1>3, <1>4
<1> QED BY <1>3, <1>5

NoCommand(f) == f.tag # "new"

\* One more frame.
Taken(frames, i, before) ==
  IF frames[i].tag = "new" THEN Append(before, frames[i].number) ELSE before

\* F is what has been taken of the first frames, up to each of them.
Takes(F, frames, n) ==
  F = [i \in 0..n |-> IF i = 0 THEN <<>> ELSE Taken(frames, i, F[i - 1])]

\* There is such a function, however many frames there are.
LEMMA TakesExists ==
  ASSUME NEW frames, NEW n \in Nat
  PROVE  \E F : Takes(F, frames, n)
<1> DEFINE T == {m \in Nat : ~ \E F : Takes(F, frames, m)}
<1>1. SUFFICES ASSUME T # {} PROVE FALSE
  OBVIOUS
<1>2. PICK m \in T : \A k \in T : m <= k
  BY <1>1, LeastOf
<1>3. CASE m = 0
  <2>1. Takes([i \in 0..0 |-> <<>>], frames, 0)
    BY DEF Takes
  <2> QED BY <1>3, <2>1
<1>4. CASE m # 0
  <2>1. m \in Nat /\ m - 1 \in Nat /\ m - 1 \notin T
    BY <1>2, <1>4
  <2>2. PICK F : Takes(F, frames, m - 1)
    BY <2>1
  <2> DEFINE G == [i \in 0..m |-> IF i = m THEN Taken(frames, m, F[m - 1]) ELSE F[i]]
  <2>3. \A i \in 0..m : G[i] = IF i = 0 THEN <<>> ELSE Taken(frames, i, G[i - 1])
    <3> SUFFICES ASSUME NEW i \in 0..m
                 PROVE  G[i] = IF i = 0 THEN <<>> ELSE Taken(frames, i, G[i - 1])
      OBVIOUS
    <3>1. CASE i = m
      <4>1. G[m] = Taken(frames, m, F[m - 1])
        BY <2>1
      <4>2. G[m - 1] = F[m - 1]
        BY <2>1
      <4> QED BY <3>1, <4>1, <4>2, <1>4
    <3>2. CASE i # m
      <4>1. i \in 0..(m - 1) /\ G[i] = F[i]
        BY <2>1, <3>2
      <4>2. F[i] = IF i = 0 THEN <<>> ELSE Taken(frames, i, F[i - 1])
        BY <2>2, <4>1 DEF Takes
      <4>3. CASE i = 0
        BY <4>1, <4>2, <4>3
      <4>4. CASE i # 0
        <5>1. i - 1 \in 0..m /\ i - 1 # m
          BY <2>1, <4>1, <4>4
        <5>2. G[i - 1] = F[i - 1]
          BY <5>1
        <5> QED BY <4>1, <4>2, <4>4, <5>2
      <4> QED BY <4>3, <4>4
    <3> QED BY <3>1, <3>2
  <2>4. DOMAIN G = 0..m
    OBVIOUS
  <2>5. G = [i \in 0..m |-> G[i]]
    OBVIOUS
  <2> HIDE DEF G
  <2>6. Takes(G, frames, m)
    BY <2>3, <2>5 DEF Takes
  <2> QED BY <1>2, <2>6
<1> QED BY <1>3, <1>4

LEMMA NumbersIs ==
  ASSUME NEW frames, Len(frames) \in Nat
  PROVE  \E F : Takes(F, frames, Len(frames)) /\ Numbers(frames) = F[Len(frames)]
<1> DEFINE n == Len(frames)
           G == CHOOSE F : F = [i \in 0..n |-> IF i = 0 THEN <<>>
                     ELSE IF frames[i].tag = "new" THEN Append(F[i - 1], frames[i].number)
                     ELSE F[i - 1]]
<1>1. Numbers(frames) = G[n]
  BY DEF Numbers
<1>2. \A F : Takes(F, frames, n) <=> F = [i \in 0..n |-> IF i = 0 THEN <<>>
                     ELSE IF frames[i].tag = "new" THEN Append(F[i - 1], frames[i].number)
                     ELSE F[i - 1]]
  BY DEF Takes, Taken
<1>3. \E F : Takes(F, frames, n)
  BY TakesExists
<1>4. Takes(G, frames, n)
  BY <1>2, <1>3
<1> QED BY <1>1, <1>4

-----------------------------------------------------------------------------
\* What is taken of frames are numbers.
LEMMA TakesType ==
  ASSUME NEW frames \in Seq(Frame), NEW F, Takes(F, frames, Len(frames))
  PROVE  \A i \in 0..Len(frames) : F[i] \in Seq(Nat)
<1> DEFINE T == {m \in 0..Len(frames) : F[m] \notin Seq(Nat)}
<1>1. SUFFICES ASSUME T # {} PROVE FALSE
  OBVIOUS
<1>2. PICK m \in T : \A k \in T : m <= k
  <2>1. T \subseteq Nat
    OBVIOUS
  <2> HIDE DEF T
  <2> QED BY <1>1, <2>1, LeastOf
<1>3. F[m] = IF m = 0 THEN <<>> ELSE Taken(frames, m, F[m - 1])
  BY <1>2 DEF Takes
<1>4. m # 0
  <2>1. <<>> \in Seq(Nat)
    OBVIOUS
  <2>2. m = 0 => F[m] = <<>>
    BY <1>3
  <2> QED BY <1>2, <2>1, <2>2
<1>5. m - 1 \in 0..Len(frames) /\ m - 1 \notin T
  BY <1>2, <1>4
<1>6. F[m - 1] \in Seq(Nat)
  BY <1>5
<1>7. frames[m] \in Frame
  BY <1>2, <1>4
<1>8. frames[m].tag = "new" => frames[m].number \in Nat
  BY <1>7 DEF Frame
<1>9. frames[m].tag = "new" => Append(F[m - 1], frames[m].number) \in Seq(Nat)
  BY <1>6, <1>8
<1>10. Taken(frames, m, F[m - 1]) \in Seq(Nat)
  BY <1>6, <1>9 DEF Taken
<1> QED BY <1>2, <1>3, <1>4, <1>10

\* Of the same frames the same is taken.
LEMMA TakesAgree ==
  ASSUME NEW a, NEW b, NEW m \in Nat, NEW n \in Nat, m <= n,
         \A i \in 1..m : a[i] = b[i],
         NEW F, Takes(F, a, m), NEW G, Takes(G, b, n)
  PROVE  \A i \in 0..m : F[i] = G[i]
<1> DEFINE T == {i \in 0..m : F[i] # G[i]}
<1>1. SUFFICES ASSUME T # {} PROVE FALSE
  OBVIOUS
<1>2. PICK i \in T : \A k \in T : i <= k
  <2>1. T \subseteq Nat
    OBVIOUS
  <2> HIDE DEF T
  <2> QED BY <1>1, <2>1, LeastOf
<1>3. F[i] = IF i = 0 THEN <<>> ELSE Taken(a, i, F[i - 1])
  BY <1>2 DEF Takes
<1>4. G[i] = IF i = 0 THEN <<>> ELSE Taken(b, i, G[i - 1])
  BY <1>2 DEF Takes
<1>5. i # 0
  BY <1>2, <1>3, <1>4
<1>6. i - 1 \in 0..m /\ i - 1 \notin T
  BY <1>2, <1>5
<1>7. F[i - 1] = G[i - 1] /\ a[i] = b[i]
  BY <1>2, <1>5, <1>6
<1> QED BY <1>2, <1>3, <1>4, <1>5, <1>7 DEF Taken

\* Frames that are no commands add nothing.
LEMMA TakesNothing ==
  ASSUME NEW b, NEW m \in Nat, NEW n \in Nat, m <= n,
         \A i \in (m + 1)..n : NoCommand(b[i]),
         NEW G, Takes(G, b, n)
  PROVE  G[n] = G[m]
<1> DEFINE T == {i \in m..n : G[i] # G[m]}
<1>1. SUFFICES ASSUME T # {} PROVE FALSE
  OBVIOUS
<1>2. PICK i \in T : \A k \in T : i <= k
  <2>1. T \subseteq Nat
    OBVIOUS
  <2> HIDE DEF T
  <2> QED BY <1>1, <2>1, LeastOf
<1>3. i # m
  BY <1>2
<1>4. i \in (m + 1)..n /\ i - 1 \in m..n /\ i - 1 \notin T
  BY <1>2, <1>3
<1>5. G[i] = Taken(b, i, G[i - 1])
  BY <1>4 DEF Takes
<1>6. G[i] = G[i - 1]
  BY <1>4, <1>5 DEF Taken, NoCommand
<1> QED BY <1>2, <1>4, <1>6

LEMMA NumbersType ==
  ASSUME NEW frames \in Seq(Frame) PROVE Numbers(frames) \in Seq(Nat)
<1>1. Len(frames) \in Nat
  OBVIOUS
<1>2. PICK F : Takes(F, frames, Len(frames)) /\ Numbers(frames) = F[Len(frames)]
  BY <1>1, NumbersIs
<1> QED BY <1>1, <1>2, TakesType

LEMMA NumbersOfNone == Numbers(<<>>) = <<>>
<1>1. Len(<<>>) = 0
  OBVIOUS
<1>2. PICK F : Takes(F, <<>>, 0) /\ Numbers(<<>>) = F[0]
  BY <1>1, NumbersIs
<1> QED BY <1>2 DEF Takes

\* A command is the last of them, another frame is none.
LEMMA NumbersAppend ==
  ASSUME NEW frames \in Seq(Frame), NEW f \in Frame
  PROVE  Numbers(Append(frames, f)) =
           IF f.tag = "new" THEN Append(Numbers(frames), f.number) ELSE Numbers(frames)
<1> DEFINE n == Len(frames)
           more == Append(frames, f)
<1>1. /\ n \in Nat /\ Len(more) = n + 1 /\ more[n + 1] = f
      /\ \A i \in 1..n : frames[i] = more[i]
  OBVIOUS
<1>2. PICK F : Takes(F, frames, n) /\ Numbers(frames) = F[n]
  BY <1>1, NumbersIs
<1> HIDE DEF more, n
<1>3. PICK G : Takes(G, more, n + 1) /\ Numbers(more) = G[n + 1]
  BY <1>1, NumbersIs
<1>4. F[n] = G[n]
  BY <1>1, <1>2, <1>3, TakesAgree
<1>5. G[n + 1] = Taken(more, n + 1, G[n])
  BY <1>1, <1>3 DEF Takes
<1>6. Numbers(more) = IF f.tag = "new" THEN Append(Numbers(frames), f.number) ELSE Numbers(frames)
  BY <1>1, <1>2, <1>3, <1>4, <1>5 DEF Taken
<1> QED BY <1>6 DEF more

LEMMA NumbersOfOne ==
  ASSUME NEW f \in Frame
  PROVE  Numbers(<<f>>) = IF f.tag = "new" THEN <<f.number>> ELSE <<>>
<1>1. <<>> \in Seq(Frame) /\ Append(<<>>, f) = <<f>> 
  OBVIOUS
<1>2. Numbers(<<f>>) = IF f.tag = "new" THEN Append(Numbers(<<>>), f.number) ELSE Numbers(<<>>)
  BY <1>1, NumbersAppend
<1>3. f.tag = "new" => Append(<<>>, f.number) = <<f.number>>
  BY DEF Frame
<1> QED BY <1>2, <1>3, NumbersOfNone

\* What follows the commands makes no difference to them.
LEMMA NumbersOfPrefix ==
  ASSUME NEW a, NEW b, NEW m \in Nat, NEW n \in Nat, m <= n,
         Len(a) = m, Len(b) = n,
         \A i \in 1..m : a[i] = b[i],
         \A i \in (m + 1)..n : NoCommand(b[i])
  PROVE  Numbers(b) = Numbers(a)
<1>1. PICK F : Takes(F, a, m) /\ Numbers(a) = F[m]
  BY NumbersIs
<1>2. PICK G : Takes(G, b, n) /\ Numbers(b) = G[n]
  BY NumbersIs
<1>3. F[m] = G[m]
  <2>1. Takes(F, a, m) /\ Takes(G, b, n)
    BY <1>1, <1>2
  <2>2. m \in 0..m
    OBVIOUS
  <2> QED BY <2>1, <2>2, TakesAgree
<1>4. G[n] = G[m]
  BY <1>2, TakesNothing
<1> QED BY <1>1, <1>2, <1>3, <1>4

LEMMA NumbersOfRest ==
  ASSUME NEW frames \in Seq(Frame), NEW rest \in Seq(Frame),
         \A i \in DOMAIN rest : NoCommand(rest[i])
  PROVE  Numbers(frames \o rest) = Numbers(frames)
<1> DEFINE n == Len(frames)
           more == frames \o rest
<1>1. /\ n \in Nat /\ Len(rest) \in Nat /\ Len(more) = n + Len(rest)
      /\ \A i \in 1..n : frames[i] = more[i]
  OBVIOUS
<1>2. \A i \in (n + 1)..Len(more) : i - n \in DOMAIN rest /\ more[i] = rest[i - n]
  BY <1>1
<1>3. \A i \in (n + 1)..Len(more) : NoCommand(more[i])
  BY <1>2
<1> HIDE DEF more
<1>4. Len(more) \in Nat /\ n <= Len(more)
  BY <1>1
<1>5. Numbers(more) = Numbers(frames)
  BY <1>1, <1>3, <1>4, NumbersOfPrefix
<1> QED BY <1>5 DEF more

\* A finite set as a sequence: each element once.
LEMMA SetToSeqIs ==
  ASSUME NEW I, IsFiniteSet(I)
  PROVE  /\ SetToSeq(I) \in Seq(I) /\ Len(SetToSeq(I)) = Cardinality(I)
         /\ Cardinality(I) \in Nat
         /\ DOMAIN SetToSeq(I) = 1..Cardinality(I)
         /\ \A i, j \in 1..Cardinality(I) : SetToSeq(I)[i] = SetToSeq(I)[j] => i = j
         /\ \A x \in I : \E i \in 1..Cardinality(I) : SetToSeq(I)[i] = x
<1> DEFINE n == Cardinality(I)
           s == SetToSeq(I)
<1>1. n \in Nat /\ ExistsBijection(1..n, I)
  BY FS_CardinalityType
<1>2. \E f \in [1..n -> I] : IsInjective(f)
  BY <1>1 DEF ExistsBijection, Bijection, Injection
<1>3. s \in [1..n -> I] /\ IsInjective(s)
  <2> DEFINE Q(f) == f \in [1..n -> I] /\ IsInjective(f)
  <2>1. s = CHOOSE f \in [1..n -> I] : IsInjective(f)
    BY DEF SetToSeq
  <2> HIDE DEF s, n
  <2> QED BY <1>2, <2>1
<1> HIDE DEF s
<1>4. s \in Injection(1..n, I)
  BY <1>3 DEF Injection
<1>5. Cardinality(1..n) = n /\ IsFiniteSet(1..n)
  BY <1>1, FS_Interval
<1>6. s \in Surjection(1..n, I)
  BY <1>4, <1>5, FS_Injection
<1>7. s \in Seq(I)
  BY <1>1, <1>3, SeqDef
<1>8. Len(s) = n
  BY <1>1, <1>3, <1>7, LenProperties
<1> HIDE DEF n
<1>9. \A i, j \in 1..n : s[i] = s[j] => i = j
  BY <1>3 DEF IsInjective
<1>10. \A x \in I : \E i \in 1..n : s[i] = x
  BY <1>6 DEF Surjection
<1> QED BY <1>1, <1>3, <1>7, <1>8, <1>9, <1>10 DEF s, n

-----------------------------------------------------------------------------
(* What was asked for.                                                     *)

SendTypes ==
  /\ outbox \in Seq(Frame)
  /\ blobPolicies \in [Keys -> Policies \cup {None}]
  /\ in_force \in [Keys -> Policies \cup {None}]
  /\ commands \in Nat /\ gone_out \in Seq(Nat)

\* Nothing is kept while there is an open socket to send it on.
NothingWaits == Connected => outbox = <<>>

\* Every policy in the outbox is one the client remembers something for.
KeptIsRemembered ==
  \A i \in DOMAIN outbox : outbox[i].tag = "enableBLOB" => blobPolicies[outbox[i].key] # None

\* A bridge that has not been reached yet has been sent nothing.
FreshBridge ==
  socket # None /\ readyState[socket] = "connecting" => in_force = [k \in Keys |-> None]

SendInv ==
  /\ SendTypes
  /\ NothingWaits
  /\ KeptIsRemembered
  /\ FreshBridge
  /\ SendsAreKept

\* The policies of the replay: each remembered one, once.
LEMMA ReplayIs ==
  ASSUME SendTypes
  PROVE  /\ Replay \in Seq(Frame)
         /\ \A i \in DOMAIN Replay : /\ Replay[i].tag = "enableBLOB"
                                     /\ Replay[i].key \in Keys
                                     /\ blobPolicies[Replay[i].key] # None
                                     /\ Replay[i].policy = blobPolicies[Replay[i].key]
         /\ \A k \in Keys : blobPolicies[k] # None =>
              \E i \in DOMAIN Replay : Replay[i].key = k
<1> DEFINE I == {k \in Keys : blobPolicies[k] # None}
           order == SetToSeq(I)
           n == Cardinality(I)
<1>1. IsFiniteSet(I)
  BY WsAssumption, FS_Subset
<1>2. /\ n \in Nat /\ DOMAIN order = 1..n
      /\ order \in Seq(I)
      /\ \A x \in I : \E i \in 1..n : order[i] = x
  BY <1>1, SetToSeqIs
<1>3. Replay = [i \in DOMAIN order |-> EnableBlob(order[i], blobPolicies[order[i]])]
  BY DEF Replay
<1>4. \A i \in 1..n : order[i] \in I
  BY <1>2
<1> HIDE DEF order, n
<1>5. \A i \in 1..n : order[i] \in Keys /\ blobPolicies[order[i]] \in Policies
                      /\ blobPolicies[order[i]] # None
  BY <1>4 DEF SendTypes
<1>6. /\ DOMAIN Replay = 1..n
      /\ \A i \in 1..n : Replay[i] = EnableBlob(order[i], blobPolicies[order[i]])
  BY <1>2, <1>3
<1>7. \A i \in 1..n : Replay[i] \in Frame
  BY <1>5, <1>6 DEF EnableBlob, Frame
<1>8. Replay \in Seq(Frame)
  <2>1. Replay \in [1..n -> Frame]
    BY <1>2, <1>3, <1>6, <1>7
  <2> QED BY <1>2, <2>1, SeqDef
<1>9. \A i \in 1..n : /\ Replay[i].tag = "enableBLOB"
                      /\ Replay[i].key = order[i]
                      /\ Replay[i].policy = blobPolicies[order[i]]
  BY <1>6 DEF EnableBlob
<1>10. \A k \in Keys : blobPolicies[k] # None => \E i \in 1..n : order[i] = k
  BY <1>2
<1> QED BY <1>5, <1>6, <1>8, <1>9, <1>10

\* After the replay the last word on every key is what is remembered for it.
LEMMA FlushedIsInForce ==
  ASSUME SendTypes, KeptIsRemembered, in_force = [k \in Keys |-> None]
  PROVE  Applied(in_force, Flushed) = blobPolicies
<1> DEFINE m == Len(outbox)
           l == Len(Replay)
           at(k) == {i \in DOMAIN Flushed : Flushed[i].tag = "enableBLOB" /\ Flushed[i].key = k}
<1>1. /\ m \in Nat /\ l \in Nat /\ DOMAIN Flushed = 1..(m + l)
      /\ \A i \in 1..m : Flushed[i] = outbox[i]
      /\ \A i \in (m + 1)..(m + l) : Flushed[i] = Replay[i - m] /\ i - m \in DOMAIN Replay
      /\ \A i \in DOMAIN Replay : i + m \in (m + 1)..(m + l) /\ Flushed[i + m] = Replay[i]
      /\ DOMAIN outbox = 1..m
  BY ReplayIs DEF Flushed, SendTypes
<1>2. SUFFICES ASSUME NEW k \in Keys
               PROVE  blobPolicies[k] = IF at(k) = {} THEN None
                        ELSE Flushed[CHOOSE i \in at(k) : \A j \in at(k) : j <= i].policy
  BY DEF Applied, SendTypes
<1>3. CASE blobPolicies[k] = None
  <2>1. \A i \in at(k) : FALSE
    <3> SUFFICES ASSUME NEW i \in at(k) PROVE FALSE
      OBVIOUS
    <3>1. CASE i \in 1..m
      BY <1>1, <1>3, <3>1 DEF KeptIsRemembered
    <3>2. CASE i \in (m + 1)..(m + l)
      BY <1>1, <1>3, <3>2, ReplayIs
    <3> QED BY <1>1, <3>1, <3>2
  <2> QED BY <1>3, <2>1
<1>4. CASE blobPolicies[k] # None
  <2>1. PICK r \in DOMAIN Replay : Replay[r].key = k
    BY <1>4, ReplayIs
  <2>2. r + m \in at(k)
    BY <1>1, <2>1, ReplayIs
  <2>3. at(k) \subseteq 1..(m + l)
    BY <1>1
  <2> HIDE DEF at
  <2>4. \E i \in at(k) : \A j \in at(k) : j <= i
    <3>1. PICK T : T = at(k)
      OBVIOUS
    <3>2. m + l \in Nat /\ T \subseteq 1..(m + l) /\ T # {}
      BY <1>1, <2>2, <2>3, <3>1
    <3>3. \E i \in T : \A j \in T : j <= i
      BY <3>2, GreatestOf
    <3> QED BY <3>1, <3>3
  <2>5. PICK i : i = CHOOSE x \in at(k) : \A j \in at(k) : j <= x
    OBVIOUS
  <2>6. i \in at(k) /\ \A j \in at(k) : j <= i
    BY <2>4, <2>5
  <2>7. i \in (m + 1)..(m + l) /\ Flushed[i].key = k
    <3>1. r + m <= i /\ m + 1 <= r + m
      BY <1>1, <2>1, <2>2, <2>6
    <3>2. i \in 1..(m + l)
      BY <2>3, <2>6
    <3> QED BY <1>1, <2>6, <3>1, <3>2 DEF at
  <2>8. Flushed[i].policy = blobPolicies[k]
    <3>1. PICK r2 \in DOMAIN Replay : Flushed[i] = Replay[r2]
      BY <1>1, <2>7
    <3>2. Replay[r2].key = k /\ Replay[r2].policy = blobPolicies[Replay[r2].key]
      BY <2>7, <3>1, ReplayIs
    <3> QED BY <3>1, <3>2
  <2> QED BY <2>2, <2>5, <2>8
<1> QED BY <1>3, <1>4

-----------------------------------------------------------------------------
\* A step that sends nothing and remembers nothing: a bridge may go, or one come
\* that knows nothing.
LEMMA SendStutters ==
  ASSUME LinkInv, SendInv,
         UNCHANGED <<outbox, blobPolicies, commands, gone_out>>,
         \/ UNCHANGED in_force /\ (Connected' => Connected)
            /\ (socket' # None /\ readyState'[socket'] = "connecting"
                  => socket # None /\ readyState[socket] = "connecting")
         \/ in_force' = [k \in Keys |-> None] /\ ~Connected'
  PROVE  SendInv'
<1>1. SendTypes'
  BY DEF SendInv, SendTypes
<1>2. NothingWaits'
  BY DEF SendInv, NothingWaits
<1>3. KeptIsRemembered'
  BY DEF SendInv, KeptIsRemembered
<1>4. FreshBridge'
  BY DEF SendInv, FreshBridge
<1>5. CommandsOnceInOrder'
  BY DEF SendInv, SendsAreKept, CommandsOnceInOrder
<1>6. PoliciesInForce'
  BY DEF SendInv, SendsAreKept, PoliciesInForce
<1> QED BY <1>1, <1>2, <1>3, <1>4, <1>5, <1>6 DEF SendInv, SendsAreKept

\* A new socket is connecting, to a bridge that knows nothing.
LEMMA SendOpens ==
  ASSUME LinkInv, SendInv, UNCHANGED <<outbox, blobPolicies, commands, gone_out>>,
         NEW ready \in [Sockets -> {"connecting", "open", "closing", "closed"}],
         \A s \in Sockets : ready[s] \notin {"connecting", "open"},
         Open(ready)
  PROVE  SendInv'
<1>1. socket' \in Sockets /\ readyState'[socket'] = "connecting"
  BY OpenSound
<1>2. ~Connected'
  BY <1>1 DEF Connected
<1>3. in_force' = [k \in Keys |-> None]
  BY DEF Open
<1> QED BY <1>2, <1>3, SendStutters

\* A socket is let go.
LEMMA SendLets ==
  ASSUME LinkInv, SendInv, UNCHANGED <<outbox, blobPolicies, commands, gone_out, in_force>>,
         socket' = None
  PROVE  SendInv'
<1>1. ~Connected' /\ ~(socket' # None /\ readyState'[socket'] = "connecting")
  BY DEF Connected
<1> QED BY <1>1, SendStutters

LEMMA StartSends == ASSUME LinkInv, SendInv, Start PROVE SendInv'
<1>1. CASE socket # None
  BY <1>1, SendStutters DEF Start, indiClient, bridge, Connected
<1>2. CASE socket = None
  <2>1. \A s \in Sockets : readyState[s] \notin {"connecting", "open"}
    BY <1>2, WsAssumption DEF LinkInv, NoOrphan
  <2>2. readyState \in [Sockets -> {"connecting", "open", "closing", "closed"}]
    BY DEF LinkInv, LinkTypes
  <2>3. Open(readyState) /\ UNCHANGED <<outbox, blobPolicies, commands, gone_out>>
    BY <1>2 DEF Start, indiClient
  <2> QED BY <2>1, <2>2, <2>3, SendOpens
<1> QED BY <1>1, <1>2

LEMMA CloseSends == ASSUME LinkInv, SendInv, Close PROVE SendInv'
BY SendLets DEF Close, bridge

LEMMA FailsSends == ASSUME LinkInv, SendInv, NEW s \in Sockets, Fails(s) PROVE SendInv'
<1>1. UNCHANGED <<socket, outbox, blobPolicies, commands, gone_out, in_force>>
  BY DEF Fails, connection, indiClient, bridge, history
<1>2. readyState' = [readyState EXCEPT ![s] = "closing"]
  BY DEF Fails
<1>3. readyState \in [Sockets -> {"connecting", "open", "closing", "closed"}]
      /\ socket \in Sockets \cup {None}
  BY DEF LinkInv, LinkTypes
<1>4. /\ Connected' => Connected
      /\ socket' # None /\ readyState'[socket'] = "connecting"
           => socket # None /\ readyState[socket] = "connecting"
  BY <1>1, <1>2, <1>3 DEF Connected
<1> QED BY <1>1, <1>4, SendStutters

LEMMA OldClosesSends == ASSUME LinkInv, SendInv, NEW s \in Sockets, OldCloses(s) PROVE SendInv'
<1>1. UNCHANGED <<socket, outbox, blobPolicies, commands, gone_out, in_force>>
  BY DEF OldCloses, connection, indiClient, bridge, history
<1>2. readyState' = [readyState EXCEPT ![s] = "closed"]
  BY DEF OldCloses
<1>3. readyState \in [Sockets -> {"connecting", "open", "closing", "closed"}]
      /\ socket \in Sockets \cup {None}
  BY DEF LinkInv, LinkTypes
<1>4. /\ Connected' => Connected
      /\ socket' # None /\ readyState'[socket'] = "connecting"
           => socket # None /\ readyState[socket] = "connecting"
  BY <1>1, <1>2, <1>3 DEF Connected
<1> QED BY <1>1, <1>4, SendStutters

LEMMA ClosesSends == ASSUME LinkInv, SendInv, Closes \/ ClosesForGood PROVE SendInv'
BY SendLets DEF Closes, ClosesForGood, bridge, history

LEMMA ClosesAndStartsSends == ASSUME LinkInv, SendInv, ClosesAndStarts PROVE SendInv'
<1> DEFINE ready == [readyState EXCEPT ![socket] = "closed"]
<1>1. /\ ready \in [Sockets -> {"connecting", "open", "closing", "closed"}]
      /\ \A s \in Sockets : ready[s] \notin {"connecting", "open"}
  BY DEF ClosesAndStarts, LinkInv, LinkTypes, NoOrphan
<1>2. Open(ready) /\ UNCHANGED <<outbox, blobPolicies, commands, gone_out>>
  BY DEF ClosesAndStarts
<1> HIDE DEF ready
<1> QED BY <1>1, <1>2, SendOpens

LEMMA TimerFiresSends == ASSUME LinkInv, SendInv, TimerFires PROVE SendInv'
<1>1. CASE closing \/ socket # None
  BY <1>1, SendStutters DEF TimerFires, indiClient, bridge, history, Connected
<1>2. CASE ~(closing \/ socket # None)
  <2>1. \A s \in Sockets : readyState[s] \notin {"connecting", "open"}
    BY <1>2, WsAssumption DEF LinkInv, NoOrphan
  <2>2. readyState \in [Sockets -> {"connecting", "open", "closing", "closed"}]
    BY DEF LinkInv, LinkTypes
  <2>3. Open(readyState) /\ UNCHANGED <<outbox, blobPolicies, commands, gone_out>>
    BY <1>2 DEF TimerFires, indiClient, history
  <2> QED BY <2>1, <2>2, <2>3, SendOpens
<1> QED BY <1>1, <1>2

LEMMA ReceiveSends == ASSUME LinkInv, SendInv, Receive PROVE SendInv'
BY SendStutters DEF Receive, connection, history, Connected

LEMMA ReceiveAndCloseSends == ASSUME LinkInv, SendInv, ReceiveAndClose PROVE SendInv'
BY SendLets DEF ReceiveAndClose

\* What was kept goes out, and then the policies: a bridge that knew nothing has them all.
LEMMA OpensSends == ASSUME LinkInv, SendInv, Opens PROVE SendInv'
<1>1. /\ gone_out' = gone_out \o Numbers(Flushed)
      /\ in_force' = Applied(in_force, Flushed)
      /\ outbox' = <<>>
      /\ UNCHANGED <<socket, blobPolicies, commands>>
  BY DEF Opens
<1>2. /\ SendTypes /\ KeptIsRemembered /\ in_force = [k \in Keys |-> None]
      /\ gone_out \o Numbers(outbox) = [n \in 1..commands |-> n]
  BY DEF SendInv, FreshBridge, Opens, SendsAreKept, CommandsOnceInOrder
<1>3. in_force' = blobPolicies
  BY <1>1, <1>2, FlushedIsInForce
<1>4. Numbers(Flushed) = Numbers(outbox)
  <2>1. outbox \in Seq(Frame) /\ Replay \in Seq(Frame)
    BY <1>2, ReplayIs DEF SendTypes
  <2>2. \A i \in DOMAIN Replay : NoCommand(Replay[i])
    BY <1>2, ReplayIs DEF NoCommand
  <2> QED BY <2>1, <2>2, NumbersOfRest DEF Flushed
<1>5. Numbers(outbox) \in Seq(Nat) /\ gone_out \in Seq(Nat)
  BY <1>2, NumbersType DEF SendTypes
<1>6. gone_out' \in Seq(Nat) /\ gone_out' = [n \in 1..commands |-> n]
  BY <1>1, <1>2, <1>4, <1>5
<1>7. gone_out' \o Numbers(<<>>) = gone_out'
  <2>1. PICK g \in Seq(Nat) : g = gone_out'
    BY <1>6
  <2>2. g \o <<>> = g
    BY <2>1, ConcatEmptySeq
  <2> QED BY <2>1, <2>2, NumbersOfNone
<1>8. CommandsOnceInOrder'
  BY <1>1, <1>6, <1>7 DEF CommandsOnceInOrder
<1>9. PoliciesInForce'
  BY <1>1, <1>3 DEF PoliciesInForce
<1>10. SendTypes'
  <2>1. outbox' \in Seq(Frame)
    BY <1>1
  <2> QED BY <1>1, <1>2, <1>3, <1>6, <2>1 DEF SendTypes
<1>11. NothingWaits' /\ KeptIsRemembered'
  BY <1>1 DEF NothingWaits, KeptIsRemembered
<1>12. FreshBridge'
  <2>1. readyState' = [readyState EXCEPT ![socket] = "open"] /\ socket # None
    BY DEF Opens
  <2>2. readyState'[socket'] = "open"
    BY <1>1, <2>1 DEF LinkInv, LinkTypes
  <2> QED BY <2>2 DEF FreshBridge
<1> QED BY <1>8, <1>9, <1>10, <1>11, <1>12 DEF SendInv, SendsAreKept

\* One more number at the end.
LEMMA OneMore ==
  ASSUME NEW a \in Seq(Nat), NEW b \in Seq(Nat), NEW c \in Nat,
         a \o b = [n \in 1..c |-> n]
  PROVE  a \o Append(b, c + 1) = [n \in 1..(c + 1) |-> n]
<1>1. Len(a) + Len(b) = c /\ Len(a) \in Nat /\ Len(b) \in Nat
  <2>1. Len(a \o b) = Len(a) + Len(b) /\ DOMAIN (a \o b) = 1..Len(a \o b)
        /\ Len(a) \in Nat /\ Len(b) \in Nat
    OBVIOUS
  <2>2. DOMAIN (a \o b) = 1..c
    OBVIOUS
  <2> QED BY <2>1, <2>2
<1> DEFINE s == a \o Append(b, c + 1)
<1>2. Len(s) = c + 1 /\ DOMAIN s = 1..(c + 1) /\ s \in Seq(Nat)
  BY <1>1
<1>3. \A i \in 1..c : s[i] = (a \o b)[i]
  <2>1. /\ Append(b, c + 1) \in Seq(Nat) /\ Len(Append(b, c + 1)) = Len(b) + 1
        /\ \A i \in 1..Len(b) : Append(b, c + 1)[i] = b[i]
    BY AppendProperties
  <2>2. \A i \in 1..(c + 1) :
          s[i] = IF i <= Len(a) THEN a[i] ELSE Append(b, c + 1)[i - Len(a)]
    BY <1>1, <2>1, ConcatProperties
  <2>3. \A i \in 1..(Len(a) + Len(b)) :
          (a \o b)[i] = IF i <= Len(a) THEN a[i] ELSE b[i - Len(a)]
    BY ConcatProperties
  <2>4. PICK d : d = a \o b
    OBVIOUS
  <2>5. PICK e : e = Append(b, c + 1)
    OBVIOUS
  <2> HIDE DEF s
  <2>6. \A i \in 1..c : d[i] = IF i <= Len(a) THEN a[i] ELSE b[i - Len(a)]
    BY <1>1, <2>3, <2>4
  <2>7. \A i \in 1..c : s[i] = IF i <= Len(a) THEN a[i] ELSE e[i - Len(a)]
    BY <1>1, <2>2, <2>5
  <2>8. \A i \in 1..Len(b) : e[i] = b[i]
    BY <2>1, <2>5
  <2>9. ASSUME NEW i \in 1..c PROVE s[i] = d[i]
    <3>1. CASE i <= Len(a)
      BY <2>6, <2>7, <3>1
    <3>2. CASE ~(i <= Len(a))
      <4>1. i - Len(a) \in 1..Len(b)
        BY <1>1, <3>2
      <4> QED BY <2>6, <2>7, <2>8, <3>2, <4>1
    <3> QED BY <3>1, <3>2
  <2> QED BY <2>4, <2>9
<1>4. \A i \in 1..c : s[i] = i
  BY <1>3
<1>5. s[c + 1] = c + 1
  BY <1>1
<1> HIDE DEF s
<1>6. s = [n \in 1..(c + 1) |-> n]
  <2>1. \A i \in 1..(c + 1) : s[i] = i
    BY <1>4, <1>5
  <2>2. s = [n \in 1..(c + 1) |-> s[n]]
    BY <1>2
  <2> QED BY <2>1, <2>2
<1> QED BY <1>6 DEF s

\* send(): the command is the next, straight out or behind what is kept.
LEMMA SendSends == ASSUME LinkInv, SendInv, Send PROVE SendInv'
<1> DEFINE f == Command(commands + 1)
<1>1. /\ f \in Frame /\ f.tag = "new" /\ f.number = commands + 1
      /\ commands \in Nat /\ commands' = commands + 1
      /\ outbox \in Seq(Frame) /\ gone_out \in Seq(Nat) /\ Numbers(outbox) \in Seq(Nat)
  BY NumbersType DEF Command, Frame, SendInv, SendTypes, Send
<1>2. /\ UNCHANGED <<socket, readyState, blobPolicies>>
      /\ SendFrame(f)
  BY DEF Send, indiClient
<1>3. gone_out \o Numbers(outbox) = [n \in 1..commands |-> n]
  BY DEF SendInv, SendsAreKept, CommandsOnceInOrder
<1> HIDE DEF f
<1>4. CASE Connected
  <2>1. gone_out' = gone_out \o Numbers(<<f>>) /\ in_force' = Applied(in_force, <<f>>)
        /\ outbox' = outbox
    BY <1>2, <1>4 DEF SendFrame
  <2>2. outbox = <<>> /\ Numbers(outbox) = <<>>
    BY <1>4, NumbersOfNone DEF SendInv, NothingWaits
  <2>3. Numbers(<<f>>) = <<commands + 1>>
    BY <1>1, NumbersOfOne
  <2>4. gone_out' = gone_out \o Append(<<>>, commands + 1)
    <3>1. Append(<<>>, commands + 1) = <<commands + 1>>
      BY <1>1
    <3> QED BY <2>1, <2>3, <3>1
  <2>5. <<>> \in Seq(Nat) /\ gone_out \o <<>> = [n \in 1..commands |-> n]
    <3>1. <<>> \in Seq(Nat)
      OBVIOUS
    <3> QED BY <1>3, <2>2, <3>1
  <2>6. gone_out' = [n \in 1..(commands + 1) |-> n]
    <3>1. PICK g \in Seq(Nat) : g = gone_out
      BY <1>1
    <3>2. PICK c \in Nat : c = commands
      BY <1>1
    <3>3. g \o <<>> = [n \in 1..c |-> n]
      BY <2>5, <3>1, <3>2
    <3>4. g \o Append(<<>>, c + 1) = [n \in 1..(c + 1) |-> n]
      BY <2>5, <3>3, OneMore
    <3> QED BY <2>4, <3>1, <3>2, <3>4
  <2>7. gone_out' \in Seq(Nat)
    BY <1>1, <2>6
  <2>8. CommandsOnceInOrder'
    <3>1. PICK g \in Seq(Nat) : g = gone_out'
      BY <2>7
    <3>2. g \o <<>> = g
      BY ConcatEmptySeq
    <3>3. gone_out' \o Numbers(outbox') = gone_out'
      BY <2>1, <2>2, <3>1, <3>2
    <3> QED BY <1>1, <2>6, <3>3 DEF CommandsOnceInOrder
  <2>9. in_force' = in_force
    <3>1. \A i \in DOMAIN <<f>> : <<f>>[i] = f
      OBVIOUS
    <3>2. \A i \in DOMAIN <<f>> : <<f>>[i].tag # "enableBLOB"
      BY <1>1, <3>1
    <3>3. in_force' = [k \in Keys |-> in_force[k]]
      BY <2>1, <3>2 DEF Applied
    <3> QED BY <3>3 DEF SendInv, SendTypes
  <2>10. SendTypes'
    <3>1. /\ outbox' \in Seq(Frame) /\ commands' \in Nat
          /\ blobPolicies' = blobPolicies
      BY <1>1, <1>2, <2>1
    <3> QED BY <2>7, <2>9, <3>1 DEF SendInv, SendTypes
  <2>11. NothingWaits' /\ KeptIsRemembered' /\ FreshBridge' /\ PoliciesInForce'
    BY <1>2, <2>1, <2>9
    DEF SendInv, SendsAreKept, NothingWaits, KeptIsRemembered, FreshBridge, PoliciesInForce,
        Connected
  <2> QED BY <2>8, <2>10, <2>11 DEF SendInv, SendsAreKept
<1>5. CASE ~Connected
  <2>1. outbox' = Append(outbox, f) /\ UNCHANGED <<gone_out, in_force>>
    BY <1>2, <1>5 DEF SendFrame
  <2>2. Numbers(outbox') = Append(Numbers(outbox), commands + 1)
    BY <1>1, <2>1, NumbersAppend
  <2>3. CommandsOnceInOrder'
    <3>1. gone_out \o Append(Numbers(outbox), commands + 1) = [n \in 1..(commands + 1) |-> n]
      <4>1. PICK g \in Seq(Nat) : g = gone_out
        BY <1>1
      <4>2. PICK c \in Nat : c = commands
        BY <1>1
      <4>3. PICK b \in Seq(Nat) : b = Numbers(outbox)
        BY <1>1
      <4>4. g \o b = [n \in 1..c |-> n]
        BY <1>3, <4>1, <4>2, <4>3
      <4>5. g \o Append(b, c + 1) = [n \in 1..(c + 1) |-> n]
        <5>1. \A x, y \in Seq(Nat), z \in Nat :
                x \o y = [n \in 1..z |-> n] => x \o Append(y, z + 1) = [n \in 1..(z + 1) |-> n]
          BY OneMore
        <5>2. g \in Seq(Nat) /\ b \in Seq(Nat) /\ c \in Nat
          BY <4>1, <4>2, <4>3
        <5>3. g \o b = [n \in 1..c |-> n] => g \o Append(b, c + 1) = [n \in 1..(c + 1) |-> n]
          BY <5>1, <5>2, ZenonT(60)
        <5> QED BY <4>4, <5>3, Zenon
      <4> QED BY <4>1, <4>2, <4>3, <4>5
    <3> QED BY <1>1, <2>1, <2>2, <3>1 DEF CommandsOnceInOrder
  <2>4. SendTypes'
    BY <1>1, <1>2, <2>1 DEF SendInv, SendTypes
  <2>5. ~Connected'
    BY <1>2, <1>5 DEF Connected
  <2>6. KeptIsRemembered'
    <3>1. \A i \in DOMAIN outbox' :
            (i \in DOMAIN outbox /\ outbox'[i] = outbox[i]) \/ outbox'[i] = f
      BY <1>1, <2>1
    <3> QED BY <1>1, <1>2, <3>1 DEF SendInv, KeptIsRemembered
  <2>7. FreshBridge'
    BY <1>2, <2>1 DEF SendInv, FreshBridge
  <2> QED BY <2>3, <2>4, <2>5, <2>6, <2>7 DEF SendInv, SendsAreKept, NothingWaits, PoliciesInForce
<1> QED BY <1>4, <1>5

\* enableBlob(): remembered, and said now or when there is a socket.
LEMMA SendPolicySends ==
  ASSUME LinkInv, SendInv, NEW k \in Keys, NEW p \in Policies, SendPolicy(k, p)
  PROVE  SendInv'
<1> DEFINE f == EnableBlob(k, p)
<1>1. /\ f \in Frame /\ f.tag = "enableBLOB" /\ f.key = k /\ f.policy = p
      /\ p # None
      /\ outbox \in Seq(Frame) /\ gone_out \in Seq(Nat) /\ Numbers(outbox) \in Seq(Nat)
  BY NumbersType, WsAssumption DEF EnableBlob, Frame, SendInv, SendTypes
<1>2. /\ UNCHANGED <<socket, readyState, commands>>
      /\ blobPolicies' = [blobPolicies EXCEPT ![k] = p]
      /\ SendFrame(f)
  BY DEF SendPolicy
<1>3. gone_out \o Numbers(outbox) = [n \in 1..commands |-> n]
  BY DEF SendInv, SendsAreKept, CommandsOnceInOrder
<1>4. /\ blobPolicies' \in [Keys -> Policies \cup {None}]
      /\ blobPolicies'[k] = p
      /\ \A j \in Keys : j # k => blobPolicies'[j] = blobPolicies[j]
  BY <1>2 DEF SendInv, SendTypes
<1> HIDE DEF f
<1>5. CASE Connected
  <2>1. gone_out' = gone_out \o Numbers(<<f>>) /\ in_force' = Applied(in_force, <<f>>)
        /\ outbox' = outbox
    BY <1>2, <1>5 DEF SendFrame
  <2>2. outbox = <<>>
    BY <1>5 DEF SendInv, NothingWaits
  <2>3. Numbers(<<f>>) = <<>>
    BY <1>1, NumbersOfOne
  <2>4. gone_out' = gone_out
    <3>1. gone_out \in Seq(Nat)
      BY <1>1
    <3>2. gone_out \o <<>> = gone_out
      BY <3>1, ConcatEmptySeq, Zenon
    <3> QED BY <2>1, <2>3, <3>2, Zenon
  <2>5. in_force = blobPolicies /\ in_force \in [Keys -> Policies \cup {None}]
    BY <1>5 DEF SendInv, SendTypes, SendsAreKept, PoliciesInForce
  <2>6. in_force' = blobPolicies'
    <3>1. DOMAIN <<f>> = {1} /\ <<f>>[1] = f
      OBVIOUS
    <3>2. \A j \in Keys : Applied(in_force, <<f>>)[j] = blobPolicies'[j]
      <4> SUFFICES ASSUME NEW j \in Keys PROVE Applied(in_force, <<f>>)[j] = blobPolicies'[j]
        OBVIOUS
      <4> DEFINE at == {i \in DOMAIN <<f>> : <<f>>[i].tag = "enableBLOB" /\ <<f>>[i].key = j}
      <4>1. Applied(in_force, <<f>>)[j] =
              IF at = {} THEN in_force[j]
              ELSE <<f>>[CHOOSE i \in at : \A l \in at : l <= i].policy
        BY DEF Applied
      <4>2. CASE j = k
        <5>1. at = {1}
          BY <1>1, <3>1, <4>2
        <5> HIDE DEF at
        <5>2. (CHOOSE i \in at : \A l \in at : l <= i) = 1
          BY <5>1
        <5> QED BY <1>1, <1>4, <3>1, <4>1, <4>2, <5>1, <5>2
      <4>3. CASE j # k
        <5>1. at = {}
          BY <1>1, <3>1, <4>3
        <5> QED BY <1>4, <2>5, <4>1, <4>3, <5>1
      <4> QED BY <4>2, <4>3
    <3>3. Applied(in_force, <<f>>) = [j \in Keys |-> Applied(in_force, <<f>>)[j]]
      BY DEF Applied
    <3> QED BY <1>4, <2>1, <3>2, <3>3
  <2>7. SendTypes'
    BY <1>1, <1>2, <1>4, <2>1, <2>4, <2>6 DEF SendInv, SendTypes
  <2>8. CommandsOnceInOrder'
    BY <1>2, <1>3, <2>1, <2>4 DEF CommandsOnceInOrder
  <2>9. NothingWaits' /\ KeptIsRemembered' /\ PoliciesInForce'
    BY <2>1, <2>2, <2>6 DEF NothingWaits, KeptIsRemembered, PoliciesInForce
  <2>10. FreshBridge'
    BY <1>2, <1>5 DEF FreshBridge, Connected
  <2> QED BY <2>7, <2>8, <2>9, <2>10 DEF SendInv, SendsAreKept
<1>6. CASE ~Connected
  <2>1. outbox' = Append(outbox, f) /\ UNCHANGED <<gone_out, in_force>>
    BY <1>2, <1>6 DEF SendFrame
  <2>2. Numbers(outbox') = Numbers(outbox)
    BY <1>1, <2>1, NumbersAppend
  <2>3. CommandsOnceInOrder'
    BY <1>2, <1>3, <2>1, <2>2 DEF CommandsOnceInOrder
  <2>4. SendTypes'
    BY <1>1, <1>2, <1>4, <2>1 DEF SendInv, SendTypes
  <2>5. ~Connected'
    BY <1>2, <1>6 DEF Connected
  <2>6. KeptIsRemembered'
    <3>1. \A i \in DOMAIN outbox' : (i \in DOMAIN outbox /\ outbox'[i] = outbox[i]) \/ outbox'[i] = f
      BY <1>1, <2>1
    <3>2. \A i \in DOMAIN outbox : outbox[i].tag = "enableBLOB" => outbox[i].key \in Keys
      BY <1>1 DEF Frame
    <3> QED BY <1>1, <1>4, <3>1, <3>2 DEF SendInv, KeptIsRemembered
  <2>7. FreshBridge'
    BY <1>2, <2>1 DEF SendInv, FreshBridge
  <2> QED BY <2>3, <2>4, <2>5, <2>6, <2>7 DEF SendInv, SendsAreKept, NothingWaits, PoliciesInForce
<1> QED BY <1>5, <1>6

LEMMA SendInit == Init => SendInv
<1> SUFFICES ASSUME Init PROVE SendInv
  OBVIOUS
<1>1. SendTypes
  BY DEF Init, SendTypes
<1>2. NothingWaits /\ KeptIsRemembered /\ FreshBridge
  BY DEF Init, NothingWaits, KeptIsRemembered, FreshBridge
<1>3. CommandsOnceInOrder
  <2>1. gone_out = <<>> /\ Numbers(outbox) = <<>> /\ commands = 0
    BY NumbersOfNone DEF Init
  <2>2. <<>> \o <<>> = [n \in 1..0 |-> n]
    OBVIOUS
  <2> QED BY <2>1, <2>2 DEF CommandsOnceInOrder
<1>4. PoliciesInForce
  BY DEF Init, PoliciesInForce
<1> QED BY <1>1, <1>2, <1>3, <1>4 DEF SendInv, SendsAreKept

LEMMA SendStep == LinkInv /\ SendInv /\ [Next]_vars => SendInv'
<1> SUFFICES ASSUME LinkInv, SendInv, [Next]_vars PROVE SendInv'
  OBVIOUS
<1>1. CASE Start
  BY <1>1, StartSends
<1>2. CASE Close
  BY <1>2, CloseSends
<1>3. CASE Opens
  BY <1>3, OpensSends
<1>4. CASE SocketEvent
  BY <1>4, ClosesSends, ClosesAndStartsSends, OldClosesSends DEF SocketEvent
<1>5. CASE TimerFires
  BY <1>5, TimerFiresSends
<1>6. CASE \E s \in Sockets : Fails(s)
  BY <1>6, FailsSends
<1>7. CASE Receive
  BY <1>7, ReceiveSends
<1>8. CASE ReceiveAndClose
  BY <1>8, ReceiveAndCloseSends
<1>9. CASE Send
  BY <1>9, SendSends
<1>10. CASE \E k \in Keys, p \in Policies : SendPolicy(k, p)
  BY <1>10, SendPolicySends
<1>11. CASE UNCHANGED vars
  BY <1>11, SendStutters DEF vars, connection, indiClient, bridge, history, Connected
<1> QED
  BY <1>1, <1>2, <1>3, <1>4, <1>5, <1>6, <1>7, <1>8, <1>9, <1>10, <1>11 DEF Next

\* Every command goes out once and in order or is still kept, and a connected bridge
\* holds the policies the client remembers, over any number of sockets.
THEOREM SendsReachABridge == Spec => []SendsAreKept
<1>1. SendInv => SendsAreKept
  BY DEF SendInv
<1> QED
  BY <1>1, SendInit, SendStep, LinkInvariant, PTL DEF Spec

-----------------------------------------------------------------------------
(* The types.                                                              *)

FlagTypes == closing \in BOOLEAN /\ reconnectTimer \in BOOLEAN

CountTypes == calls \in Nat /\ sends \in Nat

LEMMA FlagTypesStep == FlagTypes /\ [Next]_vars => FlagTypes'
<1> SUFFICES ASSUME FlagTypes, [Next]_vars PROVE FlagTypes'
  OBVIOUS
<1>1. CASE Start \/ Close
  BY <1>1 DEF Start, Close, FlagTypes
<1>2. CASE Opens \/ TimerFires \/ Receive \/ \E s \in Sockets : Fails(s)
  BY <1>2 DEF Opens, TimerFires, Receive, Fails, connection, history, FlagTypes
<1>3. CASE SocketEvent
  BY <1>3 DEF SocketEvent, Closes, ClosesAndStarts, ClosesForGood, OldCloses, Reconnects,
              connection, history, FlagTypes
<1>4. CASE ReceiveAndClose
  BY <1>4 DEF ReceiveAndClose, FlagTypes
<1>5. CASE Send \/ \E k \in Keys, p \in Policies : SendPolicy(k, p)
  BY <1>5 DEF Send, SendPolicy, FlagTypes
<1>6. CASE UNCHANGED vars
  BY <1>6 DEF vars, connection, history, FlagTypes
<1> QED BY <1>1, <1>2, <1>3, <1>4, <1>5, <1>6 DEF Next

LEMMA CountTypesStep == CountTypes /\ [Next]_vars => CountTypes'
<1> SUFFICES ASSUME CountTypes, [Next]_vars PROVE CountTypes'
  OBVIOUS
<1>1. CASE Start \/ Close
  BY <1>1 DEF Start, Close, CountTypes
<1>2. CASE Opens \/ TimerFires \/ Receive \/ \E s \in Sockets : Fails(s)
  BY <1>2 DEF Opens, TimerFires, Receive, Fails, connection, history, CountTypes
<1>3. CASE SocketEvent
  BY <1>3 DEF SocketEvent, Closes, ClosesAndStarts, ClosesForGood, OldCloses, Reconnects,
              connection, history, CountTypes
<1>4. CASE ReceiveAndClose
  BY <1>4 DEF ReceiveAndClose, CountTypes
<1>5. CASE Send \/ \E k \in Keys, p \in Policies : SendPolicy(k, p)
  BY <1>5 DEF Send, SendPolicy, CountTypes
<1>6. CASE UNCHANGED vars
  BY <1>6 DEF vars, connection, history, CountTypes
<1> QED BY <1>1, <1>2, <1>3, <1>4, <1>5, <1>6 DEF Next

\* The variables have their types, for any sockets, keys and policies.
THEOREM TypeCorrect == Spec => []TypeOK
<1>1. Init => FlagTypes /\ CountTypes
  <2>1. Init => FlagTypes
    BY DEF Init, FlagTypes
  <2>2. Init => CountTypes
    BY DEF Init, CountTypes
  <2> QED BY <2>1, <2>2
<1>2. LinkInv /\ SendInv /\ FlagTypes /\ CountTypes => TypeOK
  BY DEF LinkInv, LinkTypes, SendInv, SendTypes, FlagTypes, CountTypes, TypeOK
<1> QED
  BY <1>1, <1>2, FlagTypesStep, CountTypesStep, SendInit, SendStep, LinkInvariant, PTL DEF Spec

=============================================================================
