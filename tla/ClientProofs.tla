---------------------------- MODULE ClientProofs ----------------------------
(***************************************************************************)
(* Proofs about Client, for any keys, policies, waiters, values and bounds. *)
(***************************************************************************)
EXTENDS Client, FiniteSetTheorems, SequenceTheorems, TLAPS

-----------------------------------------------------------------------------
(* The inductive invariant.                                                *)

\* Between two connections there is nothing to send and nobody to send it.
DownIsEmpty ==
  loop \in {"unstarted", "connecting", "closing", "unannouncing", "sleeping"} =>
    ~connected /\ outbox = <<>>

UpIsConnected ==
  loop \in {"announcing", "reading", "dispatching", "stopping"} => connected

\* The writer lives within _run_connection.
WriterIsRun == writer # "none" => loop \in {"reading", "dispatching", "stopping"}

Shape == DownIsEmpty /\ UpIsConnected /\ WriterIsRun

\* Only aclose cancels the loop.
CancelledByClose == cancelled => phase # "open"

\* A waiter parked on what the cache holds is about to be called.
ParkedIsUncalled ==
  phase = "open" =>
    \A w \in Waiters :
      waiting[w] = "parked" => store # want[w] \/ (loop = "dispatching" /\ w \in uncalled)

-----------------------------------------------------------------------------
(* Lemmas about the operators.                                             *)

\* What the constructors of messages return is a message of the connection asked for.
LEMMA MessagesTyped ==
  ASSUME TypeOK
  PROVE  /\ New \in Message
         /\ \A k \in Keys, p \in Policies : EnableBlob(k, p, conn) \in Message
BY DEF TypeOK, New, EnableBlob, Message

\* A handshake is a sequence of messages for its connection that begins with
\* a getProperties, and the outbox has room for it.
LEMMA HandshakeTyped ==
  ASSUME TypeOK, NEW order \in SetToSeqs(Recorded), NEW c \in Nat
  PROVE  /\ Handshake(order, c) \in Seq(Message)
         /\ Len(Handshake(order, c)) <= MaxOutbox
         /\ \A i \in DOMAIN Handshake(order, c) : Handshake(order, c)[i].on = c
         /\ Handshake(order, c)[1].tag = "getProperties"
         /\ Handshake(order, c) # <<>>
<1> DEFINE head == <<[tag |-> "getProperties", on |-> c]>>
           tail == [i \in DOMAIN order |-> EnableBlob(order[i], policies[order[i]], c)]
           n == Cardinality(Recorded)
<1>1. Recorded \subseteq Keys /\ IsFiniteSet(Recorded) /\ n \in Nat /\ n <= Cardinality(Keys)
      /\ Cardinality(Keys) \in Nat
  BY ClientAssumption, FS_Subset, FS_CardinalityType DEF Recorded
<1>2. order \in [1 .. n -> Recorded]
  BY DEF SetToSeqs
<1>3. \A k \in Recorded : policies[k] \in Policies
  BY <1>1 DEF Recorded, TypeOK
<1>4. tail \in [1 .. n -> Message] /\ \A i \in 1 .. n : tail[i].on = c
  BY <1>1, <1>2, <1>3 DEF EnableBlob, Message
<1>5. tail \in Seq(Message) /\ Len(tail) = n
  <2> HIDE DEF tail
  <2> QED BY <1>1, <1>4, SeqDef, LenProperties
<1>6. head \in Seq(Message) /\ Len(head) = 1 /\ head[1].on = c /\ head[1].tag = "getProperties"
  BY DEF Message
<1>7. Handshake(order, c) = head \o tail
  BY DEF Handshake
<1> HIDE DEF head, tail, n
<1>8. head \o tail \in Seq(Message) /\ Len(head \o tail) = 1 + n
  BY <1>1, <1>5, <1>6, ConcatProperties, SMTT(60)
<1>9. \A i \in 1 .. (1 + n) : (head \o tail)[i] = IF i = 1 THEN head[1] ELSE tail[i - 1]
  <2> TAKE i \in 1 .. (1 + n)
  <2>1. 1 \in Nat /\ i \in 1 .. Len(head) + Len(tail)
    BY <1>1, <1>5, <1>6
  <2>2. (head \o tail)[i] = IF i <= Len(head) THEN head[i] ELSE tail[i - Len(head)]
    BY <2>1, <1>5, <1>6, ConcatProperties
  <2> QED BY <2>1, <2>2, <1>6
<1>10. DOMAIN (head \o tail) = 1 .. (1 + n)
  BY <1>8, LenProperties
<1>11. \A i \in 1 .. (1 + n) : (head \o tail)[i].on = c
  <2> TAKE i \in 1 .. (1 + n)
  <2>1. CASE i = 1
    BY <2>1, <1>1, <1>6, <1>9
  <2>2. CASE i # 1
    <3>1. i - 1 \in 1 .. n
      BY <2>2, <1>1
    <3> QED BY <2>2, <3>1, <1>4, <1>9
  <2> QED BY <2>1, <2>2
<1>12. (head \o tail)[1].tag = "getProperties"
  BY <1>1, <1>6, <1>9
<1>13. 1 + n <= MaxOutbox
  BY <1>1, ClientAssumption
<1>14. head \o tail # <<>>
  BY <1>1, <1>8
<1> QED BY <1>7, <1>8, <1>10, <1>11, <1>12, <1>13, <1>14

\* What send and enable_blob put in the outbox fits it.
LEMMA EnqueueTyped ==
  ASSUME TypeOK, NEW m \in Message, Enqueue(m)
  PROVE  outbox' \in Seq(Message) /\ Len(outbox') <= MaxOutbox
BY ClientAssumption, AppendProperties DEF TypeOK, Enqueue, HasRoom

-----------------------------------------------------------------------------
(* Every variable keeps its type.                                          *)

\* Every step keeps the types and the shape of the outbox that the types need.
LEMMA TypeStep ==
  ASSUME TypeOK, Shape, [Next]_vars
  PROVE  TypeOK'
<1> USE DEF TypeOK, tasks, link, cache, socket, history, Goto, At
<1>1. CASE Start
  BY <1>1 DEF Start
<1>2. CASE ConnectFails
  BY <1>2 DEF ConnectFails
<1>3. CASE Announced
  BY <1>3 DEF Announced, Shape, WriterIsRun
<1>4. CASE Dispatched
  BY <1>4 DEF Dispatched
<1>5. CASE ReadEnds
  BY <1>5 DEF ReadEnds
<1>6. CASE Closed
  BY <1>6 DEF Closed
<1>7. CASE Unannounced
  BY <1>7 DEF Unannounced
<1>8. CASE Slept
  BY <1>8 DEF Slept
<1>9. CASE CancelEnds
  BY <1>9 DEF CancelEnds
<1>10. CASE CancelReader
  BY <1>10 DEF CancelReader
<1>11. ASSUME NEW order \in SetToSeqs(Recorded), Connects(order)
      PROVE  TypeOK'
  <2>1. conn + 1 \in Nat /\ outbox = <<>>
    BY <1>11 DEF Connects, Shape, DownIsEmpty
  <2>2. Handshake(order, conn + 1) \in Seq(Message)
        /\ Len(Handshake(order, conn + 1)) <= MaxOutbox
    BY <2>1, HandshakeTyped
  <2>3. outbox' = Handshake(order, conn + 1)
    BY <1>11, <2>1, <2>2, ConcatEmptySeq DEF Connects
  <2> QED BY <1>11, <2>1, <2>2, <2>3 DEF Connects
<1>12. CASE (\E v \in Values \cup {None} : Receive(v)) \/ \E w \in Waiters : CallWaiter(w)
  BY <1>12 DEF Receive, CallWaiter
<1>13. CASE Stopped \/ CancelStopping
  <2>1. outbox' = <<>> /\ writer' = "none" /\ writing' = None
    BY <1>13 DEF Stopped, CancelStopping, DropsLink
  <2>2. outbox' \in Seq(Message) /\ Len(outbox') <= MaxOutbox
    BY <2>1, ClientAssumption
  <2>3. CASE Stopped
    BY <2>1, <2>2, <2>3 DEF Stopped, DropsLink
  <2>4. CASE CancelStopping
    BY <2>1, <2>2, <2>4 DEF CancelStopping, DropsLink
  <2> QED BY <1>13, <2>3, <2>4
<1>14. CASE Take
  <2>1. outbox # <<>> /\ writing' = Head(outbox) /\ outbox' = Tail(outbox)
    BY <1>14 DEF Take
  <2>2. Head(outbox) \in Message /\ outbox' \in Seq(Message) /\ Len(outbox') <= MaxOutbox
    BY <2>1, HeadTailProperties, LenProperties, ClientAssumption
  <2>3. Head(outbox) # None
    BY <2>2, ClientAssumption
  <2> QED BY <1>14, <2>1, <2>2, <2>3 DEF Take
<1>15. CASE Write \/ WriterDies
  BY <1>15 DEF Write, WriterDies, Message
<1>16. CASE Send
  BY <1>16, MessagesTyped, EnqueueTyped DEF Send
<1>17. ASSUME NEW k \in Keys, NEW p \in Policies, EnableBLOB(k, p)
      PROVE  TypeOK'
  BY <1>17, MessagesTyped, EnqueueTyped DEF EnableBLOB, Record
<1>18. CASE Aclose \/ AcloseEnds
  BY <1>18 DEF Aclose, AcloseEnds
<1>19. ASSUME NEW w \in Waiters, WaitEnds(w) \/ \E v \in Values : WaitFor(w, v)
       PROVE  TypeOK'
  BY <1>19 DEF WaitEnds, WaitFor
<1>20. CASE UNCHANGED vars
  BY <1>20 DEF vars
<1> QED
  BY <1>1, <1>2, <1>3, <1>4, <1>5, <1>6, <1>7, <1>8, <1>9, <1>10, <1>11,
     <1>12, <1>13, <1>14, <1>15, <1>16, <1>17, <1>18, <1>19, <1>20 DEF Next, Loop

\* Every step keeps the relation between the loop, the writer and the outbox.
LEMMA ShapeStep ==
  ASSUME TypeOK, Shape, [Next]_vars
  PROVE  Shape'
<1> USE DEF Shape, DownIsEmpty, UpIsConnected, WriterIsRun, TypeOK, tasks, link, Goto, At
<1>1. CASE Loop
  BY <1>1 DEF Loop, ConnectFails, Connects, Announced, Receive, CallWaiter, Dispatched, ReadEnds,
              Stopped, Closed, Unannounced, Slept, CancelEnds, CancelReader, CancelStopping,
              DropsLink
<1>2. CASE Start \/ Take \/ Write \/ WriterDies \/ Aclose \/ AcloseEnds
  BY <1>2 DEF Start, Take, Write, WriterDies, Aclose, AcloseEnds
<1>3. CASE Send \/ \E k \in Keys, p \in Policies : EnableBLOB(k, p)
  BY <1>3 DEF Send, EnableBLOB, Enqueue
<1>4. CASE \E w \in Waiters : WaitEnds(w) \/ \E v \in Values : WaitFor(w, v)
  BY <1>4 DEF WaitEnds, WaitFor
<1>5. CASE UNCHANGED vars
  BY <1>5 DEF vars
<1> QED BY <1>1, <1>2, <1>3, <1>4, <1>5 DEF Next

\* The inductive invariant: the types, and how the loop, the writer and the
\* outbox of IndiClient go together.
THEOREM InvariantHolds == Spec => [](TypeOK /\ Shape)
<1>1. Init => TypeOK /\ Shape
  <2> SUFFICES ASSUME Init  PROVE TypeOK /\ Shape
    OBVIOUS
  <2>1. outbox \in Seq(Message) /\ Len(outbox) <= MaxOutbox
    BY ClientAssumption DEF Init
  <2>2. TypeOK
    BY <2>1 DEF Init, TypeOK
  <2>3. Shape
    BY DEF Init, Shape, DownIsEmpty, UpIsConnected, WriterIsRun
  <2> QED BY <2>2, <2>3
<1>2. TypeOK /\ Shape /\ [Next]_vars => (TypeOK /\ Shape)'
  BY TypeStep, ShapeStep
<1> QED BY <1>1, <1>2, PTL DEF Spec

\* Every variable keeps its type; the outbox never holds more than it may.
THEOREM TypeCorrect == Spec => []TypeOK
BY InvariantHolds, PTL

-----------------------------------------------------------------------------
(* What is queued on a connection is written on it or not at all.          *)

\* A step queues for the connection that is up or empties the queue.
LEMMA OutlivesStep ==
  ASSUME TypeOK, Shape, NothingOutlivesItsConnection, [Next]_vars
  PROVE  NothingOutlivesItsConnection'
<1> USE DEF NothingOutlivesItsConnection, tasks, link, cache, socket, history
<1>1. ASSUME NEW order \in SetToSeqs(Recorded), Connects(order)
      PROVE  NothingOutlivesItsConnection'
  <2>1. outbox = <<>> /\ writing = None /\ conn + 1 \in Nat
    BY <1>1 DEF Connects, At, Shape, DownIsEmpty, WriterIsRun, TypeOK
  <2>2. Handshake(order, conn + 1) \in Seq(Message)
        /\ \A i \in DOMAIN Handshake(order, conn + 1) : Handshake(order, conn + 1)[i].on = conn + 1
    BY <2>1, HandshakeTyped
  <2>3. outbox' = Handshake(order, conn + 1)
    BY <1>1, <2>1, <2>2, ConcatEmptySeq DEF Connects
  <2> QED BY <1>1, <2>1, <2>2, <2>3 DEF Connects
<1>2. CASE Stopped \/ CancelStopping
  BY <1>2 DEF Stopped, CancelStopping, DropsLink
<1>3. CASE Take
  <2>1. outbox \in Seq(Message) /\ outbox # <<>>
    BY <1>3 DEF Take, TypeOK
  <2>2. /\ Head(outbox) = outbox[1] /\ 1 \in DOMAIN outbox
        /\ \A i \in DOMAIN Tail(outbox) : Tail(outbox)[i] = outbox[i + 1] /\ i + 1 \in DOMAIN outbox
    BY <2>1, HeadTailProperties, LenProperties
  <2> QED BY <1>3, <2>2 DEF Take
<1>4. CASE Write \/ WriterDies
  BY <1>4 DEF Write, WriterDies, TypeOK
<1>5. ASSUME NEW m \in Message, m.on = conn, Enqueue(m), UNCHANGED <<socket, writing>>
      PROVE  NothingOutlivesItsConnection'
  <2>1. CASE outbox' = outbox
    BY <1>5, <2>1
  <2>2. CASE outbox' = Append(outbox, m)
    <3>1. \A i \in DOMAIN Append(outbox, m) : Append(outbox, m)[i].on = conn
      BY <1>5, AppendProperties, LenProperties DEF TypeOK
    <3> QED BY <1>5, <2>2, <3>1
  <2> QED BY <1>5, <2>1, <2>2 DEF Enqueue
<1>6. CASE Send
  <2>1. New \in Message /\ New.on = conn
    BY MessagesTyped DEF New
  <2> QED BY <1>5, <1>6, <2>1 DEF Send
<1>7. ASSUME NEW k \in Keys, NEW p \in Policies, EnableBLOB(k, p)
      PROVE  NothingOutlivesItsConnection'
  <2>1. EnableBlob(k, p, conn) \in Message /\ EnableBlob(k, p, conn).on = conn
    BY MessagesTyped DEF EnableBlob
  <2> QED BY <1>5, <1>7, <2>1 DEF EnableBLOB
<1>8. CASE UNCHANGED <<outbox, writing, socket>>
  BY <1>8
<1>9. CASE Start \/ ConnectFails \/ Announced \/ Dispatched \/ ReadEnds \/ Closed \/ Unannounced
           \/ Slept \/ CancelEnds \/ CancelReader \/ Aclose \/ AcloseEnds \/ UNCHANGED vars
  BY <1>8, <1>9 DEF Start, ConnectFails, Announced, Dispatched, ReadEnds, Closed, Unannounced,
                    Slept, CancelEnds, CancelReader, Aclose, AcloseEnds, vars
<1>10. CASE (\E v \in Values \cup {None} : Receive(v)) \/ \E w \in Waiters : CallWaiter(w)
  BY <1>8, <1>10 DEF Receive, CallWaiter
<1>11. CASE \E w \in Waiters : WaitEnds(w) \/ \E v \in Values : WaitFor(w, v)
  BY <1>8, <1>11 DEF WaitEnds, WaitFor
<1> QED BY <1>1, <1>2, <1>3, <1>4, <1>6, <1>7, <1>9, <1>10, <1>11 DEF Next, Loop

\* send: whatever is written was queued while the connection it is written on
\* was up, for any number of connections and of messages in the outbox.
THEOREM OutlivesCorrect == Spec => []NothingOutlivesItsConnection
<1>1. Init => NothingOutlivesItsConnection
  BY DEF Init, NothingOutlivesItsConnection
<1>2. TypeOK /\ Shape /\ NothingOutlivesItsConnection /\ [Next]_vars => NothingOutlivesItsConnection'
  BY OutlivesStep
<1> QED BY <1>1, <1>2, InvariantHolds, PTL DEF Spec

-----------------------------------------------------------------------------
(* No wait is missed.                                                      *)

\* A value that matches is seen at once or by the callback that is due.
LEMMA MissedStep ==
  ASSUME TypeOK, CancelledByClose, ParkedIsUncalled, [Next]_vars
  PROVE  (CancelledByClose /\ ParkedIsUncalled)'
<1> USE DEF CancelledByClose, ParkedIsUncalled, TypeOK, tasks, cache, Goto, At
<1>1. CASE Start \/ ConnectFails \/ (\E order \in SetToSeqs(Recorded) : Connects(order)) \/ Announced
           \/ ReadEnds \/ Stopped \/ Closed \/ Unannounced \/ Slept
  BY <1>1 DEF Start, ConnectFails, Connects, Announced, ReadEnds, Stopped, Closed, Unannounced, Slept
<1>2. ASSUME NEW v \in Values \cup {None}, Receive(v)
      PROVE  (CancelledByClose /\ ParkedIsUncalled)'
  BY <1>2 DEF Receive
<1>3. ASSUME NEW w \in Waiters, CallWaiter(w)
      PROVE  (CancelledByClose /\ ParkedIsUncalled)'
  BY <1>3 DEF CallWaiter
<1>4. CASE Dispatched
  BY <1>4 DEF Dispatched
<1>5. CASE CancelEnds \/ CancelReader \/ CancelStopping
  BY <1>5 DEF CancelEnds, CancelReader, CancelStopping
<1>6. CASE Aclose \/ AcloseEnds
  BY <1>6 DEF Aclose, AcloseEnds
<1>7. CASE Take \/ Write \/ WriterDies \/ Send \/ \E k \in Keys, p \in Policies : EnableBLOB(k, p)
  BY <1>7 DEF Take, Write, WriterDies, Send, EnableBLOB
<1>8. ASSUME NEW w \in Waiters, WaitEnds(w)
      PROVE  (CancelledByClose /\ ParkedIsUncalled)'
  BY <1>8 DEF WaitEnds
<1>9. ASSUME NEW w \in Waiters, NEW v \in Values, WaitFor(w, v)
      PROVE  (CancelledByClose /\ ParkedIsUncalled)'
  BY <1>9 DEF WaitFor
<1>10. CASE UNCHANGED vars
  BY <1>10 DEF vars
<1> QED BY <1>1, <1>2, <1>3, <1>4, <1>5, <1>6, <1>7, <1>8, <1>9, <1>10 DEF Next, Loop

\* wait_for: nobody stays parked on a value the cache holds, for any number of
\* waiters and whatever the other subscribers do between two callbacks.
THEOREM NoneMissed == Spec => []NoWaiterMissed
<1>1. Init => CancelledByClose /\ ParkedIsUncalled
  BY DEF Init, CancelledByClose, ParkedIsUncalled
<1>2. TypeOK /\ CancelledByClose /\ ParkedIsUncalled /\ [Next]_vars
        => (CancelledByClose /\ ParkedIsUncalled)'
  BY MissedStep
<1>3. ParkedIsUncalled => NoWaiterMissed
  BY DEF ParkedIsUncalled, NoWaiterMissed
<1> QED BY <1>1, <1>2, <1>3, TypeCorrect, PTL DEF Spec

-----------------------------------------------------------------------------
(* Every connection is greeted.                                            *)

\* A getProperties is on its way to the server that has been sent nothing.
Greeting ==
  loop \in {"announcing", "reading", "dispatching"} /\ wire = None /\ writer # "dead" =>
    IF writer = "writing" THEN writing.tag = "getProperties"
    ELSE outbox # <<>> /\ outbox[1].tag = "getProperties"

\* Until a connection has been greeted, its getProperties is next.
LEMMA GreetingStep ==
  ASSUME TypeOK, Shape, Greeting, [Next]_vars
  PROVE  Greeting'
<1> USE DEF Greeting, tasks, link, cache, socket, history, Goto, At
<1>1. ASSUME NEW order \in SetToSeqs(Recorded), Connects(order)
      PROVE  Greeting'
  <2>1. outbox = <<>> /\ writer = "none" /\ conn + 1 \in Nat
    BY <1>1 DEF Connects, Shape, DownIsEmpty, WriterIsRun, TypeOK
  <2>2. /\ Handshake(order, conn + 1) \in Seq(Message)
        /\ Handshake(order, conn + 1)[1].tag = "getProperties"
        /\ Handshake(order, conn + 1) # <<>>
    BY <2>1, HandshakeTyped
  <2>3. outbox' = Handshake(order, conn + 1)
    BY <1>1, <2>1, <2>2, ConcatEmptySeq DEF Connects
  <2> QED BY <1>1, <2>1, <2>2, <2>3 DEF Connects
<1>2. CASE Stopped \/ CancelStopping
  BY <1>2 DEF Stopped, CancelStopping
<1>3. CASE Take
  BY <1>3, HeadTailProperties DEF Take, TypeOK
<1>4. CASE Write \/ WriterDies
  BY <1>4, ClientAssumption DEF Write, WriterDies, TypeOK
<1>5. ASSUME NEW m \in Message, Enqueue(m), UNCHANGED <<loop, writer, writing, wire>>
      PROVE  Greeting'
  BY <1>5, AppendProperties DEF Enqueue, TypeOK
<1>6. CASE Send
  BY <1>5, <1>6, MessagesTyped DEF Send
<1>7. ASSUME NEW k \in Keys, NEW p \in Policies, EnableBLOB(k, p)
      PROVE  Greeting'
  BY <1>5, <1>7, MessagesTyped DEF EnableBLOB
<1>8. CASE Start \/ ConnectFails \/ Announced \/ Dispatched \/ ReadEnds \/ Closed \/ Unannounced
           \/ Slept \/ CancelEnds \/ CancelReader \/ Aclose \/ AcloseEnds \/ UNCHANGED vars
  BY <1>8 DEF Start, ConnectFails, Announced, Dispatched, ReadEnds, Closed, Unannounced,
              Slept, CancelEnds, CancelReader, Aclose, AcloseEnds, vars, Shape, WriterIsRun
<1>9. CASE (\E v \in Values \cup {None} : Receive(v)) \/ \E w \in Waiters : CallWaiter(w)
  BY <1>9 DEF Receive, CallWaiter
<1>10. CASE \E w \in Waiters : WaitEnds(w) \/ \E v \in Values : WaitFor(w, v)
  BY <1>10 DEF WaitEnds, WaitFor
<1> QED BY <1>1, <1>2, <1>3, <1>4, <1>6, <1>7, <1>8, <1>9, <1>10 DEF Next, Loop

\* What is written first is what was next.
LEMMA FirstWrite ==
  ASSUME TypeOK, Shape, Greeting, [Next]_vars
  PROVE  [wire = None /\ wire' # None => wire'.tag = "getProperties"]_wire
<1> USE DEF tasks, link, cache, socket, history
<1>1. CASE Write
  BY <1>1 DEF Write, Greeting
<1>2. CASE \E order \in SetToSeqs(Recorded) : Connects(order)
  BY <1>2 DEF Connects
<1>3. CASE UNCHANGED wire
  BY <1>3
<1>4. CASE Start \/ ConnectFails \/ Announced \/ Dispatched \/ ReadEnds \/ Closed \/ Unannounced
           \/ Stopped \/ Slept \/ CancelEnds \/ CancelReader \/ CancelStopping \/ Aclose
           \/ AcloseEnds \/ UNCHANGED vars
  BY <1>3, <1>4 DEF Start, ConnectFails, Announced, Dispatched, ReadEnds, Closed, Unannounced,
                    Stopped, Slept, CancelEnds, CancelReader, CancelStopping, Aclose, AcloseEnds, vars
<1>5. CASE (\E v \in Values \cup {None} : Receive(v)) \/ \E w \in Waiters : CallWaiter(w)
  BY <1>3, <1>5 DEF Receive, CallWaiter
<1>6. CASE Take \/ WriterDies \/ Send \/ \E k \in Keys, p \in Policies : EnableBLOB(k, p)
  BY <1>3, <1>6 DEF Take, WriterDies, Send, EnableBLOB
<1>7. CASE \E w \in Waiters : WaitEnds(w) \/ \E v \in Values : WaitFor(w, v)
  BY <1>3, <1>7 DEF WaitEnds, WaitFor
<1> QED BY <1>1, <1>2, <1>4, <1>5, <1>6, <1>7 DEF Next, Loop

\* _enqueue_handshake: the first message written on any connection is a
\* getProperties.
THEOREM Greeted == Spec => GreetedFirst
<1>1. Init => Greeting
  BY DEF Init, Greeting
<1>2. TypeOK /\ Shape /\ Greeting /\ [Next]_vars => Greeting'
  BY GreetingStep
<1>3. TypeOK /\ Shape /\ Greeting /\ [Next]_vars
        => [wire = None /\ wire' # None => wire'.tag = "getProperties"]_wire
  BY FirstWrite
<1> QED BY <1>1, <1>2, <1>3, InvariantHolds, PTL DEF Spec, GreetedFirst

-----------------------------------------------------------------------------
(* Every server learns every policy.                                       *)

IsFor(m, k) == m.tag = "enableBLOB" /\ m.key = k
IsLastFor(i, k) ==
  IsFor(outbox[i], k) /\ \A j \in DOMAIN outbox : j > i => ~IsFor(outbox[j], k)
Queued(k) == \E i \in DOMAIN outbox : IsFor(outbox[i], k)
Taken(k) == writer = "writing" /\ IsFor(writing, k)

\* The policy of k the server will hold once the outbox is written out.
Reaches(k) ==
  /\ \A i \in DOMAIN outbox : IsLastFor(i, k) => outbox[i].policy = asked[k]
  /\ ~Queued(k) => (IF Taken(k) THEN writing.policy ELSE in_force[k]) = asked[k]

Replaying ==
  /\ policies = asked
  /\ loop \in {"announcing", "reading", "dispatching"} /\ writer # "dead" =>
       \A k \in Keys \ refused : Reaches(k)

\* A handshake has one message for every recorded policy, and no other.
LEMMA HandshakeComplete ==
  ASSUME TypeOK, NEW order \in SetToSeqs(Recorded), NEW c \in Nat
  PROVE  \A k \in Keys :
           /\ \A i \in DOMAIN Handshake(order, c) :
                IsFor(Handshake(order, c)[i], k) => Handshake(order, c)[i].policy = policies[k]
           /\ policies[k] # None => \E i \in DOMAIN Handshake(order, c) : IsFor(Handshake(order, c)[i], k)
<1> DEFINE head == <<[tag |-> "getProperties", on |-> c]>>
           tail == [i \in DOMAIN order |-> EnableBlob(order[i], policies[order[i]], c)]
           n == Cardinality(Recorded)
<1>1. Recorded \subseteq Keys /\ IsFiniteSet(Recorded) /\ n \in Nat
  BY ClientAssumption, FS_Subset, FS_CardinalityType DEF Recorded
<1>2. order \in [1 .. n -> Recorded] /\ \A i, j \in 1 .. n : i # j => order[i] # order[j]
  BY DEF SetToSeqs
<1>3. order \in Surjection(1 .. n, Recorded)
  <2>1. order \in Injection(1 .. n, Recorded)
    BY <1>2 DEF Injection, IsInjective
  <2>2. Cardinality(1 .. n) = n
    BY <1>1, FS_Interval
  <2> QED BY <1>1, <2>1, <2>2, FS_Injection
<1>4. DOMAIN tail = 1 .. n
      /\ \A i \in 1 .. n : /\ tail[i].tag = "enableBLOB" /\ tail[i].key = order[i]
                           /\ tail[i].policy = policies[order[i]]
  BY <1>2 DEF EnableBlob
<1>5. \A k \in Recorded : \E i \in 1 .. n : order[i] = k
  BY <1>3 DEF Surjection
<1>6. tail \in Seq(Message) /\ head \in Seq(Message) /\ Len(tail) = n /\ Len(head) = 1
  <2>1. \A k \in Recorded : policies[k] \in Policies
    BY <1>1 DEF Recorded, TypeOK
  <2>2. tail \in [1 .. n -> Message]
    BY <1>1, <1>2, <2>1 DEF EnableBlob, Message
  <2>3. head \in Seq(Message) /\ Len(head) = 1
    BY DEF Message
  <2> HIDE DEF tail, head
  <2> QED BY <1>1, <1>4, <2>2, <2>3, SeqDef, LenProperties
<1>7. head[1].tag = "getProperties"
  OBVIOUS
<1>8. Handshake(order, c) = head \o tail
  BY DEF Handshake
<1> HIDE DEF head, tail, n
<1>9. Len(head \o tail) = 1 + n /\ head \o tail \in Seq(Message)
  BY <1>1, <1>6, ConcatProperties
<1>10. DOMAIN (head \o tail) = 1 .. (1 + n)
  BY <1>9, LenProperties
<1>11. (head \o tail)[1] = head[1] /\ \A i \in 1 .. n : (head \o tail)[i + 1] = tail[i]
  <2>1. \A i \in 1 .. Len(head) + Len(tail) :
          (head \o tail)[i] = IF i <= Len(head) THEN head[i] ELSE tail[i - Len(head)]
    BY <1>6, ConcatProperties
  <2>2. (head \o tail)[1] = head[1]
    BY <1>1, <1>6, <2>1
  <2>3. ASSUME NEW i \in 1 .. n
        PROVE  (head \o tail)[i + 1] = tail[i]
    <3>1. i + 1 \in 1 .. Len(head) + Len(tail) /\ ~(i + 1 <= Len(head)) /\ (i + 1) - Len(head) = i
      BY <1>1, <1>6
    <3>2. (head \o tail)[i + 1] = tail[(i + 1) - Len(head)]
      BY <2>1, <3>1
    <3> QED BY <3>1, <3>2
  <2> QED BY <2>2, <2>3
<1>12. \A i \in 1 .. (1 + n) : i = 1 \/ \E j \in 1 .. n : i = j + 1
  <2> TAKE i \in 1 .. (1 + n)
  <2>1. i # 1 => i - 1 \in 1 .. n /\ i = (i - 1) + 1
    BY <1>1
  <2> QED BY <2>1
<1>13. \A i \in 1 .. n : i + 1 \in 1 .. (1 + n)
  BY <1>1
<1>14. ASSUME NEW k \in Keys, NEW i \in 1 .. (1 + n), IsFor((head \o tail)[i], k)
       PROVE  (head \o tail)[i].policy = policies[k]
  <2>1. i # 1
    BY <1>7, <1>11, <1>14 DEF IsFor
  <2>2. PICK j \in 1 .. n : i = j + 1
    BY <1>12, <2>1
  <2>3. (head \o tail)[i] = tail[j]
    BY <1>11, <2>2
  <2> QED BY <1>4, <1>14, <2>3 DEF IsFor
<1>15. ASSUME NEW k \in Keys, policies[k] # None
       PROVE  \E i \in 1 .. (1 + n) : IsFor((head \o tail)[i], k)
  <2>1. PICK j \in 1 .. n : order[j] = k
    BY <1>5, <1>15 DEF Recorded
  <2>2. (head \o tail)[j + 1] = tail[j] /\ j + 1 \in 1 .. (1 + n)
    BY <1>11, <1>13
  <2> QED BY <1>4, <2>1, <2>2 DEF IsFor
<1> QED BY <1>8, <1>10, <1>14, <1>15

\* Every step keeps what is in force or queued equal to what was asked for.
LEMMA ReplayingStep ==
  ASSUME TypeOK, Shape, Replaying, [Next]_vars
  PROVE  Replaying'
<1> USE DEF Replaying, tasks, link, cache, socket, history, Goto, At
\* What depends on the variables below depends on nothing else.
<1>1. ASSUME UNCHANGED <<outbox, writer, writing, policies, in_force, asked, refused>>,
             loop' \in {"announcing", "reading", "dispatching"} /\ writer # "dead" =>
               loop \in {"announcing", "reading", "dispatching"}
      PROVE  Replaying'
  <2>1. \A k \in Keys : Reaches(k) => Reaches(k)'
    BY <1>1 DEF Reaches, IsLastFor, IsFor, Queued, Taken
  <2> QED BY <1>1, <2>1
<1>2. ASSUME NEW order \in SetToSeqs(Recorded), Connects(order)
      PROVE  Replaying'
  <2>1. outbox = <<>> /\ writer = "none" /\ conn + 1 \in Nat
    BY <1>2 DEF Connects, Shape, DownIsEmpty, WriterIsRun, TypeOK
  <2> DEFINE h == Handshake(order, conn + 1)
  <2>2. h \in Seq(Message)
    BY <2>1, HandshakeTyped
  <2>3. outbox' = h
    BY <1>2, <2>1, <2>2, ConcatEmptySeq DEF Connects
  <2>4. \A k \in Keys :
          /\ \A i \in DOMAIN h : IsFor(h[i], k) => h[i].policy = policies[k]
          /\ policies[k] # None => \E i \in DOMAIN h : IsFor(h[i], k)
    BY <2>1, HandshakeComplete
  <2> HIDE DEF h
  <2>5. \A k \in Keys : in_force'[k] = None
    BY <1>2 DEF Connects
  <2>6. \A k \in Keys : Reaches(k)'
    BY <1>2, <2>1, <2>3, <2>4, <2>5 DEF Connects, Reaches, IsLastFor, IsFor, Queued, Taken
  <2> QED BY <1>2, <2>6 DEF Connects
<1>3. CASE Announced
  <2>1. writer = "none"
    BY <1>3 DEF Announced, Shape, WriterIsRun
  <2>2. \A k \in Keys : Reaches(k) => Reaches(k)'
    BY <1>3, <2>1 DEF Announced, Reaches, IsLastFor, IsFor, Queued, Taken
  <2> QED BY <1>3, <2>1, <2>2 DEF Announced
<1>4. CASE Stopped \/ CancelStopping
  BY <1>4 DEF Stopped, CancelStopping, DropsLink
<1>5. CASE Take
  <2>1. outbox \in Seq(Message) /\ outbox # <<>>
    BY <1>5 DEF Take, TypeOK
  <2>2. Len(outbox) \in Nat /\ DOMAIN outbox = 1 .. Len(outbox) /\ Len(outbox) > 0
    BY <2>1, LenProperties, EmptySeq
  <2>3. outbox' \in Seq(Message) /\ Len(outbox') = Len(outbox) - 1
        /\ \A i \in 1 .. Len(outbox') : outbox'[i] = outbox[i + 1]
    BY <1>5, <2>1, HeadTailProperties DEF Take
  <2>4. DOMAIN outbox' = 1 .. (Len(outbox) - 1) /\ writing' = outbox[1]
    BY <1>5, <2>1, <2>3, LenProperties DEF Take
  <2>5. ASSUME NEW k \in Keys, Reaches(k)
        PROVE  Reaches(k)'
    <3>1. \A i \in DOMAIN outbox' : IsLastFor(i, k)' => outbox'[i].policy = asked[k]
      <4> SUFFICES ASSUME NEW i \in DOMAIN outbox', IsLastFor(i, k)'
                   PROVE  outbox'[i].policy = asked[k]
        OBVIOUS
      <4>1. i + 1 \in DOMAIN outbox /\ outbox'[i] = outbox[i + 1] /\ i \in Nat
        BY <2>2, <2>3, <2>4
      <4>2. ASSUME NEW j \in DOMAIN outbox, j > i + 1
            PROVE  ~IsFor(outbox[j], k)
        <5>1. j - 1 \in DOMAIN outbox' /\ j - 1 > i /\ (j - 1) + 1 = j
          BY <4>1, <4>2, <2>2, <2>4
        <5>2. outbox'[j - 1] = outbox[j]
          BY <5>1, <2>3, <2>4
        <5> QED BY <5>1, <5>2 DEF IsLastFor, IsFor
      <4>3. IsLastFor(i + 1, k)
        BY <4>1, <4>2 DEF IsLastFor, IsFor
      <4> QED BY <2>5, <4>1, <4>3 DEF Reaches
    <3>2. ASSUME ~Queued(k)'
          PROVE  (IF Taken(k)' THEN writing'.policy ELSE in_force'[k]) = asked[k]
      <4>1. \A j \in DOMAIN outbox : j > 1 => ~IsFor(outbox[j], k)
        <5> SUFFICES ASSUME NEW j \in DOMAIN outbox, j > 1  PROVE ~IsFor(outbox[j], k)
          OBVIOUS
        <5>1. j - 1 \in DOMAIN outbox' /\ (j - 1) + 1 = j
          BY <2>2, <2>4
        <5>2. outbox'[j - 1] = outbox[j]
          BY <5>1, <2>3, <2>4
        <5> QED BY <3>2, <5>1, <5>2 DEF Queued, IsFor
      <4>2. 1 \in DOMAIN outbox /\ \A j \in DOMAIN outbox : j = 1 \/ j > 1
        BY <2>2
      <4>3. CASE IsFor(outbox[1], k)
        <5>1. IsLastFor(1, k)
          BY <4>1, <4>3 DEF IsLastFor
        <5>2. Taken(k)'
          BY <1>5, <2>4, <4>3 DEF Take, Taken, IsFor
        <5> QED BY <2>4, <2>5, <4>2, <5>1, <5>2 DEF Reaches
      <4>4. CASE ~IsFor(outbox[1], k)
        <5>1. ~Queued(k)
          BY <4>1, <4>2, <4>4 DEF Queued
        <5>2. ~Taken(k) /\ ~Taken(k)'
          BY <1>5, <2>4, <4>4 DEF Take, Taken, IsFor
        <5> QED BY <1>5, <2>5, <5>1, <5>2 DEF Take, Reaches
      <4> QED BY <4>3, <4>4
    <3>3. asked' = asked
      BY <1>5 DEF Take
    <3> QED BY <3>1, <3>2, <3>3 DEF Reaches
  <2> QED BY <1>5, <2>5 DEF Take
<1>6. CASE Write
  <2>1. ASSUME NEW k \in Keys, Reaches(k)
        PROVE  Reaches(k)'
    <3>1. \A i \in DOMAIN outbox' : IsLastFor(i, k)' => outbox'[i].policy = asked'[k]
      BY <1>6, <2>1 DEF Write, Reaches, IsLastFor, IsFor
    <3>2. Queued(k)' = Queued(k) /\ ~Taken(k)'
      BY <1>6 DEF Write, Queued, IsFor, Taken
    <3>3. in_force'[k] = IF Taken(k) THEN writing.policy ELSE in_force[k]
      BY <1>6 DEF Write, Taken, IsFor, TypeOK
    <3>4. asked' = asked
      BY <1>6 DEF Write
    <3> QED BY <2>1, <3>1, <3>2, <3>3, <3>4 DEF Reaches
  <2> QED BY <1>6, <2>1 DEF Write
<1>7. CASE WriterDies
  BY <1>7 DEF WriterDies
\* A message is appended: the last one for its key, and none for the others.
<1>8. ASSUME NEW m \in Message, outbox' = Append(outbox, m), NEW k \in Keys,
             UNCHANGED <<writer, writing, in_force>>,
             IsFor(m, k) => m.policy = asked'[k],
             ~IsFor(m, k) => asked'[k] = asked[k] /\ Reaches(k)
      PROVE  Reaches(k)'
  <2> DEFINE last == Len(outbox) + 1
  <2>1. /\ Len(outbox) \in Nat /\ DOMAIN outbox = 1 .. Len(outbox)
        /\ DOMAIN outbox' = 1 .. last /\ outbox'[last] = m
        /\ \A i \in 1 .. Len(outbox) : outbox'[i] = outbox[i]
    BY <1>8, AppendProperties, LenProperties DEF TypeOK
  <2>2. /\ last \in DOMAIN outbox'
        /\ \A i \in DOMAIN outbox' : i = last \/ (i \in DOMAIN outbox /\ last > i)
        /\ DOMAIN outbox \subseteq DOMAIN outbox'
    BY <2>1
  <2> HIDE DEF last
  <2>3. CASE IsFor(m, k)
    <3>1. Queued(k)'
      BY <2>1, <2>2, <2>3 DEF Queued, IsFor
    <3>2. \A i \in DOMAIN outbox' : IsLastFor(i, k)' => i = last
      BY <2>1, <2>2, <2>3 DEF IsLastFor, IsFor
    <3> QED BY <1>8, <2>1, <2>3, <3>1, <3>2 DEF Reaches
  <2>4. CASE ~IsFor(m, k)
    <3>1. Queued(k)' = Queued(k)
      BY <2>1, <2>2, <2>4 DEF Queued, IsFor
    <3>2. \A i \in DOMAIN outbox' : IsLastFor(i, k)' => i \in DOMAIN outbox /\ IsLastFor(i, k)
      BY <2>1, <2>2, <2>4 DEF IsLastFor, IsFor
    <3>3. Taken(k)' = Taken(k)
      BY <1>8 DEF Taken, IsFor
    <3> QED BY <1>8, <2>1, <2>4, <3>1, <3>2, <3>3 DEF Reaches
  <2> QED BY <2>3, <2>4
<1>9. CASE Send
  <2>1. CASE outbox' = outbox
    BY <1>1, <1>9, <2>1 DEF Send
  <2>2. CASE outbox' = Append(outbox, New)
    <3>1. New \in Message /\ \A k \in Keys : ~IsFor(New, k)
      BY MessagesTyped DEF New, IsFor
    <3>2. \A k \in Keys : Reaches(k) => Reaches(k)'
      BY <1>8, <1>9, <2>2, <3>1 DEF Send
    <3> QED BY <1>9, <3>2 DEF Send
  <2> QED BY <1>9, <2>1, <2>2 DEF Send, Enqueue
<1>13. ASSUME NEW k \in Keys, NEW p \in Policies, EnableBLOB(k, p)
      PROVE  Replaying'
  <2>1. policies' = asked' /\ asked' = [asked EXCEPT ![k] = p]
    BY <1>13 DEF EnableBLOB, Record
  <2> DEFINE m == EnableBlob(k, p, conn)
  <2>2. m \in Message /\ m.policy = p /\ \A q \in Keys : IsFor(m, q) <=> q = k
    BY MessagesTyped DEF EnableBlob, IsFor
  <2> HIDE DEF m
  <2>3. CASE connected /\ HasRoom
    <3>1. outbox' = Append(outbox, m) /\ refused' = refused \ {k}
      BY <1>13, <2>3 DEF EnableBLOB, Enqueue, m
    <3>2. ASSUME NEW q \in Keys, q # k => Reaches(q)
          PROVE  Reaches(q)'
      BY <1>8, <1>13, <2>1, <2>2, <3>1, <3>2 DEF EnableBLOB, TypeOK
    <3> QED BY <1>13, <2>1, <3>1, <3>2 DEF EnableBLOB
  <2>4. CASE ~(connected /\ HasRoom)
    <3>1. outbox' = outbox
      BY <1>13, <2>4 DEF EnableBLOB, Enqueue
    <3>2. ASSUME NEW q \in Keys, q # k, Reaches(q)
          PROVE  Reaches(q)'
      <4>1. asked'[q] = asked[q]
        BY <2>1, <3>2 DEF TypeOK
      <4> QED BY <1>13, <3>1, <3>2, <4>1 DEF EnableBLOB, Reaches, IsLastFor, IsFor, Queued, Taken
    <3>3. CASE connected
      <4>1. refused' = refused \cup {k}
        BY <1>13, <2>4, <3>3 DEF EnableBLOB
      <4> QED BY <1>13, <2>1, <3>2, <4>1 DEF EnableBLOB
    <3>4. CASE ~connected
      BY <1>13, <2>1, <3>4 DEF EnableBLOB, Shape, UpIsConnected
    <3> QED BY <3>3, <3>4
  <2> QED BY <2>3, <2>4
<1>10. CASE Start \/ ConnectFails \/ Dispatched \/ ReadEnds \/ Closed \/ Unannounced
            \/ Slept \/ CancelEnds \/ CancelReader \/ Aclose \/ AcloseEnds \/ UNCHANGED vars
  BY <1>1, <1>10 DEF Start, ConnectFails, Dispatched, ReadEnds, Closed, Unannounced, Slept,
                     CancelEnds, CancelReader, Aclose, AcloseEnds, vars
<1>11. CASE (\E v \in Values \cup {None} : Receive(v)) \/ \E w \in Waiters : CallWaiter(w)
  BY <1>1, <1>11 DEF Receive, CallWaiter
<1>12. CASE \E w \in Waiters : WaitEnds(w) \/ \E v \in Values : WaitFor(w, v)
  BY <1>1, <1>12 DEF WaitEnds, WaitFor
<1> QED BY <1>2, <1>3, <1>4, <1>5, <1>6, <1>7, <1>9, <1>10, <1>11, <1>12, <1>13 DEF Next, Loop

\* enable_blob, _enqueue_handshake: once the outbox is written out, the server
\* of the current connection holds every policy last asked for, for any number
\* of keys, policies and reconnects.
THEOREM PoliciesCorrect == Spec => []PoliciesInForce
<1>1. Init => Replaying
  BY DEF Init, Replaying
<1>2. TypeOK /\ Shape /\ Replaying /\ [Next]_vars => Replaying'
  BY ReplayingStep
<1>3. TypeOK /\ Replaying => PoliciesInForce
  BY DEF TypeOK, Replaying, PoliciesInForce, Reaches, Queued, Taken
<1> QED BY <1>1, <1>2, <1>3, InvariantHolds, PTL DEF Spec

=============================================================================
