---------------------------- MODULE BridgeProofs ----------------------------
(***************************************************************************)
(* Theorems about Bridge, for any devices, names, browsers and limits.     *)
(***************************************************************************)
EXTENDS BridgeDelivery, FiniteSetTheorems, SequenceTheorems, WellFoundedInduction, TLAPS

-----------------------------------------------------------------------------
(* What the operations on one subscription preserve.                       *)

\* The constructors of frames return frames.
LEMMA FrameTypes ==
  /\ \A k \in Key, v \in Value :
       VectorFrame("def", k, v) \in Frame /\ VectorFrame("set", k, v) \in Frame
  /\ \A d \in Devices, n \in Names \cup {None} : DelFrame(d, n) \in Frame
  /\ \A i \in Nat : MessageFrame(i) \in Frame
  /\ \A up \in BOOLEAN : ConnectionFrame(up) \in Frame
  /\ HelloFrame \in Frame /\ ErrorFrame \in Frame
BY DEF Frame, VectorFrame, DelFrame, MessageFrame, ConnectionFrame, HelloFrame, ErrorFrame

\* A frame put in the place of a queued one leaves the subscription well typed.
LEMMA OverwriteType ==
  \A queue \in Seq(Slot), n \in Nat \cup {None}, f \in Frame :
         /\ Overwrite(queue, n, f) \in Seq(Slot)
         /\ Len(Overwrite(queue, n, f)) = Len(queue)
         /\ DOMAIN Overwrite(queue, n, f) = DOMAIN queue
         /\ n \in DOMAIN queue => /\ Overwrite(queue, n, f)[n].frame = f
                                 /\ Overwrite(queue, n, f)[n].key = queue[n].key
         /\ \A i \in DOMAIN queue : i # n => Overwrite(queue, n, f)[i] = queue[i]
<1> TAKE queue \in Seq(Slot), n \in Nat \cup {None}, f \in Frame
<1> DEFINE new == Overwrite(queue, n, f)
<1>1. DOMAIN queue = 1..Len(queue) /\ Len(queue) \in Nat
  BY LenProperties
<1>2. \A i \in 1..Len(queue) : queue[i] \in Slot
  BY ElementOfSeq
<1>3. \A i \in DOMAIN queue :
        new[i] = IF i = n THEN [queue[i] EXCEPT !.frame = f] ELSE queue[i]
  BY DEF Overwrite
<1>4. \A i \in 1..Len(queue) : new[i] \in Slot
  BY <1>1, <1>2, <1>3 DEF Slot
<1>5. DOMAIN new = 1..Len(queue)
  BY <1>1 DEF Overwrite
<1>6. new \in [1..Len(queue) -> Slot]
  BY <1>1, <1>4, <1>5 DEF Overwrite
<1>7. new \in Seq(Slot)
  BY <1>1, <1>6, SeqDef
<1>8. Len(new) = Len(queue)
  BY <1>1, <1>5, <1>7, LenProperties
<1>9. n \in DOMAIN queue => new[n].frame = f /\ new[n].key = queue[n].key
  BY <1>1, <1>2, <1>3 DEF Slot
<1> QED BY <1>1, <1>3, <1>5, <1>7, <1>8, <1>9

\* So does giving up the right to replace what concerns some keys,
LEMMA InvalidateType ==
  ASSUME NEW u \in Subscription, NEW keys
  PROVE  /\ Invalidate(u, keys) \in Subscription
         /\ Invalidate(u, keys).seed_vectors = u.seed_vectors
BY DEF Invalidate, Subscription, Without, Dict

\* ... queueing a frame or folding it into its slot,
LEMMA EnqueueType ==
  ASSUME NEW u \in Subscription, NEW f \in Frame, NEW k \in Key \cup {None}
  PROVE  /\ Enqueue(u, f, k) \in Subscription
         /\ Enqueue(u, f, k).seed_vectors = u.seed_vectors
<1>1. CASE k \in Held(u.coalescible)
  <2>1. u.coalescible[k] \in Nat
    BY <1>1 DEF Held, Subscription, Dict
  <2>2. Overwrite(u.queue, u.coalescible[k], f) \in Seq(Slot)
    BY <2>1, OverwriteType DEF Subscription
  <2>3. Enqueue(u, f, k) = [u EXCEPT !.queue = Overwrite(u.queue, u.coalescible[k], f)]
    BY <1>1 DEF Enqueue, Replace
  <2> QED BY <2>2, <2>3 DEF Subscription
<1>2. CASE k \notin Held(u.coalescible)
  <2>1. [frame |-> f, key |-> k] \in Slot
    BY DEF Slot
  <2>2. Append(u.queue, [frame |-> f, key |-> k]) \in Seq(Slot)
    BY <2>1 DEF Subscription
  <2>3. Len(u.queue) + 1 \in Nat
    BY DEF Subscription
  <2>4. (IF k = None THEN u.coalescible
           ELSE [u.coalescible EXCEPT ![k] = Len(u.queue) + 1]) \in Dict(Nat)
    BY <2>3 DEF Subscription, Dict
  <2>5. Enqueue(u, f, k) =
          [u EXCEPT !.queue = Append(u.queue, [frame |-> f, key |-> k]),
                    !.coalescible = IF k = None THEN u.coalescible
                                    ELSE [u.coalescible EXCEPT ![k] = Len(u.queue) + 1],
                    !.ready = TRUE]
    BY <1>2 DEF Enqueue, Join
  <2> QED BY <2>2, <2>4, <2>5, ZenonT(60) DEF Subscription
<1> QED BY <1>1, <1>2

\* ... taking the head of the queue,
LEMMA PopType ==
  ASSUME NEW u \in Subscription, u.queue # <<>>
  PROVE  /\ Pop(u) \in Subscription
         /\ Pop(u).seed_vectors = u.seed_vectors
         /\ Head(u.queue).frame \in Frame
<1>1. u.queue \in Seq(Slot) /\ u.coalescible \in Dict(Nat)
  BY DEF Subscription
<1>2. Tail(u.queue) \in Seq(Slot) /\ Head(u.queue) \in Slot
  BY <1>1
<1> DEFINE popped == {k \in Key : k = Head(u.queue).key /\ u.coalescible[k] = 1}
           Shift(n) == IF n \in {None, 0} THEN n ELSE n - 1
           left == [k \in Key |-> Shift(Without(u.coalescible, popped)[k])]
<1>3. Without(u.coalescible, popped) \in Dict(Nat)
  BY <1>1 DEF Without, Dict
<1>4. \A n \in Nat \cup {None} : Shift(n) \in Nat \cup {None}
  OBVIOUS
<1>5. left \in Dict(Nat)
  BY <1>3, <1>4 DEF Dict
<1>6. Pop(u) = [u EXCEPT !.queue = Tail(u.queue), !.coalescible = left]
  BY DEF Pop
<1>7. Pop(u) \in Subscription /\ Pop(u).seed_vectors = u.seed_vectors
  BY <1>2, <1>5, <1>6 DEF Subscription
<1> QED BY <1>2, <1>7 DEF Slot

\* ... and cancelling the pump.
LEMMA CancelType ==
  ASSUME NEW u \in Subscription
  PROVE  /\ Cancel(u) \in Subscription
         /\ Cancel(u).seed_vectors = u.seed_vectors
         /\ Cancel(u).queue = u.queue /\ Cancel(u).coalescible = u.coalescible
<1> DEFINE b == u.pump \in {"created", "sending", "waiting"}
<1>1. b \in BOOLEAN
  OBVIOUS
<1>2. Cancel(u) = [u EXCEPT !.cancelled = b]
  BY DEF Cancel
<1> HIDE DEF b
<1> QED BY <1>1, <1>2 DEF Subscription

-----------------------------------------------------------------------------
(* What they preserve of the coalescing condition.                         *)

\* The condition on the slots looks at the queue and at what is replaceable only.
LEMMA SlotsSoundOf ==
  ASSUME NEW u, NEW w, u.queue = w.queue, u.coalescible = w.coalescible
  PROVE  SlotsSound(u) <=> SlotsSound(w)
BY DEF SlotsSound, Held

\* Fewer slots are replaceable and the queue is the same.
LEMMA InvalidateSound ==
  ASSUME NEW u \in Subscription, SlotsSound(u), NEW keys
  PROVE  /\ SlotsSound(Invalidate(u, keys))
         /\ Held(Invalidate(u, keys).coalescible) \cap keys = {}
<1>1. Invalidate(u, keys).coalescible = Without(u.coalescible, keys)
      /\ Invalidate(u, keys).queue = u.queue
  BY DEF Invalidate, Subscription
<1>2. \A k \in Held(Without(u.coalescible, keys)) :
        /\ k \in Held(u.coalescible) /\ k \notin keys
        /\ Without(u.coalescible, keys)[k] = u.coalescible[k]
  BY DEF Held, Without
<1> QED BY <1>1, <1>2 DEF SlotsSound

\* A set folded into its slot, or joining the queue when it has none.
LEMMA EnqueueSetSound ==
  ASSUME NEW u \in Subscription, SlotsSound(u), NEW k \in Key, NEW f \in Frame,
         f.tag = "set", f.key = k
  PROVE  SlotsSound(Enqueue(u, f, k))
<1> DEFINE w == Enqueue(u, f, k)
<1>0. u.queue \in Seq(Slot) /\ u.coalescible \in Dict(Nat) /\ k # None
      /\ DOMAIN u.queue = 1..Len(u.queue) /\ Len(u.queue) \in Nat
  BY BridgeAssumption, LenProperties DEF Subscription
<1>a. \A i \in DOMAIN u.queue : u.queue[i] \in Slot
  BY <1>0, ElementOfSeq
<1>1. CASE k \in Held(u.coalescible)
  <2> DEFINE n == u.coalescible[k]
  <2>1. /\ w.queue = Overwrite(u.queue, n, f)
        /\ w.coalescible = u.coalescible
    BY <1>1 DEF Enqueue, Replace, Subscription
  <2>2. n \in DOMAIN u.queue /\ u.queue[n].frame.tag = "set"
        /\ u.queue[n].frame.key = k /\ u.queue[n].key = k
    BY <1>1 DEF SlotsSound
  <2>3. n \in Nat
    BY <1>0, <2>2
  <2>4. /\ DOMAIN w.queue = DOMAIN u.queue
        /\ w.queue[n].frame = f /\ w.queue[n].key = k
        /\ \A i \in DOMAIN u.queue : i # n => w.queue[i] = u.queue[i]
    <3>1. n \in Nat \cup {None}
      BY <2>3
    <3> HIDE DEF n, w
    <3>2. /\ DOMAIN Overwrite(u.queue, n, f) = DOMAIN u.queue
          /\ n \in DOMAIN u.queue => /\ Overwrite(u.queue, n, f)[n].frame = f
                                    /\ Overwrite(u.queue, n, f)[n].key = u.queue[n].key
          /\ \A i \in DOMAIN u.queue : i # n => Overwrite(u.queue, n, f)[i] = u.queue[i]
      <4>1. u.queue \in Seq(Slot) /\ f \in Frame
        BY <1>0
      <4>2. \A q \in Seq(Slot) :
              /\ DOMAIN Overwrite(q, n, f) = DOMAIN q
              /\ n \in DOMAIN q => /\ Overwrite(q, n, f)[n].frame = f
                                   /\ Overwrite(q, n, f)[n].key = q[n].key
              /\ \A i \in DOMAIN q : i # n => Overwrite(q, n, f)[i] = q[i]
        BY <3>1, OverwriteType
      <4> QED BY ONLY <4>1, <4>2
    <3> QED BY <2>1, <2>2, <3>2
  <2> SUFFICES ASSUME NEW j \in Held(u.coalescible)
      PROVE  LET i == u.coalescible[j]
             IN  /\ i \in DOMAIN w.queue
                 /\ w.queue[i].frame.tag = "set" /\ w.queue[i].frame.key = j
                 /\ w.queue[i].key = j
                 /\ \A m \in DOMAIN w.queue : m > i => ~Concerns(w.queue[m].frame, j)
    BY <2>1 DEF SlotsSound
  <2>6. /\ u.coalescible[j] \in DOMAIN u.queue
        /\ u.queue[u.coalescible[j]].frame.tag = "set"
        /\ u.queue[u.coalescible[j]].frame.key = j /\ u.queue[u.coalescible[j]].key = j
        /\ \A m \in DOMAIN u.queue :
             m > u.coalescible[j] => ~Concerns(u.queue[m].frame, j)
    BY DEF SlotsSound
  <2> HIDE DEF w
  <2>7. CASE j = k
    <3>1. \A m \in DOMAIN w.queue : m > n => w.queue[m] = u.queue[m]
      BY <1>0, <2>2, <2>3, <2>4
    <3>2. u.coalescible[j] = n
      BY <2>7
    <3> HIDE DEF n
    <3> QED BY <2>2, <2>4, <2>6, <2>7, <3>1, <3>2
  <2>8. CASE j # k
    <3>1. u.coalescible[j] # n
      BY <2>2, <2>6, <2>8
    <3>2. ~Concerns(f, j)
      BY <2>8 DEF Concerns
    <3> QED BY <2>4, <2>6, <3>1, <3>2
  <2> QED BY <2>7, <2>8
<1>2. CASE k \notin Held(u.coalescible)
  <2> DEFINE slot == [frame |-> f, key |-> k]
             n == Len(u.queue) + 1
  <2>1. /\ w.queue = Append(u.queue, slot)
        /\ w.coalescible = [u.coalescible EXCEPT ![k] = n]
    BY <1>0, <1>2 DEF Enqueue, Join, Subscription
  <2>2. slot \in Slot
    BY DEF Slot
  <2>3. /\ DOMAIN w.queue = 1..n
        /\ w.queue[n] = slot
        /\ \A i \in DOMAIN u.queue : w.queue[i] = u.queue[i] /\ i < n
    BY <1>0, <2>1, <2>2
  <2>4. \A j \in Held(w.coalescible) :
          \/ j = k /\ w.coalescible[j] = n
          \/ j # k /\ j \in Held(u.coalescible) /\ w.coalescible[j] = u.coalescible[j]
    BY <1>0, <2>1 DEF Held, Dict
  <2> HIDE DEF w
  <2> SUFFICES ASSUME NEW j \in Held(w.coalescible)
      PROVE  LET i == w.coalescible[j]
             IN  /\ i \in DOMAIN w.queue
                 /\ w.queue[i].frame.tag = "set" /\ w.queue[i].frame.key = j
                 /\ w.queue[i].key = j
                 /\ \A m \in DOMAIN w.queue : m > i => ~Concerns(w.queue[m].frame, j)
    BY DEF SlotsSound, w
  <2>5. CASE j = k /\ w.coalescible[j] = n
    BY <1>0, <2>3, <2>5
  <2>6. CASE j # k /\ j \in Held(u.coalescible) /\ w.coalescible[j] = u.coalescible[j]
    <3>1. /\ u.coalescible[j] \in DOMAIN u.queue
          /\ u.queue[u.coalescible[j]].frame.tag = "set"
          /\ u.queue[u.coalescible[j]].frame.key = j /\ u.queue[u.coalescible[j]].key = j
          /\ \A m \in DOMAIN u.queue :
               m > u.coalescible[j] => ~Concerns(u.queue[m].frame, j)
      BY <2>6 DEF SlotsSound
    <3>2. ~Concerns(f, j)
      BY <2>6 DEF Concerns
    <3>3. \A m \in DOMAIN w.queue : m \in DOMAIN u.queue \/ m = n
      BY <1>0, <2>3
    <3>4. /\ n \in DOMAIN w.queue /\ w.queue[n].frame = f
          /\ \A m \in DOMAIN u.queue : m \in DOMAIN w.queue /\ w.queue[m] = u.queue[m]
      BY <1>0, <2>3
    <3> HIDE DEF n, slot
    <3>5. w.coalescible[j] \in DOMAIN w.queue /\ w.queue[w.coalescible[j]] = u.queue[u.coalescible[j]]
      BY <2>6, <3>1, <3>4
    <3>6. ASSUME NEW m \in DOMAIN w.queue, m > w.coalescible[j]
          PROVE  ~Concerns(w.queue[m].frame, j)
      <4>1. CASE m = n
        BY <3>2, <3>4, <4>1
      <4>2. CASE m \in DOMAIN u.queue
        <5>1. ~Concerns(u.queue[m].frame, j)
          BY <2>6, <3>1, <3>6, <4>2
        <5> QED BY <3>4, <4>2, <5>1
      <4> QED BY <3>3, <4>1, <4>2
    <3> QED BY <3>1, <3>5, <3>6
  <2> QED BY <2>4, <2>5, <2>6
<1> QED BY <1>1, <1>2

\* A frame no later set may replace, once nothing it concerns is replaceable.
LEMMA EnqueueOtherSound ==
  ASSUME NEW u \in Subscription, SlotsSound(u), NEW f \in Frame,
         \A j \in Held(u.coalescible) : ~Concerns(f, j)
  PROVE  SlotsSound(Enqueue(u, f, None))
<1> DEFINE w == Enqueue(u, f, None)
           slot == [frame |-> f, key |-> None]
           n == Len(u.queue) + 1
<1>1. u.queue \in Seq(Slot) /\ DOMAIN u.queue = 1..Len(u.queue) /\ Len(u.queue) \in Nat
  BY LenProperties DEF Subscription
<1>2. None \notin Held(u.coalescible)
  BY BridgeAssumption DEF Held
<1>3. /\ w.queue = Append(u.queue, slot)
      /\ w.coalescible = u.coalescible
  BY <1>2 DEF Enqueue, Join, Subscription
<1>4. slot \in Slot
  BY DEF Slot
<1>5. /\ DOMAIN w.queue = 1..n
      /\ w.queue[n] = slot
      /\ \A i \in DOMAIN u.queue : w.queue[i] = u.queue[i] /\ i < n
  BY <1>1, <1>3, <1>4
<1> HIDE DEF w
<1> SUFFICES ASSUME NEW j \in Held(u.coalescible)
    PROVE  LET i == u.coalescible[j]
           IN  /\ i \in DOMAIN w.queue
               /\ w.queue[i].frame.tag = "set" /\ w.queue[i].frame.key = j
               /\ w.queue[i].key = j
               /\ \A m \in DOMAIN w.queue : m > i => ~Concerns(w.queue[m].frame, j)
  BY <1>3 DEF SlotsSound, w
<1>6. /\ u.coalescible[j] \in DOMAIN u.queue
      /\ u.queue[u.coalescible[j]].frame.tag = "set"
      /\ u.queue[u.coalescible[j]].frame.key = j /\ u.queue[u.coalescible[j]].key = j
      /\ \A m \in DOMAIN u.queue :
           m > u.coalescible[j] => ~Concerns(u.queue[m].frame, j)
  BY DEF SlotsSound
<1>7. \A m \in DOMAIN w.queue : m \in DOMAIN u.queue \/ m = n
  BY <1>1, <1>5
<1>8. ~Concerns(w.queue[n].frame, j)
  BY <1>5
<1> QED BY <1>1, <1>5, <1>6, <1>7, <1>8, SMTT(60)

\* The head leaves the queue, and with it the right to replace it.
LEMMA PopSound ==
  ASSUME NEW u \in Subscription, SlotsSound(u), u.queue # <<>>
  PROVE  SlotsSound(Pop(u))
<1> DEFINE popped == {k \in Key : k = Head(u.queue).key /\ u.coalescible[k] = 1}
           w == Pop(u)
<1>1. u.queue \in Seq(Slot) /\ DOMAIN u.queue = 1..Len(u.queue) /\ Len(u.queue) \in Nat \ {0}
      /\ u.coalescible \in Dict(Nat)
  BY LenProperties, EmptySeq DEF Subscription
<1>2. /\ w.queue = Tail(u.queue)
      /\ DOMAIN w.queue = 1..(Len(u.queue) - 1)
      /\ \A i \in 1..(Len(u.queue) - 1) : w.queue[i] = u.queue[i + 1]
  BY <1>1 DEF Pop, Subscription
<1>3. \A k \in Held(w.coalescible) :
        /\ k \in Held(u.coalescible) /\ k \notin popped
        /\ u.coalescible[k] # 0 => w.coalescible[k] = u.coalescible[k] - 1
  BY <1>1, BridgeAssumption DEF Pop, Subscription, Held, Without, Dict
<1> HIDE DEF w
<1> SUFFICES ASSUME NEW j \in Held(w.coalescible)
    PROVE  LET i == w.coalescible[j]
           IN  /\ i \in DOMAIN w.queue
               /\ w.queue[i].frame.tag = "set" /\ w.queue[i].frame.key = j
               /\ w.queue[i].key = j
               /\ \A m \in DOMAIN w.queue : m > i => ~Concerns(w.queue[m].frame, j)
  BY DEF SlotsSound, w
<1> DEFINE i == u.coalescible[j]
<1>4. /\ i \in 1..Len(u.queue)
      /\ u.queue[i].frame.tag = "set" /\ u.queue[i].frame.key = j /\ u.queue[i].key = j
      /\ \A m \in 1..Len(u.queue) : m > i => ~Concerns(u.queue[m].frame, j)
  BY <1>1, <1>3 DEF SlotsSound
<1>5. i # 1
  BY <1>1, <1>3, <1>4 DEF Held
<1>6. w.coalescible[j] = i - 1 /\ i - 1 \in 1..(Len(u.queue) - 1)
  BY <1>1, <1>3, <1>4, <1>5
<1>7. w.queue[i - 1] = u.queue[i]
  BY <1>2, <1>4, <1>6
<1>8. \A m \in 1..(Len(u.queue) - 1) : m > i - 1 => ~Concerns(w.queue[m].frame, j)
  <2> TAKE m \in 1..(Len(u.queue) - 1)
  <2> HAVE m > i - 1
  <2>1. m + 1 \in 1..Len(u.queue) /\ m + 1 > i
    BY <1>1, <1>4
  <2> QED BY <1>2, <1>4, <2>1
<1> QED BY <1>2, <1>4, <1>6, <1>7, <1>8

\* Bridge._drop: the queue is left to the pump that ends.
LEMMA DropKeeps ==
  ASSUME NEW u \in Subscription
  PROVE  /\ Drop(u) \in Subscription
         /\ Drop(u).seed_vectors = u.seed_vectors
         /\ Drop(u).queue = u.queue /\ Drop(u).coalescible = u.coalescible
<1> DEFINE shut == [u EXCEPT !.closed = TRUE, !.dropped_for_backlog = TRUE]
<1>1. /\ shut \in Subscription /\ shut.seed_vectors = u.seed_vectors
      /\ shut.queue = u.queue /\ shut.coalescible = u.coalescible
  BY DEF Subscription
<1> HIDE DEF shut
<1>2. /\ Cancel(shut) \in Subscription /\ Cancel(shut).seed_vectors = shut.seed_vectors
      /\ Cancel(shut).queue = shut.queue /\ Cancel(shut).coalescible = shut.coalescible
  BY <1>1, CancelType
<1> QED BY <1>1, <1>2 DEF Drop, shut

\* What may be delivered under k: a set for k, or a frame that concerns
\* nothing replaceable.
Deliverable(u, f, k) ==
  \/ k \in Key /\ f.tag = "set" /\ f.key = k
  \/ k = None /\ \A j \in Held(u.coalescible) : ~Concerns(f, j)

\* Bridge._deliver: a frame is queued, or the subscription is dropped.
LEMMA DeliverKeeps ==
  ASSUME NEW u \in Subscription, NEW f \in Frame, NEW k \in Key \cup {None}
  PROVE  /\ Deliver(u, f, k) \in Subscription
         /\ Deliver(u, f, k).seed_vectors = u.seed_vectors
         /\ SlotsSound(u) /\ Deliverable(u, f, k) => SlotsSound(Deliver(u, f, k))
<1> DEFINE w == Enqueue(u, f, k)
<1>1. w \in Subscription /\ w.seed_vectors = u.seed_vectors
  BY EnqueueType
<1>2. SlotsSound(u) /\ Deliverable(u, f, k) => SlotsSound(w)
  BY EnqueueSetSound, EnqueueOtherSound DEF Deliverable
<1> HIDE DEF w
<1>3. /\ Drop(w) \in Subscription /\ Drop(w).seed_vectors = u.seed_vectors
      /\ Drop(w).queue = w.queue /\ Drop(w).coalescible = w.coalescible
  BY <1>1, DropKeeps
<1>4. SlotsSound(w) => SlotsSound(Drop(w))
  BY <1>3, SlotsSoundOf
<1> QED BY <1>1, <1>2, <1>3, <1>4 DEF Deliver, w

-----------------------------------------------------------------------------
(* What one callback of the client does to every subscription.             *)

SubsType ==
  /\ subs \in SUBSET Subs
  /\ sub \in [Subs -> Subscription]
  /\ dropped_slow_sinks \in Nat
  /\ coalesced_blobs \in Nat
  /\ exposures \in Int

SeedsKept == \A s \in Subs : sub'[s].seed_vectors = sub[s].seed_vectors

\* Bridge._broadcast: a delivery to every registered subscription.
LEMMA BroadcastKeeps ==
  ASSUME SubsType, NEW f \in Frame, NEW k \in Key \cup {None}, NEW gone,
         Broadcast(f, k, gone)
  PROVE  /\ SubsType'
         /\ SeedsKept
         /\ /\ CoalescingSound
            /\ \/ k \in Key /\ f.tag = "set" /\ f.key = k
               \/ k = None /\ \A j \in Key : Concerns(f, j) => j \in gone
            => CoalescingSound'
<1> DEFINE ready == [s \in Subs |-> Invalidate(sub[s], gone)]
           late == {s \in subs : Overflows(ready[s], f, k)}
           folded == {s \in subs : Folds(ready[s], f, k)}
<1>1. \A s \in Subs : ready[s] \in Subscription /\ ready[s].seed_vectors = sub[s].seed_vectors
  BY InvalidateType DEF SubsType
<1>2. \A s \in Subs : Deliver(ready[s], f, k) \in Subscription
                      /\ Deliver(ready[s], f, k).seed_vectors = sub[s].seed_vectors
  <2> TAKE s \in Subs
  <2> HIDE DEF ready
  <2> QED BY <1>1, DeliverKeeps
<1>3. sub' = [s \in Subs |-> IF s \in subs THEN Deliver(ready[s], f, k) ELSE sub[s]]
  BY DEF Broadcast
<1>4. IsFiniteSet(subs)
  BY BridgeAssumption, FS_Subset DEF SubsType
<1>5. Cardinality(late) \in Nat /\ Cardinality(folded) \in Nat /\ Cardinality(subs) \in Nat
  <2>1. late \subseteq subs /\ folded \subseteq subs
    OBVIOUS
  <2> HIDE DEF late, folded
  <2> QED BY <1>4, <2>1, FS_Subset, FS_CardinalityType
<1>6. /\ subs' = subs \ late
      /\ dropped_slow_sinks' = dropped_slow_sinks + Cardinality(late)
      /\ coalesced_blobs' = coalesced_blobs + Cardinality(folded)
      /\ exposures' = exposures + IF IsExposure(f) THEN Cardinality(subs) ELSE 0
  BY DEF Broadcast
<1>7. ASSUME CoalescingSound,
             \/ k \in Key /\ f.tag = "set" /\ f.key = k
             \/ k = None /\ \A j \in Key : Concerns(f, j) => j \in gone
      PROVE  CoalescingSound'
  <2>1. \A s \in Subs : SlotsSound(ready[s]) /\ Held(ready[s].coalescible) \cap gone = {}
    BY <1>7, InvalidateSound DEF CoalescingSound, SubsType
  <2>2. \A s \in Subs : Deliverable(ready[s], f, k)
    BY <1>7, <2>1 DEF Deliverable, Held
  <2>3. \A s \in Subs : SlotsSound(Deliver(ready[s], f, k))
    <3> TAKE s \in Subs
    <3> HIDE DEF ready
    <3> QED BY <1>1, <2>1, <2>2, DeliverKeeps
  <2> HIDE DEF ready
  <2>4. \A s \in Subs : SlotsSound(sub'[s])
    BY <1>3, <1>7, <2>3 DEF CoalescingSound
  <2> QED BY <2>4 DEF CoalescingSound
<1> HIDE DEF ready, late, folded
<1>8. SubsType'
  BY <1>2, <1>3, <1>5, <1>6 DEF SubsType
<1>9. SeedsKept
  BY <1>2, <1>3 DEF SeedsKept
<1> QED BY <1>7, <1>8, <1>9

Objects == Seq([key : Key, val : Value])

\* Bridge._on_event, _on_message and _on_connection keep the subscriptions sound.
LEMMA OnCallbackKeeps ==
  ASSUME SubsType, NEW event \in Event, NEW objs \in Objects,
         NEW props \in Dict(DOMAIN objs),
         event.type \in {"def", "set"} => props[<<event.dev, event.name>>] # None,
         OnCallback(event, objs, props)
  PROVE  SubsType' /\ SeedsKept /\ (CoalescingSound => CoalescingSound')
<1> DEFINE k == <<event.dev, event.name>>
           val == objs[props[k]].val
<1>1. event.type \in {"def", "set", "del", "connection"}
  BY DEF Event
<1>2. ASSUME event.type \in {"def", "set"}
      PROVE  k \in Key /\ val \in Value
  <2>1. k \in Key
    BY <1>2 DEF Event, Key
  <2>2. props[k] \in DOMAIN objs
    BY <1>2, <2>1 DEF Dict
  <2> HIDE DEF k
  <2>3. \A i \in DOMAIN objs : objs[i] \in [key : Key, val : Value]
    BY LenProperties, ElementOfSeq DEF Objects
  <2>4. objs[props[k]] \in [key : Key, val : Value]
    BY <2>2, <2>3
  <2> QED BY <2>1, <2>4
<1>3. CASE event.type = "set"
  <2>1. Broadcast(VectorFrame("set", k, val), k, {})
    BY <1>3 DEF OnCallback
  <2>2. VectorFrame("set", k, val) \in Frame /\ k \in Key
        /\ VectorFrame("set", k, val).tag = "set" /\ VectorFrame("set", k, val).key = k
    BY <1>2, <1>3, FrameTypes DEF VectorFrame
  <2> HIDE DEF k, val
  <2> QED BY <2>1, <2>2, BroadcastKeeps
<1>4. CASE event.type = "def"
  <2>1. Broadcast(VectorFrame("def", k, val), None, {k})
    BY <1>4 DEF OnCallback
  <2>2. VectorFrame("def", k, val) \in Frame /\ k \in Key
    BY <1>2, <1>4, FrameTypes
  <2>3. \A j \in Key : Concerns(VectorFrame("def", k, val), j) => j \in {k}
    BY DEF Concerns, VectorFrame
  <2> HIDE DEF k, val
  <2> QED BY <2>1, <2>2, <2>3, BroadcastKeeps
<1>5. CASE event.type = "del"
  <2> DEFINE f == DelFrame(event.dev, event.name)
             gone == DelKeys(event.dev, event.name)
  <2>1. Broadcast(f, None, gone)
    BY <1>5 DEF OnCallback
  <2>2. f \in Frame
    BY <1>5, FrameTypes DEF Event
  <2>3. \A j \in Key : Concerns(f, j) => j \in gone
    BY DEF Concerns, DelFrame
  <2> HIDE DEF f, gone
  <2> QED BY <2>1, <2>2, <2>3, BroadcastKeeps
<1>6. CASE event.type = "connection"
  <2> DEFINE f == ConnectionFrame(event.up)
  <2>1. Broadcast(f, None, {})
    BY <1>6 DEF OnCallback
  <2>2. f \in Frame
    BY <1>6, FrameTypes DEF Event
  <2>3. \A j \in Key : ~Concerns(f, j)
    BY DEF Concerns, ConnectionFrame
  <2> HIDE DEF f
  <2> QED BY <2>1, <2>2, <2>3, BroadcastKeeps
<1> QED BY <1>1, <1>3, <1>4, <1>5, <1>6

\* So does calling the bridge or, when another subscriber suspends, putting it off.
LEMMA DispatchKeeps ==
  ASSUME SubsType, NEW event \in Event, NEW objs \in Objects,
         NEW props \in Dict(DOMAIN objs),
         event.type \in {"def", "set"} => props[<<event.dev, event.name>>] # None,
         Dispatch(event, objs, props)
  PROVE  /\ SubsType' /\ SeedsKept /\ (CoalescingSound => CoalescingSound')
         /\ pending' \in {pending, event}
<1>1. CASE SlowSubscribers
  BY <1>1 DEF Dispatch, SubsType, SeedsKept, CoalescingSound
<1>2. CASE ~SlowSubscribers
  <2>1. OnCallback(event, objs, props) /\ pending' = pending
    BY <1>2 DEF Dispatch
  <2> QED BY <2>1, OnCallbackKeeps
<1> QED BY <1>1, <1>2

-----------------------------------------------------------------------------
(* The browser.                                                            *)

\* What the page shows after a frame is well typed.
LEMMA ShowType ==
  ASSUME NEW v \in Page, NEW f \in Frame \cup {NoFrame}
  PROVE  Show(v, f) \in Page
<1> DEFINE w == Latch(v, f)
<1>1. w \in Page
  BY DEF Latch, Page
<1> HIDE DEF w
<1>a. /\ \A p \in Dict(Value), d \in SUBSET Devices :
           [w EXCEPT !.props = p, !.devs = d] \in Page
      /\ \A up \in BOOLEAN : [w EXCEPT !.up = up] \in Page
  BY <1>1 DEF Page
<1>2. CASE f.tag = "def"
  <2>1. f.key \in Key /\ f.val \in Value /\ f.key[1] \in Devices
    BY <1>2 DEF Frame, NoFrame, HelloFrame, ErrorFrame, Key
  <2>2. [w.props EXCEPT ![f.key] = f.val] \in Dict(Value)
    BY <1>1, <2>1 DEF Page, Dict
  <2>3. Apply(w, f) = [w EXCEPT !.props = [w.props EXCEPT ![f.key] = f.val],
                                !.devs = w.devs \cup {f.key[1]}]
    BY <1>1, <1>2 DEF Apply, Page
  <2>4. w.devs \cup {f.key[1]} \in SUBSET Devices
    BY <1>1, <2>1 DEF Page
  <2> QED BY <1>a, <2>2, <2>3, <2>4, ZenonT(60) DEF Show, w
<1>3. CASE f.tag = "set"
  <2>1. f.key \in Key /\ f.val \in Value
    BY <1>3 DEF Frame, NoFrame, HelloFrame, ErrorFrame
  <2>2. [w.props EXCEPT ![f.key] = f.val] \in Dict(Value)
    BY <1>1, <2>1 DEF Page, Dict
  <2>3. Apply(w, f) \in {w, [w EXCEPT !.props = [w.props EXCEPT ![f.key] = f.val]]}
    BY <1>1, <1>3 DEF Apply, Page
  <2> QED BY <1>1, <2>2, <2>3 DEF Show, Page, w
<1>4. CASE f.tag = "del"
  <2> DEFINE left == Without(w.props, DelKeys(f.dev, f.name))
  <2>1. left \in Dict(Value)
    BY <1>1 DEF Page, Dict, Without
  <2>2. Apply(w, f) = [w EXCEPT !.props = left,
                                !.devs = IF f.name = None THEN w.devs \ {f.dev} ELSE w.devs]
    BY <1>1, <1>4 DEF Apply, Page
  <2> HIDE DEF left
  <2> QED BY <1>1, <2>1, <2>2, ZenonT(60) DEF Show, Page, w
<1>5. CASE f.tag = "message"
  <2>1. f.id \in Nat
    BY <1>5 DEF Frame, NoFrame, HelloFrame, ErrorFrame
  <2>2. Append(w.log, f.id) \in Seq(Nat)
    BY <1>1, <2>1 DEF Page
  <2>3. Apply(w, f) = [w EXCEPT !.log = Append(w.log, f.id)]
    BY <1>5 DEF Apply
  <2> QED BY <1>1, <2>2, <2>3 DEF Show, Page, w
<1>6. CASE f.tag = "connection"
  <2>1. f.up \in BOOLEAN
    BY <1>6 DEF Frame, NoFrame, HelloFrame, ErrorFrame
  <2>2. Apply(w, f) = [w EXCEPT !.up = f.up]
    BY <1>6 DEF Apply
  <2> QED BY <1>a, <2>1, <2>2 DEF Show, w
<1>7. CASE f.tag \notin {"def", "set", "del", "message", "connection"}
  BY <1>1, <1>7 DEF Show, Apply, w
<1> QED BY <1>2, <1>3, <1>4, <1>5, <1>6, <1>7

-----------------------------------------------------------------------------
(* The invariant: types, the event still to be dispatched, and the         *)
(* condition on the queues.  The second is what makes the first inductive: *)
(* an event that waited for another subscriber is still about an object in *)
(* the cache when its turn comes.                                          *)

StoreType ==
  /\ objects \in Objects
  /\ cache \in Dict(DOMAIN objects)
  /\ devices \in SUBSET Devices
  /\ connected \in BOOLEAN
  /\ pending \in Event \cup {NoEvent}
  /\ clock \in Nat

SeedsType == \A s \in Subs : sub[s].seed_vectors \subseteq DOMAIN objects

BridgeType ==
  /\ phase \in {"serving", "stopping", "closed"}
  /\ messages \in Seq(Nat)
  /\ logged \in Nat

BrowserType ==
  /\ route \in [Subs -> {"none", "serving", "closing", "ended"}]
  /\ code \in [Subs -> {0, 1000, 1013}] /\ turned_away \in Nat
  /\ attaches \in [Subs -> Nat]
  /\ view \in [Subs -> Page]

IInv == StoreType /\ SubsType /\ SeedsType /\ BridgeType /\ BrowserType
        /\ PendingIsCached /\ CoalescingSound

\* The type invariant, part by part.
LEMMA TypeParts ==
  TypeOK <=> StoreType /\ SubsType /\ SeedsType /\ BridgeType /\ BrowserType
BY SMTT(60) DEF TypeOK, StoreType, SubsType, SeedsType, BridgeType, BrowserType, Objects

\* The initial states satisfy the inductive invariant.
LEMMA InitIInv == Init => IInv
<1> SUFFICES ASSUME Init PROVE IInv
  OBVIOUS
<1> USE DEF Init
<1>1. StoreType /\ PendingIsCached
  <2>1. Empty \in Dict(DOMAIN objects)
    BY DEF Empty, Dict
  <2>2. <<>> \in Objects
    BY DEF Objects
  <2> QED BY <2>1, <2>2 DEF StoreType, PendingIsCached, NoEvent
<1>2. NotAttached \in Subscription /\ NotAttached.seed_vectors = {} /\ SlotsSound(NotAttached)
  <2>1. Empty \in Dict(Nat) /\ Held(Empty) = {}
    BY DEF Empty, Dict, Held
  <2>2. <<>> \in Seq(Frame) /\ <<>> \in Seq(Slot)
    OBVIOUS
  <2>3. NotAttached \in Subscription /\ NotAttached.seed_vectors = {}
    BY <2>1, <2>2 DEF NotAttached, Subscription
  <2>4. SlotsSound(NotAttached)
    BY <2>1 DEF NotAttached, SlotsSound
  <2> QED BY <2>3, <2>4
<1>3. SubsType /\ SeedsType /\ CoalescingSound
  BY <1>2 DEF SubsType, SeedsType, CoalescingSound
<1>4. BridgeType
  BY DEF BridgeType
<1>5. NewPage \in Page
  <2>1. Empty \in Dict(Value) /\ <<>> \in Seq(Nat)
    BY DEF Empty, Dict
  <2> QED BY <2>1 DEF NewPage, Page
<1>6. BrowserType
  BY <1>5 DEF BrowserType, closes
<1> QED BY <1>1, <1>3, <1>4, <1>6 DEF IInv

\* The objects of the store only ever grow, so seeds keep pointing at one.
LEMMA SeedsTypeKept ==
  ASSUME SeedsType, SeedsKept, DOMAIN objects \subseteq DOMAIN objects'
  PROVE  SeedsType'
BY DEF SeedsType, SeedsKept

\* The constructors of events return events.
LEMMA EventTypes ==
  /\ \A d \in Devices, n \in Names :
       PropertyEvent("def", d, n) \in Event /\ PropertyEvent("set", d, n) \in Event
  /\ \A d \in Devices, n \in Names \cup {None} : PropertyEvent("del", d, n) \in Event
  /\ \A up \in BOOLEAN : ConnectionEvent(up) \in Event
BY DEF Event, PropertyEvent, ConnectionEvent

\* A definition caches a new object.
LEMMA DefStep ==
  ASSUME IInv, NEW k \in Key, ReceiveDef(k)
  PROVE  IInv'
<1> USE DEF IInv
<1> DEFINE object == [key |-> k, val |-> [f \in Fields |-> clock + 1]]
           event == PropertyEvent("def", k[1], k[2])
<1>1. k[1] \in Devices /\ k[2] \in Names /\ k = <<k[1], k[2]>>
  BY DEF Key
<1>2. object \in [key : Key, val : Value]
  BY DEF StoreType, Value
<1>3. objects' = Append(objects, object) /\ objects \in Seq([key : Key, val : Value])
  BY DEF ReceiveDef, StoreType, Objects
<1>4. /\ objects' \in Objects
      /\ DOMAIN objects \subseteq DOMAIN objects'
      /\ Len(objects) + 1 \in DOMAIN objects'
  <2> HIDE DEF object
  <2> QED BY <1>2, <1>3 DEF Objects
<1>5. cache' \in Dict(DOMAIN objects') /\ cache'[k] # None
  <2>1. cache' = [cache EXCEPT ![k] = Len(objects) + 1]
    BY DEF ReceiveDef
  <2>2. Len(objects) + 1 \in Nat
    BY <1>3
  <2> QED BY <1>4, <2>1, <2>2, BridgeAssumption DEF StoreType, Dict
<1>6. event \in Event /\ event.dev = k[1] /\ event.name = k[2] /\ event.type = "def"
  BY <1>1, EventTypes DEF PropertyEvent
<1>7. Dispatch(event, objects', cache') /\ pending = NoEvent
  BY DEF ReceiveDef, Listening
<1> HIDE DEF event, object
<1>8. /\ SubsType' /\ SeedsKept /\ CoalescingSound'
      /\ pending' \in {pending, event}
  BY <1>1, <1>4, <1>5, <1>6, <1>7, DispatchKeeps
<1>9. StoreType'
  BY <1>1, <1>4, <1>5, <1>6, <1>7, <1>8 DEF StoreType, ReceiveDef, Tick
<1>10. PendingIsCached'
  BY <1>1, <1>5, <1>6, <1>7, <1>8 DEF PendingIsCached, NoEvent
<1>11. SeedsType'
  BY <1>4, <1>8, SeedsTypeKept
<1>12. BridgeType' /\ BrowserType'
  BY DEF BridgeType, BrowserType, ReceiveDef, browser, closes
<1> QED BY <1>8, <1>9, <1>10, <1>11, <1>12

\* A set merges into the cached object.
LEMMA SetStep ==
  ASSUME IInv, NEW k \in Key, NEW carried, ReceiveSet(k, carried)
  PROVE  IInv'
<1> USE DEF IInv
<1> DEFINE i == cache[k]
           val == [f \in Fields |-> IF f \in carried THEN clock + 1 ELSE objects[i].val[f]]
           event == PropertyEvent("set", k[1], k[2])
<1>1. k[1] \in Devices /\ k[2] \in Names /\ k = <<k[1], k[2]>>
  BY DEF Key
<1>2. cache[k] # None /\ i \in DOMAIN objects
  BY DEF ReceiveSet, Held, StoreType, Dict
<1>3. objects \in Seq([key : Key, val : Value])
  BY DEF StoreType, Objects
<1>a. \A j \in DOMAIN objects : objects[j] \in [key : Key, val : Value]
  BY <1>3, LenProperties, ElementOfSeq
<1>4. objects[i].key \in Key /\ objects[i].val \in Value
  <2>1. objects[i] \in [key : Key, val : Value]
    BY <1>2, <1>a
  <2> QED BY <2>1
<1>5. val \in Value
  BY <1>4 DEF StoreType, Value
<1>6. objects' = [objects EXCEPT ![i] = [objects[i] EXCEPT !.val = val]]
  BY DEF ReceiveSet
<1>7. [objects[i] EXCEPT !.val = val] \in [key : Key, val : Value]
  <2>1. objects[i] \in [key : Key, val : Value]
    BY <1>2, <1>a
  <2> HIDE DEF val, i
  <2> QED BY <1>5, <2>1
<1>8. objects' \in Objects /\ DOMAIN objects' = DOMAIN objects
  <2> HIDE DEF val, i
  <2> QED BY <1>2, <1>3, <1>6, <1>7 DEF Objects
<1>9. event \in Event /\ event.dev = k[1] /\ event.name = k[2] /\ event.type = "set"
  BY <1>1, EventTypes DEF PropertyEvent
<1>10. Dispatch(event, objects', cache) /\ pending = NoEvent /\ cache' = cache
  BY DEF ReceiveSet, Listening
<1> HIDE DEF event, val, i
<1>11. cache \in Dict(DOMAIN objects')
  BY <1>8 DEF StoreType
<1>12. /\ SubsType' /\ SeedsKept /\ CoalescingSound'
       /\ pending' \in {pending, event}
  BY <1>1, <1>2, <1>8, <1>9, <1>10, <1>11, DispatchKeeps
<1>13. StoreType'
  BY <1>8, <1>9, <1>10, <1>11, <1>12 DEF StoreType, ReceiveSet, Tick
<1>14. PendingIsCached'
  BY <1>1, <1>2, <1>9, <1>10, <1>12 DEF PendingIsCached, NoEvent
<1>15. SeedsType'
  BY <1>8, <1>12, SeedsTypeKept
<1>16. BridgeType' /\ BrowserType'
  BY DEF BridgeType, BrowserType, ReceiveSet, browser, closes
<1> QED BY <1>12, <1>13, <1>14, <1>15, <1>16

\* A deletion removes one object from the cache, or all of a device.
LEMMA DelStep ==
  ASSUME IInv, NEW d \in Devices, NEW n \in Names \cup {None}, ReceiveDel(d, n)
  PROVE  IInv'
<1> USE DEF IInv
<1> DEFINE event == PropertyEvent("del", d, n)
<1>1. cache' = Without(cache, DelKeys(d, n)) /\ objects' = objects
  BY DEF ReceiveDel
<1>2. cache' \in Dict(DOMAIN objects)
  BY <1>1 DEF Without, Dict, StoreType
<1>3. event \in Event /\ event.type = "del"
  BY EventTypes DEF PropertyEvent
<1>4. Dispatch(event, objects, cache') /\ pending = NoEvent
  BY DEF ReceiveDel, Listening
<1> HIDE DEF event
<1>5. /\ SubsType' /\ SeedsKept /\ CoalescingSound'
      /\ pending' \in {pending, event}
  BY <1>2, <1>3, <1>4, DispatchKeeps DEF StoreType
<1>6. StoreType'
  BY <1>1, <1>2, <1>3, <1>4, <1>5 DEF StoreType, ReceiveDel, Tick
<1>7. PendingIsCached'
  BY <1>3, <1>4, <1>5 DEF PendingIsCached, NoEvent
<1>8. SeedsType'
  BY <1>1, <1>5, SeedsTypeKept
<1>9. BridgeType' /\ BrowserType'
  BY DEF BridgeType, BrowserType, ReceiveDel, browser, closes
<1> QED BY <1>5, <1>6, <1>7, <1>8, <1>9

\* A message goes into the history and to the subscriptions.
LEMMA MessageStep ==
  ASSUME IInv, ReceiveMessage
  PROVE  IInv'
<1> USE DEF IInv
<1> DEFINE f == MessageFrame(logged + 1)
           longer == Append(messages, logged + 1)
<1>1. f \in Frame /\ \A j \in Key : ~Concerns(f, j)
  BY FrameTypes DEF BridgeType, Concerns, MessageFrame
<1>2. Broadcast(f, None, {})
  BY DEF ReceiveMessage
<1> HIDE DEF f
<1>3. SubsType' /\ SeedsKept /\ CoalescingSound'
  BY <1>1, <1>2, BroadcastKeeps
<1>4. BridgeType'
  <2>1. longer \in Seq(Nat) /\ longer # <<>>
    BY DEF BridgeType
  <2>2. Tail(longer) \in Seq(Nat)
    BY <2>1
  <2>3. messages' \in {longer, Tail(longer)} /\ logged' = logged + 1 /\ phase' = phase
    BY DEF ReceiveMessage
  <2> HIDE DEF longer
  <2> QED BY <2>1, <2>2, <2>3 DEF BridgeType
<1>5. StoreType' /\ PendingIsCached' /\ BrowserType'
  BY DEF StoreType, PendingIsCached, BrowserType, browser, closes, ReceiveMessage, Tick
<1>6. SeedsType'
  BY <1>3, SeedsTypeKept DEF ReceiveMessage
<1> QED BY <1>3, <1>4, <1>5, <1>6

\* A change of the link concerns no property.
LEMMA LinkKeeps ==
  ASSUME IInv, UNCHANGED <<objects, cache, devices, phase, messages, logged, browser>>,
         clock' \in Nat, connected' \in BOOLEAN,
         NEW up \in BOOLEAN, pending' \in {pending, ConnectionEvent(up)}
  PROVE  StoreType' /\ PendingIsCached' /\ BridgeType' /\ BrowserType'
<1> USE DEF IInv
<1>1. ConnectionEvent(up) \in Event /\ ConnectionEvent(up).type = "connection"
  BY EventTypes DEF ConnectionEvent
<1>2. StoreType' /\ PendingIsCached'
  BY <1>1 DEF StoreType, PendingIsCached
<1> QED BY <1>2 DEF BridgeType, BrowserType, browser, closes

\* The client has connected.
LEMMA UpStep ==
  ASSUME IInv, UpstreamUp
  PROVE  IInv'
<1> USE DEF IInv
<1>1. ConnectionEvent(TRUE) \in Event /\ ConnectionEvent(TRUE).type = "connection"
  BY EventTypes DEF ConnectionEvent
<1>2. Dispatch(ConnectionEvent(TRUE), objects, cache)
  BY DEF UpstreamUp
<1>3. /\ SubsType' /\ SeedsKept /\ CoalescingSound'
      /\ pending' \in {pending, ConnectionEvent(TRUE)}
  BY <1>1, <1>2, DispatchKeeps DEF StoreType
<1>4. /\ UNCHANGED <<objects, cache, devices, phase, messages, logged, browser>>
      /\ clock' \in Nat /\ connected' \in BOOLEAN
  BY DEF UpstreamUp, Tick, StoreType
<1>5. StoreType' /\ PendingIsCached' /\ BridgeType' /\ BrowserType'
  BY <1>3, <1>4, LinkKeeps
<1>6. SeedsType'
  BY <1>3, <1>4, SeedsTypeKept
<1> QED BY <1>3, <1>5, <1>6

\* The client has lost its connection.
LEMMA DownStep ==
  ASSUME IInv, UpstreamDown
  PROVE  IInv'
<1> USE DEF IInv
<1>a. UNCHANGED <<objects, cache, devices, phase, messages, logged, browser>>
  BY DEF UpstreamDown
<1>b. clock' \in Nat
  BY DEF UpstreamDown, Tick, StoreType
<1>c. connected' \in BOOLEAN
  BY DEF UpstreamDown
<1>d. pending' = ConnectionEvent(FALSE)
  BY DEF UpstreamDown
<1>2. StoreType' /\ PendingIsCached' /\ BridgeType' /\ BrowserType'
  BY <1>a, <1>b, <1>c, <1>d, LinkKeeps
<1>3. SubsType' /\ SeedsType' /\ CoalescingSound'
  BY DEF UpstreamDown, SubsType, SeedsType, CoalescingSound
<1> QED BY <1>2, <1>3

\* The bridge is called after a subscriber that suspended.
LEMMA OnEventStep ==
  ASSUME IInv, OnEvent
  PROVE  IInv'
<1> USE DEF IInv
<1>1. pending \in Event /\ OnCallback(pending, objects, cache)
  BY DEF OnEvent, StoreType
<1>2. objects \in Objects /\ cache \in Dict(DOMAIN objects)
      /\ (pending.type \in {"def", "set"} => cache[<<pending.dev, pending.name>>] # None)
  BY DEF OnEvent, StoreType, PendingIsCached
<1>3. SubsType' /\ SeedsKept /\ CoalescingSound'
  BY <1>1, <1>2, OnCallbackKeeps
<1>4. StoreType' /\ PendingIsCached' /\ BridgeType' /\ BrowserType'
  BY DEF OnEvent, StoreType, PendingIsCached, NoEvent, BridgeType, BrowserType, browser, closes
<1>5. SeedsType'
  BY <1>3, SeedsTypeKept DEF OnEvent
<1> QED BY <1>3, <1>4, <1>5

-----------------------------------------------------------------------------
(* Steps of one browser's pump and route change one subscription.          *)

\* The upstream state is as it was.
StoreKept == UNCHANGED <<objects, cache, devices, connected, pending>> /\ clock' \in Nat

\* A step of one pump leaves everything else as it was.
LEMMA OneSubscription ==
  ASSUME IInv, StoreKept, UNCHANGED bridge, NEW s \in Subs, NEW w \in Subscription,
         sub' = [sub EXCEPT ![s] = w],
         w.seed_vectors \subseteq DOMAIN objects,
         SlotsSound(w)
  PROVE  /\ sub' \in [Subs -> Subscription]
         /\ SeedsType' /\ CoalescingSound' /\ StoreType' /\ PendingIsCached' /\ BridgeType'
<1> USE DEF IInv, StoreKept
<1>1. sub \in [Subs -> Subscription]
  BY DEF SubsType
<1>2. sub' \in [Subs -> Subscription] /\ SeedsType'
  BY <1>1 DEF SeedsType
<1>3. \A r \in Subs : sub'[r] = IF r = s THEN w ELSE sub[r]
  BY <1>1
<1>4. CoalescingSound'
  BY <1>3 DEF CoalescingSound
<1>5. StoreType' /\ PendingIsCached' /\ BridgeType'
  BY DEF StoreType, PendingIsCached, BridgeType, bridge
<1> QED BY <1>2, <1>4, <1>5

\* The pump takes one frame to send: what it leaves is still well formed.
LEMMA ProceedKeeps ==
  ASSUME IInv, NEW s \in Subs, Proceed(s)
  PROVE  /\ \E w \in Subscription :
              /\ sub' = [sub EXCEPT ![s] = w]
              /\ w.seed_vectors \subseteq DOMAIN objects
              /\ SlotsSound(w)
         /\ exposures' \in Int
<1> USE DEF IInv
<1> DEFINE u == sub[s]
<1>1. u \in Subscription /\ u.seed_vectors \subseteq DOMAIN objects /\ SlotsSound(u)
      /\ exposures \in Int /\ sub \in [Subs -> Subscription]
  BY DEF SubsType, SeedsType, CoalescingSound
<1> HIDE DEF u
<1>2. CASE SendPreamble(s)
  <2> DEFINE w == [u EXCEPT !.preamble = Tail(u.preamble), !.pump = "sending",
                            !.inflight = Head(u.preamble)]
  <2>1. u.preamble = <<HelloFrame>>
    BY <1>1, <1>2 DEF SendPreamble, Subscription, u
  <2>2. Tail(u.preamble) = <<>> /\ Head(u.preamble) = HelloFrame
    BY <2>1
  <2>3. w \in Subscription /\ w.seed_vectors = u.seed_vectors
        /\ w.queue = u.queue /\ w.coalescible = u.coalescible
    BY <1>1, <2>2, FrameTypes DEF Subscription
  <2>4. sub' = [sub EXCEPT ![s] = w] /\ exposures' = exposures
    BY <1>1, <1>2 DEF SendPreamble, u
  <2> HIDE DEF w
  <2>5. SlotsSound(w)
    BY <1>1, <2>3, SlotsSoundOf
  <2> QED BY <1>1, <2>3, <2>4, <2>5
<1>3. CASE SendSeedVector(s)
  <2>1. PICK i \in u.seed_vectors :
          sub' = [sub EXCEPT ![s].seed_vectors = @ \ {i}, ![s].pump = "sending",
                    ![s].inflight = VectorFrame("def", objects[i].key, objects[i].val)]
    BY <1>3 DEF SendSeedVector, u
  <2> DEFINE f == VectorFrame("def", objects[i].key, objects[i].val)
             w == [u EXCEPT !.seed_vectors = u.seed_vectors \ {i}, !.pump = "sending",
                            !.inflight = f]
  <2>2. objects[i] \in [key : Key, val : Value]
    BY <1>1, LenProperties, ElementOfSeq DEF StoreType, Objects
  <2>3. f \in Frame
    BY <2>2, FrameTypes
  <2>4. sub' = [sub EXCEPT ![s] = w] /\ exposures' = exposures
    BY <1>1, <1>3, <2>1 DEF SendSeedVector, u
  <2> HIDE DEF f
  <2>5. w \in Subscription /\ w.seed_vectors \subseteq u.seed_vectors
        /\ w.queue = u.queue /\ w.coalescible = u.coalescible
    BY <1>1, <2>3 DEF Subscription
  <2> HIDE DEF w
  <2>6. SlotsSound(w)
    BY <1>1, <2>5, SlotsSoundOf
  <2> QED BY <1>1, <2>4, <2>5, <2>6
<1>4. CASE SendSeedFrame(s)
  <2> DEFINE w == [u EXCEPT !.seed_frames = Tail(u.seed_frames), !.pump = "sending",
                            !.inflight = Head(u.seed_frames)]
  <2>1. u.seed_frames \in Seq(Frame) /\ u.seed_frames # <<>>
    BY <1>1, <1>4 DEF SendSeedFrame, Subscription, u
  <2>2. Tail(u.seed_frames) \in Seq(Frame) /\ Head(u.seed_frames) \in Frame
    BY <2>1
  <2>3. w \in Subscription /\ w.seed_vectors = u.seed_vectors
        /\ w.queue = u.queue /\ w.coalescible = u.coalescible
    BY <1>1, <2>2 DEF Subscription
  <2>4. sub' = [sub EXCEPT ![s] = w] /\ exposures' = exposures
    BY <1>1, <1>4 DEF SendSeedFrame, u
  <2> HIDE DEF w
  <2>5. SlotsSound(w)
    BY <1>1, <2>3, SlotsSoundOf
  <2> QED BY <1>1, <2>3, <2>4, <2>5
<1>5. CASE SendQueued(s)
  <2> DEFINE p == Pop(u)
             f == Head(u.queue).frame
             w == [p EXCEPT !.pump = "sending", !.inflight = f]
  <2>1. u.queue # <<>>
    BY <1>5 DEF SendQueued, u
  <2>2. p \in Subscription /\ p.seed_vectors = u.seed_vectors /\ f \in Frame
    BY <1>1, <2>1, PopType
  <2>3. SlotsSound(p)
    BY <1>1, <2>1, PopSound
  <2>4. sub' = [sub EXCEPT ![s] = w]
    BY <1>1, <1>5 DEF SendQueued, u
  <2>5. exposures' \in Int
    BY <1>1, <1>5 DEF SendQueued
  <2> HIDE DEF p, f
  <2>6. w \in Subscription /\ w.seed_vectors = p.seed_vectors
        /\ w.queue = p.queue /\ w.coalescible = p.coalescible
    BY <2>2 DEF Subscription
  <2> HIDE DEF w
  <2>7. SlotsSound(w)
    BY <2>3, <2>6, SlotsSoundOf
  <2> QED BY <1>1, <2>2, <2>4, <2>5, <2>6, <2>7
<1>6. CASE AwaitReady(s)
  <2> DEFINE w == [u EXCEPT !.ready = FALSE, !.pump = "waiting", !.inflight = NoFrame]
  <2>1. w \in Subscription /\ w.seed_vectors = u.seed_vectors
        /\ w.queue = u.queue /\ w.coalescible = u.coalescible
    BY <1>1 DEF Subscription
  <2>2. sub' = [sub EXCEPT ![s] = w] /\ exposures' = exposures
    BY <1>1, <1>6 DEF AwaitReady, u
  <2> HIDE DEF w
  <2>3. SlotsSound(w)
    BY <1>1, <2>1, SlotsSoundOf
  <2> QED BY <1>1, <2>1, <2>2, <2>3
<1> QED BY <1>2, <1>3, <1>4, <1>5, <1>6 DEF Proceed

\* The pump runs from one await to the next.
LEMMA RunStep ==
  ASSUME IInv, NEW s \in Subs, PumpStart(s) \/ PumpSent(s) \/ PumpWake(s)
  PROVE  IInv'
<1> USE DEF IInv
<1>1. Proceed(s) /\ UNCHANGED <<upstream, bridge, subs, route, closes, attaches>>
  <2>1. CASE PumpStart(s)
    BY <2>1 DEF PumpStart, browser, closes
  <2>2. CASE PumpSent(s)
    BY <2>2 DEF PumpSent
  <2>3. CASE PumpWake(s)
    BY <2>3 DEF PumpWake, browser, closes
  <2> QED BY <2>1, <2>2, <2>3
<1>2. PICK w \in Subscription :
        /\ sub' = [sub EXCEPT ![s] = w]
        /\ w.seed_vectors \subseteq DOMAIN objects
        /\ SlotsSound(w)
  BY <1>1, ProceedKeeps
<1>3. StoreKept
  BY <1>1 DEF StoreKept, StoreType, upstream
<1>4. /\ sub' \in [Subs -> Subscription]
      /\ SeedsType' /\ CoalescingSound' /\ StoreType' /\ PendingIsCached' /\ BridgeType'
  BY <1>1, <1>2, <1>3, OneSubscription
<1>5. SubsType'
  BY <1>1, <1>4, ProceedKeeps DEF SubsType, bridge
<1>6. sub[s].inflight \in Frame \cup {NoFrame}
  BY DEF SubsType, Subscription
<1>7. Show(view[s], sub[s].inflight) \in Page
  BY <1>6, ShowType DEF BrowserType
<1>8. view' \in {view, [view EXCEPT ![s] = Show(view[s], sub[s].inflight)]}
  <2>1. CASE PumpStart(s)
    BY <2>1 DEF PumpStart, browser, closes
  <2>2. CASE PumpSent(s)
    BY <2>2 DEF PumpSent
  <2>3. CASE PumpWake(s)
    BY <2>3 DEF PumpWake, browser, closes
  <2> QED BY <2>1, <2>2, <2>3
<1>9. BrowserType'
  BY <1>1, <1>7, <1>8 DEF BrowserType, closes
<1> QED BY <1>4, <1>5, <1>9

\* The pump ends, however it does.
LEMMA EndStep ==
  ASSUME IInv, NEW s \in Subs, SinkFailed(s) \/ PumpCancelled(s) \/ PumpNeverRan(s)
  PROVE  IInv'
<1> USE DEF IInv
<1> DEFINE u == sub[s]
           w == [u EXCEPT !.pump = "done", !.inflight = NoFrame,
                          !.cancelled = FALSE, !.closed = TRUE]
           x == [u EXCEPT !.pump = "done", !.cancelled = FALSE]
<1>1. u \in Subscription /\ u.seed_vectors \subseteq DOMAIN objects /\ SlotsSound(u)
      /\ sub \in [Subs -> Subscription]
  BY DEF SubsType, SeedsType, CoalescingSound
<1>2. /\ UNCHANGED <<upstream, bridge, route, closes, attaches, exposures>>
      /\ subs' \in SUBSET Subs
      /\ sub' \in {[sub EXCEPT ![s] = w], [sub EXCEPT ![s] = x]}
      /\ view' \in {view, [view EXCEPT ![s] = Show(view[s], u.inflight)]}
  <2>1. CASE SinkFailed(s)
    BY <1>1, <2>1 DEF SinkFailed, EndPump, Detach, browser, closes, SubsType
  <2>2. CASE PumpCancelled(s)
    BY <1>1, <2>2 DEF PumpCancelled, EndPump, Detach, SubsType
  <2>3. CASE PumpNeverRan(s)
    BY <1>1, <2>3 DEF PumpNeverRan, browser, closes, SubsType
  <2> QED BY <2>1, <2>2, <2>3
<1>3. \A v \in {w, x} : /\ v \in Subscription /\ v.seed_vectors = u.seed_vectors
                        /\ v.queue = u.queue /\ v.coalescible = u.coalescible
  <2> HIDE DEF u
  <2> QED BY <1>1, ZenonT(60) DEF Subscription
<1>4. Show(view[s], u.inflight) \in Page
  BY <1>1, ShowType DEF BrowserType, Subscription
<1> HIDE DEF u, w, x
<1>5. PICK v \in {w, x} : sub' = [sub EXCEPT ![s] = v]
  BY <1>2
<1>6. SlotsSound(v) /\ v \in Subscription /\ v.seed_vectors \subseteq DOMAIN objects
  BY <1>1, <1>3, SlotsSoundOf
<1>7. StoreKept /\ UNCHANGED bridge
  BY <1>2 DEF StoreKept, StoreType, upstream
<1>8. /\ sub' \in [Subs -> Subscription]
      /\ SeedsType' /\ CoalescingSound' /\ StoreType' /\ PendingIsCached' /\ BridgeType'
  BY <1>5, <1>6, <1>7, OneSubscription
<1>9. SubsType'
  BY <1>2, <1>8 DEF SubsType, bridge
<1>10. BrowserType'
  BY <1>2, <1>4 DEF BrowserType, closes
<1> QED BY <1>8, <1>9, <1>10

\* The exposures still queued are finitely many.
LEMMA QueuedExposuresType ==
  ASSUME NEW u \in Subscription
  PROVE  QueuedExposures(u) \in Nat
<1> DEFINE e == {i \in DOMAIN u.queue : IsExposure(u.queue[i].frame)}
<1>1. DOMAIN u.queue = 1..Len(u.queue) /\ Len(u.queue) \in Nat
  BY LenProperties DEF Subscription
<1>2. IsFiniteSet(1..Len(u.queue))
  BY <1>1, FS_Interval
<1>3. e \subseteq 1..Len(u.queue)
  BY <1>1
<1> HIDE DEF e
<1> QED BY <1>2, <1>3, FS_Subset, FS_CardinalityType DEF QueuedExposures, e

\* A browser attaches: its seed names objects of the cache.
LEMMA AttachStep ==
  ASSUME IInv, NEW s \in Subs, Attach(s)
  PROVE  IInv'
<1> USE DEF IInv
<1> DEFINE replay == [i \in DOMAIN messages |-> MessageFrame(messages[i])]
           frames == Append(replay, ConnectionFrame(connected))
           seeds == {cache[k] : k \in Held(cache)}
           w == [preamble |-> <<HelloFrame>>, seed_vectors |-> seeds,
                 seed_frames |-> frames, queue |-> <<>>, coalescible |-> Empty,
                 ready |-> FALSE, closed |-> FALSE, dropped_for_backlog |-> FALSE,
                 inflight |-> NoFrame, pump |-> "created", cancelled |-> FALSE]
<1>1. seeds \subseteq DOMAIN objects /\ seeds \subseteq Nat
  <2>1. DOMAIN objects \subseteq Nat
    BY LenProperties DEF StoreType, Objects
  <2> QED BY <2>1 DEF Held, StoreType, Dict
<1>2. replay \in Seq(Frame)
  <2>1. DOMAIN messages = 1..Len(messages) /\ Len(messages) \in Nat
        /\ \A i \in DOMAIN messages : messages[i] \in Nat
    BY LenProperties, ElementOfSeq DEF BridgeType
  <2>2. \A i \in DOMAIN messages : MessageFrame(messages[i]) \in Frame
    BY <2>1, FrameTypes
  <2>3. replay \in [1..Len(messages) -> Frame]
    BY <2>1, <2>2
  <2> HIDE DEF replay
  <2> QED BY <2>1, <2>3, SeqDef
<1>3. frames \in Seq(Frame)
  <2>1. ConnectionFrame(connected) \in Frame
    BY FrameTypes DEF StoreType
  <2> HIDE DEF replay
  <2> QED BY <1>2, <2>1
<1>4. sub' = [sub EXCEPT ![s] = w]
  BY DEF Attach
<1>5. /\ subs' = subs \cup {s}
      /\ route' = [route EXCEPT ![s] = "serving"]
      /\ attaches' = [attaches EXCEPT ![s] = attaches[s] + 1]
      /\ exposures' = exposures - QueuedExposures(sub[s])
      /\ UNCHANGED <<upstream, bridge, closes, view>>
  BY DEF Attach
<1> HIDE DEF replay, frames, seeds
<1>6. Empty \in Dict(Nat) /\ Held(Empty) = {}
  BY DEF Empty, Dict, Held
<1>7. w \in Subscription /\ w.seed_vectors \subseteq DOMAIN objects
  BY <1>1, <1>3, <1>6 DEF Subscription
<1>8. SlotsSound(w)
  BY <1>6 DEF SlotsSound
<1> HIDE DEF w
<1>9. StoreKept /\ UNCHANGED bridge
  BY <1>5 DEF StoreKept, StoreType, upstream
<1>10. /\ sub' \in [Subs -> Subscription]
       /\ SeedsType' /\ CoalescingSound' /\ StoreType' /\ PendingIsCached' /\ BridgeType'
  BY <1>4, <1>7, <1>8, <1>9, OneSubscription
<1>11. QueuedExposures(sub[s]) \in Nat
  BY QueuedExposuresType DEF SubsType
<1>12. SubsType'
  <2>1. exposures' \in Int
    BY <1>5, <1>11 DEF SubsType
  <2>2. subs' \in SUBSET Subs
    BY <1>5 DEF SubsType
  <2>3. dropped_slow_sinks' \in Nat /\ coalesced_blobs' \in Nat
    BY <1>5 DEF SubsType, bridge
  <2> QED BY <1>10, <2>1, <2>2, <2>3 DEF SubsType
<1>13. BrowserType'
  BY <1>5 DEF BrowserType, closes
<1> QED BY <1>10, <1>12, <1>13

\* A frame of the browser is refused with an error frame.
LEMMA RefuseStep ==
  ASSUME IInv, NEW s \in Subs, Refuse(s)
  PROVE  IInv'
<1> USE DEF IInv
<1> DEFINE w == Deliver(sub[s], ErrorFrame, None)
<1>1. sub[s] \in Subscription /\ SlotsSound(sub[s])
      /\ sub[s].seed_vectors \subseteq DOMAIN objects
  BY DEF SubsType, CoalescingSound, SeedsType
<1>2. ErrorFrame \in Frame /\ Deliverable(sub[s], ErrorFrame, None)
  BY FrameTypes DEF Deliverable, Concerns, ErrorFrame
<1>3. w \in Subscription /\ SlotsSound(w) /\ w.seed_vectors \subseteq DOMAIN objects
  BY <1>1, <1>2, DeliverKeeps
<1>4. sub' = [sub EXCEPT ![s] = w]
  BY DEF Refuse, SubsType
<1>5. /\ subs' \in {subs, subs \ {s}}
      /\ dropped_slow_sinks' \in {dropped_slow_sinks, dropped_slow_sinks + 1}
      /\ UNCHANGED <<coalesced_blobs, browser, exposures>>
  BY DEF Refuse, SubsType
<1>6. StoreKept /\ UNCHANGED <<phase, messages, logged>>
  BY DEF Refuse, StoreKept, StoreType, Tick
<1> HIDE DEF w
<1>7. sub' \in [Subs -> Subscription] /\ SeedsType' /\ CoalescingSound'
  <2>1. sub \in [Subs -> Subscription]
    BY DEF SubsType
  <2>2. \A r \in Subs : sub'[r] = IF r = s THEN w ELSE sub[r]
    BY <1>4, <2>1
  <2> QED BY <1>3, <1>4, <1>6, <2>1, <2>2 DEF SeedsType, CoalescingSound, StoreKept
<1>8. SubsType'
  <2>1. dropped_slow_sinks' \in Nat
    BY <1>5 DEF SubsType
  <2>2. subs' \in SUBSET Subs
    BY <1>5 DEF SubsType
  <2>3. coalesced_blobs' \in Nat /\ exposures' \in Int
    BY <1>5 DEF SubsType
  <2> QED BY <1>7, <2>1, <2>2, <2>3 DEF SubsType
<1>9. StoreType' /\ PendingIsCached' /\ BridgeType' /\ BrowserType'
  BY <1>5, <1>6 DEF StoreKept, StoreType, PendingIsCached, BridgeType, BrowserType, browser, closes
<1> QED BY <1>7, <1>8, <1>9

\* A route ends and detaches what is left.
LEMMA CloseStep ==
  ASSUME IInv, NEW s \in Subs, EndRoute(s) \/ RouteFinishes(s)
  PROVE  IInv'
<1> USE DEF IInv
<1> DEFINE u == sub[s]
           w == [u EXCEPT !.closed = TRUE]
<1>1. u \in Subscription /\ u.seed_vectors \subseteq DOMAIN objects /\ SlotsSound(u)
      /\ sub \in [Subs -> Subscription]
  BY DEF SubsType, SeedsType, CoalescingSound
<1>2. \A v \in {w, Cancel(u)} : /\ v \in Subscription /\ v.seed_vectors = u.seed_vectors
                                /\ v.queue = u.queue /\ v.coalescible = u.coalescible
  <2> HIDE DEF u
  <2>1. w \in Subscription /\ w.seed_vectors = u.seed_vectors
        /\ w.queue = u.queue /\ w.coalescible = u.coalescible
    BY <1>1 DEF Subscription
  <2> QED BY <1>1, <2>1, CancelType
<1>3. SocketClosed(view[s]) \in Page
  <2>1. view[s] \in Page
    BY DEF BrowserType
  <2> QED BY <2>1 DEF SocketClosed, Page
<1>4. /\ sub' \in {[sub EXCEPT ![s] = w], [sub EXCEPT ![s] = Cancel(u)]}
      /\ subs' \in SUBSET Subs
      /\ UNCHANGED <<upstream, bridge, attaches, exposures>>
  <2>1. CASE EndRoute(s)
    BY <1>1, <2>1 DEF EndRoute, SubsType
  <2>2. CASE RouteFinishes(s)
    BY <1>1, <2>2 DEF RouteFinishes, Detach, SubsType
  <2> QED BY <2>1, <2>2
<1>5. BrowserType'
  <2>1. CASE EndRoute(s)
    BY <2>1 DEF EndRoute, BrowserType, closes
  <2>2. CASE RouteFinishes(s)
    BY <1>3, <2>2 DEF RouteFinishes, BrowserType
  <2> QED BY <2>1, <2>2
<1> HIDE DEF u, w
<1>6. PICK v \in {w, Cancel(u)} : sub' = [sub EXCEPT ![s] = v]
  BY <1>4
<1>7. SlotsSound(v) /\ v \in Subscription /\ v.seed_vectors \subseteq DOMAIN objects
  BY <1>1, <1>2, SlotsSoundOf
<1>8. StoreKept /\ UNCHANGED bridge
  BY <1>4 DEF StoreKept, StoreType, upstream
<1>9. /\ sub' \in [Subs -> Subscription]
      /\ SeedsType' /\ CoalescingSound' /\ StoreType' /\ PendingIsCached' /\ BridgeType'
  BY <1>6, <1>7, <1>8, OneSubscription
<1>10. SubsType'
  BY <1>4, <1>9 DEF SubsType, bridge
<1> QED BY <1>5, <1>9, <1>10

\* Bridge.aclose closes every subscription.
LEMMA StopStep ==
  ASSUME IInv, Stop
  PROVE  IInv'
<1> USE DEF IInv
<1>1. \A s \in Subs :
        /\ Cancel(sub[s]) \in Subscription
        /\ Cancel(sub[s]).seed_vectors = sub[s].seed_vectors
        /\ SlotsSound(Cancel(sub[s]))
  BY CancelType, SlotsSoundOf DEF SubsType, CoalescingSound
<1>2. sub' = [s \in Subs |-> IF s \in subs THEN Cancel(sub[s]) ELSE sub[s]]
      /\ UNCHANGED <<upstream, subs, dropped_slow_sinks, coalesced_blobs, browser, exposures>>
      /\ UNCHANGED <<messages, logged>> /\ phase' = "stopping"
  BY DEF Stop
<1>3. SubsType'
  BY <1>1, <1>2 DEF SubsType
<1>4. SeedsKept
  BY <1>1, <1>2 DEF SeedsKept
<1>5. SeedsType'
  BY <1>2, <1>4, SeedsTypeKept DEF upstream
<1>6. CoalescingSound'
  BY <1>1, <1>2 DEF CoalescingSound
<1>7. StoreType' /\ PendingIsCached'
  BY <1>2 DEF StoreType, PendingIsCached, upstream
<1>8. BridgeType' /\ BrowserType'
  BY <1>2 DEF BridgeType, BrowserType, browser, closes
<1> QED BY <1>3, <1>5, <1>6, <1>7, <1>8

\* ... and then the client.
LEMMA StopClientStep ==
  ASSUME IInv, StopClient
  PROVE  IInv'
<1> USE DEF IInv
<1>1. /\ UNCHANGED <<objects, cache, devices, clock>>
      /\ connected' \in BOOLEAN
      /\ pending' \in {ConnectionEvent(FALSE), NoEvent}
  BY DEF StopClient, StoreType
<1>2. ConnectionEvent(FALSE) \in Event /\ ConnectionEvent(FALSE).type = "connection"
  BY EventTypes DEF ConnectionEvent
<1>3. StoreType' /\ PendingIsCached'
  BY <1>1, <1>2 DEF StoreType, PendingIsCached
<1>4. SubsType' /\ SeedsType' /\ CoalescingSound'
  BY <1>1 DEF StopClient, SubsType, SeedsType, CoalescingSound
<1>5. BridgeType' /\ BrowserType'
  BY DEF StopClient, BridgeType, BrowserType, browser, closes
<1> QED BY <1>3, <1>4, <1>5

\* Nothing happens.
LEMMA StutterStep ==
  ASSUME IInv, UNCHANGED vars
  PROVE  IInv'
<1> USE DEF IInv
<1>1. UNCHANGED <<upstream, bridge, subs, sub, browser, exposures>>
  BY DEF vars
<1>2. StoreType' /\ PendingIsCached'
  BY <1>1 DEF upstream, StoreType, PendingIsCached
<1>3. SubsType' /\ SeedsType' /\ CoalescingSound'
  BY <1>1 DEF upstream, bridge, SubsType, SeedsType, CoalescingSound
<1>4. BridgeType' /\ BrowserType'
  BY <1>1 DEF bridge, browser, closes, BridgeType, BrowserType
<1> QED BY <1>2, <1>3, <1>4

\* Every step keeps the inductive invariant.
LEMMA NextIInv == IInv /\ [Next]_vars => IInv'
<1> SUFFICES ASSUME IInv, [Next]_vars PROVE IInv'
  OBVIOUS
<1>1. CASE Upstream
  <2>1. ASSUME NEW k \in Key, ReceiveDef(k) PROVE IInv'
    BY <2>1, DefStep
  <2>2. ASSUME NEW k \in Key, NEW carried \in (SUBSET Fields) \ {{}}, ReceiveSet(k, carried)
        PROVE IInv'
    BY <2>2, SetStep
  <2>3. ASSUME NEW d \in Devices, NEW n \in Names \cup {None}, ReceiveDel(d, n)
        PROVE IInv'
    BY <2>3, DelStep
  <2> QED BY <1>1, <2>1, <2>2, <2>3, MessageStep, UpStep, DownStep DEF Upstream
<1>2. CASE OnEvent
  BY <1>2, OnEventStep
<1>3. ASSUME NEW s \in Subs, Pump(s) PROVE IInv'
  BY <1>3, RunStep, EndStep DEF Pump
<1>4. ASSUME NEW s \in Subs, Route(s) PROVE IInv'
  <2>1. CASE EndRoute(s)
    BY <2>1, CloseStep
  <2>2. CASE RouteFinishes(s)
    BY <2>2, CloseStep
  <2> QED BY <1>4, <2>1, <2>2, AttachStep, RefuseStep DEF Route, BrowserLeaves, RouteSeesClosed
<1>5. CASE Stop
  BY <1>5, StopStep
<1>6. CASE StopClient
  BY <1>6, StopClientStep
<1>7. CASE UNCHANGED vars
  BY <1>7, StutterStep
<1> QED BY <1>1, <1>2, <1>3, <1>4, <1>5, <1>6, <1>7 DEF Next

-----------------------------------------------------------------------------
\* Every variable of the bridge, its client and its browsers keeps its type:
\* among other things, every seed still to be sent names an object that the
\* store has cached, and no counter goes below zero.
THEOREM TypeCorrect == Spec => []TypeOK
<1>1. IInv => TypeOK
  BY TypeParts DEF IInv
<1> QED BY <1>1, InitIInv, NextIInv, PTL DEF Spec

\* Whatever the upstream sends and however the browsers behave, a queued set
\* that a later one may replace is for the same property, is still in the
\* queue, and has nothing behind it that concerns the property
\* (Subscription.enqueue, invalidate and pop).
THEOREM CoalescingCorrect == Spec => []CoalescingSound
<1>1. IInv => CoalescingSound
  BY DEF IInv
<1> QED BY <1>1, InitIInv, NextIInv, PTL DEF Spec

-----------------------------------------------------------------------------
(* What reaches the subscriptions at once: every step of the upstream      *)
(* either broadcasts one frame or leaves them all as they are.             *)

\* What a broadcast may be asked to do: a set under its own key, or a frame no later one
\* may replace, with every key it concerns given up.
Fitting(f, k, gone) ==
  /\ f \in Frame /\ k \in Key \cup {None}
  /\ \/ k \in Key /\ f.tag = "set" /\ f.key = k
     \/ k = None /\ \A j \in Key : Concerns(f, j) => j \in gone

\* The frame of an event, the key it may be folded under, and the keys it invalidates.
FrameOf(event, objs, props) ==
  LET k == <<event.dev, event.name>>
      val == objs[props[k]].val
  IN  CASE event.type = "set" -> VectorFrame("set", k, val)
        [] event.type = "def" -> VectorFrame("def", k, val)
        [] event.type = "del" -> DelFrame(event.dev, event.name)
        [] OTHER -> ConnectionFrame(event.up)
KeyOf(event) == IF event.type = "set" THEN <<event.dev, event.name>> ELSE None
GoneOf(event) ==
  CASE event.type = "def" -> {<<event.dev, event.name>>}
    [] event.type = "del" -> DelKeys(event.dev, event.name)
    [] OTHER -> {}

\* The bridge's callback broadcasts the frame of its event.
LEMMA OnCallbackIs ==
  ASSUME NEW event \in Event, NEW objs \in Objects,
         NEW props \in Dict(DOMAIN objs),
         event.type \in {"def", "set"} => props[<<event.dev, event.name>>] # None,
         OnCallback(event, objs, props)
  PROVE  /\ Broadcast(FrameOf(event, objs, props), KeyOf(event), GoneOf(event))
         /\ Fitting(FrameOf(event, objs, props), KeyOf(event), GoneOf(event))
<1> DEFINE k == <<event.dev, event.name>>
           val == objs[props[k]].val
<1>1. event.type \in {"def", "set", "del", "connection"}
  BY DEF Event
<1>2. ASSUME event.type \in {"def", "set"}
      PROVE  k \in Key /\ val \in Value
  <2>1. k \in Key
    BY <1>2 DEF Event, Key
  <2>2. props[k] \in DOMAIN objs
    BY <1>2, <2>1 DEF Dict
  <2> HIDE DEF k
  <2>3. \A i \in DOMAIN objs : objs[i] \in [key : Key, val : Value]
    BY LenProperties, ElementOfSeq DEF Objects
  <2>4. objs[props[k]] \in [key : Key, val : Value]
    BY <2>2, <2>3
  <2> QED BY <2>1, <2>4
<1>3. CASE event.type = "set"
  <2>1. /\ FrameOf(event, objs, props) = VectorFrame("set", k, val)
        /\ KeyOf(event) = k /\ GoneOf(event) = {}
        /\ Broadcast(VectorFrame("set", k, val), k, {})
    BY <1>3 DEF OnCallback, FrameOf, KeyOf, GoneOf
  <2>2. VectorFrame("set", k, val) \in Frame /\ k \in Key
        /\ VectorFrame("set", k, val).tag = "set" /\ VectorFrame("set", k, val).key = k
    BY <1>2, <1>3, FrameTypes DEF VectorFrame
  <2> HIDE DEF k, val
  <2> QED BY <2>1, <2>2 DEF Fitting
<1>4. CASE event.type = "def"
  <2>1. /\ FrameOf(event, objs, props) = VectorFrame("def", k, val)
        /\ KeyOf(event) = None /\ GoneOf(event) = {k}
        /\ Broadcast(VectorFrame("def", k, val), None, {k})
    BY <1>4 DEF OnCallback, FrameOf, KeyOf, GoneOf
  <2>2. VectorFrame("def", k, val) \in Frame /\ k \in Key
    BY <1>2, <1>4, FrameTypes
  <2>3. \A j \in Key : Concerns(VectorFrame("def", k, val), j) => j \in {k}
    BY DEF Concerns, VectorFrame
  <2> HIDE DEF k, val
  <2> QED BY <2>1, <2>2, <2>3 DEF Fitting
<1>5. CASE event.type = "del"
  <2> DEFINE f == DelFrame(event.dev, event.name)
             gone == DelKeys(event.dev, event.name)
  <2>1. /\ FrameOf(event, objs, props) = f
        /\ KeyOf(event) = None /\ GoneOf(event) = gone
        /\ Broadcast(f, None, gone)
    BY <1>5 DEF OnCallback, FrameOf, KeyOf, GoneOf
  <2>2. f \in Frame
    BY <1>5, FrameTypes DEF Event
  <2>3. \A j \in Key : Concerns(f, j) => j \in gone
    BY DEF Concerns, DelFrame
  <2> HIDE DEF f, gone
  <2> QED BY <2>1, <2>2, <2>3 DEF Fitting
<1>6. CASE event.type = "connection"
  <2> DEFINE f == ConnectionFrame(event.up)
  <2>1. /\ FrameOf(event, objs, props) = f
        /\ KeyOf(event) = None /\ GoneOf(event) = {}
        /\ Broadcast(f, None, {})
    BY <1>6 DEF OnCallback, FrameOf, KeyOf, GoneOf
  <2>2. f \in Frame
    BY <1>6, FrameTypes DEF Event
  <2>3. \A j \in Key : ~Concerns(f, j)
    BY DEF Concerns, ConnectionFrame
  <2> HIDE DEF f
  <2> QED BY <2>1, <2>2, <2>3 DEF Fitting
<1> QED BY <1>1, <1>3, <1>4, <1>5, <1>6

\* A broadcast, whatever it says; and no broadcast.
Told == \E f, k, gone : Fitting(f, k, gone) /\ Broadcast(f, k, gone)
Untold == UNCHANGED <<sub, subs, dropped_slow_sinks, coalesced_blobs, exposures>>

\* An event is broadcast, or put off behind a subscriber that suspends.
LEMMA DispatchIs ==
  ASSUME NEW event \in Event, NEW objs \in Objects,
         NEW props \in Dict(DOMAIN objs),
         event.type \in {"def", "set"} => props[<<event.dev, event.name>>] # None,
         Dispatch(event, objs, props)
  PROVE  Told \/ Untold
BY OnCallbackIs DEF Dispatch, Told, Untold

\* Every step of the upstream and of the callback tells all browsers one frame or none.
LEMMA UpstreamTells ==
  ASSUME IInv, Upstream \/ OnEvent
  PROVE  /\ Told \/ Untold
         /\ UNCHANGED browser
<1> USE DEF IInv
<1>1. ASSUME NEW k \in Key, ReceiveDef(k) PROVE (Told \/ Untold) /\ UNCHANGED browser
  <2> DEFINE object == [key |-> k, val |-> [f \in Fields |-> clock + 1]]
             event == PropertyEvent("def", k[1], k[2])
  <2>1. k[1] \in Devices /\ k[2] \in Names /\ k = <<k[1], k[2]>>
    BY DEF Key
  <2>2. object \in [key : Key, val : Value]
    BY DEF StoreType, Value
  <2>3. objects' = Append(objects, object) /\ objects \in Seq([key : Key, val : Value])
    BY <1>1 DEF ReceiveDef, StoreType, Objects
  <2>4. objects' \in Objects /\ DOMAIN objects \subseteq DOMAIN objects'
        /\ Len(objects) + 1 \in DOMAIN objects'
    <3> HIDE DEF object
    <3> QED BY <2>2, <2>3 DEF Objects
  <2>5. cache' \in Dict(DOMAIN objects') /\ cache'[k] # None
    <3>1. cache' = [cache EXCEPT ![k] = Len(objects) + 1]
      BY <1>1 DEF ReceiveDef
    <3>2. Len(objects) + 1 \in Nat
      BY <2>3
    <3> QED BY <2>4, <3>1, <3>2, BridgeAssumption DEF StoreType, Dict
  <2>6. event \in Event /\ event.dev = k[1] /\ event.name = k[2]
    BY <2>1, EventTypes DEF PropertyEvent
  <2>7. Dispatch(event, objects', cache') /\ UNCHANGED browser
    BY <1>1 DEF ReceiveDef
  <2> HIDE DEF event
  <2> QED BY <2>1, <2>4, <2>5, <2>6, <2>7, DispatchIs
<1>2. ASSUME NEW k \in Key, NEW carried, ReceiveSet(k, carried)
      PROVE  (Told \/ Untold) /\ UNCHANGED browser
  <2> DEFINE event == PropertyEvent("set", k[1], k[2])
  <2>1. k[1] \in Devices /\ k[2] \in Names /\ k = <<k[1], k[2]>>
    BY DEF Key
  <2>2. StoreType' /\ cache' = cache
    BY <1>2, SetStep DEF ReceiveSet
  <2>3. objects' \in Objects /\ cache \in Dict(DOMAIN objects')
    BY <2>2 DEF StoreType
  <2>4. event \in Event /\ event.dev = k[1] /\ event.name = k[2]
    BY <2>1, EventTypes DEF PropertyEvent
  <2>5. Dispatch(event, objects', cache) /\ UNCHANGED browser /\ cache[k] # None
    BY <1>2 DEF ReceiveSet, Held
  <2> HIDE DEF event
  <2> QED BY <2>1, <2>3, <2>4, <2>5, DispatchIs
<1>3. ASSUME NEW d \in Devices, NEW n \in Names \cup {None}, ReceiveDel(d, n)
      PROVE  (Told \/ Untold) /\ UNCHANGED browser
  <2> DEFINE event == PropertyEvent("del", d, n)
  <2>1. cache' \in Dict(DOMAIN objects) /\ objects \in Objects
    BY <1>3 DEF ReceiveDel, Without, Dict, StoreType
  <2>2. event \in Event /\ event.type = "del"
    BY EventTypes DEF PropertyEvent
  <2>3. Dispatch(event, objects, cache') /\ UNCHANGED browser
    BY <1>3 DEF ReceiveDel
  <2> HIDE DEF event
  <2> QED BY <2>1, <2>2, <2>3, DispatchIs
<1>4. CASE ReceiveMessage
  <2> DEFINE f == MessageFrame(logged + 1)
  <2>1. f \in Frame /\ \A j \in Key : ~Concerns(f, j)
    BY FrameTypes DEF BridgeType, Concerns, MessageFrame
  <2>2. Broadcast(f, None, {}) /\ UNCHANGED browser
    BY <1>4 DEF ReceiveMessage
  <2> HIDE DEF f
  <2> QED BY <2>1, <2>2 DEF Told, Fitting
<1>5. CASE UpstreamUp
  <2>1. ConnectionEvent(TRUE) \in Event /\ ConnectionEvent(TRUE).type = "connection"
    BY EventTypes DEF ConnectionEvent
  <2>2. Dispatch(ConnectionEvent(TRUE), objects, cache) /\ UNCHANGED browser
    BY <1>5 DEF UpstreamUp
  <2> QED BY <2>1, <2>2, DispatchIs DEF StoreType
<1>6. CASE UpstreamDown
  BY <1>6 DEF UpstreamDown, Untold
<1>7. CASE OnEvent
  <2>1. pending \in Event /\ OnCallback(pending, objects, cache) /\ UNCHANGED browser
    BY <1>7 DEF OnEvent, StoreType
  <2>2. objects \in Objects /\ cache \in Dict(DOMAIN objects)
        /\ (pending.type \in {"def", "set"} => cache[<<pending.dev, pending.name>>] # None)
    BY <1>7 DEF OnEvent, StoreType, PendingIsCached
  <2> QED BY <2>1, <2>2, OnCallbackIs DEF Told
<1> QED BY <1>1, <1>2, <1>3, <1>4, <1>5, <1>6, <1>7 DEF Upstream

-----------------------------------------------------------------------------
(* What a delivery changes of a subscription.                              *)

\* What only the pump and the route change.
Rest(u) == <<u.preamble, u.seed_vectors, u.seed_frames, u.inflight, u.pump>>
\* Whether it still takes frames.
Standing(u) == <<u.closed, u.dropped_for_backlog, u.cancelled>>

\* The queue once f has come: folded into its slot, or at the end.
QueueWith(u, f, k) ==
  IF k \in Held(u.coalescible) THEN Overwrite(u.queue, u.coalescible[k], f)
  ELSE Append(u.queue, [frame |-> f, key |-> k])

\* Queueing a frame changes the queue and nothing of what the pump has taken.
LEMMA EnqueueShape ==
  ASSUME NEW u \in Subscription, NEW f \in Frame, NEW k \in Key \cup {None}
  PROVE  /\ Rest(Enqueue(u, f, k)) = Rest(u)
         /\ Standing(Enqueue(u, f, k)) = Standing(u)
         /\ Enqueue(u, f, k).queue = QueueWith(u, f, k)
<1>1. CASE k \in Held(u.coalescible)
  <2>1. Enqueue(u, f, k) = [u EXCEPT !.queue = Overwrite(u.queue, u.coalescible[k], f)]
    BY <1>1 DEF Enqueue, Replace
  <2>2. QueueWith(u, f, k) = Overwrite(u.queue, u.coalescible[k], f)
    BY <1>1 DEF QueueWith
  <2> QED BY <2>1, <2>2 DEF Subscription, Rest, Standing
<1>2. CASE k \notin Held(u.coalescible)
  <2>1. Enqueue(u, f, k) =
          [u EXCEPT !.queue = Append(u.queue, [frame |-> f, key |-> k]),
                    !.coalescible = IF k = None THEN u.coalescible
                                    ELSE [u.coalescible EXCEPT ![k] = Len(u.queue) + 1],
                    !.ready = TRUE]
    BY <1>2 DEF Enqueue, Join
  <2>2. QueueWith(u, f, k) = Append(u.queue, [frame |-> f, key |-> k])
    BY <1>2 DEF QueueWith
  <2> QED BY <2>1, <2>2 DEF Subscription, Rest, Standing
<1> QED BY <1>1, <1>2

\* A delivery queues the frame, and drops the subscription when it overflows.
LEMMA DeliverShape ==
  ASSUME NEW u \in Subscription, NEW f \in Frame, NEW k \in Key \cup {None}
  PROVE  LET w == Deliver(u, f, k)
         IN  /\ Rest(w) = Rest(u)
             /\ u.closed => w = u /\ ~Overflows(u, f, k)
             /\ ~u.closed => w.queue = QueueWith(u, f, k)
             /\ Overflows(u, f, k) => w.closed /\ w.dropped_for_backlog
             /\ ~Overflows(u, f, k) => Standing(w) = Standing(u)
<1> DEFINE e == Enqueue(u, f, k)
           c == [e EXCEPT !.closed = TRUE, !.dropped_for_backlog = TRUE]
           b == c.pump \in {"created", "sending", "waiting"}
<1>1. e \in Subscription /\ Rest(e) = Rest(u) /\ Standing(e) = Standing(u)
      /\ e.queue = QueueWith(u, f, k)
  BY EnqueueType, EnqueueShape
<1>2. CASE u.closed
  BY <1>2 DEF Deliver, Overflows
<1>3. CASE ~u.closed /\ Overflows(u, f, k)
  <2>1. Deliver(u, f, k) = [c EXCEPT !.cancelled = b]
    BY <1>3 DEF Deliver, Drop, Cancel
  <2> HIDE DEF e, b
  <2>2. c \in Subscription /\ Rest(c) = Rest(e) /\ c.closed /\ c.dropped_for_backlog
        /\ c.queue = e.queue
    BY <1>1 DEF Subscription, Rest
  <2> HIDE DEF c
  <2>3. LET w == [c EXCEPT !.cancelled = b]
        IN  Rest(w) = Rest(c) /\ w.closed = c.closed /\ w.queue = c.queue
            /\ w.dropped_for_backlog = c.dropped_for_backlog
    BY <2>2 DEF Subscription, Rest
  <2> QED BY <1>1, <1>3, <2>1, <2>2, <2>3
<1>4. CASE ~u.closed /\ ~Overflows(u, f, k)
  <2>1. Deliver(u, f, k) = e
    BY <1>4 DEF Deliver
  <2> HIDE DEF e
  <2> QED BY <1>1, <1>4, <2>1
<1> QED BY <1>2, <1>3, <1>4

\* Giving up replaceable slots leaves everything else.
LEMMA InvalidateShape ==
  ASSUME NEW u \in Subscription, NEW gone
  PROVE  LET w == Invalidate(u, gone)
         IN  /\ Rest(w) = Rest(u) /\ Standing(w) = Standing(u) /\ w.queue = u.queue
             /\ w.coalescible = Without(u.coalescible, gone)
BY DEF Invalidate, Subscription, Rest, Standing

\* Cancelling a pump leaves all that is on its way.
LEMMA CancelShape ==
  ASSUME NEW u \in Subscription
  PROVE  LET w == Cancel(u)
         IN  /\ Rest(w) = Rest(u) /\ w.queue = u.queue
             /\ w.closed = u.closed /\ w.dropped_for_backlog = u.dropped_for_backlog
<1> DEFINE b == u.pump \in {"created", "sending", "waiting"}
<1>2. Cancel(u) = [u EXCEPT !.cancelled = b]
  BY DEF Cancel
<1> HIDE DEF b
<1> QED BY <1>2 DEF Subscription, Rest

-----------------------------------------------------------------------------
(* Registration.                                                           *)

\* A registered subscription takes frames and has a route; one dropped for
\* its backlog is closed, and was once attached.
Registered ==
  \A s \in Subs :
    /\ s \in subs => ~sub[s].closed /\ route[s] \in {"serving", "closing"}
    /\ sub[s].dropped_for_backlog => sub[s].closed /\ route[s] # "none"

\* The subscriptions a broadcast drops, and those it folds an exposure into.
Late(f, k, gone) == {s \in subs : Overflows(Invalidate(sub[s], gone), f, k)}
Folded(f, k, gone) == {s \in subs : Folds(Invalidate(sub[s], gone), f, k)}

\* What a broadcast does to each subscription.
LEMMA BroadcastReaches ==
  ASSUME IInv, NEW f, NEW k, NEW gone, Fitting(f, k, gone), Broadcast(f, k, gone),
         NEW s \in Subs
  PROVE  /\ s \notin subs => sub'[s] = sub[s]
         /\ Rest(sub'[s]) = Rest(sub[s])
         /\ s \in subs \ Late(f, k, gone) => Standing(sub'[s]) = Standing(sub[s])
         /\ s \in Late(f, k, gone) => sub'[s].closed /\ sub'[s].dropped_for_backlog
         /\ s \in Late(f, k, gone) => ~sub[s].closed
         /\ s \in subs /\ ~sub[s].closed =>
              sub'[s].queue = QueueWith(Invalidate(sub[s], gone), f, k)
<1> DEFINE r == Invalidate(sub[s], gone)
<1>1. sub[s] \in Subscription /\ r \in Subscription /\ f \in Frame /\ k \in Key \cup {None}
  BY InvalidateType DEF IInv, SubsType, Fitting
<1>2. sub'[s] = IF s \in subs THEN Deliver(r, f, k) ELSE sub[s]
  BY DEF Broadcast
<1>3. Rest(r) = Rest(sub[s]) /\ Standing(r) = Standing(sub[s])
  BY <1>1, InvalidateShape
<1>4. s \in Late(f, k, gone) <=> s \in subs /\ Overflows(r, f, k)
  BY DEF Late
<1> HIDE DEF r
<1>5. r.closed = sub[s].closed
  BY <1>3 DEF Standing
<1>6. Overflows(r, f, k) => ~r.closed
  BY DEF Overflows
<1>7. CASE s \in subs
  <2>1. /\ Rest(Deliver(r, f, k)) = Rest(r)
        /\ ~r.closed => Deliver(r, f, k).queue = QueueWith(r, f, k)
        /\ Overflows(r, f, k) => Deliver(r, f, k).closed /\ Deliver(r, f, k).dropped_for_backlog
        /\ ~Overflows(r, f, k) => Standing(Deliver(r, f, k)) = Standing(r)
    BY <1>1, DeliverShape
  <2> QED BY <1>2, <1>3, <1>4, <1>5, <1>6, <1>7, <2>1 DEF r
<1>8. CASE s \notin subs
  BY <1>2, <1>4, <1>8
<1> QED BY <1>7, <1>8

-----------------------------------------------------------------------------
(* Counting.                                                               *)

\* One element more, ...
LEMMA CardinalityAdd ==
  ASSUME NEW S, IsFiniteSet(S), NEW x, x \notin S
  PROVE  /\ IsFiniteSet(S \cup {x})
         /\ Cardinality(S) \in Nat
         /\ Cardinality(S \cup {x}) = Cardinality(S) + 1
<1>1. Cardinality(S) \in Nat
  BY FS_CardinalityType
<1>2. /\ IsFiniteSet(S \cup {x})
      /\ Cardinality(S \cup {x}) = IF x \in S THEN Cardinality(S) ELSE Cardinality(S) + 1
  BY FS_AddElement, Zenon
<1> QED BY <1>1, <1>2

\* ... one less, ...
LEMMA CardinalityRemove ==
  ASSUME NEW S, IsFiniteSet(S), NEW x \in S
  PROVE  /\ IsFiniteSet(S \ {x})
         /\ Cardinality(S) \in Nat
         /\ Cardinality(S \ {x}) = Cardinality(S) - 1
<1>1. Cardinality(S) \in Nat
  BY FS_CardinalityType
<1>2. /\ IsFiniteSet(S \ {x})
      /\ Cardinality(S \ {x}) = IF x \in S THEN Cardinality(S) - 1 ELSE Cardinality(S)
  BY FS_RemoveElement, Zenon
<1> QED BY <1>1, <1>2

\* ... and two sets that share none.
LEMMA CardinalityDisjoint ==
  ASSUME NEW S, IsFiniteSet(S), NEW T, IsFiniteSet(T), S \cap T = {}
  PROVE  /\ IsFiniteSet(S \cup T)
         /\ Cardinality(S) \in Nat /\ Cardinality(T) \in Nat
         /\ Cardinality(S \cup T) = Cardinality(S) + Cardinality(T)
<1>1. Cardinality(S) \in Nat /\ Cardinality(T) \in Nat
  BY FS_CardinalityType
<1>2. /\ IsFiniteSet(S \cup T)
      /\ Cardinality(S \cup T) = Cardinality(S) + Cardinality(T) - Cardinality(S \cap T)
  BY FS_Union, Zenon
<1>3. Cardinality(S \cap T) = 0
  BY FS_EmptySet
<1> QED BY <1>1, <1>2, <1>3

-----------------------------------------------------------------------------
(* The browsers dropped are counted.                                       *)

\* The browsers dropped whose route has yet to close.
DroppedOpen == {s \in Subs : sub[s].dropped_for_backlog /\ route[s] # "ended"}

\* They can be counted.
LEMMA DroppedOpenFinite ==
  IsFiniteSet(DroppedOpen) /\ Cardinality(DroppedOpen) \in Nat
BY BridgeAssumption, FS_Subset, FS_CardinalityType DEF DroppedOpen

\* No browser is dropped, and no route ends.
LEMMA DropsQuiet ==
  ASSUME DropsCounted, UNCHANGED <<dropped_slow_sinks, turned_away>>,
         \A s \in Subs : /\ sub'[s].dropped_for_backlog = sub[s].dropped_for_backlog
                         /\ route'[s] = "ended" <=> route[s] = "ended"
                         /\ code'[s] = code[s]
  PROVE  DropsCounted'
<1>1. DroppedOpen' = DroppedOpen
  BY DEF DroppedOpen
<1>2. dropped_slow_sinks' = turned_away' + Cardinality(DroppedOpen')
  BY <1>1 DEF DropsCounted, DroppedOpen
<1>3. \A s \in Subs : route'[s] = "ended" =>
        (code'[s] = 1013 <=> sub'[s].dropped_for_backlog)
  BY DEF DropsCounted
<1> QED BY <1>2, <1>3 DEF DropsCounted, DroppedOpen

\* What a broadcast adds to the counters.
LEMMA BroadcastIs ==
  ASSUME subs \subseteq Subs, NEW f, NEW k, NEW gone, Broadcast(f, k, gone)
  PROVE  /\ subs' = subs \ Late(f, k, gone)
         /\ dropped_slow_sinks' = dropped_slow_sinks + Cardinality(Late(f, k, gone))
         /\ coalesced_blobs' = coalesced_blobs + Cardinality(Folded(f, k, gone))
         /\ exposures' = exposures + IF IsExposure(f) THEN Cardinality(subs) ELSE 0
<1> DEFINE ready == [s \in Subs |-> Invalidate(sub[s], gone)]
<1>1. \A s \in subs : ready[s] = Invalidate(sub[s], gone)
  OBVIOUS
<1>2. /\ subs' = subs \ {s \in subs : Overflows(ready[s], f, k)}
      /\ dropped_slow_sinks' = dropped_slow_sinks + Cardinality({s \in subs : Overflows(ready[s], f, k)})
      /\ coalesced_blobs' = coalesced_blobs + Cardinality({s \in subs : Folds(ready[s], f, k)})
      /\ exposures' = exposures + IF IsExposure(f) THEN Cardinality(subs) ELSE 0
  BY DEF Broadcast
<1> HIDE DEF ready
<1>3. {s \in subs : Overflows(ready[s], f, k)} = Late(f, k, gone)
      /\ {s \in subs : Folds(ready[s], f, k)} = Folded(f, k, gone)
  BY <1>1 DEF Late, Folded
<1> QED BY <1>2, <1>3

\* A broadcast drops the subscriptions that overflow, each counted once.
LEMMA BroadcastDrops ==
  ASSUME IInv, Registered, DropsCounted, UNCHANGED browser,
         NEW f, NEW k, NEW gone, Fitting(f, k, gone), Broadcast(f, k, gone)
  PROVE  Registered' /\ DropsCounted'
<1> DEFINE late == Late(f, k, gone)
<1>2. late \subseteq subs /\ subs \subseteq Subs
  BY DEF Late, IInv, SubsType
<1>1. /\ subs' = subs \ late
      /\ dropped_slow_sinks' = dropped_slow_sinks + Cardinality(late)
  BY <1>2, BroadcastIs
<1>3. UNCHANGED <<route, code, turned_away>>
  BY DEF browser, closes
<1>4. ASSUME NEW s \in Subs
      PROVE  /\ s \notin subs => sub'[s] = sub[s]
             /\ s \in subs \ late => Standing(sub'[s]) = Standing(sub[s])
             /\ s \in late => sub'[s].closed /\ sub'[s].dropped_for_backlog
             /\ s \in late => ~sub[s].closed
  BY BroadcastReaches
<1> HIDE DEF late
<1>5. ASSUME NEW s \in Subs
      PROVE  /\ s \in late => /\ sub'[s].closed /\ sub'[s].dropped_for_backlog
                              /\ ~sub[s].dropped_for_backlog
             /\ s \notin late => /\ sub'[s].closed = sub[s].closed
                                 /\ sub'[s].dropped_for_backlog = sub[s].dropped_for_backlog
  BY <1>4 DEF Standing, Registered
<1>6. Registered'
  <2> SUFFICES ASSUME NEW s \in Subs
      PROVE  /\ s \in subs' => ~sub'[s].closed /\ route[s] \in {"serving", "closing"}
             /\ sub'[s].dropped_for_backlog => sub'[s].closed /\ route[s] # "none"
    BY <1>3 DEF Registered
  <2> QED BY <1>1, <1>2, <1>5 DEF Registered
<1>7. DroppedOpen' = DroppedOpen \cup late
  <2>1. \A s \in late : s \in Subs /\ route[s] # "ended"
    BY <1>2 DEF Registered
  <2>2. ASSUME NEW s PROVE s \in DroppedOpen' <=> s \in DroppedOpen \/ s \in late
    BY <1>3, <1>5, <2>1 DEF DroppedOpen
  <2> QED BY <2>2
<1>8. DroppedOpen \cap late = {}
  BY <1>5 DEF DroppedOpen
<1>9. IsFiniteSet(late) /\ Cardinality(late) \in Nat
  BY <1>2, BridgeAssumption, FS_Subset, FS_CardinalityType
<1>10. Cardinality(DroppedOpen') = Cardinality(DroppedOpen) + Cardinality(late)
  BY <1>7, <1>8, <1>9, DroppedOpenFinite, CardinalityDisjoint
<1>11. \A s \in Subs : route'[s] = "ended" => (code'[s] = 1013 <=> sub'[s].dropped_for_backlog)
  <2>1. \A s \in Subs : route[s] = "ended" => s \notin late
    BY <1>2 DEF Registered
  <2> QED BY <1>3, <1>5, <2>1 DEF DropsCounted
<1>12. dropped_slow_sinks' = turned_away' + Cardinality(DroppedOpen')
  <2>1. dropped_slow_sinks = turned_away + Cardinality(DroppedOpen)
    BY DEF DropsCounted, DroppedOpen
  <2>2. turned_away \in Nat
    BY DEF IInv, BrowserType
  <2> QED BY <1>1, <1>3, <1>9, <1>10, <2>1, <2>2, DroppedOpenFinite
<1> QED BY <1>6, <1>11, <1>12 DEF DropsCounted, DroppedOpen

\* So does whatever the upstream does.
LEMMA UpstreamDrops ==
  ASSUME IInv, Registered, DropsCounted, Upstream \/ OnEvent
  PROVE  Registered' /\ DropsCounted'
<1>1. UNCHANGED browser /\ (Told \/ Untold)
  BY UpstreamTells
<1>2. CASE Told
  BY <1>1, <1>2, BroadcastDrops DEF Told
<1>3. CASE Untold
  <2>1. UNCHANGED <<sub, subs, dropped_slow_sinks, route, code, turned_away>>
    BY <1>1, <1>3 DEF Untold, browser, closes
  <2> QED BY <2>1 DEF Registered, DropsCounted
<1> QED BY <1>1, <1>2, <1>3

\* What one step of a pump does to its subscription's standing.
LEMMA ProceedShape ==
  ASSUME IInv, NEW s \in Subs, Proceed(s)
  PROVE  /\ \A r \in Subs : r # s => sub'[r] = sub[r]
         /\ Standing(sub'[s]) = Standing(sub[s])
<1> USE DEF IInv, SubsType
<1>1. sub \in [Subs -> Subscription] /\ sub[s] \in Subscription
  OBVIOUS
<1>2. CASE SendPreamble(s)
  BY <1>1, <1>2 DEF SendPreamble, Standing, Subscription
<1>3. CASE SendSeedVector(s)
  BY <1>1, <1>3 DEF SendSeedVector, Standing, Subscription
<1>4. CASE SendSeedFrame(s)
  BY <1>1, <1>4 DEF SendSeedFrame, Standing, Subscription
<1>5. CASE SendQueued(s)
  <2> DEFINE p == Pop(sub[s])
  <2>1. p \in Subscription /\ Standing(p) = Standing(sub[s])
    BY <1>1, <1>5, PopType DEF SendQueued, Pop, Standing, Subscription
  <2>2. sub' = [sub EXCEPT ![s] = [p EXCEPT !.pump = "sending",
                                            !.inflight = Head(sub[s].queue).frame]]
    BY <1>1, <1>5 DEF SendQueued
  <2> HIDE DEF p
  <2> QED BY <1>1, <2>1, <2>2 DEF Standing, Subscription
<1>6. CASE AwaitReady(s)
  BY <1>1, <1>6 DEF AwaitReady, Standing, Subscription
<1> QED BY <1>2, <1>3, <1>4, <1>5, <1>6 DEF Proceed

\* The pump and the route, but for the ends of it.
LEMMA PumpDrops ==
  ASSUME IInv, Registered, DropsCounted, NEW s \in Subs, Pump(s)
  PROVE  Registered' /\ DropsCounted'
<1> USE DEF IInv, SubsType
<1>1. sub \in [Subs -> Subscription] /\ sub[s] \in Subscription
  OBVIOUS
<1>2. UNCHANGED <<dropped_slow_sinks, route, code, turned_away>>
  BY DEF Pump, PumpStart, PumpSent, PumpWake, SinkFailed, PumpCancelled, PumpNeverRan,
         bridge, browser, closes
<1>3. \A r \in Subs : r # s => sub'[r] = sub[r]
  <2>1. CASE PumpStart(s) \/ PumpSent(s) \/ PumpWake(s)
    BY <2>1, ProceedShape DEF PumpStart, PumpSent, PumpWake
  <2>2. CASE SinkFailed(s) \/ PumpCancelled(s) \/ PumpNeverRan(s)
    BY <1>1, <2>2 DEF SinkFailed, PumpCancelled, PumpNeverRan, EndPump
  <2> QED BY <2>1, <2>2 DEF Pump
<1>4. /\ sub'[s].dropped_for_backlog = sub[s].dropped_for_backlog
      /\ \/ subs' = subs /\ sub'[s].closed = sub[s].closed
         \/ subs' = subs \ {s} /\ sub'[s].closed
  <2>1. CASE PumpStart(s) \/ PumpSent(s) \/ PumpWake(s)
    BY <2>1, ProceedShape DEF PumpStart, PumpSent, PumpWake, Standing
  <2>2. CASE SinkFailed(s) \/ PumpCancelled(s)
    <3>1. sub' = EndPump(s) /\ subs' = subs \ {s}
      BY <2>2 DEF SinkFailed, PumpCancelled, Detach
    <3>2. sub'[s] = [sub[s] EXCEPT !.pump = "done", !.inflight = NoFrame,
                                   !.cancelled = FALSE, !.closed = TRUE]
      BY <1>1, <3>1 DEF EndPump
    <3>3. sub'[s].closed /\ sub'[s].dropped_for_backlog = sub[s].dropped_for_backlog
      BY <1>1, <3>2 DEF Subscription
    <3> QED BY <3>1, <3>3
  <2>3. CASE PumpNeverRan(s)
    BY <1>1, <2>3 DEF PumpNeverRan, Subscription
  <2> QED BY <2>1, <2>2, <2>3 DEF Pump
<1>5. Registered'
  BY <1>2, <1>3, <1>4 DEF Registered
<1>6. \A r \in Subs : sub'[r].dropped_for_backlog = sub[r].dropped_for_backlog
  BY <1>3, <1>4
<1> QED BY <1>2, <1>5, <1>6, DropsQuiet

\* A browser that attaches has a new subscription, not dropped.
LEMMA AttachDrops ==
  ASSUME IInv, Registered, DropsCounted, NEW s \in Subs, Attach(s)
  PROVE  Registered' /\ DropsCounted'
<1> USE DEF IInv, SubsType, BrowserType
<1>1. sub \in [Subs -> Subscription] /\ route \in [Subs -> {"none", "serving", "closing", "ended"}]
  OBVIOUS
<1>2. /\ \A r \in Subs : r # s => sub'[r] = sub[r] /\ route'[r] = route[r]
      /\ ~sub'[s].closed /\ ~sub'[s].dropped_for_backlog /\ route'[s] = "serving"
      /\ subs' = subs \cup {s} /\ route[s] \in {"none", "ended"}
      /\ UNCHANGED <<dropped_slow_sinks, turned_away, code>>
  BY <1>1 DEF Attach, closes, bridge
<1>3. Registered'
  BY <1>2 DEF Registered
<1>4. DroppedOpen' = DroppedOpen
  BY <1>2 DEF DroppedOpen, Registered
<1>5. dropped_slow_sinks = turned_away + Cardinality(DroppedOpen)
  BY DEF DropsCounted, DroppedOpen
<1>6. \A r \in Subs : route'[r] = "ended" => (code'[r] = 1013 <=> sub'[r].dropped_for_backlog)
  BY <1>2 DEF DropsCounted
<1>7. dropped_slow_sinks' = turned_away' + Cardinality(DroppedOpen')
  BY <1>2, <1>4, <1>5
<1>8. DropsCounted'
  BY <1>6, <1>7 DEF DropsCounted, DroppedOpen
<1> QED BY <1>3, <1>8

\* An error frame may drop its own browser.
LEMMA RefuseDrops ==
  ASSUME IInv, Registered, DropsCounted, NEW s \in Subs, Refuse(s)
  PROVE  Registered' /\ DropsCounted'
<1> USE DEF IInv, SubsType, BrowserType
<1> DEFINE over == Overflows(sub[s], ErrorFrame, None)
           w == Deliver(sub[s], ErrorFrame, None)
<1>1. sub \in [Subs -> Subscription] /\ sub[s] \in Subscription /\ ErrorFrame \in Frame
  BY FrameTypes
<1>2. /\ route[s] = "serving" /\ UNCHANGED <<route, code, turned_away>>
      /\ subs' = IF over THEN subs \ {s} ELSE subs
      /\ dropped_slow_sinks' = dropped_slow_sinks + (IF over THEN 1 ELSE 0)
      /\ \A r \in Subs : sub'[r] = IF r = s THEN w ELSE sub[r]
  BY <1>1 DEF Refuse, browser, closes
<1>3. /\ over => w.closed /\ w.dropped_for_backlog
      /\ over => ~sub[s].closed
      /\ ~over => Standing(w) = Standing(sub[s])
  BY <1>1, DeliverShape DEF Overflows
<1> HIDE DEF over, w
<1>4. CASE ~over
  <2>1. \A r \in Subs : /\ sub'[r].closed = sub[r].closed
                        /\ sub'[r].dropped_for_backlog = sub[r].dropped_for_backlog
    BY <1>2, <1>3, <1>4 DEF Standing
  <2>2. dropped_slow_sinks' = dropped_slow_sinks /\ subs' = subs
    BY <1>2, <1>4
  <2>3. Registered'
    BY <1>2, <2>1, <2>2 DEF Registered
  <2> QED BY <1>2, <2>1, <2>2, <2>3, DropsQuiet
<1>5. CASE over
  <2>1. ~sub[s].dropped_for_backlog
    BY <1>3, <1>5 DEF Registered
  <2>2. Registered'
    BY <1>2, <1>3, <1>5 DEF Registered
  <2>3. DroppedOpen' = DroppedOpen \cup {s} /\ s \notin DroppedOpen
    BY <1>2, <1>3, <1>5, <2>1 DEF DroppedOpen
  <2>4. Cardinality(DroppedOpen') = Cardinality(DroppedOpen) + 1
    BY <2>3, DroppedOpenFinite, CardinalityAdd
  <2>5. dropped_slow_sinks = turned_away + Cardinality(DroppedOpen)
        /\ dropped_slow_sinks' = dropped_slow_sinks + 1
    BY <1>2, <1>5 DEF DropsCounted, DroppedOpen
  <2>6. dropped_slow_sinks' = turned_away' + Cardinality(DroppedOpen')
    BY <1>2, <2>4, <2>5, DroppedOpenFinite
  <2>7. \A r \in Subs : route'[r] = "ended" => (code'[r] = 1013 <=> sub'[r].dropped_for_backlog)
    BY <1>2 DEF DropsCounted
  <2> QED BY <2>2, <2>6, <2>7 DEF DropsCounted, DroppedOpen
<1> QED BY <1>4, <1>5

\* A route that closes tells a dropped browser so: the count stays.
LEMMA CloseDrops ==
  ASSUME IInv, Registered, DropsCounted, NEW s \in Subs, EndRoute(s) \/ RouteFinishes(s)
  PROVE  Registered' /\ DropsCounted'
<1> USE DEF IInv, SubsType, BrowserType
<1>1. sub \in [Subs -> Subscription] /\ sub[s] \in Subscription
      /\ route \in [Subs -> {"none", "serving", "closing", "ended"}]
      /\ code \in [Subs -> {0, 1000, 1013}]
  OBVIOUS
<1>2. CASE EndRoute(s)
  <2>1. /\ UNCHANGED <<dropped_slow_sinks, turned_away, code, subs>>
        /\ route[s] = "serving" /\ route' = [route EXCEPT ![s] = "closing"]
        /\ sub' = [sub EXCEPT ![s] = Cancel(sub[s])]
    BY <1>1, <1>2 DEF EndRoute, closes, bridge
  <2>2. \A r \in Subs : /\ sub'[r].closed = sub[r].closed
                        /\ sub'[r].dropped_for_backlog = sub[r].dropped_for_backlog
    BY <1>1, <2>1, CancelShape
  <2>3. \A r \in Subs : route'[r] = IF r = s THEN "closing" ELSE route[r]
    BY <1>1, <2>1
  <2>4. Registered'
    BY <2>1, <2>2, <2>3 DEF Registered
  <2> QED BY <2>1, <2>2, <2>3, <2>4, DropsQuiet
<1>3. CASE RouteFinishes(s)
  <2> DEFINE d == sub[s].dropped_for_backlog
  <2>1. /\ \A r \in Subs : sub'[r] = IF r = s THEN [sub[s] EXCEPT !.closed = TRUE] ELSE sub[r]
        /\ \A r \in Subs : route'[r] = IF r = s THEN "ended" ELSE route[r]
        /\ \A r \in Subs : code'[r] = IF r = s THEN (IF d THEN 1013 ELSE 1000) ELSE code[r]
        /\ subs' = subs \ {s} /\ dropped_slow_sinks' = dropped_slow_sinks
        /\ turned_away' = turned_away + IF d THEN 1 ELSE 0
        /\ route[s] = "closing"
    BY <1>1, <1>3 DEF RouteFinishes, Detach, bridge
  <2>2. sub'[s].dropped_for_backlog = sub[s].dropped_for_backlog /\ sub'[s].closed
    <3>1. sub'[s] = [sub[s] EXCEPT !.closed = TRUE]
      BY <2>1, ZenonT(60)
    <3> QED BY <1>1, <3>1 DEF Subscription
  <2>3. \A r \in Subs : sub'[r].dropped_for_backlog = sub[r].dropped_for_backlog
    BY <2>1, <2>2
  <2>4. Registered'
    BY <2>1, <2>2, <2>3 DEF Registered
  <2>5. \A r \in Subs : route'[r] = "ended" => (code'[r] = 1013 <=> sub'[r].dropped_for_backlog)
    BY <2>1, <2>3 DEF DropsCounted
  <2>6. DroppedOpen' = DroppedOpen \ {s} /\ (s \in DroppedOpen <=> d)
    BY <2>1, <2>3 DEF DroppedOpen
  <2>7. dropped_slow_sinks = turned_away + Cardinality(DroppedOpen) /\ turned_away \in Nat
    BY DEF DropsCounted, DroppedOpen
  <2>8. CASE d
    <3>1. Cardinality(DroppedOpen') = Cardinality(DroppedOpen) - 1
      BY <2>6, <2>8, DroppedOpenFinite, CardinalityRemove
    <3>2. dropped_slow_sinks' = turned_away' + Cardinality(DroppedOpen')
      BY <2>1, <2>7, <2>8, <3>1, DroppedOpenFinite
    <3> QED BY <2>4, <2>5, <3>2 DEF DropsCounted, DroppedOpen
  <2>9. CASE ~d
    <3>1. DroppedOpen' = DroppedOpen
      BY <2>6, <2>9
    <3>2. dropped_slow_sinks' = turned_away' + Cardinality(DroppedOpen')
      BY <2>1, <2>7, <2>9, <3>1, DroppedOpenFinite
    <3> QED BY <2>4, <2>5, <3>2 DEF DropsCounted, DroppedOpen
  <2> QED BY <2>8, <2>9
<1> QED BY <1>2, <1>3

\* Closing the bridge drops nobody.
LEMMA StopDrops ==
  ASSUME IInv, Registered, DropsCounted, Stop \/ StopClient \/ UNCHANGED vars
  PROVE  Registered' /\ DropsCounted'
<1> USE DEF IInv, SubsType
<1>1. UNCHANGED <<dropped_slow_sinks, turned_away, code, route, subs>>
  BY DEF Stop, StopClient, vars, bridge, browser, closes
<1>2. \A s \in Subs : /\ sub'[s].closed = sub[s].closed
                      /\ sub'[s].dropped_for_backlog = sub[s].dropped_for_backlog
  <2>1. CASE Stop
    BY <2>1, CancelShape DEF Stop
  <2>2. CASE StopClient \/ UNCHANGED vars
    BY <2>2 DEF StopClient, vars
  <2> QED BY <2>1, <2>2
<1>3. Registered'
  BY <1>1, <1>2 DEF Registered
<1> QED BY <1>1, <1>2, <1>3, DropsQuiet

\* Every step keeps registration and the count of the dropped.
LEMMA NextDrops ==
  IInv /\ Registered /\ DropsCounted /\ [Next]_vars => Registered' /\ DropsCounted'
BY UpstreamDrops, PumpDrops, AttachDrops, RefuseDrops, CloseDrops, StopDrops
   DEF Next, Route, BrowserLeaves, RouteSeesClosed

\* At first nobody is registered or dropped.
LEMMA InitDrops == Init => Registered /\ DropsCounted
<1> SUFFICES ASSUME Init PROVE Registered /\ DropsCounted
  OBVIOUS
<1>1. \A s \in Subs : ~sub[s].dropped_for_backlog /\ route[s] = "none"
  BY DEF Init, NotAttached
<1>2. {s \in Subs : sub[s].dropped_for_backlog /\ route[s] # "ended"} = {}
  BY <1>1
<1> QED BY <1>1, <1>2, FS_EmptySet, SMTT(60) DEF Init, Registered, DropsCounted

\* Every browser dropped for its backlog is counted once, and it is exactly
\* those that are told to try again later (Bridge._deliver, Bridge._drop, and
\* the close of web/app.py).
THEOREM DroppedAreCounted == Spec => []DropsCounted
BY InitIInv, NextIInv, InitDrops, NextDrops, PTL DEF Spec

-----------------------------------------------------------------------------
(* The exposures are counted.                                              *)

\* The places of a queue that hold an exposure.
ExposureSlots(u) == {i \in DOMAIN u.queue : IsExposure(u.queue[i].frame)}

\* They can be counted.
LEMMA ExposureSlotsFinite ==
  ASSUME NEW u \in Subscription
  PROVE  /\ IsFiniteSet(ExposureSlots(u))
         /\ QueuedExposures(u) = Cardinality(ExposureSlots(u))
         /\ ExposureSlots(u) \subseteq Nat
<1>1. DOMAIN u.queue = 1..Len(u.queue) /\ Len(u.queue) \in Nat
  BY LenProperties DEF Subscription
<1>2. IsFiniteSet(1..Len(u.queue))
  BY <1>1, FS_Interval
<1>3. ExposureSlots(u) \subseteq 1..Len(u.queue)
  BY <1>1 DEF ExposureSlots
<1>4. IsFiniteSet(ExposureSlots(u))
  BY <1>2, <1>3, FS_Subset
<1> QED BY <1>3, <1>4 DEF QueuedExposures, ExposureSlots

\* The exposures waiting, browser by browser.
LEMMA WaitingIs ==
  \A p : p \in Waiting <=> \E s \in Subs : \E i \in ExposureSlots(sub[s]) : p = <<s, i>>
BY DEF Waiting, ExposureSlots

\* The exposures waiting in one queue.
WaitingIn(s, u) == {<<s, i>> : i \in ExposureSlots(u)}

\* Those of one browser are as many as its queue holds.
LEMMA WaitingInCount ==
  ASSUME NEW s, NEW u \in Subscription
  PROVE  /\ IsFiniteSet(WaitingIn(s, u))
         /\ Cardinality(WaitingIn(s, u)) = QueuedExposures(u)
         /\ QueuedExposures(u) \in Nat
<1> DEFINE E == ExposureSlots(u)
           pair == [i \in E |-> <<s, i>>]
<1>1. IsFiniteSet(E) /\ QueuedExposures(u) = Cardinality(E)
  BY ExposureSlotsFinite
<1>0. WaitingIn(s, u) = {<<s, i>> : i \in E}
  BY DEF WaitingIn
<1> HIDE DEF E
<1>2. pair \in [E -> WaitingIn(s, u)]
  BY <1>0
<1>3. \A i, j \in E : pair[i] = pair[j] => i = j
  OBVIOUS
<1>4. \A p \in WaitingIn(s, u) : \E i \in E : pair[i] = p
  BY <1>0
<1> HIDE DEF pair
<1>5. pair \in Bijection(E, WaitingIn(s, u))
  BY <1>2, <1>3, <1>4 DEF Bijection, Injection, Surjection, IsInjective
<1>6. ExistsBijection(E, WaitingIn(s, u))
  BY <1>5 DEF ExistsBijection
<1> QED BY <1>1, <1>6, FS_Bijection, FS_CardinalityType

\* They can be counted.
LEMMA WaitingFinite ==
  ASSUME IInv
  PROVE  IsFiniteSet(Waiting) /\ Cardinality(Waiting) \in Nat
<1> DEFINE all == {WaitingIn(s, sub[s]) : s \in Subs}
           f == [s \in Subs |-> WaitingIn(s, sub[s])]
<1>1. f \in Surjection(Subs, all)
  BY DEF Surjection
<1>2. IsFiniteSet(Subs)
  BY BridgeAssumption
<1>3. \A T \in all : IsFiniteSet(T)
  BY WaitingInCount DEF IInv, SubsType
<1>5. Waiting = UNION all
  BY DEF Waiting, WaitingIn, ExposureSlots
<1> HIDE DEF all, f
<1>4. IsFiniteSet(all)
  BY <1>1, <1>2, FS_Surjection
<1>6. IsFiniteSet(UNION all)
  BY <1>3, <1>4, FS_UNION, Zenon
<1> QED BY <1>5, <1>6, FS_CardinalityType

\* No queue gains or loses an exposure.
LEMMA WaitingKept ==
  ASSUME \A s \in Subs : ExposureSlots(sub'[s]) = ExposureSlots(sub[s])
  PROVE  Waiting' = Waiting
<1>1. \A p : p \in Waiting' <=> \E s \in Subs : \E i \in ExposureSlots(sub'[s]) : p = <<s, i>>
  BY DEF Waiting, ExposureSlots
<1> QED BY <1>1, WaitingIs

\* One queue changes.
LEMMA WaitingSplit ==
  ASSUME IInv, NEW s \in Subs, NEW w \in Subscription, sub'[s] = w,
         \A r \in Subs : r # s => sub'[r] = sub[r]
  PROVE  /\ Cardinality(Waiting') = Cardinality(Waiting) + QueuedExposures(w)
                                      - QueuedExposures(sub[s])
         /\ QueuedExposures(w) \in Nat /\ QueuedExposures(sub[s]) \in Nat
         /\ Cardinality(Waiting) \in Nat
<1> DEFINE others == {p \in Waiting : p[1] # s}
           u == sub[s]
<1>0. u \in Subscription
  BY DEF IInv, SubsType
<1>a. \A p : p \in Waiting' <=> \E r \in Subs : \E i \in ExposureSlots(sub'[r]) : p = <<r, i>>
  BY DEF Waiting, ExposureSlots
<1>1. Waiting = others \cup WaitingIn(s, u) /\ others \cap WaitingIn(s, u) = {}
  BY WaitingIs DEF WaitingIn
<1>2. Waiting' = others \cup WaitingIn(s, w) /\ others \cap WaitingIn(s, w) = {}
  <2>2. \A p : p \in WaitingIn(s, w) <=> \E i \in ExposureSlots(w) : p = <<s, i>>
    BY DEF WaitingIn
  <2>3. ASSUME NEW p PROVE p \in Waiting' <=> p \in others \/ p \in WaitingIn(s, w)
    BY <1>a, <2>2, WaitingIs
  <2>4. ASSUME NEW p \in others PROVE p \notin WaitingIn(s, w)
    BY <2>2
  <2> HIDE DEF others
  <2> QED BY <2>3, <2>4
<1>3. IsFiniteSet(others)
  BY WaitingFinite, FS_Subset
<1> HIDE DEF others, u
<1>4. /\ IsFiniteSet(WaitingIn(s, u)) /\ Cardinality(WaitingIn(s, u)) = QueuedExposures(u)
  BY <1>0, WaitingInCount
<1>5. /\ IsFiniteSet(WaitingIn(s, w)) /\ Cardinality(WaitingIn(s, w)) = QueuedExposures(w)
  BY WaitingInCount
<1>6. Cardinality(others) \in Nat /\ QueuedExposures(u) \in Nat
      /\ Cardinality(Waiting) = Cardinality(others) + QueuedExposures(u)
  BY <1>1, <1>3, <1>4, CardinalityDisjoint
<1>7. QueuedExposures(w) \in Nat
      /\ Cardinality(Waiting') = Cardinality(others) + QueuedExposures(w)
  BY <1>2, <1>3, <1>5, CardinalityDisjoint
<1> QED BY <1>6, <1>7 DEF u

\* A frame delivered is one more exposure at the end of the queue, unless it is none or
\* was folded into one.
LEMMA QueueWithExposures ==
  ASSUME NEW u \in Subscription, SlotsSound(u), NEW f \in Frame, NEW k \in Key \cup {None},
         k \in Key => f.tag = "set" /\ f.key = k,
         NEW w, w.queue = QueueWith(u, f, k)
  PROVE  ExposureSlots(w) =
           IF IsExposure(f) /\ ~Folds(u, f, k)
             THEN ExposureSlots(u) \cup {Len(u.queue) + 1} ELSE ExposureSlots(u)
<1>1. u.queue \in Seq(Slot) /\ DOMAIN u.queue = 1..Len(u.queue) /\ Len(u.queue) \in Nat
  BY LenProperties DEF Subscription
<1>2. CASE k \in Held(u.coalescible)
  <2> DEFINE n == u.coalescible[k]
  <2>1. k \in Key /\ n \in DOMAIN u.queue /\ u.queue[n].frame.tag = "set"
        /\ u.queue[n].frame.key = k /\ n \in Nat
    BY <1>1, <1>2 DEF Held, SlotsSound
  <2>2. w.queue = Overwrite(u.queue, n, f)
    BY <1>2 DEF QueueWith
  <2> HIDE DEF n
  <2>3. /\ DOMAIN w.queue = DOMAIN u.queue /\ w.queue[n].frame = f
        /\ \A i \in DOMAIN u.queue : i # n => w.queue[i] = u.queue[i]
    <3>1. \A q \in Seq(Slot), m \in Nat \cup {None}, g \in Frame :
            /\ DOMAIN Overwrite(q, m, g) = DOMAIN q
            /\ m \in DOMAIN q => Overwrite(q, m, g)[m].frame = g
            /\ \A i \in DOMAIN q : i # m => Overwrite(q, m, g)[i] = q[i]
      BY OverwriteType, ZenonT(60)
    <3>2. u.queue \in Seq(Slot) /\ n \in Nat \cup {None} /\ f \in Frame /\ n \in DOMAIN u.queue
      BY <1>1, <2>1
    <3> QED BY ONLY <2>2, <3>1, <3>2
  <2>4. IsExposure(f) <=> IsExposure(u.queue[n].frame)
    BY <2>1 DEF IsExposure
  <2>5. ExposureSlots(w) = ExposureSlots(u)
    <3>1. \A i \in DOMAIN u.queue : IsExposure(w.queue[i].frame) <=> IsExposure(u.queue[i].frame)
      BY <2>1, <2>3, <2>4
    <3> QED BY <2>3, <3>1 DEF ExposureSlots
  <2>6. Folds(u, f, k) <=> IsExposure(f)
    BY <1>2 DEF Folds
  <2> QED BY <2>5, <2>6
<1>3. CASE k \notin Held(u.coalescible)
  <2> DEFINE slot == [frame |-> f, key |-> k]
             n == Len(u.queue) + 1
  <2>1. w.queue = Append(u.queue, slot) /\ slot \in Slot /\ slot.frame = f
    BY <1>3 DEF QueueWith, Slot
  <2> HIDE DEF slot
  <2>2. /\ DOMAIN w.queue = 1..n /\ w.queue[n] = slot
        /\ \A i \in DOMAIN u.queue : w.queue[i] = u.queue[i]
    BY <1>1, <2>1
  <2>3. ~Folds(u, f, k)
    BY <1>3 DEF Folds
  <2>4. DOMAIN w.queue = DOMAIN u.queue \cup {n}
    BY <1>1, <2>2
  <2> HIDE DEF n
  <2>5. \A i : i \in ExposureSlots(w) <=>
                 i \in ExposureSlots(u) \/ (i = n /\ IsExposure(f))
    BY <2>1, <2>2, <2>4, <1>1 DEF ExposureSlots, n
  <2> QED BY <2>3, <2>5 DEF n
<1> QED BY <1>2, <1>3

\* Taking the head takes one exposure from the queue, if it is one.
LEMMA PopExposures ==
  ASSUME NEW u \in Subscription, u.queue # <<>>, NEW w \in Subscription,
         w.queue = Tail(u.queue)
  PROVE  QueuedExposures(w) =
           QueuedExposures(u) - IF IsExposure(Head(u.queue).frame) THEN 1 ELSE 0
<1> DEFINE E == ExposureSlots(u)
           F == ExposureSlots(w)
           shift == [i \in F |-> i + 1]
<1>1. u.queue \in Seq(Slot) /\ DOMAIN u.queue = 1..Len(u.queue) /\ Len(u.queue) \in Nat \ {0}
  BY LenProperties, EmptySeq DEF Subscription
<1>2. /\ DOMAIN w.queue = 1..(Len(u.queue) - 1)
      /\ \A i \in 1..(Len(u.queue) - 1) : w.queue[i] = u.queue[i + 1]
      /\ Head(u.queue) = u.queue[1]
  BY <1>1
<1>3. IsFiniteSet(E) /\ IsFiniteSet(F) /\ E \subseteq Nat /\ F \subseteq Nat
      /\ QueuedExposures(u) = Cardinality(E) /\ QueuedExposures(w) = Cardinality(F)
  BY ExposureSlotsFinite
<1>4. \A i \in Nat : i \in F <=> i + 1 \in E /\ i # 0
  BY <1>1, <1>2 DEF ExposureSlots
<1>5. 1 \in E <=> IsExposure(Head(u.queue).frame)
  BY <1>1, <1>2 DEF ExposureSlots
<1>6. 0 \notin E
  BY <1>1 DEF ExposureSlots
<1> HIDE DEF E, F
<1>7. shift \in [F -> E \ {1}]
  BY <1>3, <1>4
<1>8. \A i, j \in F : shift[i] = shift[j] => i = j
  BY <1>3
<1>9. \A j \in E \ {1} : \E i \in F : shift[i] = j
  <2> SUFFICES ASSUME NEW j \in E \ {1} PROVE \E i \in F : shift[i] = j
    OBVIOUS
  <2>1. j - 1 \in Nat /\ j - 1 # 0 /\ (j - 1) + 1 = j
    BY <1>3, <1>6
  <2>2. j - 1 \in F
    BY <1>4, <2>1
  <2> QED BY <2>1, <2>2
<1> HIDE DEF shift
<1>10. ExistsBijection(F, E \ {1})
  <2>1. shift \in Bijection(F, E \ {1})
    BY <1>7, <1>8, <1>9 DEF Bijection, Injection, Surjection, IsInjective
  <2> QED BY <2>1 DEF ExistsBijection
<1>11. Cardinality(E \ {1}) = Cardinality(F) /\ Cardinality(F) \in Nat
  BY <1>3, <1>10, FS_Bijection, FS_CardinalityType
<1>12. CASE 1 \in E
  <2>1. Cardinality(E \ {1}) = Cardinality(E) - 1 /\ Cardinality(E) \in Nat
    BY <1>3, <1>12, CardinalityRemove
  <2>2. IsExposure(Head(u.queue).frame)
    BY <1>5, <1>12
  <2>3. QueuedExposures(w) = QueuedExposures(u) - 1
    BY <1>3, <1>11, <2>1
  <2> QED BY <2>2, <2>3
<1>13. CASE 1 \notin E
  <2>1. E \ {1} = E
    BY <1>13
  <2>2. ~IsExposure(Head(u.queue).frame)
    BY <1>5, <1>13
  <2>3. QueuedExposures(w) = QueuedExposures(u) /\ QueuedExposures(u) \in Nat
    BY <1>3, <1>11, <2>1
  <2>4. QueuedExposures(w) = QueuedExposures(u) - 0
    BY <2>3
  <2> QED BY <2>2, <2>4
<1> QED BY <1>12, <1>13

\* A broadcast: every subscription has one more exposure or a replaced one.
LEMMA BroadcastCounts ==
  ASSUME IInv, Registered, ExposuresCounted,
         NEW f, NEW k, NEW gone, Fitting(f, k, gone), Broadcast(f, k, gone)
  PROVE  ExposuresCounted'
<1> DEFINE fold == Folded(f, k, gone)
           fresh == IF IsExposure(f) THEN subs \ fold ELSE {}
           end == [s \in fresh |-> <<s, Len(sub[s].queue) + 1>>]
           new == {<<s, Len(sub[s].queue) + 1>> : s \in fresh}
<1>1. f \in Frame /\ k \in Key \cup {None} /\ (k \in Key => f.tag = "set" /\ f.key = k)
  BY BridgeAssumption DEF Fitting
<1>2. subs \subseteq Subs /\ \A s \in Subs : sub[s] \in Subscription
  BY DEF IInv, SubsType
<1>3. ASSUME NEW s \in Subs
      PROVE  ExposureSlots(sub'[s]) =
               IF s \in fresh THEN ExposureSlots(sub[s]) \cup {Len(sub[s].queue) + 1}
               ELSE ExposureSlots(sub[s])
  <2>1. CASE s \notin subs
    <3>1. sub'[s] = sub[s]
      BY <2>1, BroadcastReaches
    <3> QED BY <2>1, <3>1
  <2>2. CASE s \in subs
    <3> DEFINE r == Invalidate(sub[s], gone)
    <3>1. r \in Subscription /\ SlotsSound(r) /\ r.queue = sub[s].queue
      BY <1>2, InvalidateType, InvalidateSound, InvalidateShape DEF IInv, CoalescingSound
    <3>2. sub'[s].queue = QueueWith(r, f, k)
      BY <2>2, BroadcastReaches DEF Registered
    <3>3. s \in fold <=> Folds(r, f, k)
      BY <2>2 DEF Folded
    <3> DEFINE w == sub'[s]
    <3>w. w.queue = QueueWith(r, f, k)
      BY <3>2
    <3> HIDE DEF r, fold, w, fresh
    <3>4a. ExposureSlots(w) =
            IF IsExposure(f) /\ ~Folds(r, f, k)
              THEN ExposureSlots(r) \cup {Len(r.queue) + 1} ELSE ExposureSlots(r)
      BY <1>1, <3>1, <3>w, QueueWithExposures
    <3>4. ExposureSlots(sub'[s]) =
            IF IsExposure(f) /\ ~Folds(r, f, k)
              THEN ExposureSlots(r) \cup {Len(r.queue) + 1} ELSE ExposureSlots(r)
      BY <3>4a DEF w
    <3>5. ExposureSlots(r) = ExposureSlots(sub[s])
      BY <3>1 DEF ExposureSlots
    <3> QED BY <2>2, <3>1, <3>3, <3>4, <3>5 DEF fresh
  <2> QED BY <2>1, <2>2
<1>4. fold \subseteq subs /\ (fold # {} => IsExposure(f))
  BY DEF Folded, Folds
<1>5. fresh \subseteq Subs
  BY <1>2
<1>6. Waiting' = Waiting \cup new
  <2>1. \A p : p \in Waiting' <=> \E s \in Subs : \E i \in ExposureSlots(sub'[s]) : p = <<s, i>>
    BY DEF Waiting, ExposureSlots
  <2>2. \A p : p \in new <=> \E s \in Subs : s \in fresh /\ p = <<s, Len(sub[s].queue) + 1>>
    BY <1>5
  <2> HIDE DEF new, fresh
  <2>4. \A s \in Subs : \A i : i \in ExposureSlots(sub'[s]) <=>
          i \in ExposureSlots(sub[s]) \/ (s \in fresh /\ i = Len(sub[s].queue) + 1)
    BY <1>3
  <2>3. ASSUME NEW p PROVE p \in Waiting' <=> p \in Waiting \/ p \in new
    BY <2>1, <2>2, <2>4, WaitingIs
  <2> QED BY <2>3
<1>7. Waiting \cap new = {}
  <2>1. \A s \in Subs : Len(sub[s].queue) + 1 \notin ExposureSlots(sub[s])
    <3> TAKE s \in Subs
    <3>1. DOMAIN sub[s].queue = 1..Len(sub[s].queue) /\ Len(sub[s].queue) \in Nat
      BY <1>2, LenProperties DEF Subscription
    <3> QED BY <3>1 DEF ExposureSlots
  <2>2. ASSUME NEW p \in new PROVE p \notin Waiting
    <3>1. PICK s \in Subs : p = <<s, Len(sub[s].queue) + 1>>
      BY <1>5
    <3> QED BY <2>1, <3>1, WaitingIs
  <2> QED BY <2>2
<1>8. IsFiniteSet(subs) /\ IsFiniteSet(fold) /\ IsFiniteSet(fresh) /\ IsFiniteSet(subs \ fold)
  <2>1. IsFiniteSet(subs)
    BY <1>2, BridgeAssumption, FS_Subset
  <2> QED BY <1>4, <2>1, FS_Subset
<1>9. ExistsBijection(fresh, new)
  <2>1. end \in [fresh -> new]
    OBVIOUS
  <2>2. \A r, s \in fresh : end[r] = end[s] => r = s
    OBVIOUS
  <2>3. \A p \in new : \E s \in fresh : end[s] = p
    OBVIOUS
  <2> HIDE DEF fresh, new, end
  <2>4. end \in Bijection(fresh, new)
    BY <2>1, <2>2, <2>3 DEF Bijection, Injection, Surjection, IsInjective
  <2> QED BY <2>4 DEF ExistsBijection
<1> HIDE DEF new, end
<1>10. IsFiniteSet(new) /\ Cardinality(new) = Cardinality(fresh)
  BY <1>8, <1>9, FS_Bijection
<1>11. Cardinality(Waiting') = Cardinality(Waiting) + Cardinality(fresh)
       /\ Cardinality(Waiting) \in Nat /\ Cardinality(fresh) \in Nat
  BY <1>6, <1>7, <1>8, <1>10, WaitingFinite, CardinalityDisjoint, FS_CardinalityType, ZenonT(60)
<1>12. /\ coalesced_blobs' = coalesced_blobs + Cardinality(fold)
       /\ exposures' = exposures + IF IsExposure(f) THEN Cardinality(subs) ELSE 0
  BY <1>2, BroadcastIs
<1>13. exposures = coalesced_blobs + Cardinality(Waiting) /\ coalesced_blobs \in Nat
  BY DEF ExposuresCounted, IInv, SubsType
<1>14. Cardinality(fold) \in Nat
  BY <1>8, FS_CardinalityType
<1>15. CASE IsExposure(f)
  <2>1. fresh = subs \ fold /\ subs = fold \cup fresh /\ fold \cap fresh = {}
    BY <1>4, <1>15
  <2> HIDE DEF fresh, fold
  <2>2. Cardinality(subs) = Cardinality(fold) + Cardinality(fresh)
    BY <1>8, <2>1, CardinalityDisjoint
  <2> QED BY <1>11, <1>12, <1>13, <1>14, <1>15, <2>2 DEF ExposuresCounted
<1>16. CASE ~IsExposure(f)
  <2>1. fresh = {} /\ fold = {}
    BY <1>4, <1>16
  <2>2. Cardinality(fresh) = 0 /\ Cardinality(fold) = 0
    BY <2>1, FS_EmptySet
  <2> HIDE DEF fresh, fold
  <2> QED BY <1>11, <1>12, <1>13, <1>16, <2>2 DEF ExposuresCounted
<1> QED BY <1>15, <1>16

\* So does whatever the upstream does.
LEMMA UpstreamCounts ==
  ASSUME IInv, Registered, ExposuresCounted, Upstream \/ OnEvent
  PROVE  ExposuresCounted'
<1>1. Told \/ Untold
  BY UpstreamTells
<1>2. CASE Told
  BY <1>2, BroadcastCounts DEF Told
<1>3. CASE Untold
  BY <1>3 DEF Untold, ExposuresCounted, Waiting
<1> QED BY <1>1, <1>2, <1>3

\* Steps that leave every queue as it is.
LEMMA QueuesKept ==
  ASSUME ExposuresCounted, UNCHANGED <<exposures, coalesced_blobs>>,
         \A s \in Subs : sub'[s].queue = sub[s].queue
  PROVE  ExposuresCounted'
<1>1. Waiting' = Waiting
  BY WaitingKept DEF ExposureSlots
<1> QED BY <1>1 DEF ExposuresCounted

\* The pump takes the head of the queue, or leaves the queue alone.
LEMMA ProceedQueue ==
  ASSUME IInv, NEW s \in Subs, Proceed(s)
  PROVE  \/ /\ sub[s].queue # <<>> /\ sub'[s].queue = Tail(sub[s].queue)
            /\ exposures' = exposures - IF IsExposure(Head(sub[s].queue).frame) THEN 1 ELSE 0
         \/ sub'[s].queue = sub[s].queue /\ exposures' = exposures
<1> USE DEF IInv, SubsType
<1>1. sub \in [Subs -> Subscription] /\ sub[s] \in Subscription
  OBVIOUS
<1>2. CASE SendPreamble(s)
  BY <1>1, <1>2 DEF SendPreamble, Subscription
<1>3. CASE SendSeedVector(s)
  BY <1>1, <1>3 DEF SendSeedVector, Subscription
<1>4. CASE SendSeedFrame(s)
  BY <1>1, <1>4 DEF SendSeedFrame, Subscription
<1>5. CASE SendQueued(s)
  <2> DEFINE p == Pop(sub[s])
  <2>0. sub[s].queue # <<>>
    BY <1>5 DEF SendQueued
  <2>1. p \in Subscription /\ p.queue = Tail(sub[s].queue)
    BY <1>1, <2>0, PopType DEF Pop, Subscription
  <2>2. sub' = [sub EXCEPT ![s] = [p EXCEPT !.pump = "sending",
                                            !.inflight = Head(sub[s].queue).frame]]
    BY <1>1, <1>5 DEF SendQueued
  <2>3. exposures' = exposures - IF IsExposure(Head(sub[s].queue).frame) THEN 1 ELSE 0
    BY <1>5 DEF SendQueued
  <2> HIDE DEF p
  <2>4. sub'[s].queue = p.queue
    BY <1>1, <2>1, <2>2 DEF Subscription
  <2> QED BY <2>0, <2>1, <2>3, <2>4
<1>6. CASE AwaitReady(s)
  BY <1>1, <1>6 DEF AwaitReady, Subscription
<1> QED BY <1>2, <1>3, <1>4, <1>5, <1>6 DEF Proceed

\* A pump that takes an exposure has it counted out.
LEMMA PumpCounts ==
  ASSUME IInv, IInv', ExposuresCounted, NEW s \in Subs, Pump(s)
  PROVE  ExposuresCounted'
<1> USE DEF IInv, SubsType
<1>1. sub \in [Subs -> Subscription] /\ sub[s] \in Subscription /\ sub'[s] \in Subscription
      /\ exposures \in Int /\ coalesced_blobs \in Nat
  OBVIOUS
<1>2. coalesced_blobs' = coalesced_blobs
  BY DEF Pump, PumpStart, PumpSent, PumpWake, SinkFailed, PumpCancelled, PumpNeverRan, bridge
<1>3. CASE Proceed(s)
  <2>1. \A r \in Subs : r # s => sub'[r] = sub[r]
    BY <1>3, ProceedShape
  <2>2. CASE sub'[s].queue = sub[s].queue /\ exposures' = exposures
    BY <1>2, <2>1, <2>2, QueuesKept
  <2>3. CASE /\ sub[s].queue # <<>> /\ sub'[s].queue = Tail(sub[s].queue)
             /\ exposures' = exposures - IF IsExposure(Head(sub[s].queue).frame) THEN 1 ELSE 0
    <3> DEFINE x == IF IsExposure(Head(sub[s].queue).frame) THEN 1 ELSE 0
    <3>1. QueuedExposures(sub'[s]) = QueuedExposures(sub[s]) - x
      BY <1>1, <2>3, PopExposures
    <3>2. /\ Cardinality(Waiting') = Cardinality(Waiting) + QueuedExposures(sub'[s])
                                       - QueuedExposures(sub[s])
          /\ QueuedExposures(sub[s]) \in Nat
          /\ Cardinality(Waiting) \in Nat
      BY <1>1, <2>1, WaitingSplit
    <3>3. x \in Nat /\ exposures' = exposures - x
      BY <2>3
    <3> HIDE DEF x
    <3> QED BY <1>1, <1>2, <3>1, <3>2, <3>3 DEF ExposuresCounted
  <2> QED BY <1>3, <2>2, <2>3, ProceedQueue
<1>4. CASE SinkFailed(s) \/ PumpCancelled(s) \/ PumpNeverRan(s)
  <2>1. exposures' = exposures
    BY <1>4 DEF SinkFailed, PumpCancelled, PumpNeverRan
  <2>2. \/ sub' = EndPump(s)
        \/ sub' = [sub EXCEPT ![s].pump = "done", ![s].cancelled = FALSE]
    BY <1>4 DEF SinkFailed, PumpCancelled, PumpNeverRan
  <2>3. sub'[s].queue = sub[s].queue
    BY <1>1, <2>2 DEF EndPump, Subscription
  <2>4. \A r \in Subs : r # s => sub'[r] = sub[r]
    BY <1>1, <2>2 DEF EndPump
  <2> QED BY <1>2, <2>1, <2>3, <2>4, QueuesKept
<1> QED BY <1>3, <1>4 DEF Pump, PumpStart, PumpSent, PumpWake

\* A browser that attaches again gives up what its old queue held.
LEMMA RouteCounts ==
  ASSUME IInv, IInv', ExposuresCounted, NEW s \in Subs, Route(s)
  PROVE  ExposuresCounted'
<1> USE DEF IInv, SubsType
<1>1. sub \in [Subs -> Subscription] /\ sub[s] \in Subscription /\ sub'[s] \in Subscription
      /\ exposures \in Int /\ coalesced_blobs \in Nat
  OBVIOUS
<1>2. CASE Attach(s)
  <2>1. /\ \A r \in Subs : r # s => sub'[r] = sub[r]
        /\ sub'[s].queue = <<>>
        /\ exposures' = exposures - QueuedExposures(sub[s]) /\ coalesced_blobs' = coalesced_blobs
    BY <1>1, <1>2 DEF Attach, bridge
  <2>2. /\ Cardinality(Waiting') = Cardinality(Waiting) + QueuedExposures(sub'[s])
                                     - QueuedExposures(sub[s])
        /\ QueuedExposures(sub[s]) \in Nat
        /\ Cardinality(Waiting) \in Nat
    BY <1>1, <2>1, WaitingSplit
  <2>3. QueuedExposures(sub'[s]) = 0
    <3>1. ExposureSlots(sub'[s]) = {}
      BY <2>1 DEF ExposureSlots
    <3> QED BY <1>1, <3>1, ExposureSlotsFinite, FS_EmptySet
  <2> QED BY <1>1, <2>1, <2>2, <2>3 DEF ExposuresCounted
<1>3. CASE Refuse(s)
  <2>1. ErrorFrame \in Frame /\ ~IsExposure(ErrorFrame) /\ None \notin Key
    BY FrameTypes, BridgeAssumption DEF IsExposure, ErrorFrame
  <2>2. UNCHANGED <<exposures, coalesced_blobs>>
        /\ \A r \in Subs : sub'[r] = IF r = s THEN Deliver(sub[s], ErrorFrame, None) ELSE sub[r]
    BY <1>1, <1>3 DEF Refuse
  <2>3. ExposureSlots(sub'[s]) = ExposureSlots(sub[s])
    <3>1. CASE sub[s].closed
      BY <1>1, <2>1, <2>2, <3>1, DeliverShape
    <3>2. CASE ~sub[s].closed
      <4>1. sub'[s].queue = QueueWith(sub[s], ErrorFrame, None)
        BY <1>1, <2>1, <2>2, <3>2, DeliverShape
      <4>2. SlotsSound(sub[s])
        BY DEF CoalescingSound
      <4> QED BY <1>1, <2>1, <4>1, <4>2, QueueWithExposures
    <3> QED BY <3>1, <3>2
  <2>4. Waiting' = Waiting
    BY <2>2, <2>3, WaitingKept
  <2> QED BY <2>2, <2>4 DEF ExposuresCounted
<1>4. CASE EndRoute(s)
  <2>1. UNCHANGED <<exposures, coalesced_blobs>>
        /\ \A r \in Subs : sub'[r] = IF r = s THEN Cancel(sub[s]) ELSE sub[r]
    BY <1>1, <1>4 DEF EndRoute, bridge
  <2> QED BY <1>1, <2>1, CancelType, QueuesKept
<1>5. CASE RouteFinishes(s)
  <2>1. UNCHANGED <<exposures, coalesced_blobs>>
        /\ \A r \in Subs : sub'[r] = IF r = s THEN [sub[s] EXCEPT !.closed = TRUE] ELSE sub[r]
    BY <1>1, <1>5 DEF RouteFinishes, bridge
  <2>2. sub'[s].queue = sub[s].queue
    BY <1>1, <2>1 DEF Subscription
  <2> QED BY <2>1, <2>2, QueuesKept
<1> QED BY <1>2, <1>3, <1>4, <1>5 DEF Route, BrowserLeaves, RouteSeesClosed

\* Closing the bridge moves no exposure.
LEMMA StopCounts ==
  ASSUME IInv, ExposuresCounted, Stop \/ StopClient \/ UNCHANGED vars
  PROVE  ExposuresCounted'
<1> USE DEF IInv, SubsType
<1>1. UNCHANGED <<exposures, coalesced_blobs>>
  BY DEF Stop, StopClient, vars, bridge
<1>2. CASE Stop
  BY <1>1, <1>2, CancelType, QueuesKept DEF Stop
<1>3. CASE StopClient \/ UNCHANGED vars
  BY <1>1, <1>3, QueuesKept DEF StopClient, vars
<1> QED BY <1>2, <1>3

\* Every step keeps the count of the exposures.
LEMMA NextCounts ==
  IInv /\ IInv' /\ Registered /\ ExposuresCounted /\ [Next]_vars => ExposuresCounted'
BY UpstreamCounts, PumpCounts, RouteCounts, StopCounts DEF Next

\* At first there are none.
LEMMA InitCounts == Init => ExposuresCounted
<1> SUFFICES ASSUME Init PROVE ExposuresCounted
  OBVIOUS
<1>1. Waiting = {}
  BY DEF Init, NotAttached, Waiting
<1> QED BY <1>1, FS_EmptySet DEF Init, ExposuresCounted

\* BridgeStats can be reconciled with what happened: besides the browsers
\* dropped, every exposure broadcast was taken by a pump, still waits in a
\* queue, or was replaced there and counted as coalesced (Bridge._deliver).
THEOREM CountersTrue == Spec => []CountersAreTrue
<1>1. IInv /\ Registered /\ DropsCounted /\ ExposuresCounted /\ [Next]_vars
      => IInv' /\ Registered' /\ DropsCounted' /\ ExposuresCounted'
  BY NextIInv, NextDrops, NextCounts
<1>2. Init => IInv /\ Registered /\ DropsCounted /\ ExposuresCounted
  BY InitIInv, InitDrops, InitCounts
<1>3. DropsCounted /\ ExposuresCounted => CountersAreTrue
  BY DEF CountersAreTrue
<1> QED BY <1>1, <1>2, <1>3, PTL DEF Spec

-----------------------------------------------------------------------------
(* What a page shows once it has been sent a sequence of frames.  ShowAll  *)
(* is recursive: that the function it is defined by exists, and every fact *)
(* about it, is by induction on the numbers, stated with sets.             *)

\* A nonempty set of numbers has a least one.
LEMMA LeastNumber ==
  ASSUME NEW T \in SUBSET Nat, T # {}
  PROVE  \E n \in T : \A m \in T : n <= m
<1>1. PICK n \in T : \A m \in T : ~(<<m, n>> \in OpToRel(<, Nat))
  BY NatLessThanWellFounded, WFMin
<1>2. \A m \in T : ~(m < n)
  BY <1>1 DEF OpToRel
<1> QED BY <1>2

\* Induction up to a bound.
LEMMA UpTo ==
  ASSUME NEW n \in Nat, NEW T, 0 \in T, \A i \in 1..n : i - 1 \in T => i \in T
  PROVE  \A i \in 0..n : i \in T
<1> DEFINE bad == {i \in Nat : i <= n /\ i \notin T}
<1>1. CASE bad = {}
  <2>1. \A i \in 0..n : i \in Nat /\ i <= n
    OBVIOUS
  <2> QED BY <1>1, <2>1
<1>2. CASE bad # {}
  <2>1. bad \in SUBSET Nat
    OBVIOUS
  <2> HIDE DEF bad
  <2>2. PICK i \in bad : \A j \in bad : i <= j
    BY <1>2, <2>1, LeastNumber
  <2> USE DEF bad
  <2>3. i # 0 /\ i \in 1..n
    BY <2>2
  <2>4. i - 1 \in Nat /\ i - 1 <= n /\ ~(i <= i - 1)
    BY <2>3
  <2>5. i - 1 \in T
    BY <2>2, <2>4
  <2> QED BY <2>2, <2>3, <2>5
<1> QED BY <1>1, <1>2

\* One view after the other.
Showing(g, v, q, n) ==
  /\ g[0] = v
  /\ \A i \in 1..n : g[i] = Show(g[i - 1], q[i])

\* The function that ShowAll is defined by exists, ...
LEMMA ShowingExists ==
  ASSUME NEW v, NEW q, NEW N \in Nat
  PROVE  \E g : g = [i \in 0..N |-> IF i = 0 THEN v ELSE Show(g[i - 1], q[i])]
<1> DEFINE T == {n \in Nat : \E g : g = [i \in 0..n |-> IF i = 0 THEN v ELSE Show(g[i - 1], q[i])]}
<1>1. 0 \in T
  <2> DEFINE g == [i \in 0..0 |-> v]
  <2>1. g = [i \in 0..0 |-> IF i = 0 THEN v ELSE Show(g[i - 1], q[i])]
    OBVIOUS
  <2> QED BY <2>1
<1>2. ASSUME NEW n \in 1..N, n - 1 \in T PROVE n \in T
  <2>1. PICK g : g = [i \in 0..(n - 1) |-> IF i = 0 THEN v ELSE Show(g[i - 1], q[i])]
    BY <1>2
  <2> DEFINE h == [i \in 0..n |-> IF i = n THEN Show(g[n - 1], q[n]) ELSE g[i]]
  <2>2. \A i \in 0..(n - 1) : h[i] = g[i]
    OBVIOUS
  <2>3. ASSUME NEW i \in 0..n
        PROVE  h[i] = IF i = 0 THEN v ELSE Show(h[i - 1], q[i])
    <3>1. CASE i = n
      <4>1. n - 1 \in 0..(n - 1) /\ n # 0
        OBVIOUS
      <4> QED BY <2>2, <3>1, <4>1
    <3>2. CASE i # n
      <4>1. i \in 0..(n - 1) /\ (i # 0 => i - 1 \in 0..(n - 1))
        BY <3>2
      <4>2. g[i] = IF i = 0 THEN v ELSE Show(g[i - 1], q[i])
        BY <2>1, <4>1
      <4> QED BY <2>2, <4>1, <4>2
    <3> QED BY <3>1, <3>2
  <2>4. DOMAIN h = 0..n /\ h = [i \in 0..n |-> h[i]]
    OBVIOUS
  <2> HIDE DEF h
  <2>5. h = [i \in 0..n |-> IF i = 0 THEN v ELSE Show(h[i - 1], q[i])]
    BY <2>3, <2>4
  <2>6. n \in Nat
    OBVIOUS
  <2> QED BY <2>5, <2>6
<1> HIDE DEF T
<1>3. N \in T
  BY <1>1, <1>2, UpTo
<1> QED BY <1>3 DEF T

\* ... and its last value is what ShowAll returns.
LEMMA ShowAllIs ==
  ASSUME NEW v, NEW q, Len(q) \in Nat
  PROVE  \E g : Showing(g, v, q, Len(q)) /\ ShowAll(v, q) = g[Len(q)]
<1> DEFINE N == Len(q)
           g == CHOOSE h : h = [i \in 0..N |-> IF i = 0 THEN v ELSE Show(h[i - 1], q[i])]
<1>1. g = [i \in 0..N |-> IF i = 0 THEN v ELSE Show(g[i - 1], q[i])]
  BY ShowingExists
<1>2. ShowAll(v, q) = g[N]
  BY DEF ShowAll
<1> HIDE DEF g
<1>3. g[0] = v /\ \A i \in 1..N : g[i] = Show(g[i - 1], q[i])
  BY <1>1
<1> QED BY <1>2, <1>3 DEF Showing

\* Two runs over the same frames from the same page are the same.
LEMMA ShowingUnique ==
  ASSUME NEW n \in Nat, NEW v, NEW q, NEW r, NEW g, NEW h,
         Showing(g, v, q, n), Showing(h, v, r, n),
         \A i \in 1..n : q[i] = r[i]
  PROVE  \A i \in 0..n : g[i] = h[i]
<1> DEFINE T == {i \in 0..n : g[i] = h[i]}
<1>1. 0 \in T
  BY DEF Showing
<1>2. \A i \in 1..n : i - 1 \in T => i \in T
  BY DEF Showing
<1> HIDE DEF T
<1>3. \A i \in 0..n : i \in T
  BY <1>1, <1>2, UpTo
<1> QED BY <1>3 DEF T

\* No frames show nothing, ...
LEMMA ShowAllEmpty ==
  ASSUME NEW v
  PROVE  ShowAll(v, <<>>) = v
<1>1. Len(<<>>) = 0
  OBVIOUS
<1> QED BY <1>1, ShowAllIs DEF Showing

\* A sequence that begins with another and goes on with one frame.
LEMMA ShowAllAppend ==
  ASSUME NEW S, NEW q \in Seq(S), NEW f \in S, NEW v
  PROVE  ShowAll(v, Append(q, f)) = Show(ShowAll(v, q), f)
<1> DEFINE r == Append(q, f)
           n == Len(q)
<1>1. /\ n \in Nat /\ Len(r) = n + 1 /\ r[n + 1] = f
      /\ \A i \in 1..n : r[i] = q[i]
  BY AppendProperties, LenProperties
<1> HIDE DEF r
<1>2. PICK g : Showing(g, v, q, n) /\ ShowAll(v, q) = g[n]
  BY <1>1, ShowAllIs
<1>3. PICK h : Showing(h, v, r, n + 1) /\ ShowAll(v, r) = h[n + 1]
  BY <1>1, ShowAllIs
<1>4. Showing(h, v, r, n)
  BY <1>1, <1>3 DEF Showing
<1> HIDE DEF n
<1>5. g[n] = h[n]
  <2>1. \A i \in 0..n : g[i] = h[i]
    BY <1>1, <1>2, <1>4, ShowingUnique
  <2> QED BY <1>1, <2>1
<1>6. h[n + 1] = Show(h[n], f)
  BY <1>1, <1>3 DEF Showing
<1> QED BY <1>2, <1>3, <1>5, <1>6 DEF r

\* One sequence after another.
LEMMA ShowAllConcat ==
  ASSUME NEW S, NEW q \in Seq(S), NEW r \in Seq(S), NEW v
  PROVE  ShowAll(v, q \o r) = ShowAll(ShowAll(v, q), r)
<1> DEFINE m == Len(q)
           n == Len(r)
           c == q \o r
<1>1. /\ m \in Nat /\ n \in Nat /\ Len(c) = m + n
      /\ \A i \in 1..m : c[i] = q[i]
      /\ \A i \in 1..n : c[m + i] = r[i]
  BY ConcatProperties, LenProperties
<1> HIDE DEF c
<1>2. PICK g : Showing(g, v, c, m + n) /\ ShowAll(v, c) = g[m + n]
  <2>1. Len(c) = m + n /\ Len(c) \in Nat
    BY <1>1
  <2>2. \E g : Showing(g, v, c, Len(c)) /\ ShowAll(v, c) = g[Len(c)]
    BY <2>1, ShowAllIs
  <2> HIDE DEF m, n
  <2> QED BY <2>1, <2>2
<1>3. PICK h : Showing(h, v, q, m) /\ ShowAll(v, q) = h[m]
  BY <1>1, ShowAllIs
<1>4. PICK k : Showing(k, h[m], r, n) /\ ShowAll(h[m], r) = k[n]
  BY <1>1, ShowAllIs
<1> HIDE DEF m, n
<1>5. g[m] = h[m]
  <2>1. Showing(g, v, c, m)
    BY <1>1, <1>2 DEF Showing
  <2>2. \A i \in 0..m : g[i] = h[i]
    BY <1>1, <1>3, <2>1, ShowingUnique
  <2> QED BY <1>1, <2>2
<1>6. g[m + n] = k[n]
  <2> DEFINE T == {i \in 0..n : g[m + i] = k[i]}
  <2>1. 0 \in T
    BY <1>1, <1>4, <1>5 DEF Showing
  <2>2. ASSUME NEW i \in 1..n, i - 1 \in T PROVE i \in T
    <3>1. k[i] = Show(k[i - 1], r[i])
      BY <1>4 DEF Showing
    <3>2. m + i \in 1..(m + n) /\ (m + i) - 1 = m + (i - 1)
      BY <1>1
    <3>3. g[m + i] = Show(g[m + (i - 1)], c[m + i])
      BY <1>2, <3>2 DEF Showing
    <3> QED BY <1>1, <2>2, <3>1, <3>3
  <2> HIDE DEF T
  <2>4. \A i \in 0..n : i \in T
    BY <1>1, <2>1, <2>2, UpTo
  <2>3. n \in T
    BY <1>1, <2>4
  <2> QED BY <2>3 DEF T
<1> QED BY <1>2, <1>3, <1>4, <1>6 DEF c

\* ... one shows what it shows, ...
LEMMA ShowAllOne ==
  ASSUME NEW v, NEW f
  PROVE  ShowAll(v, <<f>>) = Show(v, f)
<1>1. <<>> \in Seq({f}) /\ Append(<<>>, f) = <<f>>
  OBVIOUS
<1> QED BY <1>1, ShowAllAppend, ShowAllEmpty

\* ... and a first frame shows before the others.
LEMMA ShowAllHead ==
  ASSUME NEW S, NEW q \in Seq(S), q # <<>>, NEW v
  PROVE  ShowAll(v, q) = ShowAll(Show(v, Head(q)), Tail(q))
<1>1. Head(q) \in S /\ Tail(q) \in Seq(S) /\ q = <<Head(q)>> \o Tail(q)
  OBVIOUS
<1>2. <<Head(q)>> \in Seq(S)
  BY <1>1
<1>3. ShowAll(v, <<Head(q)>> \o Tail(q)) = ShowAll(ShowAll(v, <<Head(q)>>), Tail(q))
  BY <1>1, <1>2, ShowAllConcat
<1>4. ShowAll(v, <<Head(q)>>) = Show(v, Head(q))
  BY ShowAllOne
<1> QED BY ONLY <1>1, <1>3, <1>4

-----------------------------------------------------------------------------
(* What one frame changes on a page.                                       *)

\* A property after a frame; the log and the link after it.
LEMMA ShowProps ==
  ASSUME NEW v \in Page, NEW f \in Frame \cup {NoFrame}, NEW k \in Key
  PROVE  LET w == Show(v, f)
         IN  /\ f.tag = "def" /\ f.key = k => w.props[k] = f.val
             /\ f.tag = "set" /\ f.key = k =>
                  w.props[k] = IF v.props[k] = None THEN None ELSE f.val
             /\ f.tag = "del" /\ k \in DelKeys(f.dev, f.name) => w.props[k] = None
             /\ ~Concerns(f, k) => w.props[k] = v.props[k]
<1> DEFINE u == Latch(v, f)
<1>1. u \in Page /\ u.props = v.props
  BY DEF Latch, Page
<1>2. Show(v, f) = Apply(u, f)
  BY DEF Show
<1>3. u.props \in Dict(Value)
  BY <1>1 DEF Page
<1> HIDE DEF u
<1>4. CASE f.tag = "def"
  <2>1. Apply(u, f) = [u EXCEPT !.props[f.key] = f.val, !.devs = @ \cup {f.key[1]}]
    BY <1>4 DEF Apply
  <2>2. Apply(u, f).props = [u.props EXCEPT ![f.key] = f.val]
    BY <1>1, <2>1 DEF Page
  <2> QED BY <1>1, <1>2, <1>3, <1>4, <2>2 DEF Concerns, Dict
<1>5. CASE f.tag = "set"
  <2>1. CASE f.key \in Held(u.props)
    <3>1. Apply(u, f) = [u EXCEPT !.props[f.key] = f.val]
      BY <1>5, <2>1 DEF Apply
    <3>2. Apply(u, f).props = [u.props EXCEPT ![f.key] = f.val]
      BY <1>1, <3>1 DEF Page
    <3> QED BY <1>1, <1>2, <1>3, <1>5, <2>1, <3>2 DEF Concerns, Dict, Held
  <2>2. CASE f.key \notin Held(u.props)
    <3>1. Apply(u, f) = u
      BY <1>5, <2>2 DEF Apply
    <3> QED BY <1>1, <1>2, <1>5, <2>2, <3>1 DEF Concerns, Held
  <2> QED BY <2>1, <2>2
<1>6. CASE f.tag = "del"
  <2> DEFINE gone == DelKeys(f.dev, f.name)
             devs == IF f.name = None THEN u.devs \ {f.dev} ELSE u.devs
  <2>1. Apply(u, f) = [u EXCEPT !.props = Without(u.props, gone), !.devs = devs]
    BY <1>6 DEF Apply
  <2> HIDE DEF devs, gone
  <2>2. Apply(u, f).props = Without(u.props, gone)
    BY <1>1, <2>1 DEF Page
  <2> QED BY <1>1, <1>2, <1>6, <2>2 DEF Concerns, Without, gone
<1>7. CASE f.tag \in {"message", "connection"}
  <2>1. Apply(u, f).props = u.props
    BY <1>1, <1>7 DEF Apply, Page
  <2> QED BY <1>1, <1>2, <1>7, <2>1
<1>8. CASE f.tag \notin {"def", "set", "del", "message", "connection"}
  <2>1. Apply(u, f) = u
    BY <1>8 DEF Apply
  <2> QED BY <1>1, <1>2, <1>8, <2>1
<1> QED BY <1>4, <1>5, <1>6, <1>7, <1>8

\* Messages are logged, and connection frames tell of the link.
LEMMA ShowLog ==
  ASSUME NEW v \in Page, NEW f \in Frame \cup {NoFrame}
  PROVE  /\ f.tag = "message" => Show(v, f).log = Append(v.log, f.id)
         /\ f.tag # "message" => Show(v, f).log = v.log
         /\ f.tag = "connection" => Show(v, f).up = f.up
         /\ f.tag # "connection" => Show(v, f).up = v.up
<1> DEFINE u == Latch(v, f)
<1>1. u \in Page /\ u.log = v.log /\ u.up = v.up
  BY DEF Latch, Page
<1>2. Show(v, f) = Apply(u, f)
  BY DEF Show
<1> HIDE DEF u
<1>3. CASE f.tag = "message"
  <2>1. Apply(u, f) = [u EXCEPT !.log = Append(u.log, f.id)]
    BY <1>3 DEF Apply
  <2>2. Apply(u, f).log = Append(u.log, f.id) /\ Apply(u, f).up = u.up
    BY <1>1, <2>1 DEF Page
  <2> QED BY <1>1, <1>2, <1>3, <2>2
<1>4. CASE f.tag = "connection"
  <2>1. Apply(u, f) = [u EXCEPT !.up = f.up]
    BY <1>4 DEF Apply
  <2>2. Apply(u, f).log = u.log /\ Apply(u, f).up = f.up
    BY <1>1, <2>1 DEF Page
  <2> QED BY <1>1, <1>2, <1>4, <2>2
<1>5. CASE f.tag = "def"
  <2>1. Apply(u, f) = [u EXCEPT !.props[f.key] = f.val, !.devs = @ \cup {f.key[1]}]
    BY <1>5 DEF Apply
  <2>2. Apply(u, f).log = u.log /\ Apply(u, f).up = u.up
    BY <1>1, <2>1 DEF Page
  <2> QED BY <1>1, <1>2, <1>5, <2>2
<1>6. CASE f.tag = "set"
  <2>1. Apply(u, f) \in {u, [u EXCEPT !.props[f.key] = f.val]}
    BY <1>6 DEF Apply
  <2>2. Apply(u, f).log = u.log /\ Apply(u, f).up = u.up
    BY <1>1, <2>1 DEF Page
  <2> QED BY <1>1, <1>2, <1>6, <2>2
<1>7. CASE f.tag = "del"
  <2> DEFINE props == Without(u.props, DelKeys(f.dev, f.name))
             devs == IF f.name = None THEN u.devs \ {f.dev} ELSE u.devs
  <2>1. Apply(u, f) = [u EXCEPT !.props = props, !.devs = devs]
    BY <1>7 DEF Apply
  <2> HIDE DEF devs, props
  <2>2. Apply(u, f).log = u.log /\ Apply(u, f).up = u.up
    BY <1>1, <2>1 DEF Page
  <2> QED BY <1>1, <1>2, <1>7, <2>2
<1>8. CASE f.tag \notin {"def", "set", "del", "message", "connection"}
  <2>1. Apply(u, f) = u
    BY <1>8 DEF Apply
  <2> QED BY <1>1, <1>2, <1>8, <2>1
<1> QED BY <1>3, <1>4, <1>5, <1>6, <1>7, <1>8

\* The values frames carry are values, not None.
LEMMA FrameValue ==
  ASSUME NEW f \in Frame, f.tag \in {"def", "set"}
  PROVE  f.key \in Key /\ f.val \in Value /\ f.val # None
BY BridgeAssumption DEF Frame, Value, HelloFrame, ErrorFrame

-----------------------------------------------------------------------------
(* Pages that say the same, but for the values of some properties.         *)

Alike(v, w, K) ==
  /\ v.log = w.log /\ v.up = w.up
  /\ \A k \in Key : /\ k \notin K => v.props[k] = w.props[k]
                    /\ v.props[k] = None <=> w.props[k] = None
Same(v, w) == Alike(v, w, {})

\* The same frame, shown on pages that are alike.
LEMMA ShowAlike ==
  ASSUME NEW v \in Page, NEW w \in Page, NEW f \in Frame \cup {NoFrame}, NEW K,
         Alike(v, w, K)
  PROVE  Alike(Show(v, f), Show(w, f), K)
<1>1. Show(v, f).log = Show(w, f).log /\ Show(v, f).up = Show(w, f).up
  <2>0. v.log = w.log /\ v.up = w.up
    BY DEF Alike
  <2>1. Show(v, f).log = Show(w, f).log
    <3>1. CASE f.tag = "message"
      <4>1. Show(v, f).log = Append(v.log, f.id)
        BY <3>1, ShowLog
      <4>2. Show(w, f).log = Append(w.log, f.id)
        BY <3>1, ShowLog
      <4> QED BY <2>0, <4>1, <4>2, Zenon
    <3>2. CASE f.tag # "message"
      <4>1. Show(v, f).log = v.log
        BY <3>2, ShowLog
      <4>2. Show(w, f).log = w.log
        BY <3>2, ShowLog
      <4> QED BY <2>0, <4>1, <4>2, Zenon
    <3> QED BY <3>1, <3>2
  <2>2. Show(v, f).up = Show(w, f).up
    <3>1. CASE f.tag = "connection"
      BY <3>1, ShowLog
    <3>2. CASE f.tag # "connection"
      BY <2>0, <3>2, ShowLog
    <3> QED BY <3>1, <3>2
  <2> QED BY <2>1, <2>2
<1> SUFFICES ASSUME NEW k \in Key
    PROVE  /\ k \notin K => Show(v, f).props[k] = Show(w, f).props[k]
           /\ Show(v, f).props[k] = None <=> Show(w, f).props[k] = None
  BY <1>1 DEF Alike
<1> DEFINE x == Show(v, f).props[k]
           y == Show(w, f).props[k]
<1>2. (k \notin K => v.props[k] = w.props[k]) /\ (v.props[k] = None <=> w.props[k] = None)
  BY DEF Alike
<1>3. CASE ~Concerns(f, k)
  <2>1. x = v.props[k] /\ y = w.props[k]
    BY <1>3, ShowProps
  <2> QED BY <1>2, <2>1
<1>4. CASE f.tag = "def" /\ f.key = k
  <2>1. x = f.val /\ y = f.val
    BY <1>4, ShowProps
  <2> QED BY <2>1
<1>5. CASE f.tag = "set" /\ f.key = k
  <2>1. /\ x = IF v.props[k] = None THEN None ELSE f.val
        /\ y = IF w.props[k] = None THEN None ELSE f.val
    BY <1>5, ShowProps
  <2> QED BY <1>2, <2>1
<1>6. CASE f.tag = "del" /\ k \in DelKeys(f.dev, f.name)
  <2>1. x = None /\ y = None
    BY <1>6, ShowProps
  <2> QED BY <2>1
<1> QED BY <1>3, <1>4, <1>5, <1>6 DEF Concerns

\* Being alike is an equivalence, ...
LEMMA AlikeTransitive ==
  ASSUME NEW u, NEW v, NEW w, NEW K, Alike(u, v, K), Alike(v, w, K)
  PROVE  Alike(u, w, K)
BY DEF Alike

\* ... it can be turned around, ...
LEMMA AlikeSymmetric ==
  ASSUME NEW v, NEW w, NEW K, Alike(v, w, K)
  PROVE  Alike(w, v, K)
BY DEF Alike

\* ... and pages that are the same are alike.
LEMMA SameAlike ==
  ASSUME NEW v, NEW w, NEW K, Same(v, w)
  PROVE  Alike(v, w, K)
BY DEF Alike, Same

\* The same frames, sent to pages that are alike.
LEMMA ShowAllPage ==
  ASSUME NEW v \in Page, NEW q \in Seq(Frame)
  PROVE  ShowAll(v, q) \in Page
<1>1. Len(q) \in Nat /\ \A i \in 1..Len(q) : q[i] \in Frame
  BY LenProperties, ElementOfSeq
<1>2. PICK g : Showing(g, v, q, Len(q)) /\ ShowAll(v, q) = g[Len(q)]
  BY <1>1, ShowAllIs
<1> DEFINE T == {i \in 0..Len(q) : g[i] \in Page}
<1>3. 0 \in T
  BY <1>1, <1>2 DEF Showing
<1>4. ASSUME NEW i \in 1..Len(q), i - 1 \in T PROVE i \in T
  BY <1>1, <1>2, <1>4, ShowType DEF Showing
<1> HIDE DEF T
<1>5. \A i \in 0..Len(q) : i \in T
  BY <1>1, <1>3, <1>4, UpTo
<1>6. Len(q) \in T
  BY <1>1, <1>5
<1> QED BY <1>2, <1>6 DEF T

\* Pages that are alike stay so, whatever they are both sent.
LEMMA ShowAllAlike ==
  ASSUME NEW v \in Page, NEW w \in Page, NEW q \in Seq(Frame), NEW K, Alike(v, w, K)
  PROVE  Alike(ShowAll(v, q), ShowAll(w, q), K)
<1>1. Len(q) \in Nat /\ \A i \in 1..Len(q) : q[i] \in Frame
  BY LenProperties, ElementOfSeq
<1>2. PICK g : Showing(g, v, q, Len(q)) /\ ShowAll(v, q) = g[Len(q)]
  BY <1>1, ShowAllIs
<1>3. PICK h : Showing(h, w, q, Len(q)) /\ ShowAll(w, q) = h[Len(q)]
  BY <1>1, ShowAllIs
<1> DEFINE T == {i \in 0..Len(q) : g[i] \in Page /\ h[i] \in Page /\ Alike(g[i], h[i], K)}
<1>4. 0 \in T
  BY <1>1, <1>2, <1>3 DEF Showing
<1>5. ASSUME NEW i \in 1..Len(q), i - 1 \in T PROVE i \in T
  <2>1. g[i] = Show(g[i - 1], q[i]) /\ h[i] = Show(h[i - 1], q[i]) /\ q[i] \in Frame
    BY <1>1, <1>2, <1>3 DEF Showing
  <2>2. g[i - 1] \in Page /\ h[i - 1] \in Page /\ Alike(g[i - 1], h[i - 1], K)
    BY <1>5
  <2> QED BY <2>1, <2>2, ShowType, ShowAlike
<1> HIDE DEF T
<1>6. \A i \in 0..Len(q) : i \in T
  BY <1>1, <1>4, <1>5, UpTo
<1>7. Len(q) \in T
  BY <1>1, <1>6
<1> QED BY <1>2, <1>3, <1>7 DEF T

-----------------------------------------------------------------------------
(* The queue: folding a set into its slot shows the same as sending it     *)
(* last.                                                                   *)

Frames(q) == [i \in DOMAIN q |-> q[i].frame]

\* The frames of a queue.
LEMMA FramesType ==
  ASSUME NEW q \in Seq(Slot)
  PROVE  /\ Frames(q) \in Seq(Frame) /\ Len(Frames(q)) = Len(q)
         /\ \A i \in 1..Len(q) : Frames(q)[i] = q[i].frame /\ q[i].frame \in Frame
<1>1. DOMAIN q = 1..Len(q) /\ Len(q) \in Nat
  BY LenProperties
<1>a. \A i \in 1..Len(q) : q[i] \in Slot
  BY ElementOfSeq
<1>2. \A i \in 1..Len(q) : q[i].frame \in Frame
  BY <1>a DEF Slot
<1>3. Frames(q) \in [1..Len(q) -> Frame]
  BY <1>1, <1>2 DEF Frames
<1>4. Frames(q) \in Seq(Frame)
  BY <1>1, <1>3, SeqDef
<1>5. Len(Frames(q)) = Len(q)
  BY <1>1, <1>3, <1>4, LenProperties
<1> QED BY <1>1, <1>2, <1>4, <1>5 DEF Frames

\* The first of them is the first slot's, ...
LEMMA FramesHead ==
  ASSUME NEW q \in Seq(Slot), q # <<>>
  PROVE  /\ Head(Frames(q)) = Head(q).frame /\ Frames(q) # <<>>
         /\ Tail(Frames(q)) = Frames(Tail(q))
<1>1. /\ Len(q) \in Nat \ {0} /\ Tail(q) \in Seq(Slot) /\ Len(Tail(q)) = Len(q) - 1
      /\ \A i \in 1..(Len(q) - 1) : Tail(q)[i] = q[i + 1]
      /\ Head(q) = q[1]
  BY EmptySeq, HeadTailProperties
<1>2. /\ Frames(q) \in Seq(Frame) /\ Len(Frames(q)) = Len(q)
      /\ \A i \in 1..Len(q) : Frames(q)[i] = q[i].frame
  BY FramesType
<1>3. /\ Frames(Tail(q)) \in Seq(Frame) /\ Len(Frames(Tail(q))) = Len(q) - 1
      /\ \A i \in 1..(Len(q) - 1) : Frames(Tail(q))[i] = Tail(q)[i].frame
  BY <1>1, FramesType
<1>4. /\ Frames(q) # <<>>
      /\ Tail(Frames(q)) \in Seq(Frame) /\ Len(Tail(Frames(q))) = Len(q) - 1
      /\ \A i \in 1..(Len(q) - 1) : Tail(Frames(q))[i] = Frames(q)[i + 1]
      /\ Head(Frames(q)) = Frames(q)[1]
  BY <1>1, <1>2, EmptySeq, HeadTailProperties
<1>5. \A i \in 1..(Len(q) - 1) : Tail(Frames(q))[i] = Frames(Tail(q))[i]
  BY <1>1, <1>2, <1>3, <1>4
<1>6. Tail(Frames(q)) = Frames(Tail(q))
  BY <1>3, <1>4, <1>5, SeqEqual
<1> QED BY <1>1, <1>2, <1>4, <1>6

\* ... and a slot queued is a frame sent last.
LEMMA FramesAppend ==
  ASSUME NEW q \in Seq(Slot), NEW f \in Frame, NEW k \in Key \cup {None}
  PROVE  Frames(Append(q, [frame |-> f, key |-> k])) = Append(Frames(q), f)
<1> DEFINE slot == [frame |-> f, key |-> k]
           r == Append(q, slot)
           t == Append(Frames(q), f)
<1>1. slot \in Slot /\ slot.frame = f
  BY DEF Slot
<1> HIDE DEF slot
<1>2. /\ Len(q) \in Nat /\ r \in Seq(Slot) /\ Len(r) = Len(q) + 1 /\ r[Len(q) + 1] = slot
      /\ \A i \in 1..Len(q) : r[i] = q[i]
  BY <1>1, AppendProperties, LenProperties
<1>3. /\ Frames(q) \in Seq(Frame) /\ Len(Frames(q)) = Len(q)
      /\ \A i \in 1..Len(q) : Frames(q)[i] = q[i].frame
  BY FramesType
<1>4. /\ t \in Seq(Frame) /\ Len(t) = Len(q) + 1 /\ t[Len(q) + 1] = f
      /\ \A i \in 1..Len(q) : t[i] = Frames(q)[i]
  BY <1>3, AppendProperties
<1>5. /\ Frames(r) \in Seq(Frame) /\ Len(Frames(r)) = Len(q) + 1
      /\ \A i \in 1..(Len(q) + 1) : Frames(r)[i] = r[i].frame
  BY <1>2, FramesType
<1> HIDE DEF r, t
<1>6. \A i \in 1..(Len(q) + 1) : Frames(r)[i] = t[i]
  <2> TAKE i \in 1..(Len(q) + 1)
  <2>1. i \in 1..Len(q) \/ i = Len(q) + 1
    BY <1>2
  <2> QED BY <1>1, <1>2, <1>3, <1>4, <1>5, <2>1
<1>7. Frames(r) = t
  BY <1>4, <1>5, <1>6, SeqEqual
<1> QED BY <1>7 DEF r, t, slot

\* A set in the place of another for the same property, when nothing behind it concerns
\* the property.
LEMMA FoldingShows ==
  ASSUME NEW v \in Page, NEW q \in Seq(Frame), NEW r \in Seq(Frame), Len(r) = Len(q),
         NEW n \in 1..Len(q), NEW f \in Frame, NEW k \in Key,
         f.tag = "set", f.key = k, q[n].tag = "set", q[n].key = k, r[n] = f,
         \A i \in 1..Len(q) : i # n => r[i] = q[i],
         \A i \in 1..Len(q) : i > n => ~Concerns(q[i], k)
  PROVE  Same(ShowAll(v, r), Show(ShowAll(v, q), f))
<1> DEFINE N == Len(q)
<1>1. N \in Nat /\ (\A i \in 1..N : q[i] \in Frame /\ r[i] \in Frame) /\ n \in Nat
  BY LenProperties, ElementOfSeq
<1>2. PICK g : Showing(g, v, q, N) /\ ShowAll(v, q) = g[N]
  BY <1>1, ShowAllIs
<1>3. PICK h : Showing(h, v, r, N) /\ ShowAll(v, r) = h[N]
  BY <1>1, ShowAllIs
<1> HIDE DEF N
<1> DEFINE Folded2(x, y) == /\ Alike(x, y, {k})
                            /\ y.props[k] = IF x.props[k] = None THEN None ELSE f.val
           T == {i \in 0..N : /\ g[i] \in Page /\ h[i] \in Page
                              /\ i < n => g[i] = h[i]
                              /\ i >= n => Folded2(g[i], h[i])}
<1>4. 0 \in T
  BY <1>1, <1>2, <1>3 DEF Showing
<1>5. ASSUME NEW i \in 1..N, i - 1 \in T PROVE i \in T
  <2>1. /\ g[i] = Show(g[i - 1], q[i]) /\ h[i] = Show(h[i - 1], r[i])
        /\ q[i] \in Frame /\ r[i] \in Frame
    BY <1>1, <1>2, <1>3 DEF Showing
  <2>2. g[i - 1] \in Page /\ h[i - 1] \in Page
    BY <1>5
  <2>3. g[i] \in Page /\ h[i] \in Page
    BY <2>1, <2>2, ShowType
  <2>4. CASE i < n
    BY <1>1, <1>5, <2>1, <2>3, <2>4 DEF N
  <2>5. CASE i = n
    <3> DEFINE x == g[i - 1]
    <3>1. g[i] = Show(x, q[n]) /\ h[i] = Show(x, f) /\ x \in Page /\ q[n] \in Frame
      BY <1>1, <1>5, <2>1, <2>2, <2>5
    <3> HIDE DEF x
    <3>2. /\ g[i].props[k] = IF x.props[k] = None THEN None ELSE q[n].val
          /\ h[i].props[k] = IF x.props[k] = None THEN None ELSE f.val
      BY <3>1, ShowProps
    <3>3. q[n].val # None /\ f.val # None
      BY <3>1, FrameValue
    <3>4. ASSUME NEW j \in Key, j # k PROVE g[i].props[j] = h[i].props[j]
      <4>1. ~Concerns(q[n], j) /\ ~Concerns(f, j)
        BY <3>4 DEF Concerns
      <4> QED BY <3>1, <4>1, ShowProps
    <3>5. g[i].log = h[i].log /\ g[i].up = h[i].up
      BY <3>1, ShowLog
    <3>6. Folded2(g[i], h[i])
      BY <3>2, <3>3, <3>4, <3>5 DEF Alike
    <3> HIDE DEF Folded2
    <3> QED BY <2>3, <2>5, <3>6
  <2>6. CASE i > n
    <3>1. i - 1 >= n /\ r[i] = q[i] /\ ~Concerns(q[i], k)
      BY <1>1, <2>6 DEF N
    <3>2. Folded2(g[i - 1], h[i - 1])
      BY <1>5, <3>1
    <3>3. Alike(g[i], h[i], {k})
      BY <2>1, <2>2, <3>1, <3>2, ShowAlike
    <3>4. g[i].props[k] = g[i - 1].props[k] /\ h[i].props[k] = h[i - 1].props[k]
      BY <2>1, <2>2, <3>1, ShowProps
    <3>5. Folded2(g[i], h[i])
      BY <3>2, <3>3, <3>4
    <3> HIDE DEF Folded2
    <3> QED BY <1>1, <2>3, <2>6, <3>5
  <2> QED BY <1>1, <2>4, <2>5, <2>6
<1> HIDE DEF T
<1>6. \A i \in 0..N : i \in T
  BY <1>1, <1>4, <1>5, UpTo
<1>7. N \in T /\ N >= n
  BY <1>1, <1>6 DEF N
<1>8. Folded2(g[N], h[N]) /\ g[N] \in Page /\ h[N] \in Page
  BY <1>1, <1>7 DEF T
<1> DEFINE x == g[N]
           y == h[N]
           z == Show(x, f)
<1>9. Same(y, z)
  <2> HIDE DEF x, y
  <2>0. x \in Page /\ Alike(x, y, {k}) /\ y.props[k] = IF x.props[k] = None THEN None ELSE f.val
    BY <1>8 DEF x, y
  <2>1. z.log = x.log /\ z.up = x.up
    BY <2>0, ShowLog
  <2>2. z.props[k] = IF x.props[k] = None THEN None ELSE f.val
    BY <2>0, ShowProps
  <2>3. ASSUME NEW j \in Key, j # k PROVE z.props[j] = x.props[j]
    <3>1. ~Concerns(f, j)
      BY <2>3 DEF Concerns
    <3> QED BY <2>0, <3>1, ShowProps
  <2> HIDE DEF z
  <2> QED BY <2>0, <2>1, <2>2, <2>3 DEF Same, Alike
<1> QED BY <1>2, <1>3, <1>9

\* Every page is alike to itself.
LEMMA SameReflexive == \A v, K : Alike(v, v, K) /\ Same(v, v)
BY DEF Same, Alike

\* A frame delivered, queued or folded, shows what it shows when sent last.
LEMMA DeliveryShows ==
  ASSUME NEW v \in Page, NEW u \in Subscription, SlotsSound(u),
         NEW f \in Frame, NEW k \in Key \cup {None},
         k \in Key => f.tag = "set" /\ f.key = k
  PROVE  Same(ShowAll(v, Frames(QueueWith(u, f, k))), Show(ShowAll(v, Frames(u.queue)), f))
<1>0. u.queue \in Seq(Slot) /\ DOMAIN u.queue = 1..Len(u.queue) /\ Len(u.queue) \in Nat
  BY LenProperties DEF Subscription
<1>1. CASE k \in Held(u.coalescible)
  <2> DEFINE n == u.coalescible[k]
             p == QueueWith(u, f, k)
  <2>1. k \in Key /\ n \in DOMAIN u.queue /\ n \in Nat /\ u.queue[n].frame.tag = "set"
        /\ u.queue[n].frame.key = k
        /\ \A j \in DOMAIN u.queue : j > n => ~Concerns(u.queue[j].frame, k)
    BY <1>0, <1>1 DEF Held, SlotsSound
  <2>2. p = Overwrite(u.queue, n, f)
    BY <1>1 DEF QueueWith
  <2> HIDE DEF n, p
  <2>3. /\ p \in Seq(Slot) /\ Len(p) = Len(u.queue) /\ p[n].frame = f
        /\ \A i \in DOMAIN u.queue : i # n => p[i] = u.queue[i]
    <3>2. u.queue \in Seq(Slot) /\ n \in Nat \cup {None} /\ f \in Frame /\ n \in DOMAIN u.queue
      BY <1>0, <2>1
    <3>1. \A queue \in Seq(Slot) :
            /\ Overwrite(queue, n, f) \in Seq(Slot)
            /\ Len(Overwrite(queue, n, f)) = Len(queue)
            /\ n \in DOMAIN queue => /\ Overwrite(queue, n, f)[n].frame = f
                                    /\ Overwrite(queue, n, f)[n].key = queue[n].key
            /\ \A i \in DOMAIN queue : i # n => Overwrite(queue, n, f)[i] = queue[i]
      BY <3>2, OverwriteType
    <3> QED BY ONLY <2>2, <3>1, <3>2
  <2> DEFINE q == Frames(u.queue)
             r == Frames(p)
  <2>4. /\ q \in Seq(Frame) /\ Len(q) = Len(u.queue)
        /\ \A i \in 1..Len(u.queue) : q[i] = u.queue[i].frame
    BY <1>0, FramesType
  <2>5. /\ r \in Seq(Frame) /\ Len(r) = Len(u.queue)
        /\ \A i \in 1..Len(u.queue) : r[i] = p[i].frame
    BY <2>3, FramesType
  <2> HIDE DEF q, r
  <2>6. /\ n \in 1..Len(q) /\ q[n].tag = "set" /\ q[n].key = k /\ r[n] = f
        /\ \A i \in 1..Len(q) : i # n => r[i] = q[i]
        /\ \A i \in 1..Len(q) : i > n => ~Concerns(q[i], k)
    BY <1>0, <2>1, <2>3, <2>4, <2>5
  <2>7. f.tag = "set" /\ f.key = k
    BY <2>1
  <2>8. Same(ShowAll(v, r), Show(ShowAll(v, q), f))
    BY <2>1, <2>4, <2>5, <2>6, <2>7, FoldingShows
  <2> QED BY <2>8 DEF p, q, r
<1>2. CASE k \notin Held(u.coalescible)
  <2>1. Frames(QueueWith(u, f, k)) = Append(Frames(u.queue), f)
    BY <1>0, <1>2, FramesAppend DEF QueueWith
  <2>2. Frames(u.queue) \in Seq(Frame)
    BY <1>0, FramesType
  <2>3. ShowAll(v, Append(Frames(u.queue), f)) = Show(ShowAll(v, Frames(u.queue)), f)
    BY <2>2, ShowAllAppend
  <2> QED BY <2>1, <2>3, SameReflexive
<1> QED BY <1>1, <1>2

-----------------------------------------------------------------------------
(* The seed: the vectors of the store, whatever their order.               *)

\* What is sent of the objects I.
Seeding(I, objs) ==
  LET vectors == SetToSeq(I)
  IN  [i \in DOMAIN vectors |-> VectorFrame("def", objs[vectors[i]].key, objs[vectors[i]].val)]

\* No two of the objects are of one property.
OneEach(I, objs) == \A i, j \in I : objs[i].key = objs[j].key => i = j

\* w is v with the values of these objects.
SeededWith(v, w, I, objs) ==
  /\ w.log = v.log /\ w.up = v.up
  /\ \A i \in I : w.props[objs[i].key] = objs[i].val
  /\ \A k \in Key : (\A i \in I : objs[i].key # k) => w.props[k] = v.props[k]

\* A finite set as a sequence: each element once.
LEMMA SetToSeqIs ==
  ASSUME NEW I, IsFiniteSet(I)
  PROVE  /\ SetToSeq(I) \in Seq(I) /\ Len(SetToSeq(I)) = Cardinality(I)
         /\ Cardinality(I) \in Nat
         /\ DOMAIN SetToSeq(I) = 1..Cardinality(I)
         /\ \A i, j \in 1..Cardinality(I) : SetToSeq(I)[i] = SetToSeq(I)[j] => i = j
         /\ \A x \in I : \E i \in 1..Cardinality(I) : SetToSeq(I)[i] = x
<1> DEFINE n == Cardinality(I)
           s == SetToSeq(I)
<1>1. n \in Nat /\ ExistsBijection(1..n, I)
  BY FS_CardinalityType
<1>2. \E f \in [1..n -> I] : IsInjective(f)
  BY <1>1 DEF ExistsBijection, Bijection, Injection
<1>3. s \in [1..n -> I] /\ IsInjective(s)
  <2> DEFINE Q(f) == f \in [1..n -> I] /\ IsInjective(f)
  <2>1. s = CHOOSE f \in [1..n -> I] : IsInjective(f)
    BY DEF SetToSeq
  <2> HIDE DEF s, n
  <2> QED BY <1>2, <2>1
<1> HIDE DEF s
<1>4. s \in Injection(1..n, I)
  BY <1>3 DEF Injection
<1>5. Cardinality(1..n) = n /\ IsFiniteSet(1..n)
  BY <1>1, FS_Interval
<1>6. s \in Surjection(1..n, I)
  BY <1>4, <1>5, FS_Injection
<1>7. s \in Seq(I)
  BY <1>1, <1>3, SeqDef
<1>8. Len(s) = n
  BY <1>1, <1>3, <1>7, LenProperties
<1> HIDE DEF n
<1>9. \A i, j \in 1..n : s[i] = s[j] => i = j
  BY <1>3 DEF IsInjective
<1>10. \A x \in I : \E i \in 1..n : s[i] = x
  BY <1>6 DEF Surjection
<1> QED BY <1>1, <1>3, <1>7, <1>8, <1>9, <1>10 DEF s, n

\* The frames of a seed.
LEMMA SeedingType ==
  ASSUME NEW objs \in Objects, NEW I, I \subseteq DOMAIN objs
  PROVE  /\ IsFiniteSet(I)
         /\ Seeding(I, objs) \in Seq(Frame) /\ Len(Seeding(I, objs)) = Cardinality(I)
         /\ \A i \in 1..Cardinality(I) :
              Seeding(I, objs)[i] = VectorFrame("def", objs[SetToSeq(I)[i]].key,
                                                       objs[SetToSeq(I)[i]].val)
         /\ \A i \in I : objs[i].key \in Key /\ objs[i].val \in Value
<1> DEFINE s == SetToSeq(I)
           n == Cardinality(I)
<1>1. DOMAIN objs = 1..Len(objs) /\ Len(objs) \in Nat
      /\ \A i \in DOMAIN objs : objs[i] \in [key : Key, val : Value]
  BY LenProperties, ElementOfSeq DEF Objects
<1>2. IsFiniteSet(I)
  <2>1. IsFiniteSet(1..Len(objs))
    BY <1>1, FS_Interval
  <2> QED BY <1>1, <2>1, FS_Subset
<1>3. \A i \in I : objs[i].key \in Key /\ objs[i].val \in Value
  <2> TAKE i \in I
  <2>1. objs[i] \in [key : Key, val : Value]
    BY <1>1
  <2> QED BY <2>1
<1>4. s \in Seq(I) /\ n \in Nat /\ DOMAIN s = 1..n /\ Len(s) = n
  BY <1>2, SetToSeqIs
<1> DEFINE frame(i) == VectorFrame("def", objs[s[i]].key, objs[s[i]].val)
<1>0. Seeding(I, objs) = [i \in DOMAIN s |-> frame(i)]
  BY DEF Seeding
<1> HIDE DEF s, n
<1>5. \A i \in 1..n : s[i] \in I
  BY <1>4, ElementOfSeq
<1>6. \A i \in 1..n : frame(i) \in Frame
  BY <1>3, <1>5, FrameTypes
<1> HIDE DEF frame
<1>7. Seeding(I, objs) \in [1..n -> Frame]
  BY <1>0, <1>4, <1>6
<1>8. Seeding(I, objs) \in Seq(Frame)
  BY <1>4, <1>7, SeqDef
<1>9. Len(Seeding(I, objs)) = n
  BY <1>4, <1>7, <1>8, LenProperties
<1>10. \A i \in 1..n : Seeding(I, objs)[i] = frame(i)
  BY <1>0, <1>4
<1> QED BY <1>2, <1>3, <1>8, <1>9, <1>10 DEF frame, s, n

\* A seed shows the values of its objects and changes nothing else.
LEMMA SeedingShows ==
  ASSUME NEW objs \in Objects, NEW I, I \subseteq DOMAIN objs, OneEach(I, objs),
         NEW v \in Page
  PROVE  SeededWith(v, ShowAll(v, Seeding(I, objs)), I, objs)
<1> DEFINE s == SetToSeq(I)
           n == Cardinality(I)
           q == Seeding(I, objs)
<1>1. IsFiniteSet(I) /\ q \in Seq(Frame) /\ Len(q) = n
      /\ \A i \in 1..n : q[i] = VectorFrame("def", objs[s[i]].key, objs[s[i]].val)
  BY SeedingType
<1>a. \A i \in I : objs[i].key \in Key /\ objs[i].val \in Value
  BY SeedingType
<1>2. /\ n \in Nat /\ s \in Seq(I) /\ Len(s) = n
      /\ \A i, j \in 1..n : s[i] = s[j] => i = j
      /\ \A x \in I : \E i \in 1..n : s[i] = x
  BY <1>1, SetToSeqIs
<1> HIDE DEF s, n, q
<1>3. \A i \in 1..n : s[i] \in I
  BY <1>2, ElementOfSeq
<1>b. Len(q) = n /\ Len(q) \in Nat
  BY <1>1, <1>2
<1>c. \E g : Showing(g, v, q, Len(q)) /\ ShowAll(v, q) = g[Len(q)]
  BY <1>b, ShowAllIs
<1>4. PICK g : Showing(g, v, q, n) /\ ShowAll(v, q) = g[n]
  BY <1>b, <1>c
<1> DEFINE key(i) == objs[s[i]].key
           val(i) == objs[s[i]].val
<1>5. \A i \in 1..n : key(i) \in Key /\ val(i) \in Value /\ q[i] \in Frame
                      /\ q[i].tag = "def" /\ q[i].key = key(i) /\ q[i].val = val(i)
  BY <1>1, <1>a, <1>3, ElementOfSeq DEF VectorFrame
<1>6. \A i, j \in 1..n : key(i) = key(j) => i = j
  BY <1>2, <1>3 DEF OneEach
<1> HIDE DEF key, val
<1> DEFINE Good(i) == /\ g[i] \in Page /\ g[i].log = v.log /\ g[i].up = v.up
                      /\ \A j \in 1..i : g[i].props[key(j)] = val(j)
                      /\ \A k \in Key : (\A j \in 1..i : key(j) # k) => g[i].props[k] = v.props[k]
           T == {i \in 0..n : Good(i)}
<1>7. 0 \in T
  BY <1>2, <1>4 DEF Showing
<1>8. ASSUME NEW i \in 1..n, i - 1 \in T PROVE i \in T
  <2> DEFINE x == g[i - 1]
             f == q[i]
  <2>1. g[i] = Show(x, f)
    BY <1>4 DEF Showing
  <2>2. /\ x \in Page /\ x.log = v.log /\ x.up = v.up
        /\ \A j \in 1..(i - 1) : x.props[key(j)] = val(j)
        /\ \A k \in Key : (\A j \in 1..(i - 1) : key(j) # k) => x.props[k] = v.props[k]
    BY <1>8
  <2>3. f \in Frame /\ f.tag = "def" /\ f.key = key(i) /\ f.val = val(i) /\ key(i) \in Key
    BY <1>5
  <2> HIDE DEF x, f
  <2>4. g[i] \in Page /\ g[i].log = v.log /\ g[i].up = v.up
    BY <2>1, <2>2, <2>3, ShowType, ShowLog
  <2>5. g[i].props[key(i)] = val(i)
    BY <2>1, <2>2, <2>3, ShowProps
  <2>6. ASSUME NEW k \in Key, k # key(i) PROVE g[i].props[k] = x.props[k]
    <3>1. ~Concerns(f, k)
      BY <2>3, <2>6 DEF Concerns
    <3> QED BY <2>1, <2>2, <2>3, <3>1, ShowProps
  <2>7. ASSUME NEW j \in 1..i PROVE g[i].props[key(j)] = val(j)
    <3>1. CASE j = i
      BY <2>5, <3>1
    <3>2. CASE j # i
      <4>1. j \in 1..(i - 1) /\ j \in 1..n
        BY <1>2, <3>2
      <4>2. key(j) # key(i) /\ key(j) \in Key
        BY <1>5, <1>6, <3>2, <4>1
      <4> QED BY <2>2, <2>6, <4>1, <4>2
    <3> QED BY <3>1, <3>2
  <2>8. ASSUME NEW k \in Key, \A j \in 1..i : key(j) # k PROVE g[i].props[k] = v.props[k]
    <3>1. i \in 1..i /\ \A j \in 1..(i - 1) : j \in 1..i
      BY <1>2
    <3> QED BY <2>2, <2>6, <2>8, <3>1
  <2>9. i \in 0..n
    BY <1>2
  <2>10. Good(i)
    BY <2>4, <2>7, <2>8
  <2> HIDE DEF Good
  <2> QED BY <2>9, <2>10
<1> HIDE DEF T
<1>9. \A i \in 0..n : i \in T
  BY <1>2, <1>7, <1>8, UpTo
<1>10. n \in T
  BY <1>2, <1>9
<1>11. Good(n)
  BY <1>10 DEF T
<1>12. \A i \in I : g[n].props[objs[i].key] = objs[i].val
  <2> TAKE i \in I
  <2>1. PICK j \in 1..n : s[j] = i
    BY <1>2
  <2> QED BY <1>11, <2>1 DEF key, val
<1>13. ASSUME NEW k \in Key, \A i \in I : objs[i].key # k PROVE g[n].props[k] = v.props[k]
  <2>1. \A j \in 1..n : key(j) # k
    BY <1>3, <1>13 DEF key
  <2> QED BY <1>11, <2>1
<1>14. SeededWith(v, g[n], I, objs)
  BY <1>11, <1>12, <1>13 DEF SeededWith
<1> QED BY <1>4, <1>14 DEF q

\* Pages that are the same, seeded with the same, are the same.
LEMMA SeededSame ==
  ASSUME NEW v, NEW w, NEW x, NEW y, NEW I, NEW objs, Same(v, w),
         SeededWith(v, x, I, objs), SeededWith(w, y, I, objs)
  PROVE  Same(x, y)
<1> SUFFICES ASSUME NEW k \in Key PROVE x.props[k] = y.props[k]
  BY DEF Same, Alike, SeededWith
<1>1. CASE \A i \in I : objs[i].key # k
  BY <1>1 DEF Same, Alike, SeededWith
<1>2. CASE \E i \in I : objs[i].key = k
  BY <1>2 DEF SeededWith
<1> QED BY <1>1, <1>2

\* The order in which they are sent does not matter.
LEMMA SeedFirst ==
  ASSUME NEW objs \in Objects, NEW I, I \subseteq DOMAIN objs, OneEach(I, objs),
         NEW v \in Page, NEW i \in I, NEW x, NEW y, NEW f,
         f = VectorFrame("def", objs[i].key, objs[i].val),
         SeededWith(v, x, I, objs), SeededWith(Show(v, f), y, I \ {i}, objs)
  PROVE  Same(x, y)
<1>1. objs[i].key \in Key /\ objs[i].val \in Value
  BY SeedingType
<1>2. f \in Frame /\ f.tag = "def" /\ f.key = objs[i].key /\ f.val = objs[i].val
  BY <1>1, FrameTypes DEF VectorFrame
<1> DEFINE w == Show(v, f)
<1>3. w.log = v.log /\ w.up = v.up
  BY <1>2, ShowLog
<1>4. w.props[objs[i].key] = objs[i].val
  BY <1>1, <1>2, ShowProps
<1>5. ASSUME NEW k \in Key, k # objs[i].key PROVE w.props[k] = v.props[k]
  <2>1. ~Concerns(f, k)
    BY <1>2, <1>5 DEF Concerns
  <2> QED BY <1>2, <2>1, ShowProps
<1>6. SeededWith(w, y, I \ {i}, objs)
  OBVIOUS
<1> HIDE DEF w
<1> SUFFICES ASSUME NEW k \in Key PROVE x.props[k] = y.props[k]
  BY <1>3, <1>6 DEF Same, Alike, SeededWith
<1>7. CASE k = objs[i].key
  <2>1. \A j \in I \ {i} : objs[j].key # k
    BY <1>7 DEF OneEach
  <2>2. y.props[k] = w.props[k]
    BY <1>6, <2>1 DEF SeededWith
  <2> QED BY <1>4, <1>7, <2>2 DEF SeededWith
<1>8. CASE \E j \in I \ {i} : objs[j].key = k
  BY <1>6, <1>8 DEF SeededWith
<1>9. CASE \A j \in I : objs[j].key # k
  BY <1>5, <1>6, <1>9 DEF SeededWith
<1> QED BY <1>7, <1>8, <1>9

-----------------------------------------------------------------------------
(* The pipeline, stage by stage.                                           *)

\* The page before the queue is sent to it ...
SeededPage(v, u, objs) ==
  ShowAll(ShowAll(ShowAll(Show(v, u.inflight), u.preamble),
                  Seeding(u.seed_vectors, objs)), u.seed_frames)
\* ... and after.
FinalOf(v, u, objs) == ShowAll(SeededPage(v, u, objs), Frames(u.queue))

\* The parts of a subscription that are on their way to the page.
LEMMA PipelineTypes ==
  ASSUME NEW u \in Subscription
  PROVE  /\ u.inflight \in Frame \cup {NoFrame}
         /\ u.preamble \in Seq(Frame) /\ u.preamble \in {<<>>, <<HelloFrame>>}
         /\ u.seed_frames \in Seq(Frame)
         /\ u.queue \in Seq(Slot) /\ Frames(u.queue) \in Seq(Frame)
<1>1. HelloFrame \in Frame
  BY FrameTypes
<1>2. u.preamble \in {<<>>, <<HelloFrame>>} /\ u.queue \in Seq(Slot)
      /\ u.inflight \in Frame \cup {NoFrame} /\ u.seed_frames \in Seq(Frame)
  BY DEF Subscription
<1>3. u.preamble \in Seq(Frame)
  <2>1. <<>> \in Seq(Frame)
    OBVIOUS
  <2>2. <<HelloFrame>> \in Seq(Frame)
    <3> HIDE DEF HelloFrame
    <3> QED BY <1>1
  <2> QED BY <1>2, <2>1, <2>2
<1>4. Frames(u.queue) \in Seq(Frame)
  BY <1>2, FramesType
<1> QED BY <1>2, <1>3, <1>4

\* Both are pages.
LEMMA FinalOfPage ==
  ASSUME NEW v \in Page, NEW u \in Subscription, NEW objs \in Objects,
         u.seed_vectors \subseteq DOMAIN objs
  PROVE  SeededPage(v, u, objs) \in Page /\ FinalOf(v, u, objs) \in Page
<1>1. /\ u.inflight \in Frame \cup {NoFrame} /\ u.preamble \in Seq(Frame)
      /\ u.seed_frames \in Seq(Frame) /\ Frames(u.queue) \in Seq(Frame)
  BY PipelineTypes
<1>2. Seeding(u.seed_vectors, objs) \in Seq(Frame)
  BY SeedingType
<1>3. Show(v, u.inflight) \in Page
  BY <1>1, ShowType
<1>4. ShowAll(Show(v, u.inflight), u.preamble) \in Page
  BY <1>1, <1>3, ShowAllPage
<1>5. ShowAll(ShowAll(Show(v, u.inflight), u.preamble), Seeding(u.seed_vectors, objs)) \in Page
  BY <1>2, <1>4, ShowAllPage
<1>6. SeededPage(v, u, objs) \in Page
  BY <1>1, <1>5, ShowAllPage DEF SeededPage
<1> QED BY <1>1, <1>6, ShowAllPage DEF FinalOf

\* No frame in flight shows nothing.
LEMMA ShowNothing ==
  ASSUME NEW v \in Page, NEW f \in {NoFrame, HelloFrame, ErrorFrame}
  PROVE  Same(Show(v, f), v)
<1>1. f.tag \notin {"def", "set", "del", "message", "connection"}
  BY DEF NoFrame, HelloFrame, ErrorFrame
<1>2. f \in Frame \cup {NoFrame}
  BY FrameTypes
<1>3. Show(v, f).log = v.log /\ Show(v, f).up = v.up
  BY <1>1, <1>2, ShowLog
<1>4. \A k \in Key : Show(v, f).props[k] = v.props[k]
  BY <1>1, <1>2, ShowProps DEF Concerns
<1> QED BY <1>3, <1>4 DEF Same, Alike

\* The frames on their way, one stage after the other, show what the stages do.
PipelineOf(u, objs) ==
  (((IF u.inflight = NoFrame THEN <<>> ELSE <<u.inflight>>) \o u.preamble)
     \o Seeding(u.seed_vectors, objs)) \o u.seed_frames \o Frames(u.queue)

\* They end with the same page as the stages.
LEMMA PipelineIs ==
  ASSUME NEW v \in Page, NEW u \in Subscription, NEW objs \in Objects,
         u.seed_vectors \subseteq DOMAIN objs
  PROVE  /\ ShowAll(v, PipelineOf(u, objs)) \in Page
         /\ Same(ShowAll(v, PipelineOf(u, objs)), FinalOf(v, u, objs))
<1> DEFINE a == IF u.inflight = NoFrame THEN <<>> ELSE <<u.inflight>>
           b == u.preamble
           c == Seeding(u.seed_vectors, objs)
           p == PipelineOf(u, objs)
           d == u.seed_frames
           q == Frames(u.queue)
<1>1. v \in Page /\ u \in Subscription
  OBVIOUS
<1>2. u.inflight \in Frame \cup {NoFrame} /\ b \in Seq(Frame) /\ d \in Seq(Frame) /\ q \in Seq(Frame)
  BY <1>1, PipelineTypes
<1>3. c \in Seq(Frame)
  BY <1>1, SeedingType
<1>4. a \in Seq(Frame)
  <2>1. CASE u.inflight = NoFrame
    BY <2>1
  <2>2. CASE u.inflight # NoFrame
    <3>1. u.inflight \in Frame
      BY <1>2, <2>2
    <3> QED BY <2>2, <3>1
  <2> QED BY <2>1, <2>2
<1>5. p = (((a \o b) \o c) \o d) \o q
  BY DEF PipelineOf
<1>6. FinalOf(v, u, objs) =
        ShowAll(ShowAll(ShowAll(ShowAll(Show(v, u.inflight), b), c), d), q)
  BY DEF FinalOf, SeededPage
<1>8. ShowAll(v, a) \in Page /\ Same(ShowAll(v, a), Show(v, u.inflight))
  <2>1. CASE u.inflight = NoFrame
    <3>1. ShowAll(v, a) = v
      BY <2>1, ShowAllEmpty
    <3>2. Same(Show(v, NoFrame), v)
      BY <1>1, ShowNothing
    <3>3. Same(v, Show(v, NoFrame))
      BY <3>2, AlikeSymmetric DEF Same
    <3> QED BY <1>1, <2>1, <3>1, <3>3
  <2>2. CASE u.inflight # NoFrame
    <3>1. ShowAll(v, a) = Show(v, u.inflight)
      BY <2>2, ShowAllOne
    <3>2. Show(v, u.inflight) \in Page
      BY <1>1, <1>2, ShowType
    <3> QED BY <3>1, <3>2, SameReflexive
  <2> QED BY <2>1, <2>2
<1>9. Show(v, u.inflight) \in Page
  BY <1>1, <1>2, ShowType
<1> HIDE DEF a, b, c, d, q, p
<1>10. a \o b \in Seq(Frame) /\ (a \o b) \o c \in Seq(Frame) /\ ((a \o b) \o c) \o d \in Seq(Frame)
       /\ p \in Seq(Frame)
  BY <1>2, <1>3, <1>4, <1>5
<1>11. ShowAll(v, p) = ShowAll(ShowAll(v, ((a \o b) \o c) \o d), q)
  BY <1>2, <1>5, <1>10, ShowAllConcat
<1>12. ShowAll(v, ((a \o b) \o c) \o d) = ShowAll(ShowAll(v, (a \o b) \o c), d)
  BY <1>2, <1>10, ShowAllConcat
<1>13. ShowAll(v, (a \o b) \o c) = ShowAll(ShowAll(v, a \o b), c)
  BY <1>3, <1>10, ShowAllConcat
<1>14. ShowAll(v, a \o b) = ShowAll(ShowAll(v, a), b)
  BY <1>2, <1>4, ShowAllConcat
<1>15. ShowAll(v, p) = ShowAll(ShowAll(ShowAll(ShowAll(ShowAll(v, a), b), c), d), q)
  BY <1>11, <1>12, <1>13, <1>14
<1> DEFINE x1 == ShowAll(v, a)
           y1 == Show(v, u.inflight)
           x2 == ShowAll(x1, b)
           y2 == ShowAll(y1, b)
           x3 == ShowAll(x2, c)
           y3 == ShowAll(y2, c)
           x4 == ShowAll(x3, d)
           y4 == ShowAll(y3, d)
<1>16. x2 \in Page /\ y2 \in Page /\ Same(x2, y2)
  BY <1>2, <1>8, <1>9, ShowAllPage, ShowAllAlike DEF Same
<1>17. x3 \in Page /\ y3 \in Page /\ Same(x3, y3)
  <2> HIDE DEF x2, y2
  <2> QED BY <1>3, <1>16, ShowAllPage, ShowAllAlike DEF Same
<1>18. x4 \in Page /\ y4 \in Page /\ Same(x4, y4)
  <2> HIDE DEF x3, y3
  <2> QED BY <1>2, <1>17, ShowAllPage, ShowAllAlike DEF Same
<1>19. ShowAll(x4, q) \in Page /\ Same(ShowAll(x4, q), ShowAll(y4, q))
  <2> HIDE DEF x4, y4
  <2> QED BY <1>2, <1>18, ShowAllPage, ShowAllAlike DEF Same
<1>20. ShowAll(v, p) = ShowAll(x4, q) /\ FinalOf(v, u, objs) = ShowAll(y4, q)
  BY <1>6, <1>15
<1> QED BY <1>1, <1>19, <1>20 DEF p

\* The final page is the page at the end of the stages, ...
LEMMA FinalIs ==
  ASSUME IInv, NEW s \in Subs
  PROVE  /\ view[s] \in Page /\ sub[s] \in Subscription /\ objects \in Objects
         /\ sub[s].seed_vectors \subseteq DOMAIN objects
         /\ Final(s) \in Page
         /\ Same(Final(s), FinalOf(view[s], sub[s], objects))
<1>1. view[s] \in Page /\ sub[s] \in Subscription /\ objects \in Objects
      /\ sub[s].seed_vectors \subseteq DOMAIN objects
  BY DEF IInv, BrowserType, SubsType, StoreType, SeedsType
<1>2. Final(s) = ShowAll(view[s], PipelineOf(sub[s], objects))
  BY DEF Final, Pipeline, PipelineOf, Seeding, SeedFrame, Frames
<1> QED BY <1>1, <1>2, PipelineIs

\* ... also after a step.
LEMMA FinalIsNext ==
  ASSUME IInv', NEW s \in Subs
  PROVE  /\ view'[s] \in Page /\ sub'[s] \in Subscription /\ objects' \in Objects
         /\ sub'[s].seed_vectors \subseteq DOMAIN objects'
         /\ Final(s)' \in Page
         /\ Same(Final(s)', FinalOf(view'[s], sub'[s], objects'))
<1>1. view'[s] \in Page /\ sub'[s] \in Subscription /\ objects' \in Objects
      /\ sub'[s].seed_vectors \subseteq DOMAIN objects'
  BY DEF IInv, BrowserType, SubsType, StoreType, SeedsType
<1>2. Final(s)' = ShowAll(view'[s], PipelineOf(sub'[s], objects'))
  BY DEF Final, Pipeline, PipelineOf, Seeding, SeedFrame, Frames
<1> QED BY <1>1, <1>2, PipelineIs

\* Pages that are alike, with the same on its way to them: the objects they
\* are seeded with may differ in the properties in which the pages do.
LEMMA FinalOfAlike ==
  ASSUME NEW v \in Page, NEW w \in Page, NEW K, Alike(v, w, K),
         NEW u \in Subscription, NEW objs \in Objects, NEW next \in Objects,
         u.seed_vectors \subseteq DOMAIN objs, u.seed_vectors \subseteq DOMAIN next,
         OneEach(u.seed_vectors, objs),
         \A i \in u.seed_vectors : next[i].key = objs[i].key
                                   /\ (objs[i].key \notin K => next[i].val = objs[i].val)
  PROVE  Alike(FinalOf(v, u, objs), FinalOf(w, u, next), K)
<1> DEFINE I == u.seed_vectors
           x1 == Show(v, u.inflight)
           y1 == Show(w, u.inflight)
           x2 == ShowAll(x1, u.preamble)
           y2 == ShowAll(y1, u.preamble)
           x3 == ShowAll(x2, Seeding(I, objs))
           y3 == ShowAll(y2, Seeding(I, next))
           x4 == ShowAll(x3, u.seed_frames)
           y4 == ShowAll(y3, u.seed_frames)
<1>1. /\ u.inflight \in Frame \cup {NoFrame} /\ u.preamble \in Seq(Frame)
      /\ u.seed_frames \in Seq(Frame) /\ Frames(u.queue) \in Seq(Frame)
  BY PipelineTypes
<1>2. x1 \in Page /\ y1 \in Page /\ Alike(x1, y1, K)
  BY <1>1, ShowType, ShowAlike
<1>3. x2 \in Page /\ y2 \in Page /\ Alike(x2, y2, K)
  <2> HIDE DEF x1, y1
  <2> QED BY <1>1, <1>2, ShowAllPage, ShowAllAlike
<1>4. OneEach(I, next)
  BY DEF OneEach
<1>5. Seeding(I, objs) \in Seq(Frame) /\ Seeding(I, next) \in Seq(Frame)
  BY SeedingType
<1>6. \A i \in I : objs[i].val \in Value /\ next[i].val \in Value
  BY SeedingType
<1>7. None \notin Value
  BY BridgeAssumption DEF Value
<1>8. x3 \in Page /\ y3 \in Page /\ Alike(x3, y3, K)
  <2> HIDE DEF x2, y2
  <2>1. SeededWith(x2, x3, I, objs) /\ SeededWith(y2, y3, I, next)
    BY <1>3, <1>4, SeedingShows
  <2>2. x3 \in Page /\ y3 \in Page
    BY <1>3, <1>5, ShowAllPage
  <2> HIDE DEF x3, y3
  <2>3. x3.log = y3.log /\ x3.up = y3.up
    BY <1>3, <2>1 DEF SeededWith, Alike
  <2>4. ASSUME NEW k \in Key
        PROVE  /\ k \notin K => x3.props[k] = y3.props[k]
               /\ x3.props[k] = None <=> y3.props[k] = None
    <3>1. CASE \E i \in I : objs[i].key = k
      <4>1. PICK i \in I : objs[i].key = k
        BY <3>1
      <4>2. x3.props[k] = objs[i].val /\ y3.props[k] = next[i].val
        BY <2>1, <4>1 DEF SeededWith
      <4> QED BY <1>6, <1>7, <4>1, <4>2
    <3>2. CASE \A i \in I : objs[i].key # k
      <4>1. x3.props[k] = x2.props[k] /\ y3.props[k] = y2.props[k]
        BY <2>1, <3>2 DEF SeededWith
      <4> QED BY <1>3, <4>1 DEF Alike
    <3> QED BY <3>1, <3>2
  <2> QED BY <2>2, <2>3, <2>4 DEF Alike
<1>9. x4 \in Page /\ y4 \in Page /\ Alike(x4, y4, K)
  <2> HIDE DEF x3, y3
  <2> QED BY <1>1, <1>8, ShowAllPage, ShowAllAlike
<1>10. Alike(ShowAll(x4, Frames(u.queue)), ShowAll(y4, Frames(u.queue)), K)
  <2> HIDE DEF x4, y4
  <2> QED BY <1>1, <1>9, ShowAllAlike
<1> QED BY <1>10 DEF FinalOf, SeededPage

\* A delivery adds its frame to what the page will have been sent.
LEMMA FinalOfDelivery ==
  ASSUME NEW v \in Page, NEW u \in Subscription, NEW w \in Subscription,
         NEW r \in Subscription, NEW objs \in Objects,
         u.seed_vectors \subseteq DOMAIN objs,
         NEW f \in Frame, NEW k \in Key \cup {None},
         k \in Key => f.tag = "set" /\ f.key = k,
         Rest(w) = Rest(u), r.queue = u.queue, SlotsSound(r),
         w.queue = QueueWith(r, f, k)
  PROVE  Same(FinalOf(v, w, objs), Show(FinalOf(v, u, objs), f))
<1>1. SeededPage(v, w, objs) = SeededPage(v, u, objs)
  BY DEF SeededPage, Rest
<1>2. SeededPage(v, u, objs) \in Page
  BY FinalOfPage
<1>3. Same(ShowAll(SeededPage(v, u, objs), Frames(w.queue)),
           Show(ShowAll(SeededPage(v, u, objs), Frames(u.queue)), f))
  <2> DEFINE x == SeededPage(v, u, objs)
  <2> HIDE DEF x
  <2>1. Same(ShowAll(x, Frames(QueueWith(r, f, k))), Show(ShowAll(x, Frames(r.queue)), f))
    BY <1>2, DeliveryShows DEF x
  <2> QED BY <2>1 DEF x
<1> QED BY <1>1, <1>3 DEF FinalOf

-----------------------------------------------------------------------------
(* The pump moves one frame from what is queued to what is in flight.      *)

\* There is nothing to send of an empty seed.
LEMMA SeedingNone ==
  ASSUME NEW objs \in Objects
  PROVE  Seeding({}, objs) = <<>>
<1>1. Seeding({}, objs) \in Seq(Frame) /\ Len(Seeding({}, objs)) = Cardinality({})
  BY SeedingType
<1>2. Cardinality({}) = 0
  BY FS_EmptySet
<1> HIDE DEF Frame
<1> QED BY <1>1, <1>2

\* Once seeded, the pump sends the rest of the seed and then the queue.
LEMMA FinalOfSeeded ==
  ASSUME NEW v, NEW u, NEW objs \in Objects, Seeded(u)
  PROVE  FinalOf(v, u, objs) =
           ShowAll(ShowAll(Show(v, u.inflight), u.seed_frames), Frames(u.queue))
<1>1. u.preamble = <<>> /\ u.seed_vectors = {}
  BY DEF Seeded
<1> DEFINE x == Show(v, u.inflight)
<1> HIDE DEF x
<1>2. ShowAll(x, u.preamble) = x
  BY <1>1, ShowAllEmpty
<1>3. Seeding(u.seed_vectors, objs) = <<>>
  BY <1>1, SeedingNone
<1>4. ShowAll(x, Seeding(u.seed_vectors, objs)) = x
  BY <1>3, ShowAllEmpty
<1> QED BY <1>2, <1>4 DEF FinalOf, SeededPage, x

\* What is left after one step of the pump, in whatever order the seed goes out.
LEMMA ProceedFinal ==
  ASSUME IInv, NEW s \in Subs, OneEach(sub[s].seed_vectors, objects), Proceed(s)
  PROVE  /\ Same(FinalOf(Show(view[s], sub[s].inflight), sub'[s], objects),
                 FinalOf(view[s], sub[s], objects))
         /\ sub'[s].seed_vectors \subseteq sub[s].seed_vectors
         /\ sub'[s].pump \in {"sending", "waiting"}
         /\ sub'[s].pump = "waiting" => sub'[s].inflight = NoFrame
<1> DEFINE v == view[s]
           u == sub[s]
           w == sub'[s]
           I == u.seed_vectors
           x == Show(v, u.inflight)
<1>1. v \in Page /\ u \in Subscription /\ objects \in Objects /\ I \subseteq DOMAIN objects
      /\ s \in DOMAIN sub
  BY DEF IInv, BrowserType, SubsType, StoreType, SeedsType
<1>2. /\ u.inflight \in Frame \cup {NoFrame} /\ u.preamble \in Seq(Frame)
      /\ u.seed_frames \in Seq(Frame)
      /\ u.queue \in Seq(Slot) /\ Frames(u.queue) \in Seq(Frame)
  BY <1>1, PipelineTypes
<1>3. x \in Page
  BY <1>1, <1>2, ShowType
<1>4. FinalOf(v, u, objects) =
        ShowAll(ShowAll(ShowAll(ShowAll(x, u.preamble), Seeding(I, objects)), u.seed_frames),
                Frames(u.queue))
  BY DEF FinalOf, SeededPage
<1>a. FinalOf(v, u, objects) \in Page
  BY <1>1, FinalOfPage
<1>5. CASE SendPreamble(s)
  <2>1. u.preamble # <<>>
        /\ w = [u EXCEPT !.preamble = Tail(@), !.pump = "sending", !.inflight = Head(u.preamble)]
    BY <1>1, <1>5 DEF SendPreamble
  <2>2. /\ w.preamble = Tail(u.preamble) /\ w.seed_vectors = I /\ w.seed_frames = u.seed_frames
        /\ w.queue = u.queue /\ w.pump = "sending" /\ w.inflight = Head(u.preamble)
    BY <1>1, <2>1 DEF Subscription
  <2> HIDE DEF x, w, u, v
  <2>3. ShowAll(x, u.preamble) = ShowAll(Show(x, Head(u.preamble)), Tail(u.preamble))
    BY <1>2, <2>1, ShowAllHead
  <2>4. FinalOf(x, w, objects) = FinalOf(v, u, objects)
    BY <1>4, <2>2, <2>3 DEF FinalOf, SeededPage
  <2> QED BY <2>2, <2>4, SameReflexive DEF w, u, x, v
<1>6. CASE SendSeedVector(s)
  <2>1. PICK i \in I : /\ u.preamble = <<>>
                       /\ w = [u EXCEPT !.seed_vectors = @ \ {i}, !.pump = "sending",
                              !.inflight = VectorFrame("def", objects[i].key, objects[i].val)]
    BY <1>1, <1>6 DEF SendSeedVector
  <2> DEFINE f == VectorFrame("def", objects[i].key, objects[i].val)
  <2>2. /\ w.preamble = <<>> /\ w.seed_vectors = I \ {i} /\ w.seed_frames = u.seed_frames
        /\ w.queue = u.queue /\ w.pump = "sending" /\ w.inflight = f
    BY <1>1, <2>1 DEF Subscription
  <2>3. objects[i].key \in Key /\ objects[i].val \in Value
    BY <1>1, SeedingType
  <2>4. f \in Frame
    BY <2>3, FrameTypes
  <2>5. Show(x, f) \in Page
    BY <1>3, <2>4, ShowType
  <2>6. OneEach(I \ {i}, objects) /\ I \ {i} \subseteq DOMAIN objects
    BY <1>1 DEF OneEach
  <2> DEFINE y == ShowAll(x, Seeding(I, objects))
             z == ShowAll(Show(x, f), Seeding(I \ {i}, objects))
  <2> HIDE DEF x, w, v
  <2>7. SeededWith(x, y, I, objects)
    BY <1>1, <1>3, SeedingShows
  <2>8. SeededWith(Show(x, f), z, I \ {i}, objects)
    BY <1>1, <2>5, <2>6, SeedingShows
  <2>b. Seeding(I, objects) \in Seq(Frame) /\ Seeding(I \ {i}, objects) \in Seq(Frame)
    BY <1>1, <2>6, SeedingType
  <2>9. y \in Page /\ z \in Page
    BY <1>3, <2>5, <2>b, ShowAllPage
  <2> HIDE DEF y, z
  <2>10. Same(y, z)
    BY <1>1, <1>3, <2>7, <2>8, SeedFirst
  <2>11. Same(z, y)
    BY <2>10, AlikeSymmetric DEF Same
  <2> DEFINE y2 == ShowAll(y, u.seed_frames)
             z2 == ShowAll(z, u.seed_frames)
  <2>12. y2 \in Page /\ z2 \in Page /\ Same(z2, y2)
    BY <1>2, <2>9, <2>11, ShowAllPage, ShowAllAlike DEF Same
  <2> HIDE DEF y2, z2
  <2>13. Same(ShowAll(z2, Frames(u.queue)), ShowAll(y2, Frames(u.queue)))
    BY <1>2, <2>12, ShowAllAlike DEF Same
  <2>14. ShowAll(x, <<>>) = x /\ ShowAll(Show(x, f), <<>>) = Show(x, f)
    BY ShowAllEmpty
  <2>15. FinalOf(v, u, objects) = ShowAll(y2, Frames(u.queue))
    BY <1>4, <2>1, <2>14 DEF y, y2
  <2>16. FinalOf(x, w, objects) = ShowAll(z2, Frames(u.queue))
    BY <2>2, <2>14 DEF z, z2, FinalOf, SeededPage
  <2> QED BY <2>2, <2>13, <2>15, <2>16 DEF w, x, v
<1>7. CASE SendSeedFrame(s)
  <2>1. Seeded(u) /\ u.seed_frames # <<>>
        /\ w = [u EXCEPT !.seed_frames = Tail(@), !.pump = "sending", !.inflight = Head(u.seed_frames)]
    BY <1>1, <1>7 DEF SendSeedFrame
  <2>2. /\ w.preamble = u.preamble /\ w.seed_vectors = I /\ w.seed_frames = Tail(u.seed_frames)
        /\ w.queue = u.queue /\ w.pump = "sending" /\ w.inflight = Head(u.seed_frames)
    BY <1>1, <2>1 DEF Subscription
  <2>3. Seeded(w)
    BY <2>1, <2>2 DEF Seeded
  <2> HIDE DEF w, u, v
  <2>4. FinalOf(x, w, objects) = ShowAll(ShowAll(Show(x, w.inflight), w.seed_frames), Frames(w.queue))
    BY <1>1, <2>3, FinalOfSeeded
  <2>5. FinalOf(v, u, objects) = ShowAll(ShowAll(x, u.seed_frames), Frames(u.queue))
    BY <1>1, <2>1, FinalOfSeeded
  <2> HIDE DEF x
  <2>6. ShowAll(x, u.seed_frames) = ShowAll(Show(x, Head(u.seed_frames)), Tail(u.seed_frames))
    BY <1>2, <2>1, ShowAllHead
  <2>7. FinalOf(x, w, objects) = FinalOf(v, u, objects)
    BY <2>2, <2>4, <2>5, <2>6
  <2> QED BY <2>2, <2>7, SameReflexive DEF w, u, x, v
<1>8. CASE SendQueued(s)
  <2>1. Seeded(u) /\ u.seed_frames = <<>> /\ u.queue # <<>>
        /\ w = [Pop(u) EXCEPT !.pump = "sending", !.inflight = Head(u.queue).frame]
    BY <1>1, <1>8 DEF SendQueued
  <2>2. /\ w.preamble = u.preamble /\ w.seed_vectors = I /\ w.seed_frames = u.seed_frames
        /\ w.queue = Tail(u.queue) /\ w.pump = "sending" /\ w.inflight = Head(u.queue).frame
    BY <1>1, <2>1 DEF Subscription, Pop
  <2>3. Seeded(w)
    BY <2>1, <2>2 DEF Seeded
  <2> HIDE DEF w, u, v
  <2>4. FinalOf(x, w, objects) = ShowAll(ShowAll(Show(x, w.inflight), w.seed_frames), Frames(w.queue))
    BY <1>1, <2>3, FinalOfSeeded
  <2>5. FinalOf(v, u, objects) = ShowAll(ShowAll(x, u.seed_frames), Frames(u.queue))
    BY <1>1, <2>1, FinalOfSeeded
  <2> HIDE DEF x
  <2>6. Head(Frames(u.queue)) = Head(u.queue).frame /\ Frames(u.queue) # <<>>
        /\ Tail(Frames(u.queue)) = Frames(Tail(u.queue))
    BY <1>2, <2>1, FramesHead
  <2>7. ShowAll(x, Frames(u.queue)) = ShowAll(Show(x, Head(Frames(u.queue))), Tail(Frames(u.queue)))
    BY <1>2, <2>6, ShowAllHead
  <2>8. ShowAll(x, <<>>) = x /\ ShowAll(Show(x, w.inflight), <<>>) = Show(x, w.inflight)
    BY ShowAllEmpty
  <2>9. FinalOf(x, w, objects) = FinalOf(v, u, objects)
    BY <2>1, <2>2, <2>4, <2>5, <2>6, <2>7, <2>8
  <2> QED BY <2>2, <2>9, SameReflexive DEF w, u, x, v
<1>9. CASE AwaitReady(s)
  <2>1. Seeded(u) /\ u.seed_frames = <<>> /\ u.queue = <<>>
        /\ w = [u EXCEPT !.ready = FALSE, !.pump = "waiting", !.inflight = NoFrame]
    BY <1>1, <1>9 DEF AwaitReady
  <2>2. /\ w.preamble = u.preamble /\ w.seed_vectors = I /\ w.seed_frames = <<>>
        /\ w.queue = <<>> /\ w.pump = "waiting" /\ w.inflight = NoFrame
    BY <1>1, <2>1 DEF Subscription
  <2>3. Seeded(w)
    BY <2>1, <2>2 DEF Seeded
  <2> HIDE DEF w, u, v
  <2>4. FinalOf(x, w, objects) = ShowAll(ShowAll(Show(x, NoFrame), <<>>), Frames(<<>>))
    BY <1>1, <2>2, <2>3, FinalOfSeeded
  <2>5. FinalOf(v, u, objects) = ShowAll(ShowAll(x, <<>>), Frames(<<>>))
    BY <1>1, <2>1, FinalOfSeeded
  <2>6. Frames(<<>>) = <<>>
    BY DEF Frames
  <2> HIDE DEF x
  <2>7. FinalOf(x, w, objects) = Show(x, NoFrame) /\ FinalOf(v, u, objects) = x
    BY <2>4, <2>5, <2>6, ShowAllEmpty
  <2>8. Same(Show(x, NoFrame), x)
    BY <1>3, ShowNothing
  <2> QED BY <2>2, <2>7, <2>8 DEF w, u, x, v
<1> QED BY <1>5, <1>6, <1>7, <1>8, <1>9 DEF Proceed

-----------------------------------------------------------------------------
(* What the store, the seeds and the pumps keep in order.                  *)

\* A cached object is of the property it is cached for.
Keyed == \A k \in Held(cache) : objects[cache[k]].key = k
\* A seed has one object of each property.
SeedsOnce == \A s \in Subs : OneEach(sub[s].seed_vectors, objects)
\* Nothing is in flight from a pump that has not started or waits for a frame.
IdleEmpty ==
  \A s \in Subs : sub[s].pump \in {"created", "waiting"} => sub[s].inflight = NoFrame
\* A page that has opened no socket shows nothing.
Fresh ==
  \A s \in Subs : attaches[s] = 0 =>
    view[s].props = Empty /\ view[s].log = <<>> /\ sub[s].pump = "none"
\* An event the bridge has yet to be told is still true of the store.
PendingTrue ==
  pending # NoEvent =>
    /\ pending.type = "del" => \A k \in DelKeys(pending.dev, pending.name) : k \notin Held(cache)
    /\ pending.type = "connection" => connected = pending.up
\* Once the client is closed every pump has ended.
NobodyLeft == phase = "closed" => \A s \in subs : sub[s].pump = "done"
\* A registered browser has a pump.
Started == \A s \in subs : sub[s].pump # "none"
\* The retained messages are the latest ones.
HistoryTail == \A i \in 1..Len(messages) : messages[i] = logged - Len(messages) + i

Orderly ==
  /\ Registered /\ Keyed /\ SeedsOnce /\ IdleEmpty /\ Fresh /\ PendingTrue /\ NobodyLeft
  /\ Started /\ HistoryTail

\* Objects keep their property.
KeysKept ==
  \A i \in DOMAIN objects : i \in DOMAIN objects' /\ objects'[i].key = objects[i].key

\* None is not the number of an object.
LEMMA NoneIsNoIndex ==
  ASSUME NEW objs \in Objects
  PROVE  /\ DOMAIN objs = 1..Len(objs) /\ Len(objs) \in Nat
         /\ None \notin DOMAIN objs
         /\ \A props \in Dict(DOMAIN objs) : \A k \in Held(props) :
              props[k] \in DOMAIN objs /\ k \in Key /\ objs[props[k]] \in [key : Key, val : Value]
<1>1. DOMAIN objs = 1..Len(objs) /\ Len(objs) \in Nat
  BY DEF Objects
<1>2. None \notin DOMAIN objs
  BY <1>1, BridgeAssumption
<1>3. \A i \in DOMAIN objs : objs[i] \in [key : Key, val : Value]
  BY ElementOfSeq, <1>1 DEF Objects
<1> QED BY <1>1, <1>2, <1>3 DEF Dict, Held

\* The types of the events tell them apart.
LEMMA EventKinds ==
  /\ \A d, n : PropertyEvent("def", d, n).type = "def" /\ PropertyEvent("def", d, n) # NoEvent
  /\ \A d, n : PropertyEvent("set", d, n).type = "set" /\ PropertyEvent("set", d, n) # NoEvent
  /\ \A d, n : PropertyEvent("del", d, n).type = "del" /\ PropertyEvent("del", d, n) # NoEvent
  /\ \A up : ConnectionEvent(up).type = "connection" /\ ConnectionEvent(up) # NoEvent
  /\ \A type, d, n : PropertyEvent(type, d, n).dev = d /\ PropertyEvent(type, d, n).name = n
  /\ \A up : ConnectionEvent(up).up = up
BY DEF PropertyEvent, ConnectionEvent, NoEvent

-----------------------------------------------------------------------------
(* What the client's messages do to the store, and the event they make.    *)

\* A definition: a new object, cached for its property.
LEMMA DefShape ==
  ASSUME IInv, NEW k \in Key, ReceiveDef(k)
  PROVE  LET e == PropertyEvent("def", k[1], k[2])
             val == [f \in Fields |-> clock + 1]
         IN  /\ pending = NoEvent /\ phase # "closed"
             /\ UNCHANGED <<connected, phase, messages, logged, browser>>
             /\ val \in Value /\ e \in Event /\ <<e.dev, e.name>> = k
             /\ objects' \in Objects /\ cache' \in Dict(DOMAIN objects') /\ cache'[k] # None
             /\ Dispatch(e, objects', cache')
             /\ FrameOf(e, objects', cache') = VectorFrame("def", k, val)
             /\ \A i \in DOMAIN objects : i \in DOMAIN objects' /\ objects'[i] = objects[i]
             /\ objects'[cache'[k]].key = k /\ objects'[cache'[k]].val = val
             /\ \A j \in Key : j # k => cache'[j] = cache[j]
<1> DEFINE val == [f \in Fields |-> clock + 1]
           object == [key |-> k, val |-> val]
           e == PropertyEvent("def", k[1], k[2])
<1>0. StoreType
  BY DEF IInv
<1>1. k[1] \in Devices /\ k[2] \in Names /\ k = <<k[1], k[2]>>
  BY DEF Key
<1>2. val \in Value
  BY <1>0 DEF StoreType, Value
<1>3. e \in Event /\ e.dev = k[1] /\ e.name = k[2] /\ e.type = "def"
  BY <1>1, EventTypes DEF PropertyEvent
<1>4. /\ objects' = Append(objects, object) /\ objects \in Seq([key : Key, val : Value])
      /\ cache' = [cache EXCEPT ![k] = Len(objects) + 1] /\ cache \in Dict(DOMAIN objects)
      /\ pending = NoEvent /\ phase # "closed"
      /\ UNCHANGED <<connected, phase, messages, logged, browser>>
      /\ Dispatch(e, objects', cache')
  BY <1>0 DEF ReceiveDef, Listening, StoreType, Objects
<1> HIDE DEF val, e
<1>5. object \in [key : Key, val : Value] /\ object.key = k /\ object.val = val
  BY <1>2
<1> HIDE DEF object
<1>6. /\ objects' \in Objects /\ Len(objects) \in Nat /\ DOMAIN objects = 1..Len(objects)
      /\ DOMAIN objects' = 1..(Len(objects) + 1)
      /\ objects'[Len(objects) + 1] = object
      /\ \A i \in 1..Len(objects) : objects'[i] = objects[i]
  BY <1>4, <1>5 DEF Objects
<1>7. cache'[k] = Len(objects) + 1 /\ \A j \in Key : j # k => cache'[j] = cache[j]
  BY <1>4 DEF Dict
<1>8. cache'[k] # None
  BY <1>6, <1>7, BridgeAssumption
<1>9. cache' \in Dict(DOMAIN objects')
  BY <1>4, <1>6 DEF Dict
<1>10. \A i \in DOMAIN objects : i \in DOMAIN objects' /\ objects'[i] = objects[i]
  BY <1>6
<1>11. objects'[cache'[k]] = object
  BY <1>6, <1>7
<1>12. FrameOf(e, objects', cache') = VectorFrame("def", k, val)
  BY <1>1, <1>3, <1>5, <1>11 DEF FrameOf
<1> QED BY <1>1, <1>2, <1>3, <1>4, <1>5, <1>6, <1>7, <1>8, <1>9, <1>10, <1>11, <1>12 DEF val, e

\* A set: the value of the cached object is another.
LEMMA SetShape ==
  ASSUME IInv, Keyed, NEW k \in Key, NEW carried, ReceiveSet(k, carried)
  PROVE  LET e == PropertyEvent("set", k[1], k[2])
             val == objects'[cache[k]].val
         IN  /\ pending = NoEvent /\ phase # "closed"
             /\ UNCHANGED <<cache, connected, phase, messages, logged, browser>>
             /\ val \in Value /\ e \in Event /\ <<e.dev, e.name>> = k
             /\ objects' \in Objects /\ cache' \in Dict(DOMAIN objects') /\ cache[k] # None
             /\ Dispatch(e, objects', cache')
             /\ FrameOf(e, objects', cache') = VectorFrame("set", k, val)
             /\ DOMAIN objects' = DOMAIN objects
             /\ \A i \in DOMAIN objects : /\ objects'[i].key = objects[i].key
                                          /\ i # cache[k] => objects'[i] = objects[i]
<1> DEFINE e == PropertyEvent("set", k[1], k[2])
           n == cache[k]
           val == [f \in Fields |-> IF f \in carried THEN clock + 1 ELSE objects[n].val[f]]
<1>0. StoreType /\ StoreType'
  BY SetStep DEF IInv
<1>1. k[1] \in Devices /\ k[2] \in Names /\ k = <<k[1], k[2]>>
  BY DEF Key
<1>2. e \in Event /\ e.dev = k[1] /\ e.name = k[2] /\ e.type = "set"
  BY <1>1, EventTypes DEF PropertyEvent
<1>3. /\ objects' = [objects EXCEPT ![n] = [objects[n] EXCEPT !.val = val]]
      /\ pending = NoEvent /\ phase # "closed" /\ k \in Held(cache)
      /\ UNCHANGED <<cache, connected, phase, messages, logged, browser>>
      /\ Dispatch(e, objects', cache)
  BY DEF ReceiveSet, Listening
<1>4. objects \in Objects /\ cache \in Dict(DOMAIN objects)
      /\ objects' \in Objects /\ cache' \in Dict(DOMAIN objects')
  BY <1>0 DEF StoreType
<1> HIDE DEF val, e
<1>5. n \in DOMAIN objects /\ n # None
  BY <1>3, <1>4, NoneIsNoIndex DEF Held
<1>6. DOMAIN objects' = DOMAIN objects
  BY <1>3
<1>7. \A i \in DOMAIN objects : objects[i] \in [key : Key, val : Value]
  BY <1>4, ElementOfSeq, NoneIsNoIndex DEF Objects
<1>8. \A i \in DOMAIN objects' : objects'[i] \in [key : Key, val : Value]
  BY <1>4, ElementOfSeq, NoneIsNoIndex DEF Objects
<1>9. objects'[n] = [objects[n] EXCEPT !.val = val] /\ \A i \in DOMAIN objects : i # n => objects'[i] = objects[i]
  BY <1>3, <1>5
<1>10. objects'[n].key = objects[n].key
  BY <1>5, <1>7, <1>9
<1>11. objects'[n].val \in Value
  <2>1. objects'[n] \in [key : Key, val : Value]
    BY <1>5, <1>6, <1>8
  <2> QED BY <2>1
<1>12. FrameOf(e, objects', cache') = VectorFrame("set", k, objects'[n].val)
  BY <1>1, <1>2, <1>3 DEF FrameOf
<1>13. \A i \in DOMAIN objects : objects'[i].key = objects[i].key
  BY <1>9, <1>10
<1> HIDE DEF n
<1>14. Dispatch(e, objects', cache')
  BY <1>3
<1> QED BY <1>1, <1>2, <1>3, <1>4, <1>5, <1>6, <1>9, <1>11, <1>12, <1>13, <1>14 DEF e, n

\* A deletion: the keys are no longer cached.
LEMMA DelShape ==
  ASSUME IInv, NEW d \in Devices, NEW n \in Names \cup {None}, ReceiveDel(d, n)
  PROVE  LET e == PropertyEvent("del", d, n)
         IN  /\ pending = NoEvent /\ phase # "closed"
             /\ UNCHANGED <<objects, connected, phase, messages, logged, browser>>
             /\ e \in Event /\ e.type = "del" /\ e.dev = d /\ e.name = n
             /\ objects \in Objects /\ cache' \in Dict(DOMAIN objects)
             /\ Dispatch(e, objects', cache')
             /\ FrameOf(e, objects', cache') = DelFrame(d, n)
             /\ \A j \in Key : cache'[j] = IF j \in DelKeys(d, n) THEN None ELSE cache[j]
<1> DEFINE e == PropertyEvent("del", d, n)
<1>0. StoreType
  BY DEF IInv
<1>1. /\ pending = NoEvent /\ phase # "closed" /\ cache' = Without(cache, DelKeys(d, n))
      /\ UNCHANGED <<objects, connected, phase, messages, logged, browser>>
      /\ Dispatch(e, objects, cache')
  BY DEF ReceiveDel, Listening
<1>2. e \in Event /\ e.type = "del" /\ e.dev = d /\ e.name = n
  BY EventTypes DEF PropertyEvent
<1> HIDE DEF e
<1>3. \A j \in Key : cache'[j] = IF j \in DelKeys(d, n) THEN None ELSE cache[j]
  BY <1>1 DEF Without
<1>4. objects \in Objects /\ cache' \in Dict(DOMAIN objects)
  BY <1>0, <1>1 DEF StoreType, Without, Dict
<1>5. FrameOf(e, objects', cache') = DelFrame(d, n)
  BY <1>2 DEF FrameOf
<1>6. Dispatch(e, objects', cache')
  BY <1>1
<1> QED BY <1>1, <1>2, <1>3, <1>4, <1>5, <1>6 DEF e

\* A message: into the history and to the subscriptions.
LEMMA MessageShape ==
  ASSUME IInv, HistoryTail, ReceiveMessage
  PROVE  /\ UNCHANGED <<objects, cache, connected, pending, phase, browser>>
         /\ pending = NoEvent /\ phase # "closed"
         /\ logged' = logged + 1 /\ MessageFrame(logged + 1) \in Frame
         /\ Broadcast(MessageFrame(logged + 1), None, {})
         /\ HistoryTail' /\ Len(messages') <= Len(messages) + 1
<1> DEFINE longer == Append(messages, logged + 1)
           n == Len(messages)
<1>1. messages \in Seq(Nat) /\ logged \in Nat /\ n \in Nat
  BY DEF IInv, BridgeType
<1>2. /\ UNCHANGED <<objects, cache, connected, pending, phase, browser>>
      /\ pending = NoEvent /\ phase # "closed"
      /\ logged' = logged + 1 /\ Broadcast(MessageFrame(logged + 1), None, {})
      /\ messages' = IF Len(longer) > HistoryLen THEN Tail(longer) ELSE longer
  BY DEF ReceiveMessage, Listening
<1>3. longer \in Seq(Nat) /\ Len(longer) = n + 1 /\ longer[n + 1] = logged + 1
      /\ \A i \in 1..n : longer[i] = messages[i]
  BY <1>1
<1>4. \A i \in 1..(n + 1) : longer[i] = logged + 1 - (n + 1) + i
  <2> TAKE i \in 1..(n + 1)
  <2>1. CASE i = n + 1
    BY <1>1, <1>3, <2>1
  <2>2. CASE i \in 1..n
    <3>1. messages[i] = logged - n + i
      BY <2>2 DEF HistoryTail
    <3> QED BY <1>1, <1>3, <2>2, <3>1
  <2> QED BY <1>1, <2>1, <2>2
<1> HIDE DEF longer, n
<1>5. CASE messages' = longer
  <2>1. Len(messages') = n + 1
    BY <1>3, <1>5
  <2>3. \A i \in 1..(n + 1) : messages'[i] = logged' - (n + 1) + i
    <3> TAKE i \in 1..(n + 1)
    <3>1. longer[i] = logged + 1 - (n + 1) + i
      BY <1>4
    <3>2. messages'[i] = longer[i] /\ logged' = logged + 1
      BY <1>2, <1>5
    <3> QED BY <1>1, <3>1, <3>2
  <2>2. HistoryTail'
    BY <2>1, <2>3 DEF HistoryTail
  <2> QED BY <1>1, <1>2, <2>1, <2>2, FrameTypes DEF n
<1>6. CASE messages' = Tail(longer)
  <2>1. Len(messages') = n /\ \A i \in 1..n : messages'[i] = longer[i + 1]
    BY <1>1, <1>3, <1>6
  <2>2. \A i \in 1..n : messages'[i] = logged' - n + i
    <3> TAKE i \in 1..n
    <3>1. i + 1 \in 1..(n + 1)
      BY <1>1
    <3>2. longer[i + 1] = logged + 1 - (n + 1) + (i + 1)
      BY <1>4, <3>1
    <3> QED BY <1>1, <1>2, <2>1, <3>2
  <2>3. HistoryTail'
    BY <2>1, <2>2 DEF HistoryTail
  <2> QED BY <1>1, <1>2, <2>1, <2>3, FrameTypes DEF n
<1> QED BY <1>2, <1>5, <1>6

\* What a step of the upstream does to the store.
LEMMA StoreSteps ==
  ASSUME IInv, Keyed, PendingTrue, HistoryTail, Upstream \/ OnEvent
  PROVE  Keyed' /\ PendingTrue' /\ HistoryTail' /\ KeysKept /\ phase' = phase
         /\ (Upstream => phase # "closed")
<1>0. objects \in Objects /\ cache \in Dict(DOMAIN objects) /\ pending \in Event \cup {NoEvent}
  BY DEF IInv, StoreType
<1>1. \A k \in Held(cache) : cache[k] \in DOMAIN objects /\ k \in Key
  BY <1>0, NoneIsNoIndex
<1>2. ASSUME NEW k \in Key, ReceiveDef(k)
      PROVE Keyed' /\ PendingTrue' /\ HistoryTail' /\ KeysKept /\ phase' = phase /\ phase # "closed"
  <2> DEFINE e == PropertyEvent("def", k[1], k[2])
  <2>1. /\ pending = NoEvent /\ phase # "closed"
        /\ UNCHANGED <<connected, phase, messages, logged>>
        /\ Dispatch(e, objects', cache')
        /\ \A i \in DOMAIN objects : i \in DOMAIN objects' /\ objects'[i] = objects[i]
        /\ objects'[cache'[k]].key = k
        /\ \A j \in Key : j # k => cache'[j] = cache[j]
    BY <1>2, DefShape
  <2>2. pending' \in {NoEvent, e} /\ e.type = "def"
    BY <2>1, EventKinds DEF Dispatch
  <2> HIDE DEF e
  <2>3. PendingTrue'
    BY <2>2 DEF PendingTrue, NoEvent
  <2>4. Keyed'
    <3> SUFFICES ASSUME NEW j \in Key, cache'[j] # None PROVE objects'[cache'[j]].key = j
      BY DEF Keyed, Held
    <3>1. CASE j = k
      BY <2>1, <3>1
    <3>2. CASE j # k
      <4>1. j \in Held(cache) /\ cache'[j] = cache[j]
        BY <2>1, <3>2 DEF Held
      <4> QED BY <1>1, <2>1, <4>1 DEF Keyed
    <3> QED BY <3>1, <3>2
  <2>5. HistoryTail'
    BY <2>1 DEF HistoryTail
  <2>6. KeysKept
    BY <2>1 DEF KeysKept
  <2> QED BY <2>1, <2>3, <2>4, <2>5, <2>6
<1>3. ASSUME NEW k \in Key, NEW carried, ReceiveSet(k, carried)
      PROVE Keyed' /\ PendingTrue' /\ HistoryTail' /\ KeysKept /\ phase' = phase /\ phase # "closed"
  <2> DEFINE e == PropertyEvent("set", k[1], k[2])
  <2>1. /\ pending = NoEvent /\ phase # "closed"
        /\ UNCHANGED <<cache, connected, phase, messages, logged>>
        /\ Dispatch(e, objects', cache')
        /\ DOMAIN objects' = DOMAIN objects
        /\ \A i \in DOMAIN objects : objects'[i].key = objects[i].key
    BY <1>3, SetShape
  <2>2. pending' \in {NoEvent, e} /\ e.type = "set"
    BY <2>1, EventKinds DEF Dispatch
  <2> HIDE DEF e
  <2>3. PendingTrue'
    BY <2>2 DEF PendingTrue, NoEvent
  <2>4. Keyed'
    <3> SUFFICES ASSUME NEW j \in Held(cache) PROVE objects'[cache[j]].key = j
      BY <2>1 DEF Keyed, Held
    <3> QED BY <1>1, <2>1 DEF Keyed
  <2>5. HistoryTail'
    BY <2>1 DEF HistoryTail
  <2>6. KeysKept
    BY <2>1 DEF KeysKept
  <2> QED BY <2>1, <2>3, <2>4, <2>5, <2>6
<1>4. ASSUME NEW d \in Devices, NEW n \in Names \cup {None}, ReceiveDel(d, n)
      PROVE Keyed' /\ PendingTrue' /\ HistoryTail' /\ KeysKept /\ phase' = phase /\ phase # "closed"
  <2> DEFINE e == PropertyEvent("del", d, n)
  <2>1. /\ pending = NoEvent /\ phase # "closed"
        /\ UNCHANGED <<objects, connected, phase, messages, logged>>
        /\ e.type = "del" /\ e.dev = d /\ e.name = n
        /\ Dispatch(e, objects', cache')
        /\ \A j \in Key : cache'[j] = IF j \in DelKeys(d, n) THEN None ELSE cache[j]
    BY <1>4, DelShape
  <2>2. pending' \in {NoEvent, e}
    BY <2>1 DEF Dispatch
  <2> HIDE DEF e
  <2>3. PendingTrue'
    BY <2>1, <2>2 DEF PendingTrue, NoEvent, Held
  <2>4. Keyed'
    BY <1>1, <2>1 DEF Keyed, Held
  <2>5. HistoryTail'
    BY <2>1 DEF HistoryTail
  <2>6. KeysKept
    BY <2>1 DEF KeysKept
  <2> QED BY <2>1, <2>3, <2>4, <2>5, <2>6
<1>5. CASE ReceiveMessage
  BY <1>5, MessageShape DEF Keyed, PendingTrue, KeysKept, Held
<1>6. CASE UpstreamUp
  <2>1. /\ pending = NoEvent /\ phase # "closed" /\ connected' = TRUE
        /\ UNCHANGED <<objects, cache, phase, messages, logged>>
        /\ pending' \in {NoEvent, ConnectionEvent(TRUE)}
    BY <1>6 DEF UpstreamUp, Dispatch
  <2>2. PendingTrue'
    BY <2>1, EventKinds DEF PendingTrue
  <2>3. Keyed' /\ HistoryTail' /\ KeysKept
    BY <2>1 DEF Keyed, Held, HistoryTail, KeysKept
  <2> QED BY <2>1, <2>2, <2>3
<1>7. CASE UpstreamDown
  <2>1. /\ pending = NoEvent /\ phase # "closed" /\ connected' = FALSE
        /\ UNCHANGED <<objects, cache, phase, messages, logged>>
        /\ pending' = ConnectionEvent(FALSE)
    BY <1>7 DEF UpstreamDown, Listening
  <2>2. PendingTrue'
    BY <2>1, EventKinds DEF PendingTrue
  <2>3. Keyed' /\ HistoryTail' /\ KeysKept
    BY <2>1 DEF Keyed, Held, HistoryTail, KeysKept
  <2> QED BY <2>1, <2>2, <2>3
<1>8. CASE OnEvent
  <2>1. pending' = NoEvent /\ UNCHANGED <<objects, cache, phase, messages, logged>>
    BY <1>8 DEF OnEvent
  <2>2. Keyed' /\ HistoryTail' /\ KeysKept /\ PendingTrue'
    BY <2>1 DEF Keyed, Held, HistoryTail, KeysKept, PendingTrue
  <2> QED BY <2>1, <2>2, <1>8 DEF Upstream, ReceiveDef, ReceiveSet, ReceiveDel, ReceiveMessage,
                                   UpstreamUp, UpstreamDown, Listening
<1> QED BY <1>2, <1>3, <1>4, <1>5, <1>6, <1>7, <1>8 DEF Upstream

\* A step of the upstream leaves what is on the way to a page, but for the queue.
LEMMA RestKept ==
  ASSUME IInv, Upstream \/ OnEvent
  PROVE  /\ \A s \in Subs : Rest(sub'[s]) = Rest(sub[s])
         /\ subs' \subseteq subs /\ UNCHANGED browser
<1>1. (Told \/ Untold) /\ UNCHANGED browser
  BY UpstreamTells
<1>2. CASE Told
  <2>1. PICK f, k, gone : Fitting(f, k, gone) /\ Broadcast(f, k, gone)
    BY <1>2 DEF Told
  <2>2. \A s \in Subs : Rest(sub'[s]) = Rest(sub[s])
    BY <2>1, BroadcastReaches
  <2>3. subs' \subseteq subs
    BY <2>1, BroadcastIs DEF IInv, SubsType
  <2> QED BY <1>1, <2>2, <2>3
<1>3. CASE Untold
  BY <1>1, <1>3 DEF Untold
<1> QED BY <1>1, <1>2, <1>3

\* Whatever the upstream does, all stays in order.
LEMMA UpstreamOrderly ==
  ASSUME IInv, Orderly, Registered', Upstream \/ OnEvent
  PROVE  Orderly'
<1>1. Keyed' /\ PendingTrue' /\ HistoryTail' /\ KeysKept /\ phase' = phase
  BY StoreSteps DEF Orderly
<1>2. /\ \A s \in Subs : Rest(sub'[s]) = Rest(sub[s])
      /\ subs' \subseteq subs /\ UNCHANGED browser
  BY RestKept
<1>3. \A s \in Subs : /\ sub'[s].seed_vectors = sub[s].seed_vectors
                      /\ sub'[s].inflight = sub[s].inflight /\ sub'[s].pump = sub[s].pump
  BY <1>2 DEF Rest
<1>4. SeedsOnce'
  <2>1. SeedsType
    BY DEF IInv
  <2> QED BY <1>1, <1>3, <2>1 DEF Orderly, SeedsOnce, OneEach, KeysKept, SeedsType
<1>5. IdleEmpty'
  BY <1>3 DEF Orderly, IdleEmpty
<1>6. Fresh'
  BY <1>2, <1>3 DEF Orderly, Fresh, browser
<1>7. NobodyLeft'
  <2>1. subs \subseteq Subs
    BY DEF IInv, SubsType
  <2> QED BY <1>1, <1>2, <1>3, <2>1 DEF Orderly, NobodyLeft
<1>8. Started'
  <2>1. subs \subseteq Subs
    BY DEF IInv, SubsType
  <2> QED BY <1>2, <1>3, <2>1 DEF Orderly, Started
<1> QED BY <1>1, <1>4, <1>5, <1>6, <1>7, <1>8 DEF Orderly

\* A step of one browser's pump or route: what it has to keep itself.
LEMMA OneOrderly ==
  ASSUME IInv, Orderly, Registered', NEW s \in Subs,
         UNCHANGED <<objects, cache, connected, pending, messages, logged, phase>>,
         \A r \in Subs : r # s => /\ sub'[r] = sub[r] /\ view'[r] = view[r]
                                  /\ attaches'[r] = attaches[r],
         OneEach(sub'[s].seed_vectors, objects),
         sub'[s].pump \in {"created", "waiting"} => sub'[s].inflight = NoFrame,
         attaches'[s] = 0 =>
           view'[s].props = Empty /\ view'[s].log = <<>> /\ sub'[s].pump = "none",
         phase = "closed" => \A r \in subs' : sub'[r].pump = "done",
         subs' \subseteq subs \cup {s}, s \in subs' => sub'[s].pump # "none"
  PROVE  Orderly'
<1>1. Keyed' /\ PendingTrue' /\ HistoryTail'
  BY DEF Orderly, Keyed, PendingTrue, HistoryTail, Held
<1>2. SeedsOnce'
  BY DEF Orderly, SeedsOnce
<1>3. IdleEmpty'
  BY DEF Orderly, IdleEmpty
<1>4. Fresh'
  BY DEF Orderly, Fresh
<1>5. NobodyLeft'
  BY DEF NobodyLeft
<1>6. Started'
  <2>1. subs \subseteq Subs
    BY DEF IInv, SubsType
  <2> QED BY <2>1 DEF Orderly, Started
<1> QED BY <1>1, <1>2, <1>3, <1>4, <1>5, <1>6 DEF Orderly

\* So it does when a pump runs, ...
LEMMA RunOrderly ==
  ASSUME IInv, Orderly, Registered', NEW s \in Subs,
         PumpStart(s) \/ PumpSent(s) \/ PumpWake(s)
  PROVE  Orderly'
<1>1. /\ Proceed(s) /\ sub[s].pump \in {"created", "sending", "waiting"}
      /\ UNCHANGED <<objects, cache, connected, pending, messages, logged, phase, subs, attaches>>
      /\ \A r \in Subs : r # s => view'[r] = view[r]
  BY DEF PumpStart, PumpSent, PumpWake, Running, upstream, bridge, browser,
         IInv, BrowserType
<1>2. OneEach(sub[s].seed_vectors, objects)
  BY DEF Orderly, SeedsOnce
<1>3. /\ sub'[s].seed_vectors \subseteq sub[s].seed_vectors
      /\ sub'[s].pump \in {"sending", "waiting"}
      /\ sub'[s].pump = "waiting" => sub'[s].inflight = NoFrame
  BY <1>1, <1>2, ProceedFinal
<1>4. \A r \in Subs : r # s => sub'[r] = sub[r]
  BY <1>1, ProceedShape
<1>5. OneEach(sub'[s].seed_vectors, objects)
  BY <1>2, <1>3 DEF OneEach
<1>6. attaches'[s] # 0
  BY <1>1 DEF Orderly, Fresh
<1>7. phase = "closed" => \A r \in subs' : sub'[r].pump = "done"
  <2>1. subs \subseteq Subs
    BY DEF IInv, SubsType
  <2> QED BY <1>1, <1>4, <2>1 DEF Orderly, NobodyLeft
<1> HIDE DEF Proceed, Orderly, IInv
<1> QED BY <1>1, <1>3, <1>4, <1>5, <1>6, <1>7, OneOrderly

\* ... when it ends, ...
LEMMA EndOrderly ==
  ASSUME IInv, Orderly, Registered', NEW s \in Subs,
         SinkFailed(s) \/ PumpCancelled(s) \/ PumpNeverRan(s)
  PROVE  Orderly'
<1>0. sub \in [Subs -> Subscription] /\ view \in [Subs -> Page] /\ subs \subseteq Subs
  BY DEF IInv, SubsType, BrowserType
<1>1. /\ sub[s].pump \in {"created", "sending", "waiting"}
      /\ UNCHANGED <<objects, cache, connected, pending, messages, logged, phase, attaches>>
      /\ subs' \subseteq subs
      /\ \A r \in Subs : r # s => view'[r] = view[r]
      /\ \A r \in Subs : r # s => sub'[r] = sub[r]
  BY <1>0 DEF SinkFailed, PumpCancelled, PumpNeverRan, Running, upstream, bridge, browser,
              EndPump, Detach
<1>2. sub'[s].pump = "done" /\ sub'[s].seed_vectors = sub[s].seed_vectors
  BY <1>0 DEF SinkFailed, PumpCancelled, PumpNeverRan, EndPump, Subscription
<1>3. OneEach(sub'[s].seed_vectors, objects)
  BY <1>2 DEF Orderly, SeedsOnce
<1>4. attaches'[s] # 0
  BY <1>1 DEF Orderly, Fresh
<1>5. phase = "closed" => \A r \in subs' : sub'[r].pump = "done"
  BY <1>0, <1>1, <1>2 DEF Orderly, NobodyLeft
<1> HIDE DEF Orderly, IInv
<1> QED BY <1>1, <1>2, <1>3, <1>4, <1>5, OneOrderly

\* ... when a browser attaches, ...
LEMMA AttachOrderly ==
  ASSUME IInv, Orderly, Registered', NEW s \in Subs, Attach(s)
  PROVE  Orderly'
<1>0. sub \in [Subs -> Subscription] /\ view \in [Subs -> Page] /\ subs \subseteq Subs
      /\ attaches \in [Subs -> Nat]
      /\ objects \in Objects /\ cache \in Dict(DOMAIN objects)
  BY DEF IInv, SubsType, BrowserType, StoreType
<1>1. /\ UNCHANGED <<objects, cache, connected, pending, messages, logged, phase>>
      /\ phase = "serving"
      /\ \A r \in Subs : r # s => view'[r] = view[r]
      /\ \A r \in Subs : r # s => attaches'[r] = attaches[r]
      /\ attaches'[s] = attaches[s] + 1
      /\ \A r \in Subs : r # s => sub'[r] = sub[r]
      /\ sub'[s].seed_vectors = {cache[k] : k \in Held(cache)}
      /\ sub'[s].inflight = NoFrame /\ sub'[s].pump = "created"
      /\ subs' = subs \cup {s}
  BY <1>0 DEF Attach, upstream, bridge
<1>2. OneEach({cache[k] : k \in Held(cache)}, objects)
  BY DEF OneEach, Orderly, Keyed
<1>3. attaches'[s] # 0
  BY <1>0, <1>1
<1> HIDE DEF Orderly, IInv
<1> QED BY <1>1, <1>2, <1>3, OneOrderly

\* ... when its frame is refused or its route closes, ...
LEMMA CloseOrderly ==
  ASSUME IInv, Orderly, Registered', NEW s \in Subs,
         Refuse(s) \/ EndRoute(s) \/ RouteFinishes(s)
  PROVE  Orderly'
<1>0. sub \in [Subs -> Subscription] /\ view \in [Subs -> Page] /\ subs \subseteq Subs
  BY DEF IInv, SubsType, BrowserType
<1>1. /\ UNCHANGED <<objects, cache, connected, pending, messages, logged, phase, attaches>>
      /\ subs' \subseteq subs
      /\ \A r \in Subs : r # s => view'[r] = view[r]
      /\ \A r \in Subs : r # s => sub'[r] = sub[r]
  <2>1. CASE Refuse(s)
    BY <1>0, <2>1 DEF Refuse, browser
  <2>2. CASE EndRoute(s)
    BY <1>0, <2>2 DEF EndRoute, upstream, bridge
  <2>3. CASE RouteFinishes(s)
    BY <1>0, <2>3 DEF RouteFinishes, upstream, bridge, Detach
  <2> QED BY <2>1, <2>2, <2>3
<1>2. Rest(sub'[s]) = Rest(sub[s])
  <2>1. CASE Refuse(s)
    <3>1. sub'[s] = Deliver(sub[s], ErrorFrame, None)
      BY <1>0, <2>1 DEF Refuse
    <3>2. ErrorFrame \in Frame /\ sub[s] \in Subscription
      BY <1>0, FrameTypes
    <3> QED BY <3>1, <3>2, DeliverShape
  <2>2. CASE EndRoute(s)
    <3>1. sub'[s] = Cancel(sub[s]) /\ sub[s] \in Subscription
      BY <1>0, <2>2 DEF EndRoute
    <3> QED BY <3>1, CancelShape
  <2>3. CASE RouteFinishes(s)
    BY <1>0, <2>3 DEF RouteFinishes, Rest, Subscription
  <2> QED BY <2>1, <2>2, <2>3
<1>3. sub'[s].seed_vectors = sub[s].seed_vectors /\ sub'[s].inflight = sub[s].inflight
      /\ sub'[s].pump = sub[s].pump
  BY <1>2 DEF Rest
<1>4. OneEach(sub'[s].seed_vectors, objects)
  BY <1>3 DEF Orderly, SeedsOnce
<1>5. sub'[s].pump \in {"created", "waiting"} => sub'[s].inflight = NoFrame
  BY <1>3 DEF Orderly, IdleEmpty
<1>6. attaches'[s] = 0 =>
        view'[s].props = Empty /\ view'[s].log = <<>> /\ sub'[s].pump = "none"
  <2>1. view'[s] \in {view[s], SocketClosed(view[s])}
    BY <1>0 DEF Refuse, EndRoute, RouteFinishes, browser
  <2>2. view'[s].props = view[s].props /\ view'[s].log = view[s].log
    BY <1>0, <2>1 DEF SocketClosed, Page
  <2> QED BY <1>1, <1>3, <2>2 DEF Orderly, Fresh
<1>7. phase = "closed" => \A r \in subs' : sub'[r].pump = "done"
  BY <1>0, <1>1, <1>3 DEF Orderly, NobodyLeft
<1>8. s \in subs' => sub'[s].pump # "none"
  BY <1>1, <1>3 DEF Orderly, Started
<1> HIDE DEF Orderly, IInv
<1> QED BY <1>1, <1>4, <1>5, <1>6, <1>7, <1>8, OneOrderly

\* ... and when the bridge and its client are closed.
LEMMA StopOrderly ==
  ASSUME IInv, Orderly, Registered', Stop \/ StopClient \/ UNCHANGED vars
  PROVE  Orderly'
<1>0. sub \in [Subs -> Subscription] /\ subs \subseteq Subs
  BY DEF IInv, SubsType
<1>1. /\ UNCHANGED <<objects, cache, messages, logged, subs, view, attaches>>
      /\ \A r \in Subs : Rest(sub'[r]) = Rest(sub[r])
  <2>1. CASE Stop
    <3>1. \A r \in Subs : sub'[r] \in {sub[r], Cancel(sub[r])}
      BY <2>1 DEF Stop
    <3>2. \A r \in Subs : Rest(Cancel(sub[r])) = Rest(sub[r])
      BY <1>0, CancelShape
    <3> QED BY <2>1, <3>1, <3>2 DEF Stop, upstream, browser
  <2>2. CASE StopClient
    BY <2>2 DEF StopClient, browser
  <2>3. CASE UNCHANGED vars
    BY <2>3 DEF vars, upstream, bridge, browser
  <2> QED BY <2>1, <2>2, <2>3
<1>2. \A s \in Subs : /\ sub'[s].seed_vectors = sub[s].seed_vectors
                      /\ sub'[s].inflight = sub[s].inflight /\ sub'[s].pump = sub[s].pump
  BY <1>1 DEF Rest
<1>3. Keyed' /\ HistoryTail' /\ Fresh' /\ SeedsOnce' /\ IdleEmpty' /\ Started'
  <2>1. Keyed' /\ HistoryTail'
    BY <1>1 DEF Orderly, Keyed, HistoryTail, Held
  <2>2. SeedsOnce'
    BY <1>1, <1>2 DEF Orderly, SeedsOnce
  <2>3. IdleEmpty'
    BY <1>2 DEF Orderly, IdleEmpty
  <2>4. Fresh'
    BY <1>1, <1>2 DEF Orderly, Fresh
  <2>5. Started'
    BY <1>0, <1>1, <1>2 DEF Orderly, Started
  <2> QED BY <2>1, <2>2, <2>3, <2>4, <2>5
<1>4. PendingTrue'
  <2>1. CASE Stop
    BY <2>1, <1>1 DEF Stop, upstream, Orderly, PendingTrue, Held
  <2>2. CASE StopClient
    <3>1. \/ connected' = FALSE /\ pending' = ConnectionEvent(FALSE)
          \/ pending' = NoEvent
      BY <2>2 DEF StopClient
    <3> QED BY <3>1, EventKinds DEF PendingTrue
  <2>3. CASE UNCHANGED vars
    BY <2>3 DEF vars, upstream, Orderly, PendingTrue, Held
  <2> QED BY <2>1, <2>2, <2>3
<1>5. NobodyLeft'
  <2>1. CASE Stop
    BY <2>1 DEF Stop, NobodyLeft
  <2>2. CASE StopClient
    BY <1>0, <1>1, <1>2, <2>2 DEF StopClient, NobodyLeft
  <2>3. CASE UNCHANGED vars
    BY <2>3 DEF vars, bridge, Orderly, NobodyLeft
  <2> QED BY <2>1, <2>2, <2>3
<1> QED BY <1>3, <1>4, <1>5 DEF Orderly

\* Every step keeps the order.
LEMMA NextOrderly ==
  IInv /\ Orderly /\ DropsCounted /\ [Next]_vars => Orderly'
<1> SUFFICES ASSUME IInv, Orderly, DropsCounted, [Next]_vars PROVE Orderly'
  OBVIOUS
<1>1. Registered'
  BY NextDrops DEF Orderly
<1>2. CASE Upstream \/ OnEvent
  BY <1>1, <1>2, UpstreamOrderly
<1>3. ASSUME NEW s \in Subs, Pump(s) PROVE Orderly'
  <2>1. \/ PumpStart(s) \/ PumpSent(s) \/ PumpWake(s)
        \/ SinkFailed(s) \/ PumpCancelled(s) \/ PumpNeverRan(s)
    BY <1>3 DEF Pump
  <2> QED BY <1>1, <2>1, RunOrderly, EndOrderly
<1>4. ASSUME NEW s \in Subs, Route(s) PROVE Orderly'
  <2>1. Attach(s) \/ Refuse(s) \/ EndRoute(s) \/ RouteFinishes(s)
    BY <1>4 DEF Route, BrowserLeaves, RouteSeesClosed
  <2> QED BY <1>1, <2>1, AttachOrderly, CloseOrderly
<1>5. CASE Stop \/ StopClient \/ UNCHANGED vars
  BY <1>1, <1>5, StopOrderly
<1> QED BY <1>2, <1>3, <1>4, <1>5 DEF Next

\* It holds at first.
LEMMA InitOrderly == Init => Orderly
<1> SUFFICES ASSUME Init PROVE Orderly
  OBVIOUS
<1>1. Registered
  BY InitDrops
<1>2. Keyed
  BY DEF Init, Keyed, Held, Empty
<1>3. \A s \in Subs : sub[s].seed_vectors = {} /\ sub[s].pump = "none"
  BY DEF Init, NotAttached
<1>4. SeedsOnce /\ IdleEmpty
  BY <1>3 DEF SeedsOnce, IdleEmpty, OneEach
<1>5. Fresh
  BY <1>3 DEF Init, Fresh, NewPage
<1>6. PendingTrue /\ NobodyLeft /\ HistoryTail /\ Started
  BY DEF Init, PendingTrue, NobodyLeft, HistoryTail, Started
<1> QED BY <1>1, <1>2, <1>4, <1>5, <1>6 DEF Orderly

-----------------------------------------------------------------------------
(* What a page is due once all has been sent.                              *)

\* A page tells the truth of a store: the value of every cached property, the
\* state of the link, and on a first socket nothing else.
TrueTo(v, objs, props, up, first) ==
  /\ \A k \in Held(props) : v.props[k] = objs[props[k]].val
  /\ first => \A k \in Key : props[k] = None => v.props[k] = None
  /\ v.up = up
\* Its log ends with the latest message and goes back at least as far as the history.
LogFull(v, n, msgs) ==
  /\ \A i \in 1..Len(v.log) : v.log[i] = n - Len(v.log) + i
  /\ Len(v.log) >= Len(msgs)

\* Pages that are the same tell the same truth.
LEMMA TrueSame ==
  ASSUME NEW v, NEW w, Same(v, w), NEW objs, NEW props, NEW up, NEW first, NEW n, NEW msgs
  PROVE  /\ TrueTo(v, objs, props, up, first) => TrueTo(w, objs, props, up, first)
         /\ LogFull(v, n, msgs) => LogFull(w, n, msgs)
<1>1. v.log = w.log /\ v.up = w.up /\ \A k \in Key : v.props[k] = w.props[k]
  BY DEF Same, Alike
<1>2. ASSUME TrueTo(v, objs, props, up, first) PROVE TrueTo(w, objs, props, up, first)
  BY <1>1, <1>2 DEF TrueTo, Held
<1>3. ASSUME LogFull(v, n, msgs) PROVE LogFull(w, n, msgs)
  BY <1>1, <1>3 DEF LogFull
<1> QED BY <1>2, <1>3

\* The frame of an event.
LEMMA FrameOfIs ==
  ASSUME NEW e \in Event, NEW objs \in Objects, NEW props \in Dict(DOMAIN objs),
         e.type \in {"def", "set"} => props[<<e.dev, e.name>>] # None
  PROVE  LET f == FrameOf(e, objs, props)
             k == <<e.dev, e.name>>
         IN  /\ f \in Frame /\ f.tag # "message"
             /\ e.type \in {"def", "set", "del", "connection"} /\ f.tag = e.type
             /\ e.type \in {"def", "set"} =>
                  f.key = k /\ k \in Key /\ f.val = objs[props[k]].val
             /\ e.type = "del" => f.dev = e.dev /\ f.name = e.name
             /\ e.type = "connection" => f.up = e.up
<1> DEFINE f == FrameOf(e, objs, props)
           k == <<e.dev, e.name>>
           val == objs[props[k]].val
<1>1. e.type \in {"def", "set", "del", "connection"}
  BY DEF Event
<1>2. CASE e.type \in {"def", "set"}
  <2>1. k \in Key
    BY <1>2 DEF Event, Key
  <2>2. props[k] \in DOMAIN objs
    BY <1>2, <2>1 DEF Dict
  <2>3. \/ f = VectorFrame("def", k, val) /\ e.type = "def"
        \/ f = VectorFrame("set", k, val) /\ e.type = "set"
    BY <1>2 DEF FrameOf
  <2> HIDE DEF k
  <2>4. \A i \in DOMAIN objs : objs[i] \in [key : Key, val : Value]
    BY LenProperties, ElementOfSeq DEF Objects
  <2>5. val \in Value
    <3>1. objs[props[k]] \in [key : Key, val : Value]
      BY <2>2, <2>4
    <3> QED BY <3>1
  <2>6. f \in Frame
    BY <2>1, <2>3, <2>5, FrameTypes
  <2> HIDE DEF val, f
  <2>7. f.tag = e.type /\ f.key = k /\ f.val = val
    BY <2>3 DEF VectorFrame
  <2> QED BY <1>2, <2>1, <2>6, <2>7 DEF f, val, k
<1>3. CASE e.type = "del"
  <2>1. f = DelFrame(e.dev, e.name)
    BY <1>3 DEF FrameOf
  <2>2. f \in Frame
    BY <1>3, <2>1, FrameTypes DEF Event
  <2> HIDE DEF f
  <2>3. f.tag = "del" /\ f.dev = e.dev /\ f.name = e.name
    BY <2>1 DEF DelFrame
  <2> QED BY <1>3, <2>2, <2>3 DEF f
<1>4. CASE e.type = "connection"
  <2>1. f = ConnectionFrame(e.up)
    BY <1>4 DEF FrameOf
  <2>2. f \in Frame
    BY <1>4, <2>1, FrameTypes DEF Event
  <2> HIDE DEF f
  <2>3. f.tag = "connection" /\ f.up = e.up
    BY <2>1 DEF ConnectionFrame
  <2> QED BY <1>4, <2>2, <2>3 DEF f
<1> QED BY <1>1, <1>2, <1>3, <1>4

\* A page that is true but for what an event is about is true once the event
\* has been shown.
LEMMA TruthAfter ==
  ASSUME NEW v \in Page, NEW objs \in Objects, NEW props \in Dict(DOMAIN objs),
         NEW e \in Event, NEW up, NEW first,
         e.type \in {"def", "set"} => props[<<e.dev, e.name>>] # None,
         e.type = "del" => \A k \in DelKeys(e.dev, e.name) : k \notin Held(props),
         e.type = "connection" => up = e.up,
         e.type # "connection" => v.up = up,
         e.type = "set" => v.props[<<e.dev, e.name>>] # None,
         \A k \in Held(props) :
           ~Concerns(FrameOf(e, objs, props), k) => v.props[k] = objs[props[k]].val,
         first => \A k \in Key :
           props[k] = None /\ ~Concerns(FrameOf(e, objs, props), k) => v.props[k] = None
  PROVE  /\ TrueTo(Show(v, FrameOf(e, objs, props)), objs, props, up, first)
         /\ Show(v, FrameOf(e, objs, props)).log = v.log
<1> DEFINE f == FrameOf(e, objs, props)
           w == Show(v, f)
           n == <<e.dev, e.name>>
<1>1. /\ f \in Frame /\ f.tag # "message"
      /\ e.type \in {"def", "set", "del", "connection"} /\ f.tag = e.type
      /\ e.type \in {"def", "set"} => f.key = n /\ n \in Key /\ f.val = objs[props[n]].val
      /\ e.type = "del" => f.dev = e.dev /\ f.name = e.name
      /\ e.type = "connection" => f.up = e.up
  BY FrameOfIs
<1> HIDE DEF f, n
<1>2. w.log = v.log
  BY <1>1, ShowLog
<1>3. w.up = up
  BY <1>1, ShowLog
<1> DEFINE Shows(k) ==
      /\ f.tag = "def" /\ f.key = k => w.props[k] = f.val
      /\ f.tag = "set" /\ f.key = k => w.props[k] = IF v.props[k] = None THEN None ELSE f.val
      /\ f.tag = "del" /\ k \in DelKeys(f.dev, f.name) => w.props[k] = None
      /\ ~Concerns(f, k) => w.props[k] = v.props[k]
<1>4. \A k \in Key : Shows(k)
  BY <1>1, ShowProps
<1> HIDE DEF w
<1>5. ASSUME NEW k \in Held(props) PROVE w.props[k] = objs[props[k]].val
  <2>1. k \in Key /\ props[k] # None /\ Shows(k)
    BY <1>4 DEF Held
  <2>2. CASE ~Concerns(f, k)
    BY <2>1, <2>2 DEF f
  <2>3. CASE Concerns(f, k)
    <3>1. CASE f.tag = "del"
      BY <1>1, <2>3, <3>1 DEF Concerns
    <3>2. CASE f.tag = "def"
      BY <1>1, <2>1, <2>3, <3>2 DEF Concerns
    <3>3. CASE f.tag = "set"
      BY <1>1, <2>1, <2>3, <3>3 DEF Concerns, n
    <3> QED BY <2>3, <3>1, <3>2, <3>3 DEF Concerns
  <2> QED BY <2>2, <2>3
<1>6. ASSUME first, NEW k \in Key, props[k] = None PROVE w.props[k] = None
  <2>1. Shows(k)
    BY <1>4
  <2>2. CASE ~Concerns(f, k)
    BY <1>6, <2>1, <2>2 DEF f
  <2>3. CASE Concerns(f, k)
    <3>1. CASE f.tag = "del"
      BY <2>1, <2>3, <3>1 DEF Concerns
    <3>2. CASE f.tag \in {"def", "set"}
      BY <1>1, <1>6, <2>3, <3>2 DEF Concerns, n
    <3> QED BY <2>3, <3>1, <3>2 DEF Concerns
  <2> QED BY <2>2, <2>3
<1>7. TrueTo(w, objs, props, up, first)
  BY <1>3, <1>5, <1>6 DEF TrueTo
<1> QED BY <1>2, <1>7 DEF w, f

\* An event that is true of the store already changes nothing of that.
LEMMA EventHarmless ==
  ASSUME NEW v \in Page, NEW objs \in Objects, NEW props \in Dict(DOMAIN objs),
         NEW e \in Event, NEW up, NEW first,
         e.type \in {"def", "set"} => props[<<e.dev, e.name>>] # None,
         e.type = "del" => \A k \in DelKeys(e.dev, e.name) : k \notin Held(props),
         e.type = "connection" => up = e.up,
         TrueTo(v, objs, props, up, first)
  PROVE  TrueTo(Show(v, FrameOf(e, objs, props)), objs, props, up, first)
<1> DEFINE n == <<e.dev, e.name>>
<1>1. ASSUME e.type = "set" PROVE v.props[n] # None
  <2>1. n \in Key /\ props[n] # None
    BY <1>1 DEF Event, Key
  <2> HIDE DEF n
  <2>2. v.props[n] = objs[props[n]].val
    BY <2>1 DEF TrueTo, Held
  <2>3. objs[props[n]] \in [key : Key, val : Value]
    BY <2>1, NoneIsNoIndex DEF Held
  <2>4. None \notin Value
    BY BridgeAssumption DEF Value
  <2> QED BY <2>2, <2>3, <2>4
<1> HIDE DEF n
<1>2. /\ v.up = up
      /\ \A k \in Held(props) : v.props[k] = objs[props[k]].val
      /\ first => \A k \in Key : props[k] = None => v.props[k] = None
  BY DEF TrueTo
<1> QED BY <1>1, <1>2, TruthAfter DEF n

\* The messages of the history, after one another.
LEMMA HistoryShows ==
  ASSUME NEW v \in Page, NEW msgs \in Seq(Nat)
  PROVE  LET q == [i \in DOMAIN msgs |-> MessageFrame(msgs[i])]
             w == ShowAll(v, q)
         IN  /\ q \in Seq(Frame)
             /\ w.up = v.up /\ \A k \in Key : w.props[k] = v.props[k]
             /\ v.log = <<>> => /\ Len(w.log) = Len(msgs)
                                /\ \A i \in 1..Len(msgs) : w.log[i] = msgs[i]
<1> DEFINE q == [i \in DOMAIN msgs |-> MessageFrame(msgs[i])]
           n == Len(msgs)
<1>1. n \in Nat /\ DOMAIN msgs = 1..n /\ \A i \in 1..n : msgs[i] \in Nat
  OBVIOUS
<1>2. \A i \in 1..n : q[i] = MessageFrame(msgs[i]) /\ q[i] \in Frame
                      /\ q[i].tag = "message" /\ q[i].id = msgs[i]
  <2> TAKE i \in 1..n
  <2>1. MessageFrame(msgs[i]) \in Frame
    BY <1>1, FrameTypes
  <2>2. MessageFrame(msgs[i]).tag = "message" /\ MessageFrame(msgs[i]).id = msgs[i]
    BY DEF MessageFrame
  <2> QED BY <1>1, <2>1, <2>2
<1>3. q \in [1..n -> Frame]
  <2> DEFINE fr(i) == MessageFrame(msgs[i])
  <2>1. \A i \in 1..n : fr(i) \in Frame
    BY <1>1, FrameTypes
  <2>2. q = [i \in 1..n |-> fr(i)]
    BY <1>1
  <2> HIDE DEF q, fr
  <2> QED BY <2>1, <2>2
<1> HIDE DEF q, n
<1>4. q \in Seq(Frame)
  BY <1>1, <1>3, SeqDef
<1>5. Len(q) = n /\ Len(q) \in Nat
  BY <1>1, <1>3, <1>4, LenProperties
<1>6. \E g : Showing(g, v, q, Len(q)) /\ ShowAll(v, q) = g[Len(q)]
  BY <1>5, ShowAllIs
<1>7. PICK g : Showing(g, v, q, n) /\ ShowAll(v, q) = g[n]
  BY <1>5, <1>6
<1> DEFINE Good(i) == /\ g[i] \in Page /\ g[i].up = v.up
                      /\ \A k \in Key : g[i].props[k] = v.props[k]
                      /\ v.log = <<>> => /\ Len(g[i].log) = i
                                         /\ \A j \in 1..i : g[i].log[j] = msgs[j]
           T == {i \in 0..n : Good(i)}
<1>8. 0 \in T
  BY <1>1, <1>7 DEF Showing
<1>9. ASSUME NEW i \in 1..n, i - 1 \in T PROVE i \in T
  <2> DEFINE x == g[i - 1]
             f == q[i]
  <2>1. g[i] = Show(x, f)
    BY <1>7 DEF Showing
  <2>2. /\ x \in Page /\ x.up = v.up /\ \A k \in Key : x.props[k] = v.props[k]
        /\ v.log = <<>> => Len(x.log) = i - 1 /\ \A j \in 1..(i - 1) : x.log[j] = msgs[j]
    BY <1>9
  <2>3. f \in Frame /\ f.tag = "message" /\ f.id = msgs[i] /\ msgs[i] \in Nat
    BY <1>1, <1>2
  <2> HIDE DEF x, f
  <2>4. g[i] \in Page
    BY <2>1, <2>2, <2>3, ShowType
  <2>5. g[i].up = v.up /\ g[i].log = Append(x.log, msgs[i])
    BY <2>1, <2>2, <2>3, ShowLog
  <2>6. \A k \in Key : g[i].props[k] = v.props[k]
    BY <2>1, <2>2, <2>3, ShowProps DEF Concerns
  <2>7. x.log \in Seq(Nat)
    BY <2>2 DEF Page
  <2>8. ASSUME v.log = <<>>
        PROVE  Len(g[i].log) = i /\ \A j \in 1..i : g[i].log[j] = msgs[j]
    <3>1. Len(x.log) = i - 1 /\ \A j \in 1..(i - 1) : x.log[j] = msgs[j]
      BY <2>2, <2>8
    <3>2. Len(g[i].log) = i
      BY <1>1, <2>3, <2>5, <2>7, <3>1
    <3>3. g[i].log[i] = msgs[i] /\ \A j \in 1..(i - 1) : g[i].log[j] = x.log[j]
      BY <1>1, <2>3, <2>5, <2>7, <3>1
    <3>4. \A j \in 1..i : j = i \/ j \in 1..(i - 1)
      BY <1>1
    <3> QED BY <3>1, <3>2, <3>3, <3>4
  <2>9. i \in 0..n
    BY <1>1
  <2>10. Good(i)
    BY <2>4, <2>5, <2>6, <2>8
  <2> HIDE DEF Good
  <2> QED BY <2>9, <2>10
<1> HIDE DEF T
<1>10. \A i \in 0..n : i \in T
  BY <1>1, <1>8, <1>9, UpTo
<1>11. n \in T
  BY <1>1, <1>10
<1>12. Good(n)
  BY <1>11 DEF T
<1> QED BY <1>4, <1>7, <1>12 DEF q, n

-----------------------------------------------------------------------------
(* The pages of the served browsers, once the bridge has been told of what *)
(* the client has done.                                                    *)

Settling(v, event, objs, props) ==
  IF event = NoEvent THEN v ELSE Show(v, FrameOf(event, objs, props))
Settled(s) == Settling(Final(s), pending, objects, cache)

Due(v, first) ==
  /\ TrueTo(v, objects, cache, connected, first)
  /\ first => LogFull(v, logged, messages)
\* Every served browser is due the truth, and is going to get it.
AllDue == \A s \in Subs : Served(s) => Due(Settled(s), attaches[s] = 1)

\* An event to come is shown alike on pages that are the same.
LEMMA SettlingSame ==
  ASSUME NEW v \in Page, NEW w \in Page, Same(v, w),
         NEW e \in Event \cup {NoEvent}, NEW objs \in Objects, NEW props \in Dict(DOMAIN objs),
         e # NoEvent /\ e.type \in {"def", "set"} => props[<<e.dev, e.name>>] # None
  PROVE  /\ Settling(v, e, objs, props) \in Page
         /\ Same(Settling(v, e, objs, props), Settling(w, e, objs, props))
         /\ Settling(v, e, objs, props).log = v.log
<1>1. CASE e = NoEvent
  BY <1>1 DEF Settling
<1>2. CASE e # NoEvent
  <2>1. e \in Event
    BY <1>2
  <2> DEFINE f == FrameOf(e, objs, props)
  <2>2. f \in Frame /\ f.tag # "message"
    BY <1>2, <2>1, FrameOfIs
  <2> HIDE DEF f
  <2>3. Show(v, f) \in Page /\ Same(Show(v, f), Show(w, f)) /\ Show(v, f).log = v.log
    BY <2>2, ShowType, ShowAlike, ShowLog DEF Same
  <2> QED BY <1>2, <2>3 DEF Settling, f
<1> QED BY <1>1, <1>2

\* What the two properties say of a settled page they say of the final one.
LEMMA DueIs ==
  ASSUME IInv, AllDue, NEW s \in Subs, Served(s)
  PROVE  /\ Due(Settled(s), attaches[s] = 1)
         /\ pending = NoEvent => Settled(s) = Final(s)
         /\ Final(s) \in Page /\ Settled(s) \in Page
         /\ Settled(s).log = Final(s).log
<1>1. Final(s) \in Page
  BY FinalIs
<1>2. /\ pending \in Event \cup {NoEvent} /\ objects \in Objects /\ cache \in Dict(DOMAIN objects)
      /\ pending # NoEvent /\ pending.type \in {"def", "set"} =>
           cache[<<pending.dev, pending.name>>] # None
  BY DEF IInv, StoreType, PendingIsCached
<1>3. Settling(Final(s), pending, objects, cache) \in Page
      /\ Settling(Final(s), pending, objects, cache).log = Final(s).log
  BY <1>1, <1>2, SettlingSame, SameReflexive
<1>4. pending = NoEvent => Settled(s) = Final(s)
  BY DEF Settled, Settling
<1> QED BY <1>1, <1>3, <1>4 DEF AllDue, Settled

\* A broadcast adds its frame to what is on the way to every browser still served.
LEMMA BroadcastSettles ==
  ASSUME IInv, IInv', Registered, NEW f, NEW k, NEW gone, Fitting(f, k, gone),
         Broadcast(f, k, gone), UNCHANGED browser, NEW s \in Subs, Served(s)',
         sub[s].seed_vectors \subseteq DOMAIN objects'
  PROVE  /\ Served(s) /\ attaches'[s] = attaches[s]
         /\ Same(Final(s)', Show(FinalOf(view[s], sub[s], objects'), f))
<1> DEFINE u == sub[s]
           w == sub'[s]
           r == Invalidate(u, gone)
<1>1. /\ s \notin subs => w = u
      /\ Rest(w) = Rest(u)
      /\ s \in subs \ Late(f, k, gone) => Standing(w) = Standing(u)
      /\ s \in subs /\ ~u.closed => w.queue = QueueWith(r, f, k)
  BY BroadcastReaches
<1>2. subs' = subs \ Late(f, k, gone)
  BY BroadcastIs DEF IInv, SubsType
<1>3. s \in subs \ Late(f, k, gone) /\ ~w.cancelled /\ w.pump # "done"
  BY <1>2 DEF Served
<1>4. ~u.cancelled /\ u.pump # "done" /\ ~u.closed
  BY <1>1, <1>3 DEF Standing, Rest, Registered
<1>5. Served(s)
  BY <1>3, <1>4 DEF Served
<1>6. u \in Subscription /\ w \in Subscription /\ view[s] \in Page /\ objects' \in Objects
      /\ view'[s] = view[s] /\ attaches'[s] = attaches[s]
      /\ SlotsSound(u)
  BY DEF IInv, SubsType, BrowserType, StoreType, browser, CoalescingSound
<1>7. r \in Subscription /\ r.queue = u.queue /\ SlotsSound(r)
  BY <1>6, InvalidateType, InvalidateSound, InvalidateShape
<1>8. f \in Frame /\ k \in Key \cup {None} /\ (k \in Key => f.tag = "set" /\ f.key = k)
  BY BridgeAssumption DEF Fitting, Key
<1>9. w.queue = QueueWith(r, f, k)
  BY <1>1, <1>3, <1>4
<1> HIDE DEF r, w, u
<1>10. Same(FinalOf(view[s], w, objects'), Show(FinalOf(view[s], u, objects'), f))
  BY <1>1, <1>6, <1>7, <1>8, <1>9, FinalOfDelivery DEF u
<1>11. Same(Final(s)', FinalOf(view'[s], w, objects'))
  BY FinalIsNext DEF w
<1>12. Same(Final(s)', Show(FinalOf(view[s], u, objects'), f))
  BY <1>6, <1>10, <1>11, AlikeTransitive DEF Same
<1> QED BY <1>5, <1>6, <1>12 DEF u

\* An event handed to the bridge, or put off, does the same to the settled page.
LEMMA DispatchSettles ==
  ASSUME IInv, IInv', Registered, pending = NoEvent, NEW e \in Event,
         e.type \in {"def", "set"} => cache'[<<e.dev, e.name>>] # None,
         Dispatch(e, objects', cache'), UNCHANGED browser, NEW s \in Subs, Served(s)',
         sub[s].seed_vectors \subseteq DOMAIN objects'
  PROVE  /\ Served(s) /\ attaches'[s] = attaches[s]
         /\ Same(Settled(s)', Show(FinalOf(view[s], sub[s], objects'), FrameOf(e, objects', cache')))
<1> DEFINE f == FrameOf(e, objects', cache')
           x == FinalOf(view[s], sub[s], objects')
<1>1. objects' \in Objects /\ cache' \in Dict(DOMAIN objects')
  BY DEF IInv, StoreType
<1>2. f \in Frame
  BY <1>1, FrameOfIs
<1>3. view[s] \in Page /\ sub[s] \in Subscription /\ view'[s] = view[s]
      /\ attaches'[s] = attaches[s]
  BY DEF IInv, SubsType, BrowserType, browser
<1>4. CASE SlowSubscribers
  <2>1. pending' = e /\ UNCHANGED <<sub, subs>>
    BY <1>4 DEF Dispatch
  <2>2. Settled(s)' = Show(Final(s)', f)
    <3>1. e # NoEvent
      BY DEF Event, NoEvent
    <3> QED BY <2>1, <3>1 DEF Settled, Settling
  <2>3. Same(Final(s)', x) /\ Final(s)' \in Page
    BY <1>3, <2>1, FinalIsNext
  <2>4. x \in Page
    BY <1>1, <1>3, FinalOfPage
  <2>5. Served(s)
    BY <2>1 DEF Served
  <2> HIDE DEF f, x
  <2>6. Same(Show(Final(s)', f), Show(x, f))
    BY <1>2, <2>3, <2>4, ShowAlike DEF Same
  <2> QED BY <1>3, <2>2, <2>5, <2>6 DEF f, x
<1>5. CASE ~SlowSubscribers
  <2>1. OnCallback(e, objects', cache') /\ pending' = NoEvent
    BY <1>5 DEF Dispatch
  <2>2. Fitting(f, KeyOf(e), GoneOf(e)) /\ Broadcast(f, KeyOf(e), GoneOf(e))
    BY <1>1, <2>1, OnCallbackIs
  <2>3. Settled(s)' = Final(s)'
    BY <2>1 DEF Settled, Settling
  <2> HIDE DEF f
  <2>4. Served(s) /\ attaches'[s] = attaches[s] /\ Same(Final(s)', Show(x, f))
    BY <2>2, BroadcastSettles
  <2> QED BY <2>3, <2>4 DEF f
<1> QED BY <1>4, <1>5

\* Nothing changes but how far what is on its way has got.
LEMMA SameDue ==
  ASSUME AllDue, UNCHANGED <<objects, cache, connected, messages, logged>>,
         \A s \in Subs : Served(s)' =>
           Served(s) /\ attaches'[s] = attaches[s] /\ Same(Settled(s), Settled(s)')
  PROVE  AllDue'
<1> SUFFICES ASSUME NEW s \in Subs, Served(s)'
             PROVE  Due(Settled(s), attaches[s] = 1)'
  BY DEF AllDue
<1>1. Served(s) /\ attaches'[s] = attaches[s] /\ Same(Settled(s), Settled(s)')
  OBVIOUS
<1>2. Due(Settled(s), attaches[s] = 1)
  BY <1>1 DEF AllDue
<1> DEFINE x == Settled(s)
           y == Settled(s)'
<1>3. TrueTo(x, objects, cache, connected, attaches[s] = 1)
      /\ (attaches[s] = 1 => LogFull(x, logged, messages))
  BY <1>2 DEF Due
<1>4. Same(x, y)
  BY <1>1
<1> HIDE DEF x, y
<1>5. TrueTo(y, objects, cache, connected, attaches[s] = 1)
      /\ (attaches[s] = 1 => LogFull(y, logged, messages))
  BY <1>3, <1>4, TrueSame
<1>6. TrueTo(y, objects', cache', connected', attaches'[s] = 1)
      /\ (attaches'[s] = 1 => LogFull(y, logged', messages'))
  BY <1>1, <1>5
<1> QED BY <1>6 DEF Due, y

\* Only what is on its way moves on, and ends with the same page.
LEMMA QuietDue ==
  ASSUME IInv, IInv', AllDue,
         UNCHANGED <<objects, cache, connected, pending, messages, logged>>,
         \A s \in Subs : Served(s)' =>
           /\ Served(s) /\ attaches'[s] = attaches[s]
           /\ Same(FinalOf(view'[s], sub'[s], objects), FinalOf(view[s], sub[s], objects))
  PROVE  AllDue'
<1>1. ASSUME NEW s \in Subs, Served(s)'
      PROVE  Served(s) /\ attaches'[s] = attaches[s] /\ Same(Settled(s), Settled(s)')
  <2> DEFINE x == FinalOf(view[s], sub[s], objects)
             y == FinalOf(view'[s], sub'[s], objects)
  <2>1. Final(s) \in Page /\ Same(Final(s), x)
    BY FinalIs
  <2>2. Final(s)' \in Page /\ Same(Final(s)', y)
    BY FinalIsNext
  <2>3. Same(y, x) /\ Served(s) /\ attaches'[s] = attaches[s]
    BY <1>1
  <2> HIDE DEF x, y
  <2>4. Same(Final(s)', x)
    BY <2>2, <2>3, AlikeTransitive DEF Same
  <2>5. Same(x, Final(s)')
    BY <2>4, AlikeSymmetric DEF Same
  <2>6. Same(Final(s), Final(s)')
    BY <2>1, <2>5, AlikeTransitive DEF Same
  <2>7. /\ pending \in Event \cup {NoEvent} /\ objects \in Objects /\ cache \in Dict(DOMAIN objects)
        /\ pending # NoEvent /\ pending.type \in {"def", "set"} =>
             cache[<<pending.dev, pending.name>>] # None
    BY DEF IInv, StoreType, PendingIsCached
  <2>8. Same(Settling(Final(s), pending, objects, cache), Settling(Final(s)', pending, objects, cache))
    BY <2>1, <2>2, <2>6, <2>7, SettlingSame
  <2>9. Settled(s) = Settling(Final(s), pending, objects, cache)
        /\ Settled(s)' = Settling(Final(s)', pending', objects', cache')
    BY DEF Settled
  <2> QED BY <2>3, <2>8, <2>9
<1> QED BY <1>1, SameDue

\* An event changes the store, and what is to be shown, in the same way.
LEMMA EventDue ==
  ASSUME IInv, IInv', AllDue, pending = NoEvent, NEW e \in Event,
         e.type \in {"def", "set"} => cache'[<<e.dev, e.name>>] # None,
         e.type = "del" => \A k \in DelKeys(e.dev, e.name) : k \notin Held(cache'),
         e.type = "connection" => connected' = e.up,
         e.type # "connection" => connected' = connected,
         e.type = "set" => <<e.dev, e.name>> \in Held(cache),
         UNCHANGED <<messages, logged>>, SeedsOnce,
         \A i \in DOMAIN objects :
           /\ i \in DOMAIN objects' /\ objects'[i].key = objects[i].key
           /\ ~Concerns(FrameOf(e, objects', cache'), objects[i].key) =>
                objects'[i].val = objects[i].val,
         \A k \in Held(cache') : ~Concerns(FrameOf(e, objects', cache'), k) =>
           k \in Held(cache) /\ objects'[cache'[k]].val = objects[cache[k]].val,
         \A k \in Key : cache'[k] = None /\ ~Concerns(FrameOf(e, objects', cache'), k) =>
           cache[k] = None,
         \A s \in Subs : Served(s)' =>
           /\ Served(s) /\ attaches'[s] = attaches[s]
           /\ Same(Settled(s)', Show(FinalOf(view[s], sub[s], objects'), FrameOf(e, objects', cache')))
  PROVE  AllDue'
<1> SUFFICES ASSUME NEW s \in Subs, Served(s)'
             PROVE  Due(Settled(s), attaches[s] = 1)'
  BY DEF AllDue
<1> DEFINE f == FrameOf(e, objects', cache')
           K == {k \in Key : Concerns(f, k)}
           x == FinalOf(view[s], sub[s], objects)
           y == FinalOf(view[s], sub[s], objects')
           first == attaches[s] = 1
           z == Settled(s)'
<1>1. Served(s) /\ attaches'[s] = attaches[s] /\ Same(z, Show(y, f))
  OBVIOUS
<1>2. view[s] \in Page /\ sub[s] \in Subscription /\ objects \in Objects /\ objects' \in Objects
      /\ cache \in Dict(DOMAIN objects) /\ cache' \in Dict(DOMAIN objects')
      /\ sub[s].seed_vectors \subseteq DOMAIN objects
      /\ sub[s].seed_vectors \subseteq DOMAIN objects'
  BY DEF IInv, BrowserType, SubsType, StoreType, SeedsType
<1>3. Alike(x, y, K)
  <2>1. Alike(view[s], view[s], K) /\ OneEach(sub[s].seed_vectors, objects)
    BY SameReflexive DEF SeedsOnce
  <2>2. \A i \in sub[s].seed_vectors : objects'[i].key = objects[i].key
                /\ (objects[i].key \notin K => objects'[i].val = objects[i].val)
    <3> TAKE i \in sub[s].seed_vectors
    <3>1. objects[i].key \in Key
      BY <1>2, SeedingType
    <3> QED BY <1>2, <3>1
  <2> HIDE DEF K
  <2> QED BY <1>2, <2>1, <2>2, FinalOfAlike
<1>4. x \in Page /\ y \in Page
  BY <1>2, FinalOfPage
<1>5. Same(Final(s), x) /\ Due(Final(s), first) /\ Final(s) \in Page
  BY <1>1, FinalIs, DueIs
<1>6. /\ f \in Frame /\ f.tag # "message"
  BY <1>2, FrameOfIs
<1> HIDE DEF f, x, y, first, z, K
<1>7. TrueTo(x, objects, cache, connected, first) /\ (first => LogFull(x, logged, messages))
  BY <1>5, TrueSame DEF Due
<1>8. x.log = y.log /\ x.up = y.up
      /\ \A k \in Key : /\ k \notin K => x.props[k] = y.props[k]
                        /\ x.props[k] = None <=> y.props[k] = None
  BY <1>3 DEF Alike
<1>9. e.type # "connection" => y.up = connected'
  BY <1>7, <1>8 DEF TrueTo
<1>10. e.type = "set" => y.props[<<e.dev, e.name>>] # None
  <2> SUFFICES ASSUME e.type = "set" PROVE y.props[<<e.dev, e.name>>] # None
    OBVIOUS
  <2> DEFINE n == <<e.dev, e.name>>
  <2>1. n \in Held(cache)
    OBVIOUS
  <2> HIDE DEF n
  <2>2. x.props[n] = objects[cache[n]].val
    BY <1>7, <2>1 DEF TrueTo
  <2>3. objects[cache[n]] \in [key : Key, val : Value] /\ n \in Key
    BY <1>2, <2>1, NoneIsNoIndex
  <2>4. None \notin Value
    BY BridgeAssumption DEF Value
  <2>5. y.props[n] # None
    BY <1>8, <2>2, <2>3, <2>4
  <2> QED BY <2>5 DEF n
<1>11. \A k \in Held(cache') : ~Concerns(f, k) => y.props[k] = objects'[cache'[k]].val
  <2> SUFFICES ASSUME NEW k \in Held(cache'), ~Concerns(f, k)
               PROVE  y.props[k] = objects'[cache'[k]].val
    OBVIOUS
  <2>1. k \in Key /\ k \notin K /\ k \in Held(cache)
        /\ objects'[cache'[k]].val = objects[cache[k]].val
    BY DEF f, K, Held
  <2>2. x.props[k] = objects[cache[k]].val
    BY <1>7, <2>1 DEF TrueTo
  <2> QED BY <1>8, <2>1, <2>2
<1>12. first => \A k \in Key : cache'[k] = None /\ ~Concerns(f, k) => y.props[k] = None
  <2> SUFFICES ASSUME first, NEW k \in Key, cache'[k] = None, ~Concerns(f, k)
               PROVE  y.props[k] = None
    OBVIOUS
  <2>1. cache[k] = None
    BY DEF f
  <2>2. x.props[k] = None
    BY <1>7, <2>1 DEF TrueTo
  <2> QED BY <1>8, <2>2
<1>13. TrueTo(Show(y, f), objects', cache', connected', first) /\ Show(y, f).log = y.log
  <2> HIDE DEF IInv, Served, AllDue, SeedsOnce
  <2> QED BY <1>2, <1>4, <1>9, <1>10, <1>11, <1>12, TruthAfter DEF f
<1>14. first => LogFull(Show(y, f), logged', messages')
  BY <1>7, <1>8, <1>13 DEF LogFull
<1>15. Same(Show(y, f), z)
  BY <1>1, AlikeSymmetric DEF Same, z, y, f
<1>16. TrueTo(z, objects', cache', connected', first) /\ (first => LogFull(z, logged', messages'))
  BY <1>13, <1>14, <1>15, TrueSame
<1>17. (attaches'[s] = 1) = first
  BY <1>1 DEF first
<1> QED BY <1>16, <1>17 DEF Due, z

\* The frames an event's frame concerns.
LEMMA DefDue ==
  ASSUME IInv, IInv', Orderly, AllDue, NEW k \in Key, ReceiveDef(k)
  PROVE  AllDue'
<1> DEFINE e == PropertyEvent("def", k[1], k[2])
           val == [f \in Fields |-> clock + 1]
           f == FrameOf(e, objects', cache')
<1>1. /\ pending = NoEvent
      /\ UNCHANGED <<connected, messages, logged, browser>>
      /\ val \in Value /\ e \in Event /\ <<e.dev, e.name>> = k
      /\ objects' \in Objects /\ cache' \in Dict(DOMAIN objects') /\ cache'[k] # None
      /\ Dispatch(e, objects', cache')
      /\ f = VectorFrame("def", k, val)
      /\ \A i \in DOMAIN objects : i \in DOMAIN objects' /\ objects'[i] = objects[i]
      /\ \A j \in Key : j # k => cache'[j] = cache[j]
  BY DefShape
<1>2. e.type = "def"
  BY EventKinds
<1>3. f.tag = "def" /\ f.key = k
  BY <1>1 DEF VectorFrame
<1>4. \A j : Concerns(f, j) <=> j = k
  BY <1>3 DEF Concerns
<1>5. Registered /\ SeedsOnce
  BY DEF Orderly
<1>6. \A s \in Subs : sub[s].seed_vectors \subseteq DOMAIN objects'
  BY <1>1 DEF IInv, SeedsType
<1> HIDE DEF f, e, val
<1>7. ASSUME NEW s \in Subs, Served(s)'
      PROVE  /\ Served(s) /\ attaches'[s] = attaches[s]
             /\ Same(Settled(s)', Show(FinalOf(view[s], sub[s], objects'), FrameOf(e, objects', cache')))
  BY <1>1, <1>2, <1>5, <1>6, <1>7, DispatchSettles
<1>8. objects \in Objects /\ cache \in Dict(DOMAIN objects)
  BY DEF IInv, StoreType
<1>9. \A j \in Held(cache') : ~Concerns(f, j) =>
        j \in Held(cache) /\ objects'[cache'[j]].val = objects[cache[j]].val
  <2> TAKE j \in Held(cache')
  <2> HAVE ~Concerns(f, j)
  <2>1. j # k /\ j \in Key /\ cache'[j] = cache[j] /\ cache'[j] # None
    BY <1>1, <1>4 DEF Held
  <2>2. j \in Held(cache) /\ cache[j] \in DOMAIN objects
    BY <1>8, <2>1, NoneIsNoIndex DEF Held
  <2> QED BY <1>1, <2>1, <2>2
<1>10. \A j \in Key : cache'[j] = None /\ ~Concerns(f, j) => cache[j] = None
  BY <1>1, <1>4
<1> HIDE DEF IInv, Orderly, AllDue, Served
<1>11. \A i \in DOMAIN objects :
           /\ i \in DOMAIN objects' /\ objects'[i].key = objects[i].key
           /\ ~Concerns(f, objects[i].key) => objects'[i].val = objects[i].val
  BY <1>1
<1> QED BY <1>1, <1>2, <1>5, <1>7, <1>9, <1>10, <1>11, EventDue DEF f

\* A set is merged into the cached object before its frame is on the way.
LEMMA SetDue ==
  ASSUME IInv, IInv', Orderly, AllDue, NEW k \in Key, NEW carried, ReceiveSet(k, carried)
  PROVE  AllDue'
<1> DEFINE e == PropertyEvent("set", k[1], k[2])
           val == objects'[cache[k]].val
           f == FrameOf(e, objects', cache')
<1>0. Keyed /\ Registered /\ SeedsOnce
  BY DEF Orderly
<1>1. /\ pending = NoEvent
      /\ UNCHANGED <<cache, connected, messages, logged, browser>>
      /\ e \in Event /\ <<e.dev, e.name>> = k
      /\ objects' \in Objects /\ cache' \in Dict(DOMAIN objects') /\ cache[k] # None
      /\ Dispatch(e, objects', cache')
      /\ f = VectorFrame("set", k, val)
      /\ DOMAIN objects' = DOMAIN objects
      /\ \A i \in DOMAIN objects : /\ objects'[i].key = objects[i].key
                                   /\ i # cache[k] => objects'[i] = objects[i]
  BY <1>0, SetShape
<1>2. e.type = "set"
  BY EventKinds
<1>3. f.tag = "set" /\ f.key = k
  BY <1>1 DEF VectorFrame
<1>4. \A j : Concerns(f, j) <=> j = k
  BY <1>3 DEF Concerns
<1>6. \A s \in Subs : sub[s].seed_vectors \subseteq DOMAIN objects'
  BY <1>1 DEF IInv, SeedsType
<1> HIDE DEF f, e, val
<1>7. ASSUME NEW s \in Subs, Served(s)'
      PROVE  /\ Served(s) /\ attaches'[s] = attaches[s]
             /\ Same(Settled(s)', Show(FinalOf(view[s], sub[s], objects'), FrameOf(e, objects', cache')))
  BY <1>0, <1>1, <1>2, <1>6, <1>7, DispatchSettles
<1>8. objects \in Objects /\ cache \in Dict(DOMAIN objects) /\ k \in Held(cache)
  BY <1>1 DEF IInv, StoreType, Held
<1>9. \A j \in Held(cache') : ~Concerns(f, j) =>
        j \in Held(cache) /\ objects'[cache'[j]].val = objects[cache[j]].val
  <2> TAKE j \in Held(cache')
  <2> HAVE ~Concerns(f, j)
  <2>1. j # k /\ j \in Held(cache) /\ cache'[j] = cache[j]
    BY <1>1, <1>4 DEF Held
  <2>2. cache[j] \in DOMAIN objects /\ cache[k] \in DOMAIN objects
    BY <1>8, <2>1, NoneIsNoIndex
  <2>3. objects[cache[j]].key = j /\ objects[cache[k]].key = k
    BY <1>0, <1>8, <2>1 DEF Keyed
  <2> QED BY <1>1, <2>1, <2>2, <2>3
<1>10. \A j \in Key : cache'[j] = None /\ ~Concerns(f, j) => cache[j] = None
  BY <1>1
<1>11. \A i \in DOMAIN objects :
           /\ i \in DOMAIN objects' /\ objects'[i].key = objects[i].key
           /\ ~Concerns(f, objects[i].key) => objects'[i].val = objects[i].val
  <2> TAKE i \in DOMAIN objects
  <2>1. objects[cache[k]].key = k
    BY <1>0, <1>8 DEF Keyed
  <2> QED BY <1>1, <1>4, <2>1
<1> HIDE DEF IInv, Orderly, AllDue, Served
<1> QED BY <1>0, <1>1, <1>2, <1>7, <1>8, <1>9, <1>10, <1>11, EventDue DEF f

\* What is no longer cached is taken from the page.
LEMMA DelDue ==
  ASSUME IInv, IInv', Orderly, AllDue, NEW d \in Devices, NEW n \in Names \cup {None},
         ReceiveDel(d, n)
  PROVE  AllDue'
<1> DEFINE e == PropertyEvent("del", d, n)
           f == FrameOf(e, objects', cache')
<1>0. Registered /\ SeedsOnce
  BY DEF Orderly
<1>1. /\ pending = NoEvent
      /\ UNCHANGED <<objects, connected, messages, logged, browser>>
      /\ e \in Event /\ e.type = "del" /\ e.dev = d /\ e.name = n
      /\ objects \in Objects /\ cache' \in Dict(DOMAIN objects)
      /\ Dispatch(e, objects', cache')
      /\ f = DelFrame(d, n)
      /\ \A j \in Key : cache'[j] = IF j \in DelKeys(d, n) THEN None ELSE cache[j]
  BY DelShape
<1>3. f.tag = "del" /\ f.dev = d /\ f.name = n
  BY <1>1 DEF DelFrame
<1>4. \A j : Concerns(f, j) <=> j \in DelKeys(d, n)
  BY <1>3 DEF Concerns
<1>6. \A s \in Subs : sub[s].seed_vectors \subseteq DOMAIN objects'
  BY <1>1 DEF IInv, SeedsType
<1> HIDE DEF f, e
<1>7. ASSUME NEW s \in Subs, Served(s)'
      PROVE  /\ Served(s) /\ attaches'[s] = attaches[s]
             /\ Same(Settled(s)', Show(FinalOf(view[s], sub[s], objects'), FrameOf(e, objects', cache')))
  BY <1>0, <1>1, <1>6, <1>7, DispatchSettles
<1>9. \A j \in Held(cache') : ~Concerns(f, j) =>
        j \in Held(cache) /\ objects'[cache'[j]].val = objects[cache[j]].val
  BY <1>1, <1>4 DEF Held
<1>10. \A j \in Key : cache'[j] = None /\ ~Concerns(f, j) => cache[j] = None
  BY <1>1, <1>4
<1>11. \A i \in DOMAIN objects :
           /\ i \in DOMAIN objects' /\ objects'[i].key = objects[i].key
           /\ ~Concerns(f, objects[i].key) => objects'[i].val = objects[i].val
  BY <1>1
<1>13. \A j \in DelKeys(e.dev, e.name) : j \notin Held(cache')
  BY <1>1 DEF Held
<1> HIDE DEF IInv, Orderly, AllDue, Served
<1> QED BY <1>0, <1>1, <1>7, <1>9, <1>10, <1>11, <1>13, EventDue DEF f

\* The link changes, before anyone is told.
LEMMA LinkDue ==
  ASSUME IInv, IInv', Orderly, AllDue, UpstreamUp \/ UpstreamDown
  PROVE  AllDue'
<1> DEFINE up == UpstreamUp
           e == ConnectionEvent(connected')
           f == FrameOf(e, objects', cache')
<1>0. Registered /\ SeedsOnce
  BY DEF Orderly
<1>1. /\ pending = NoEvent /\ connected' \in BOOLEAN
      /\ UNCHANGED <<objects, cache, messages, logged, browser>>
  BY DEF UpstreamUp, UpstreamDown, Listening
<1>2. e \in Event /\ e.type = "connection" /\ e.up = connected' /\ e # NoEvent
  BY <1>1, EventTypes, EventKinds
<1>3. f = ConnectionFrame(connected')
  BY <1>2 DEF FrameOf
<1>4. f.tag = "connection"
  BY <1>3 DEF ConnectionFrame
<1>5. \A j : ~Concerns(f, j)
  BY <1>4 DEF Concerns
<1>6. \A s \in Subs : sub[s].seed_vectors \subseteq DOMAIN objects'
  BY <1>1 DEF IInv, SeedsType
<1>s. objects' \in Objects /\ cache' \in Dict(DOMAIN objects')
  BY DEF IInv, StoreType
<1>f. f \in Frame
  BY <1>2, <1>s, FrameOfIs
<1>7. ASSUME NEW s \in Subs, Served(s)'
      PROVE  /\ Served(s) /\ attaches'[s] = attaches[s]
             /\ Same(Settled(s)', Show(FinalOf(view[s], sub[s], objects'), FrameOf(e, objects', cache')))
  <2>1. CASE UpstreamUp
    <3>1. Dispatch(e, objects', cache')
      BY <2>1 DEF UpstreamUp
    <3> HIDE DEF f, e
    <3> QED BY <1>0, <1>1, <1>2, <1>6, <1>7, <3>1, DispatchSettles
  <2>2. CASE UpstreamDown
    <3>1. pending' = e /\ UNCHANGED <<sub, subs>>
      BY <2>2 DEF UpstreamDown
    <3>2. view[s] \in Page /\ sub[s] \in Subscription /\ view'[s] = view[s] /\ attaches'[s] = attaches[s]
      BY <1>1 DEF IInv, SubsType, BrowserType, browser
    <3>3. Served(s)
      BY <1>7, <3>1 DEF Served
    <3> DEFINE x == FinalOf(view[s], sub[s], objects')
    <3>4. Same(Final(s)', x) /\ Final(s)' \in Page
      BY <3>1, <3>2, FinalIsNext
    <3>5. x \in Page
      BY <1>6, <1>s, <3>2, FinalOfPage
    <3>6. Settled(s)' = Show(Final(s)', f)
      BY <1>2, <3>1 DEF Settled, Settling
    <3> HIDE DEF f, x, e
    <3>7. Same(Show(Final(s)', f), Show(x, f))
      BY <1>f, <3>4, <3>5, ShowAlike DEF Same
    <3> QED BY <3>2, <3>3, <3>6, <3>7 DEF f, x
  <2> QED BY <2>1, <2>2
<1> HIDE DEF f, e
<1>9. \A j \in Held(cache') : ~Concerns(f, j) =>
        j \in Held(cache) /\ objects'[cache'[j]].val = objects[cache[j]].val
  BY <1>1 DEF Held
<1>10. \A j \in Key : cache'[j] = None /\ ~Concerns(f, j) => cache[j] = None
  BY <1>1
<1>11. \A i \in DOMAIN objects :
           /\ i \in DOMAIN objects' /\ objects'[i].key = objects[i].key
           /\ ~Concerns(f, objects[i].key) => objects'[i].val = objects[i].val
  BY <1>1
<1> HIDE DEF IInv, Orderly, AllDue, Served
<1> QED BY <1>0, <1>1, <1>2, <1>7, <1>9, <1>10, <1>11, EventDue DEF f

\* A message is logged last, also on the page.
LEMMA MessageDue ==
  ASSUME IInv, IInv', Orderly, AllDue, ReceiveMessage
  PROVE  AllDue'
<1> DEFINE f == MessageFrame(logged + 1)
<1>0. Registered /\ HistoryTail
  BY DEF Orderly
<1>1. /\ UNCHANGED <<objects, cache, connected, pending, browser>>
      /\ pending = NoEvent
      /\ logged' = logged + 1 /\ f \in Frame
      /\ Broadcast(f, None, {})
      /\ Len(messages') <= Len(messages) + 1
  BY <1>0, MessageShape
<1>2. f.tag = "message" /\ f.id = logged + 1
  BY DEF MessageFrame
<1>3. \A j : ~Concerns(f, j)
  BY <1>2 DEF Concerns
<1> HIDE DEF f
<1>4. Fitting(f, None, {})
  BY <1>1, <1>3 DEF Fitting
<1>5. logged \in Nat /\ Len(messages) \in Nat /\ Len(messages') \in Nat
  BY DEF IInv, BridgeType
<1> SUFFICES ASSUME NEW s \in Subs, Served(s)'
             PROVE  Due(Settled(s), attaches[s] = 1)'
  BY DEF AllDue
<1>6. sub[s].seed_vectors \subseteq DOMAIN objects'
  BY <1>1 DEF IInv, SeedsType
<1> DEFINE x == FinalOf(view[s], sub[s], objects)
           z == Settled(s)'
           first == attaches[s] = 1
<1>7. Served(s) /\ attaches'[s] = attaches[s] /\ Same(Final(s)', Show(x, f))
  <2>1. Served(s) /\ attaches'[s] = attaches[s]
        /\ Same(Final(s)', Show(FinalOf(view[s], sub[s], objects'), f))
    BY <1>0, <1>1, <1>4, <1>6, BroadcastSettles
  <2> QED BY <1>1, <2>1
<1>8. z = Final(s)'
  BY <1>1 DEF Settled, Settling
<1>9. Same(Final(s), x) /\ Due(Final(s), first) /\ Final(s) \in Page
  BY <1>1, <1>7, FinalIs, DueIs
<1>10. x \in Page
  BY FinalOfPage, FinalIs
<1> HIDE DEF x, z, first
<1>11. TrueTo(x, objects, cache, connected, first) /\ (first => LogFull(x, logged, messages))
  BY <1>9, TrueSame DEF Due
<1> DEFINE w == Show(x, f)
<1>12. w.up = x.up /\ w.log = Append(x.log, logged + 1) /\ \A k \in Key : w.props[k] = x.props[k]
  BY <1>1, <1>2, <1>3, <1>10, ShowLog, ShowProps
<1>13. Same(w, z)
  BY <1>7, <1>8, AlikeSymmetric DEF Same
<1> HIDE DEF w
<1>14. TrueTo(w, objects, cache, connected, first)
  BY <1>11, <1>12 DEF TrueTo, Held
<1>15. first => LogFull(w, logged', messages')
  <2> SUFFICES ASSUME first PROVE LogFull(w, logged', messages')
    OBVIOUS
  <2>1. x.log \in Seq(Nat)
    BY <1>10 DEF Page
  <2> DEFINE n == Len(x.log)
  <2>2. n \in Nat /\ Len(w.log) = n + 1 /\ w.log[n + 1] = logged + 1
        /\ \A i \in 1..n : w.log[i] = x.log[i]
    BY <1>5, <1>12, <2>1
  <2>3. n >= Len(messages) /\ \A i \in 1..n : x.log[i] = logged - n + i
    BY <1>11 DEF LogFull
  <2> HIDE DEF n
  <2>4. ASSUME NEW i \in 1..(n + 1) PROVE w.log[i] = logged' - (n + 1) + i
    <3>1. CASE i = n + 1
      BY <1>1, <1>5, <2>2, <3>1
    <3>2. CASE i \in 1..n
      BY <1>1, <1>5, <2>2, <2>3, <3>2
    <3> QED BY <2>2, <3>1, <3>2
  <2>5. n + 1 >= Len(messages')
    BY <1>1, <1>5, <2>2, <2>3
  <2> QED BY <2>2, <2>4, <2>5 DEF LogFull
<1>16. TrueTo(z, objects, cache, connected, first) /\ (first => LogFull(z, logged', messages'))
  BY <1>13, <1>14, <1>15, TrueSame
<1> QED BY <1>1, <1>7, <1>16 DEF Due, z, first

\* The callback for the event that waited: what was due is now on its way.
LEMMA OnEventDue ==
  ASSUME IInv, IInv', Orderly, AllDue, OnEvent
  PROVE  AllDue'
<1> DEFINE f == FrameOf(pending, objects, cache)
<1>0. Registered
  BY DEF Orderly
<1>1. /\ UNCHANGED <<objects, cache, connected, messages, logged, browser>>
      /\ pending # NoEvent /\ pending' = NoEvent /\ OnCallback(pending, objects, cache)
  BY DEF OnEvent
<1>2. /\ pending \in Event /\ objects \in Objects /\ cache \in Dict(DOMAIN objects)
      /\ pending.type \in {"def", "set"} => cache[<<pending.dev, pending.name>>] # None
  BY <1>1 DEF IInv, StoreType, PendingIsCached
<1>3. Broadcast(f, KeyOf(pending), GoneOf(pending)) /\ Fitting(f, KeyOf(pending), GoneOf(pending))
  BY <1>1, <1>2, OnCallbackIs
<1>4. f \in Frame
  BY <1>2, FrameOfIs
<1>5. ASSUME NEW s \in Subs, Served(s)'
      PROVE  Served(s) /\ attaches'[s] = attaches[s] /\ Same(Settled(s), Settled(s)')
  <2> DEFINE x == FinalOf(view[s], sub[s], objects)
  <2>1. sub[s].seed_vectors \subseteq DOMAIN objects'
    BY <1>1 DEF IInv, SeedsType
  <2>2. Settled(s)' = Final(s)'
    BY <1>1 DEF Settled, Settling
  <2>3. Settled(s) = Show(Final(s), f)
    BY <1>1 DEF Settled, Settling
  <2> HIDE DEF f
  <2>4. Served(s) /\ attaches'[s] = attaches[s]
        /\ Same(Final(s)', Show(FinalOf(view[s], sub[s], objects'), f))
    BY <1>0, <1>1, <1>3, <1>5, <2>1, BroadcastSettles
  <2>5. Same(Final(s)', Show(x, f))
    BY <1>1, <2>4
  <2>6. Same(Final(s), x) /\ Final(s) \in Page
    BY FinalIs
  <2>7. x \in Page
    BY FinalIs, FinalOfPage
  <2> HIDE DEF x
  <2>8. Same(Show(Final(s), f), Show(x, f))
    BY <1>4, <2>6, <2>7, ShowAlike DEF Same
  <2>9. Same(Show(x, f), Final(s)')
    BY <2>5, AlikeSymmetric DEF Same
  <2>10. Same(Show(Final(s), f), Final(s)')
    BY <2>8, <2>9, AlikeTransitive DEF Same
  <2> QED BY <2>2, <2>3, <2>4, <2>10
<1> QED BY <1>1, <1>5, SameDue

\* Whatever the upstream does, the pages are due what is true after it.
LEMMA UpstreamDue ==
  ASSUME IInv, IInv', Orderly, AllDue, Upstream \/ OnEvent
  PROVE  AllDue'
BY DefDue, SetDue, DelDue, LinkDue, MessageDue, OnEventDue DEF Upstream

\* The pump goes on from one await to the next.
LEMMA RunDue ==
  ASSUME IInv, IInv', Orderly, AllDue, NEW s \in Subs,
         PumpStart(s) \/ PumpSent(s) \/ PumpWake(s)
  PROVE  AllDue'
<1>0. view \in [Subs -> Page] /\ sub \in [Subs -> Subscription] /\ objects \in Objects
  BY DEF IInv, SubsType, BrowserType, StoreType
<1>1. /\ Proceed(s) /\ sub[s].pump \in {"created", "sending", "waiting"} /\ ~sub[s].cancelled
      /\ UNCHANGED <<objects, cache, connected, pending, messages, logged, phase, subs, attaches>>
      /\ \A r \in Subs : r # s => view'[r] = view[r]
  BY <1>0 DEF PumpStart, PumpSent, PumpWake, Running, upstream, bridge, browser
<1>2. OneEach(sub[s].seed_vectors, objects)
  BY DEF Orderly, SeedsOnce
<1>3. \A r \in Subs : r # s => sub'[r] = sub[r]
  BY <1>1, ProceedShape
<1> DEFINE x == Show(view[s], sub[s].inflight)
<1>4. /\ Same(FinalOf(x, sub'[s], objects), FinalOf(view[s], sub[s], objects))
      /\ sub'[s].pump \in {"sending", "waiting"}
  BY <1>1, <1>2, ProceedFinal
<1>5. x \in Page /\ view'[s] \in Page /\ Same(view'[s], x)
  <2>1. CASE PumpSent(s)
    <3>1. view'[s] = x
      BY <1>0, <2>1 DEF PumpSent
    <3>2. x \in Page
      BY <1>0, ShowType DEF Subscription
    <3> QED BY <3>1, <3>2, SameReflexive
  <2>2. CASE PumpStart(s) \/ PumpWake(s)
    <3>1. view'[s] = view[s]
      BY <2>2 DEF PumpStart, PumpWake, browser
    <3>2. sub[s].inflight = NoFrame
      BY <2>2 DEF PumpStart, PumpWake, Running, Orderly, IdleEmpty
    <3>3. Same(x, view[s]) /\ x \in Page
      BY <1>0, <3>2, ShowNothing, ShowType
    <3> QED BY <1>0, <3>1, <3>3, AlikeSymmetric DEF Same
  <2> QED BY <1>1, <2>1, <2>2
<1>6. /\ sub'[s] \in Subscription /\ sub'[s].seed_vectors \subseteq DOMAIN objects
      /\ OneEach(sub'[s].seed_vectors, objects)
  <2>1. sub'[s].seed_vectors \subseteq sub[s].seed_vectors
    BY <1>1, <1>2, ProceedFinal
  <2>2. sub'[s] \in Subscription
    BY DEF IInv, SubsType
  <2> QED BY <1>2, <2>1, <2>2 DEF OneEach, IInv, SeedsType
<1> HIDE DEF x
<1>7. Same(FinalOf(view'[s], sub'[s], objects), FinalOf(x, sub'[s], objects))
  <2> DEFINE w == sub'[s]
             v == view'[s]
  <2>1. w \in Subscription /\ w.seed_vectors \subseteq DOMAIN objects /\ OneEach(w.seed_vectors, objects)
        /\ v \in Page /\ Same(v, x)
    BY <1>5, <1>6
  <2> HIDE DEF w, v
  <2>2. Same(FinalOf(v, w, objects), FinalOf(x, w, objects))
    BY <1>0, <1>5, <2>1, FinalOfAlike DEF Same
  <2> QED BY <2>2 DEF w, v
<1>8. Same(FinalOf(view'[s], sub'[s], objects), FinalOf(view[s], sub[s], objects))
  BY <1>4, <1>7, AlikeTransitive DEF Same
<1>9. ASSUME NEW r \in Subs, Served(r)'
      PROVE  /\ Served(r) /\ attaches'[r] = attaches[r]
             /\ Same(FinalOf(view'[r], sub'[r], objects), FinalOf(view[r], sub[r], objects))
  <2>1. CASE r = s
    BY <1>1, <1>8, <1>9, <2>1 DEF Served
  <2>2. CASE r # s
    <3>1. sub'[r] = sub[r] /\ view'[r] = view[r]
      BY <1>1, <1>3, <2>2
    <3> QED BY <1>1, <1>9, <3>1, SameReflexive DEF Served
  <2> QED BY <2>1, <2>2
<1> QED BY <1>1, <1>9, QuietDue

\* A browser that is no longer served is due nothing.
LEMMA GoneDue ==
  ASSUME IInv, IInv', AllDue, NEW s \in Subs, ~Served(s)',
         UNCHANGED <<objects, cache, connected, pending, messages, logged>>,
         subs' \subseteq subs,
         \A r \in Subs : r # s => sub'[r] = sub[r] /\ view'[r] = view[r] /\ attaches'[r] = attaches[r]
  PROVE  AllDue'
<1>1. ASSUME NEW r \in Subs, Served(r)'
      PROVE  /\ Served(r) /\ attaches'[r] = attaches[r]
             /\ Same(FinalOf(view'[r], sub'[r], objects), FinalOf(view[r], sub[r], objects))
  <2>1. r # s
    BY <1>1
  <2>2. sub'[r] = sub[r] /\ view'[r] = view[r] /\ attaches'[r] = attaches[r]
    BY <2>1
  <2> QED BY <1>1, <2>2, SameReflexive DEF Served
<1> QED BY <1>1, QuietDue

\* A browser whose pump has ended is not served.
LEMMA EndDue ==
  ASSUME IInv, IInv', AllDue, NEW s \in Subs,
         SinkFailed(s) \/ PumpCancelled(s) \/ PumpNeverRan(s) \/ RouteFinishes(s)
  PROVE  AllDue'
<1>0. sub \in [Subs -> Subscription] /\ view \in [Subs -> Page]
  BY DEF IInv, SubsType, BrowserType
<1>1. /\ UNCHANGED <<objects, cache, connected, pending, messages, logged>>
      /\ subs' \subseteq subs
      /\ \A r \in Subs : r # s => view'[r] = view[r]
      /\ \A r \in Subs : r # s => sub'[r] = sub[r]
      /\ attaches' = attaches
  BY <1>0 DEF SinkFailed, PumpCancelled, PumpNeverRan, RouteFinishes, Running, upstream, bridge,
              browser, EndPump, Detach
<1>2. sub'[s].pump = "done"
  BY <1>0 DEF SinkFailed, PumpCancelled, PumpNeverRan, RouteFinishes, EndPump, Subscription
<1>3. ~Served(s)'
  BY <1>2 DEF Served
<1> QED BY <1>1, <1>3, GoneDue

\* The route ends: its pump is cancelled, or has ended.
LEMMA CancelDue ==
  ASSUME IInv, IInv', Orderly, AllDue, NEW s \in Subs, EndRoute(s)
  PROVE  AllDue'
<1>0. sub \in [Subs -> Subscription] /\ view \in [Subs -> Page]
  BY DEF IInv, SubsType, BrowserType
<1>1. /\ UNCHANGED <<objects, cache, connected, pending, messages, logged, subs, attaches, view>>
      /\ \A r \in Subs : r # s => sub'[r] = sub[r]
      /\ sub'[s] = Cancel(sub[s])
  BY <1>0 DEF EndRoute, upstream, bridge
<1>2. ~Served(s)'
  <2>1. sub'[s].pump = sub[s].pump
        /\ sub'[s].cancelled = (sub[s].pump \in {"created", "sending", "waiting"})
    BY <1>0, <1>1 DEF Cancel, Subscription
  <2>2. sub[s].pump \in {"none", "created", "sending", "waiting", "done"}
    BY <1>0 DEF Subscription
  <2> QED BY <1>1, <2>1, <2>2 DEF Served, Orderly, Started
<1> QED BY <1>1, <1>2, GoneDue

\* An error frame is for the sender, and changes nothing on its page.
LEMMA RefuseDue ==
  ASSUME IInv, IInv', Orderly, AllDue, NEW s \in Subs, Refuse(s)
  PROVE  AllDue'
<1>0. sub \in [Subs -> Subscription] /\ view \in [Subs -> Page] /\ subs \subseteq Subs
      /\ objects \in Objects
  BY DEF IInv, SubsType, BrowserType, StoreType
<1>1. /\ UNCHANGED <<objects, cache, connected, pending, messages, logged, view, attaches>>
      /\ \A r \in Subs : r # s => sub'[r] = sub[r]
      /\ sub'[s] = Deliver(sub[s], ErrorFrame, None)
      /\ subs' = IF Overflows(sub[s], ErrorFrame, None) THEN subs \ {s} ELSE subs
  BY <1>0 DEF Refuse, browser
<1> DEFINE u == sub[s]
           w == sub'[s]
           f == ErrorFrame
<1>2. f \in Frame /\ u \in Subscription /\ w \in Subscription /\ SlotsSound(u)
      /\ u.seed_vectors \subseteq DOMAIN objects /\ view[s] \in Page
  BY <1>0, FrameTypes DEF IInv, SubsType, CoalescingSound, SeedsType
<1>3. /\ Rest(w) = Rest(u)
      /\ ~u.closed => w.queue = QueueWith(u, f, None)
      /\ ~Overflows(u, f, None) => Standing(w) = Standing(u)
  BY <1>1, <1>2, DeliverShape
<1> HIDE DEF u, w, f
<1>4. ASSUME Served(s)'
      PROVE  Served(s) /\ Same(FinalOf(view'[s], w, objects), FinalOf(view[s], u, objects))
  <2>1. s \in subs /\ ~Overflows(u, f, None) /\ ~w.cancelled /\ w.pump # "done"
    BY <1>1, <1>4 DEF Served, u, w, f
  <2>2. ~u.cancelled /\ u.pump # "done"
    BY <1>3, <2>1 DEF Standing, Rest
  <2>3. ~u.closed
    BY <2>1 DEF Orderly, Registered, u
  <2>4. Same(FinalOf(view[s], w, objects), Show(FinalOf(view[s], u, objects), f))
    <3>1. None \in Key \cup {None} /\ (None \in Key => f.tag = "set" /\ f.key = None)
      BY BridgeAssumption
    <3>2. w.queue = QueueWith(u, f, None) /\ u.queue = u.queue
      BY <1>3, <2>3
    <3> QED BY <1>0, <1>2, <1>3, <3>1, <3>2, FinalOfDelivery
  <2>5. FinalOf(view[s], u, objects) \in Page
    BY <1>0, <1>2, FinalOfPage
  <2>6. Same(Show(FinalOf(view[s], u, objects), f), FinalOf(view[s], u, objects))
    BY <2>5, ShowNothing DEF f
  <2>7. Same(FinalOf(view[s], w, objects), FinalOf(view[s], u, objects))
    BY <2>4, <2>6, AlikeTransitive DEF Same
  <2> QED BY <1>1, <2>1, <2>2, <2>7 DEF Served, u
<1>5. ASSUME NEW r \in Subs, Served(r)'
      PROVE  /\ Served(r) /\ attaches'[r] = attaches[r]
             /\ Same(FinalOf(view'[r], sub'[r], objects), FinalOf(view[r], sub[r], objects))
  <2>1. CASE r = s
    BY <1>1, <1>4, <1>5, <2>1 DEF u, w
  <2>2. CASE r # s
    <3>1. sub'[r] = sub[r] /\ view'[r] = view[r] /\ attaches'[r] = attaches[r] /\ (r \in subs' => r \in subs)
      BY <1>1, <2>2
    <3> QED BY <1>5, <3>1, SameReflexive DEF Served
  <2> QED BY <2>1, <2>2
<1> QED BY <1>1, <1>5, QuietDue

\* Nobody is served once the bridge is closing.
LEMMA StopDue ==
  ASSUME IInv, IInv', Orderly, AllDue, Stop \/ StopClient
  PROVE  AllDue'
<1>0. sub \in [Subs -> Subscription] /\ subs \subseteq Subs
  BY DEF IInv, SubsType
<1>1. ASSUME NEW s \in Subs, s \in subs' PROVE sub'[s].cancelled \/ sub'[s].pump = "done"
  <2>1. CASE Stop
    <3>1. s \in subs /\ sub'[s] = Cancel(sub[s])
      BY <1>1, <2>1 DEF Stop
    <3>2. sub'[s].pump = sub[s].pump
          /\ sub'[s].cancelled = (sub[s].pump \in {"created", "sending", "waiting"})
      BY <1>0, <3>1 DEF Cancel, Subscription
    <3>3. sub[s].pump \in {"none", "created", "sending", "waiting", "done"}
      BY <1>0 DEF Subscription
    <3> QED BY <3>1, <3>2, <3>3 DEF Orderly, Started
  <2>2. CASE StopClient
    BY <1>1, <2>2 DEF StopClient
  <2> QED BY <2>1, <2>2
<1> QED BY <1>1 DEF AllDue, Served

\* Nothing happens.
LEMMA StutterDue ==
  ASSUME AllDue, UNCHANGED vars
  PROVE  AllDue'
BY DEF vars, upstream, bridge, browser, AllDue, Served, Due, Settled, Settling, Final, Pipeline, SeedFrame

\* A browser attaches: the seed is the truth, and the history.
LEMMA AttachDue ==
  ASSUME IInv, IInv', Orderly, AllDue, NEW s \in Subs, Attach(s)
  PROVE  AllDue'
<1> DEFINE I == {cache[k] : k \in Held(cache)}
           history == [i \in DOMAIN messages |-> MessageFrame(messages[i])]
           w == sub'[s]
           v == view[s]
           first == attaches'[s] = 1
<1>0. sub \in [Subs -> Subscription] /\ v \in Page /\ attaches \in [Subs -> Nat]
      /\ objects \in Objects /\ cache \in Dict(DOMAIN objects) /\ connected \in BOOLEAN
      /\ messages \in Seq(Nat) /\ logged \in Nat
  BY DEF IInv, SubsType, BrowserType, StoreType, BridgeType
<1>1. /\ UNCHANGED <<objects, cache, connected, pending, messages, logged, view>>
      /\ \A r \in Subs : r # s => attaches'[r] = attaches[r]
      /\ \A r \in Subs : r # s => sub'[r] = sub[r]
      /\ subs' = subs \cup {s}
      /\ attaches'[s] = attaches[s] + 1
      /\ w.preamble = <<HelloFrame>> /\ w.seed_vectors = I
      /\ w.seed_frames = Append(history, ConnectionFrame(connected))
      /\ w.queue = <<>> /\ w.inflight = NoFrame
  BY <1>0 DEF Attach, upstream, bridge
<1>2. I \subseteq DOMAIN objects
  BY <1>0, NoneIsNoIndex
<1>3. OneEach(I, objects)
  BY DEF OneEach, Orderly, Keyed
<1>4. first => v.props = Empty /\ v.log = <<>>
  BY <1>0, <1>1 DEF Orderly, Fresh
<1> DEFINE x1 == Show(v, NoFrame)
           x2 == ShowAll(x1, <<HelloFrame>>)
           x3 == ShowAll(x2, Seeding(I, objects))
           x4 == ShowAll(x3, history)
           x5 == Show(x4, ConnectionFrame(connected))
<1>5. FinalOf(v, w, objects) = x5
  <2>1. history \in Seq(Frame) /\ ConnectionFrame(connected) \in Frame
    BY <1>0, HistoryShows, FrameTypes
  <2> HIDE DEF x3, history, w
  <2>2. ShowAll(x3, Append(history, ConnectionFrame(connected))) = x5
    BY <2>1, ShowAllAppend
  <2>3. Frames(<<>>) = <<>>
    BY DEF Frames
  <2> HIDE DEF x5
  <2>4. ShowAll(x5, <<>>) = x5
    BY ShowAllEmpty
  <2> QED BY <1>1, <2>2, <2>3, <2>4 DEF FinalOf, SeededPage, x3
<1> HIDE DEF I, w, v, first
<1>6. x2 \in Page /\ Same(x2, v)
  <2>1. x1 \in Page /\ Same(x1, v)
    BY <1>0, ShowNothing, ShowType
  <2> HIDE DEF x1
  <2>2. x2 = Show(x1, HelloFrame)
    BY ShowAllOne
  <2>3. x2 \in Page /\ Same(x2, x1)
    BY <2>1, <2>2, ShowNothing, ShowType, FrameTypes
  <2> HIDE DEF x2
  <2> QED BY <2>1, <2>3, AlikeTransitive DEF Same
<1> HIDE DEF x2
<1>7. x3 \in Page /\ SeededWith(x2, x3, I, objects)
  BY <1>0, <1>2, <1>3, <1>6, SeedingType, SeedingShows, ShowAllPage
<1> HIDE DEF x3
<1>8. /\ x4 \in Page /\ \A k \in Key : x4.props[k] = x3.props[k]
      /\ x3.log = <<>> => Len(x4.log) = Len(messages)
                          /\ \A i \in 1..Len(messages) : x4.log[i] = messages[i]
  BY <1>0, <1>7, HistoryShows, ShowAllPage
<1> HIDE DEF x4, history
<1>9. x5.up = connected /\ x5.log = x4.log /\ x5 \in Page /\ \A k \in Key : x5.props[k] = x4.props[k]
  <2> DEFINE f == ConnectionFrame(connected)
  <2>1. f \in Frame /\ f.tag = "connection" /\ f.up = connected
    BY <1>0, FrameTypes DEF ConnectionFrame
  <2> HIDE DEF f
  <2> QED BY <1>8, <2>1, ShowType, ShowLog, ShowProps DEF Concerns, f
<1> HIDE DEF x5
<1>10. TrueTo(x5, objects, cache, connected, first)
  <2>1. ASSUME NEW k \in Held(cache) PROVE x5.props[k] = objects[cache[k]].val
    <3>1. k \in Key /\ objects[cache[k]].key = k /\ cache[k] \in I
      BY DEF Held, Orderly, Keyed, I
    <3> QED BY <1>7, <1>8, <1>9, <3>1 DEF SeededWith
  <2>2. ASSUME first, NEW k \in Key, cache[k] = None PROVE x5.props[k] = None
    <3>1. \A i \in I : objects[i].key # k
      BY <2>2 DEF I, Orderly, Keyed, Held
    <3>2. v.props[k] = None
      BY <1>4, <2>2 DEF Empty
    <3>3. x2.props[k] = v.props[k]
      BY <1>6 DEF Same, Alike
    <3> QED BY <1>7, <1>8, <1>9, <3>1, <3>2, <3>3 DEF SeededWith
  <2> QED BY <1>9, <2>1, <2>2 DEF TrueTo
<1>11. first => LogFull(x5, logged, messages)
  <2> SUFFICES ASSUME first PROVE LogFull(x5, logged, messages)
    OBVIOUS
  <2>1. x3.log = <<>>
    BY <1>4, <1>6, <1>7 DEF SeededWith, Same, Alike
  <2>2. HistoryTail
    BY DEF Orderly
  <2> DEFINE n == Len(messages)
  <2>3. n \in Nat /\ Len(x5.log) = n /\ \A i \in 1..n : x5.log[i] = messages[i]
    BY <1>0, <1>8, <1>9, <2>1
  <2>4. \A i \in 1..n : messages[i] = logged - n + i
    BY <2>2 DEF HistoryTail
  <2>5. n >= n
    BY <2>3
  <2>6. \A i \in 1..n : x5.log[i] = logged - n + i
    BY <2>3, <2>4
  <2> QED BY <2>3, <2>5, <2>6 DEF LogFull
<1>12. Final(s)' \in Page /\ Same(Final(s)', x5)
  <2>1. Final(s)' \in Page /\ Same(Final(s)', FinalOf(view'[s], w, objects'))
    BY FinalIsNext DEF w
  <2> QED BY <1>1, <1>5, <2>1 DEF v
<1>13. Due(Settled(s), attaches[s] = 1)'
  <2> DEFINE y == Final(s)'
             z == Settled(s)'
  <2>1. TrueTo(y, objects, cache, connected, first) /\ (first => LogFull(y, logged, messages))
    <3>1. Same(x5, y)
      BY <1>12, AlikeSymmetric DEF Same
    <3> HIDE DEF y
    <3> QED BY <1>10, <1>11, <3>1, TrueSame
  <2>2. y \in Page /\ z = Settling(y, pending, objects, cache)
    BY <1>1, <1>12 DEF Settled
  <2> HIDE DEF y
  <2>3. TrueTo(z, objects, cache, connected, first) /\ z.log = y.log
    <3>1. CASE pending = NoEvent
      BY <2>1, <2>2, <3>1 DEF Settling
    <3>2. CASE pending # NoEvent
      <4>1. pending \in Event /\ (pending.type \in {"def", "set"} =>
               cache[<<pending.dev, pending.name>>] # None)
        BY <3>2 DEF IInv, StoreType, PendingIsCached
      <4>2. z = Show(y, FrameOf(pending, objects, cache))
        BY <2>2, <3>2 DEF Settling
      <4>3. /\ pending.type = "del" => \A k \in DelKeys(pending.dev, pending.name) : k \notin Held(cache)
            /\ pending.type = "connection" => connected = pending.up
        BY <3>2 DEF Orderly, PendingTrue
      <4> HIDE DEF z
      <4>4. TrueTo(z, objects, cache, connected, first)
        BY <1>0, <2>1, <2>2, <4>1, <4>2, <4>3, EventHarmless
      <4>5. FrameOf(pending, objects, cache) \in Frame /\ FrameOf(pending, objects, cache).tag # "message"
        BY <1>0, <4>1, FrameOfIs
      <4> QED BY <2>2, <4>2, <4>4, <4>5, ShowLog
    <3> QED BY <3>1, <3>2
  <2> HIDE DEF z
  <2>4. first => LogFull(z, logged, messages)
    BY <2>1, <2>3 DEF LogFull
  <2>5. TrueTo(z, objects', cache', connected', first) /\ (first => LogFull(z, logged', messages'))
    BY <1>1, <2>3, <2>4
  <2> QED BY <2>5 DEF Due, z, first
<1>14. ASSUME NEW r \in Subs, r # s, Served(r)' PROVE Due(Settled(r), attaches[r] = 1)'
  <2>1. Served(r) /\ sub'[r] = sub[r] /\ attaches'[r] = attaches[r] /\ view' = view
    BY <1>1, <1>14 DEF Served
  <2>2. Due(Settled(r), attaches[r] = 1)
    BY <2>1 DEF AllDue
  <2> QED BY <1>1, <2>1, <2>2 DEF Due, Settled, Settling, Final, Pipeline, SeedFrame
<1> QED BY <1>13, <1>14 DEF AllDue

\* Every step keeps what the served browsers are due.
LEMMA NextDue ==
  IInv /\ IInv' /\ Orderly /\ AllDue /\ [Next]_vars => AllDue'
<1> SUFFICES ASSUME IInv, IInv', Orderly, AllDue, [Next]_vars PROVE AllDue'
  OBVIOUS
<1>1. CASE Upstream \/ OnEvent
  BY <1>1, UpstreamDue
<1>2. ASSUME NEW s \in Subs, Pump(s) PROVE AllDue'
  BY <1>2, RunDue, EndDue DEF Pump
<1>3. ASSUME NEW s \in Subs, Route(s) PROVE AllDue'
  <2>1. Attach(s) \/ Refuse(s) \/ EndRoute(s) \/ RouteFinishes(s)
    BY <1>3 DEF Route, BrowserLeaves, RouteSeesClosed
  <2> QED BY <2>1, AttachDue, RefuseDue, CancelDue, EndDue
<1>4. CASE Stop \/ StopClient
  BY <1>4, StopDue
<1>5. CASE UNCHANGED vars
  BY <1>5, StutterDue
<1> QED BY <1>1, <1>2, <1>3, <1>4, <1>5 DEF Next

\* At first nobody is served.
LEMMA InitDue == Init => AllDue
  BY DEF Init, AllDue, Served

\* What the pages are due is what the two properties promise.
LEMMA DueConverges ==
  IInv /\ AllDue => Converges /\ LogGapless
<1> SUFFICES ASSUME IInv, AllDue PROVE Converges /\ LogGapless
  OBVIOUS
<1>1. ASSUME pending = NoEvent, NEW s \in Subs, Served(s)
      PROVE  /\ \A k \in Held(cache) : Final(s).props[k] = Truth[k]
             /\ attaches[s] = 1 => Final(s).props = Truth
             /\ Final(s).up = connected
  <2>1. TrueTo(Final(s), objects, cache, connected, attaches[s] = 1) /\ Final(s) \in Page
    BY <1>1, DueIs DEF Due
  <2> DEFINE x == Final(s)
  <2> HIDE DEF x
  <2>2. \A k \in Key : Truth[k] = IF cache[k] = None THEN None ELSE objects[cache[k]].val
    BY DEF Truth
  <2>3. \A k \in Held(cache) : x.props[k] = Truth[k]
    BY <2>1, <2>2 DEF TrueTo, Held, x
  <2>4. ASSUME attaches[s] = 1 PROVE x.props = Truth
    <3>1. \A k \in Key : x.props[k] = Truth[k]
      BY <2>1, <2>2, <2>3, <2>4 DEF TrueTo, Held, x
    <3>2. x.props \in [Key -> Value \cup {None}]
      BY <2>1 DEF Page, Dict, x
    <3> QED BY <3>1, <3>2 DEF Truth
  <2> QED BY <2>1, <2>3, <2>4 DEF TrueTo, x
<1>2. ASSUME NEW s \in Subs, Served(s), attaches[s] = 1
      PROVE  LogFull(Final(s), logged, messages)
  <2>1. LogFull(Settled(s), logged, messages) /\ Settled(s).log = Final(s).log
    BY <1>2, DueIs DEF Due
  <2> QED BY <2>1 DEF LogFull
<1>3. Converges
  BY <1>1 DEF Converges
<1>4. LogGapless
  BY <1>2 DEF LogGapless, LogFull
<1> QED BY <1>3, <1>4

\* The invariant holds throughout.
LEMMA Delivered == Spec => [](IInv /\ Orderly /\ DropsCounted /\ AllDue)
<1>1. Init => IInv /\ Orderly /\ DropsCounted /\ AllDue
  BY InitIInv, InitOrderly, InitDrops, InitDue
<1>2. IInv /\ Orderly /\ DropsCounted /\ AllDue /\ [Next]_vars
        => (IInv /\ Orderly /\ DropsCounted /\ AllDue)'
  <2>1. IInv /\ [Next]_vars => IInv'
    BY NextIInv
  <2>2. IInv /\ Orderly /\ DropsCounted /\ [Next]_vars => Orderly' /\ DropsCounted'
    BY NextOrderly, NextDrops DEF Orderly
  <2> QED BY <2>1, <2>2, NextDue
<1> QED BY <1>1, <1>2, PTL DEF Spec

\* Attaching, coalescing and in-place merging converge: for any upstream,
\* browsers, backlog and history, a served browser that drains what is queued
\* for it shows the value of every cached property and the state of the link,
\* and on its first socket nothing else (Bridge.attach, _broadcast, _pump and
\* Subscription.enqueue; store.ts).
THEOREM PagesConverge == Spec => []Converges
<1>1. IInv /\ AllDue => Converges
  BY DueConverges
<1> QED BY <1>1, Delivered, PTL

\* On a page's first socket the history it is seeded with and the messages
\* that follow leave neither a gap nor a repeat in its log, which goes back as
\* far as the history does (Bridge._on_message and attach).
THEOREM LogsAreGapless == Spec => []LogGapless
<1>1. IInv /\ AllDue => LogGapless
  BY DueConverges
<1> QED BY <1>1, Delivered, PTL

-----------------------------------------------------------------------------
(* Nothing goes back: the order of all that is said of one property.       *)

\* One value is no newer than another in any field.
Older(x, y) == \A a \in Fields : x[a] <= y[a]

\* The frame gives the value of a property.
Tells(f, k) == f.tag \in {"def", "set"} /\ f.key = k

\* The value a property has, or the newest it could have had: whatever is said of
\* it anywhere is no newer.
NewestOf(objs, props, now) ==
  [k \in Key |-> IF props[k] # None THEN objs[props[k]].val ELSE [a \in Fields |-> now]]
Newest == NewestOf(objects, cache, clock)

\* The pump will go on sending.
Live(u) == u.pump \in {"created", "sending", "waiting"} /\ ~u.cancelled

\* What a page has or is being sent of a property.
Near(v, u, k, x) == v.props[k] = x \/ (Tells(u.inflight, k) /\ u.inflight.val = x)

\* What is in flight is no older than what the page shows.
FrontInOrder(v, u, last) ==
  \A k \in Key, x \in Value :
    /\ Near(v, u, k, x) => Older(x, last[k])
    /\ v.props[k] = x /\ Tells(u.inflight, k) => Older(x, u.inflight.val)

\* What is still to be seeded is no older than that, as it is now.
SeedsInOrder(v, u, objs, last) ==
  \A i \in u.seed_vectors :
    /\ Older(objs[i].val, last[objs[i].key])
    /\ \A x \in Value : Near(v, u, objs[i].key, x) => Older(x, objs[i].val)

\* What is queued is no older than any of it, nor than what is queued before.
QueueInOrder(v, u, objs, last) ==
  \A j \in DOMAIN u.queue, k \in Key :
    Tells(u.queue[j].frame, k) =>
      /\ Older(u.queue[j].frame.val, last[k])
      /\ \A x \in Value : Near(v, u, k, x) => Older(x, u.queue[j].frame.val)
      /\ \A i \in u.seed_vectors :
           objs[i].key = k => Older(objs[i].val, u.queue[j].frame.val)
      /\ \A n \in DOMAIN u.queue :
           n < j /\ Tells(u.queue[n].frame, k) =>
             Older(u.queue[n].frame.val, u.queue[j].frame.val)

\* While the object a page is still to be seeded with is the cached one, the one
\* frame queued for its property can be replaced: a set that makes the object newer
\* makes that frame newer too.
SeedsFresh(u, objs, props) ==
  \A i \in u.seed_vectors, j \in DOMAIN u.queue :
    props[objs[i].key] = i /\ Tells(u.queue[j].frame, objs[i].key) =>
      u.coalescible[objs[i].key] = j

\* The rest of a seed says nothing of properties.
SeedFramesPlain(u) == \A j \in DOMAIN u.seed_frames, k \in Key : ~Tells(u.seed_frames[j], k)

\* All that one browser has and will be sent, oldest first.
InOrder(v, u, objs, props, last) ==
  /\ FrontInOrder(v, u, last)
  /\ Live(u) => /\ SeedsInOrder(v, u, objs, last) /\ QueueInOrder(v, u, objs, last)
                /\ SeedsFresh(u, objs, props) /\ SeedFramesPlain(u)

\* Nothing in the store is newer than the clock.
Dated == \A i \in DOMAIN objects, a \in Fields : objects[i].val[a] <= clock
\* A pump that will go on sending is told of every event.
LiveRegistered == \A s \in Subs : Live(sub[s]) => s \in subs
\* No event but one of the link is put off.
PendingPlain == pending # NoEvent => pending.type = "connection"

AllInOrder == \A s \in Subs : InOrder(view[s], sub[s], objects, cache, Newest)
Forwards == Dated /\ LiveRegistered /\ PendingPlain /\ AllInOrder

\* Being no newer is an order.
LEMMA OlderOrder ==
  /\ \A x \in Value : Older(x, x)
  /\ \A x, y, z \in Value : Older(x, y) /\ Older(y, z) => Older(x, z)
BY DEF Older, Value

\* What a page shows of a property after a frame was there or came with it.
LEMMA ShowGives ==
  ASSUME NEW v \in Page, NEW f \in Frame \cup {NoFrame}, NEW k \in Key, NEW x \in Value,
         Show(v, f).props[k] = x
  PROVE  v.props[k] = x \/ (Tells(f, k) /\ f.val = x)
<1>1. x # None
  BY BridgeAssumption DEF Value
<1>2. /\ f.tag = "def" /\ f.key = k => Show(v, f).props[k] = f.val
      /\ f.tag = "set" /\ f.key = k =>
           Show(v, f).props[k] = IF v.props[k] = None THEN None ELSE f.val
      /\ f.tag = "del" /\ k \in DelKeys(f.dev, f.name) => Show(v, f).props[k] = None
      /\ ~Concerns(f, k) => Show(v, f).props[k] = v.props[k]
  BY ShowProps
<1> QED BY <1>1, <1>2 DEF Tells, Concerns

\* The values frames and pages have are values.
LEMMA NearValue ==
  ASSUME NEW u \in Subscription, NEW k \in Key, Tells(u.inflight, k)
  PROVE  u.inflight.val \in Value
<1>1. u.inflight \in Frame
  BY DEF Subscription, Tells, NoFrame
<1> QED BY <1>1, FrameValue DEF Tells

LEMMA SlotValue ==
  ASSUME NEW u \in Subscription, NEW j \in DOMAIN u.queue, NEW k, Tells(u.queue[j].frame, k)
  PROVE  u.queue[j].frame \in Frame /\ u.queue[j].frame.val \in Value
<1>1. u.queue \in Seq(Slot)
  BY DEF Subscription
<1>2. u.queue[j] \in Slot
  BY <1>1, ElementOfSeq, LenProperties
<1>3. u.queue[j].frame \in Frame
  BY <1>2 DEF Slot
<1> QED BY <1>3, FrameValue DEF Tells

\* As the newest grows, what is in order stays so, cancelled or not.
LEMMA StaysInOrder ==
  ASSUME NEW v \in Page, NEW w \in Page, NEW u \in Subscription, NEW t \in Subscription,
         NEW objs \in Objects, NEW objs2 \in Objects, NEW props, NEW props2,
         NEW last \in [Key -> Value], NEW last2 \in [Key -> Value],
         InOrder(v, u, objs, props, last), w.props = v.props,
         \A k \in Key : Older(last[k], last2[k]),
         Rest(t) = Rest(u) \/ (~Live(t) /\ t.inflight \in {u.inflight, NoFrame}),
         Live(t) => Live(u) /\ t.queue = u.queue /\ t.coalescible = u.coalescible,
         u.seed_vectors \subseteq DOMAIN objs,
         \A i \in u.seed_vectors : objs2[i] = objs[i],
         \A i \in u.seed_vectors : props2[objs[i].key] = i => props[objs[i].key] = i
  PROVE  InOrder(w, t, objs2, props2, last2)
<1>1. \A k \in Key, x \in Value : Near(w, t, k, x) => Near(v, u, k, x)
  BY DEF Near, Rest, Tells, NoFrame
<1>2. FrontInOrder(w, t, last2)
  <2> SUFFICES ASSUME NEW k \in Key, NEW x \in Value
               PROVE  /\ Near(w, t, k, x) => Older(x, last2[k])
                      /\ w.props[k] = x /\ Tells(t.inflight, k) => Older(x, t.inflight.val)
    BY DEF FrontInOrder
  <2>1. Near(v, u, k, x) => Older(x, last[k])
    BY DEF InOrder, FrontInOrder
  <2>2. Near(w, t, k, x) => Older(x, last2[k])
    BY <1>1, <2>1, OlderOrder
  <2>3. t.inflight \in {u.inflight, NoFrame}
    BY DEF Rest
  <2>4. w.props[k] = x /\ Tells(t.inflight, k) => Older(x, t.inflight.val)
    BY <2>3 DEF InOrder, FrontInOrder, Tells, NoFrame
  <2> QED BY <2>2, <2>4
<1>3. ASSUME Live(t)
      PROVE  /\ SeedsInOrder(w, t, objs2, last2) /\ QueueInOrder(w, t, objs2, last2)
             /\ SeedsFresh(t, objs2, props2) /\ SeedFramesPlain(t)
  <2>1. /\ t.seed_vectors = u.seed_vectors /\ t.queue = u.queue /\ t.coalescible = u.coalescible
        /\ t.seed_frames = u.seed_frames
    BY <1>3 DEF Rest
  <2>2. /\ SeedsInOrder(v, u, objs, last) /\ QueueInOrder(v, u, objs, last)
        /\ SeedsFresh(u, objs, props) /\ SeedFramesPlain(u)
    BY <1>3 DEF InOrder
  <2>3. \A i \in u.seed_vectors : objs[i].key \in Key /\ objs[i].val \in Value
    <3> TAKE i \in u.seed_vectors
    <3>1. objs[i] \in [key : Key, val : Value]
      BY ElementOfSeq, LenProperties, ZenonT(60) DEF Objects
    <3> QED BY <3>1
  <2>4. SeedsInOrder(w, t, objs2, last2)
    <3> SUFFICES ASSUME NEW i \in u.seed_vectors
                 PROVE  /\ Older(objs[i].val, last2[objs[i].key])
                        /\ \A x \in Value : Near(w, t, objs[i].key, x) => Older(x, objs[i].val)
      BY <2>1 DEF SeedsInOrder
    <3>1. Older(objs[i].val, last[objs[i].key]) /\ Older(last[objs[i].key], last2[objs[i].key])
      BY <2>2, <2>3 DEF SeedsInOrder
    <3>2. last[objs[i].key] \in Value /\ last2[objs[i].key] \in Value
      BY <2>3
    <3> QED BY <1>1, <2>2, <2>3, <3>1, <3>2, OlderOrder DEF SeedsInOrder
  <2>5. QueueInOrder(w, t, objs2, last2)
    <3> SUFFICES ASSUME NEW j \in DOMAIN u.queue, NEW k \in Key, Tells(u.queue[j].frame, k)
                 PROVE  /\ Older(u.queue[j].frame.val, last2[k])
                        /\ \A x \in Value : Near(w, t, k, x) => Older(x, u.queue[j].frame.val)
                        /\ \A i \in u.seed_vectors :
                             objs[i].key = k => Older(objs[i].val, u.queue[j].frame.val)
                        /\ \A n \in DOMAIN u.queue :
                             n < j /\ Tells(u.queue[n].frame, k) =>
                               Older(u.queue[n].frame.val, u.queue[j].frame.val)
      BY <2>1 DEF QueueInOrder
    <3>1. u.queue[j].frame.val \in Value
      BY SlotValue
    <3>2. /\ Older(u.queue[j].frame.val, last[k])
          /\ \A x \in Value : Near(v, u, k, x) => Older(x, u.queue[j].frame.val)
          /\ \A i \in u.seed_vectors :
               objs[i].key = k => Older(objs[i].val, u.queue[j].frame.val)
          /\ \A n \in DOMAIN u.queue :
               n < j /\ Tells(u.queue[n].frame, k) =>
                 Older(u.queue[n].frame.val, u.queue[j].frame.val)
      BY <2>2 DEF QueueInOrder
    <3>3. Older(u.queue[j].frame.val, last2[k])
      BY <3>1, <3>2, OlderOrder
    <3> QED BY <1>1, <3>2, <3>3
  <2>6. SeedsFresh(t, objs2, props2)
    BY <2>1, <2>2 DEF SeedsFresh
  <2>7. SeedFramesPlain(t)
    BY <2>1, <2>2 DEF SeedFramesPlain
  <2> QED BY <2>4, <2>5, <2>6, <2>7
<1> QED BY <1>2, <1>3 DEF InOrder

-----------------------------------------------------------------------------
(* A frame reaches a queue.                                                *)

\* The frame is a set of a property.
Sets(f, k) == f.tag = "set" /\ f.key = k

\* What a frame told to everyone does to the store a page is still seeded from: an
\* object becomes newer only if it is the cached one and the frame is its set.
Follows(f, seeds, objs, objs2, props, props2, last2) ==
  /\ \A k \in Key : Tells(f, k) => f.val = last2[k]
  /\ \A i \in seeds :
       /\ objs2[i].key = objs[i].key
       /\ \/ objs2[i].val = objs[i].val
          \/ /\ Sets(f, objs[i].key) /\ props[objs[i].key] = i
             /\ objs2[i].val = last2[objs[i].key]
       /\ props2[objs[i].key] = i =>
            /\ props[objs[i].key] = i
            /\ Tells(f, objs[i].key) => Sets(f, objs[i].key)

\* What the page has and is seeded with stays in order.
LEMMA SeedsStayInOrder ==
  ASSUME NEW v \in Page, NEW u \in Subscription, NEW t \in Subscription, NEW f \in Frame,
         NEW objs \in Objects, NEW objs2 \in Objects, NEW props, NEW props2,
         NEW last \in [Key -> Value], NEW last2 \in [Key -> Value],
         FrontInOrder(v, u, last), SeedsInOrder(v, u, objs, last), SeedFramesPlain(u),
         \A k \in Key : Older(last[k], last2[k]),
         Rest(t) = Rest(u), u.seed_vectors \subseteq DOMAIN objs,
         Follows(f, u.seed_vectors, objs, objs2, props, props2, last2)
  PROVE  /\ FrontInOrder(v, t, last2) /\ SeedsInOrder(v, t, objs2, last2) /\ SeedFramesPlain(t)
         /\ \A k \in Key, x \in Value : Near(v, t, k, x) <=> Near(v, u, k, x)
         /\ \A k \in Key, x \in Value : Near(v, u, k, x) => Older(x, last2[k])
         /\ \A i \in u.seed_vectors : /\ objs[i].key \in Key /\ objs[i].val \in Value
                                      /\ Older(objs2[i].val, last2[objs[i].key])
<1>1. t.seed_vectors = u.seed_vectors /\ t.seed_frames = u.seed_frames /\ t.inflight = u.inflight
  BY DEF Rest
<1>2. \A k \in Key, x \in Value : Near(v, t, k, x) <=> Near(v, u, k, x)
  BY <1>1 DEF Near
<1>3. \A k \in Key, x \in Value : Near(v, u, k, x) => Older(x, last2[k])
  <2> TAKE k \in Key, x \in Value
  <2>1. Near(v, u, k, x) => Older(x, last[k])
    BY DEF FrontInOrder
  <2> QED BY <2>1, OlderOrder
<1>4. FrontInOrder(v, t, last2)
  BY <1>1, <1>2, <1>3 DEF FrontInOrder
<1>5. ASSUME NEW i \in u.seed_vectors
      PROVE  /\ objs[i].key \in Key /\ objs[i].val \in Value
             /\ Older(objs2[i].val, last2[objs[i].key])
             /\ \A x \in Value : Near(v, u, objs[i].key, x) => Older(x, objs2[i].val)
  <2>1. objs[i] \in [key : Key, val : Value]
    BY ElementOfSeq, LenProperties DEF Objects
  <2>2. objs[i].key \in Key /\ objs[i].val \in Value
    BY <2>1
  <2>3. /\ Older(objs[i].val, last[objs[i].key])
        /\ \A x \in Value : Near(v, u, objs[i].key, x) => Older(x, objs[i].val)
    BY DEF SeedsInOrder
  <2>4. Older(objs[i].val, last2[objs[i].key])
    BY <2>2, <2>3, OlderOrder
  <2>5. last2[objs[i].key] \in Value
    BY <2>2
  <2>6. \/ objs2[i].val = objs[i].val
        \/ objs2[i].val = last2[objs[i].key]
    BY DEF Follows
  <2>7. Older(objs2[i].val, last2[objs[i].key])
    BY <2>4, <2>5, <2>6, OlderOrder
  <2>8. \A x \in Value : Near(v, u, objs[i].key, x) => Older(x, objs2[i].val)
    BY <1>3, <2>2, <2>3, <2>6
  <2> QED BY <2>2, <2>7, <2>8
<1>6. SeedsInOrder(v, t, objs2, last2)
  BY <1>1, <1>2, <1>5 DEF SeedsInOrder, Follows
<1>7. SeedFramesPlain(t)
  BY <1>1 DEF SeedFramesPlain
<1> QED BY <1>2, <1>3, <1>4, <1>5, <1>6, <1>7

\* A frame has joined the end of a queue, replaceable if it is a set.
Joined(u, t, f, objs, props2) ==
  /\ \E slot \in Slot : slot.frame = f /\ t.queue = Append(u.queue, slot)
  /\ \A k \in Key : Sets(f, k) => u.coalescible[k] = None
  /\ \A i \in u.seed_vectors :
       props2[objs[i].key] = i =>
         t.coalescible[objs[i].key] = IF Tells(f, objs[i].key) THEN Len(u.queue) + 1
                                      ELSE u.coalescible[objs[i].key]

\* A frame that joins the end of a queue.
LEMMA JoinsInOrder ==
  ASSUME NEW v \in Page, NEW u \in Subscription, NEW t \in Subscription, NEW f \in Frame,
         NEW objs \in Objects, NEW objs2 \in Objects, NEW props, NEW props2,
         NEW last \in [Key -> Value], NEW last2 \in [Key -> Value],
         FrontInOrder(v, u, last), SeedsInOrder(v, u, objs, last), SeedFramesPlain(u),
         QueueInOrder(v, u, objs, last), SeedsFresh(u, objs, props),
         \A k \in Key : Older(last[k], last2[k]),
         Rest(t) = Rest(u), u.seed_vectors \subseteq DOMAIN objs,
         Follows(f, u.seed_vectors, objs, objs2, props, props2, last2),
         Joined(u, t, f, objs, props2)
  PROVE  /\ FrontInOrder(v, t, last2) /\ SeedsInOrder(v, t, objs2, last2)
         /\ QueueInOrder(v, t, objs2, last2) /\ SeedsFresh(t, objs2, props2)
         /\ SeedFramesPlain(t)
<1>1. /\ FrontInOrder(v, t, last2) /\ SeedsInOrder(v, t, objs2, last2) /\ SeedFramesPlain(t)
      /\ \A k \in Key, x \in Value : Near(v, t, k, x) <=> Near(v, u, k, x)
      /\ \A k \in Key, x \in Value : Near(v, u, k, x) => Older(x, last2[k])
      /\ \A i \in u.seed_vectors : /\ objs[i].key \in Key /\ objs[i].val \in Value
                                   /\ Older(objs2[i].val, last2[objs[i].key])
  BY SeedsStayInOrder, ZenonT(240)
<1> DEFINE n == Len(u.queue)
<1>2. u.queue \in Seq(Slot) /\ n \in Nat /\ DOMAIN u.queue = 1..n
  BY DEF Subscription
<1>3. DOMAIN t.queue = 1..(n + 1) /\ t.queue[n + 1].frame = f
      /\ \A j \in 1..n : t.queue[j] = u.queue[j]
  <2>1. PICK slot \in Slot : slot.frame = f /\ t.queue = Append(u.queue, slot)
    BY DEF Joined
  <2>2. t.queue[n + 1] = slot
    BY <1>2, <2>1
  <2>3. DOMAIN t.queue = 1..(n + 1) /\ \A j \in 1..n : t.queue[j] = u.queue[j]
    BY <1>2, <2>1
  <2> QED BY <2>1, <2>2, <2>3
<1> HIDE DEF n
<1>4. t.seed_vectors = u.seed_vectors
  BY DEF Rest
<1>5. ASSUME NEW i \in u.seed_vectors, NEW j \in 1..n, Tells(u.queue[j].frame, objs[i].key)
      PROVE  objs2[i].val = objs[i].val
  <2> SUFFICES ASSUME objs2[i].val # objs[i].val PROVE FALSE
    OBVIOUS
  <2>1. Sets(f, objs[i].key) /\ props[objs[i].key] = i
    BY DEF Follows
  <2>2. u.coalescible[objs[i].key] = j
    BY <1>2, <1>5, <2>1 DEF SeedsFresh
  <2>3. j # None
    BY <1>2, BridgeAssumption
  <2> QED BY <1>1, <2>1, <2>2, <2>3 DEF Joined
<1>6. QueueInOrder(v, t, objs2, last2)
  <2> SUFFICES ASSUME NEW j \in DOMAIN t.queue, NEW k \in Key, Tells(t.queue[j].frame, k)
               PROVE  /\ Older(t.queue[j].frame.val, last2[k])
                      /\ \A x \in Value : Near(v, t, k, x) => Older(x, t.queue[j].frame.val)
                      /\ \A i \in t.seed_vectors :
                           objs2[i].key = k => Older(objs2[i].val, t.queue[j].frame.val)
                      /\ \A m \in DOMAIN t.queue :
                           m < j /\ Tells(t.queue[m].frame, k) =>
                             Older(t.queue[m].frame.val, t.queue[j].frame.val)
    BY DEF QueueInOrder
  <2>0. /\ j \in 1..(n + 1) /\ \A i \in u.seed_vectors : objs2[i].key = objs[i].key
        /\ \A x \in Value : Near(v, t, k, x) <=> Near(v, u, k, x)
    BY <1>1, <1>3 DEF Follows
  <2>1. ASSUME NEW m \in 1..n, Tells(u.queue[m].frame, k)
        PROVE  u.queue[m].frame.val \in Value /\ Older(u.queue[m].frame.val, last2[k])
    <3>1. u.queue[m].frame.val \in Value
      BY <1>2, <2>1, SlotValue
    <3>2. Older(u.queue[m].frame.val, last[k])
      BY <1>2, <2>1 DEF QueueInOrder
    <3> QED BY <3>1, <3>2, OlderOrder
  <2>2. CASE j \in 1..n
    <3>1. t.queue[j] = u.queue[j] /\ Tells(u.queue[j].frame, k)
      BY <1>3, <2>2
    <3>2. /\ \A x \in Value : Near(v, u, k, x) => Older(x, u.queue[j].frame.val)
          /\ \A i \in u.seed_vectors :
               objs[i].key = k => Older(objs[i].val, u.queue[j].frame.val)
          /\ \A m \in 1..n :
               m < j /\ Tells(u.queue[m].frame, k) =>
                 Older(u.queue[m].frame.val, u.queue[j].frame.val)
      BY <1>2, <2>2, <3>1 DEF QueueInOrder
    <3>3. \A i \in u.seed_vectors :
            objs[i].key = k => Older(objs2[i].val, u.queue[j].frame.val)
      BY <1>5, <2>2, <3>1, <3>2
    <3>4. \A m \in 1..(n + 1) : m < j => m \in 1..n
      BY <1>2, <2>2
    <3>5. Older(u.queue[j].frame.val, last2[k])
      BY <2>1, <2>2, <3>1
    <3>6. \A m \in 1..(n + 1) :
            m < j /\ Tells(t.queue[m].frame, k) =>
              Older(t.queue[m].frame.val, u.queue[j].frame.val)
      BY <1>3, <3>2, <3>4
    <3> QED BY <1>3, <1>4, <2>0, <3>1, <3>2, <3>3, <3>5, <3>6
  <2>3. CASE j = n + 1
    <3>1. t.queue[j].frame.val = last2[k] /\ last2[k] \in Value
      BY <1>3, <2>3 DEF Follows
    <3>2. \A m \in 1..(n + 1) : m < j => m \in 1..n
      BY <1>2, <2>3
    <3>3. \A m \in DOMAIN t.queue :
            m < j /\ Tells(t.queue[m].frame, k) => Older(t.queue[m].frame.val, last2[k])
      BY <1>3, <2>1, <3>2
    <3>4. Older(last2[k], last2[k])
      BY <3>1, OlderOrder
    <3> QED BY <1>1, <1>4, <2>0, <3>1, <3>3, <3>4
  <2> QED BY <1>2, <2>0, <2>2, <2>3
<1>7. SeedsFresh(t, objs2, props2)
  <2> SUFFICES ASSUME NEW i \in u.seed_vectors, NEW j \in 1..(n + 1),
                      props2[objs[i].key] = i, Tells(t.queue[j].frame, objs[i].key)
               PROVE  t.coalescible[objs[i].key] = j
    <3>1. \A i \in u.seed_vectors : objs2[i].key = objs[i].key
      BY DEF Follows
    <3> QED BY <1>3, <1>4, <3>1 DEF SeedsFresh
  <2>1. props[objs[i].key] = i /\ (Tells(f, objs[i].key) => Sets(f, objs[i].key))
    BY DEF Follows
  <2>2. t.coalescible[objs[i].key] = IF Tells(f, objs[i].key) THEN n + 1
                                     ELSE u.coalescible[objs[i].key]
    BY DEF n, Joined
  <2>3. CASE j \in 1..n
    <3>1. u.coalescible[objs[i].key] = j
      BY <1>2, <1>3, <2>1, <2>3 DEF SeedsFresh
    <3>2. j # None
      BY <1>2, <2>3, BridgeAssumption
    <3>3. ~Tells(f, objs[i].key)
      BY <1>1, <2>1, <3>1, <3>2 DEF Joined
    <3> QED BY <2>2, <3>1, <3>3
  <2>4. CASE j = n + 1
    BY <1>3, <2>2, <2>4
  <2> QED BY <1>2, <2>3, <2>4
<1> QED BY <1>1, <1>6, <1>7

\* A set has taken the place of the one queued for its property.
Replaced(u, t, f, kk) ==
  /\ Sets(f, kk) /\ kk \in Held(u.coalescible)
  /\ t.queue = Overwrite(u.queue, u.coalescible[kk], f) /\ t.coalescible = u.coalescible

\* A set that takes the place of a queued one.
LEMMA ReplacesInOrder ==
  ASSUME NEW v \in Page, NEW u \in Subscription, NEW t \in Subscription, NEW f \in Frame,
         NEW kk \in Key, NEW objs \in Objects, NEW objs2 \in Objects, NEW props, NEW props2,
         NEW last \in [Key -> Value], NEW last2 \in [Key -> Value],
         FrontInOrder(v, u, last), SeedsInOrder(v, u, objs, last), SeedFramesPlain(u),
         QueueInOrder(v, u, objs, last), SeedsFresh(u, objs, props),
         \A k \in Key : Older(last[k], last2[k]),
         Rest(t) = Rest(u), u.seed_vectors \subseteq DOMAIN objs,
         Follows(f, u.seed_vectors, objs, objs2, props, props2, last2),
         SlotsSound(u), Replaced(u, t, f, kk)
  PROVE  /\ FrontInOrder(v, t, last2) /\ SeedsInOrder(v, t, objs2, last2)
         /\ QueueInOrder(v, t, objs2, last2) /\ SeedsFresh(t, objs2, props2)
         /\ SeedFramesPlain(t)
<1>1. /\ FrontInOrder(v, t, last2) /\ SeedsInOrder(v, t, objs2, last2) /\ SeedFramesPlain(t)
      /\ \A k \in Key, x \in Value : Near(v, t, k, x) <=> Near(v, u, k, x)
      /\ \A k \in Key, x \in Value : Near(v, u, k, x) => Older(x, last2[k])
      /\ \A i \in u.seed_vectors : /\ objs[i].key \in Key /\ objs[i].val \in Value
                                   /\ Older(objs2[i].val, last2[objs[i].key])
  BY SeedsStayInOrder, ZenonT(240)
<1> DEFINE n == u.coalescible[kk]
           D == DOMAIN u.queue
<1>2. u.queue \in Seq(Slot) /\ D = 1..Len(u.queue) /\ Len(u.queue) \in Nat
  BY DEF Subscription
<1>3. n \in D /\ Tells(u.queue[n].frame, kk) /\ \A j \in D : j > n => ~Concerns(u.queue[j].frame, kk)
  BY DEF SlotsSound, Tells, Replaced
<1>4. \A j \in D : u.queue[j] \in Slot
  BY <1>2, ElementOfSeq
<1>5. DOMAIN t.queue = D /\ t.queue[n].frame = f
      /\ \A j \in D : j # n => t.queue[j] = u.queue[j]
  <2>1. t.queue = [j \in D |-> IF j = n THEN [u.queue[j] EXCEPT !.frame = f] ELSE u.queue[j]]
    BY DEF Overwrite, Replaced
  <2>2. t.queue[n] = [u.queue[n] EXCEPT !.frame = f]
    BY <1>3, <2>1
  <2>3. u.queue[n] \in Slot
    BY <1>3, <1>4
  <2>4. t.queue[n].frame = f
    BY <2>2, <2>3 DEF Slot
  <2> QED BY <2>1, <2>4
<1>6. t.seed_vectors = u.seed_vectors /\ t.coalescible = u.coalescible
  BY DEF Rest, Replaced
<1>7. \A k \in Key : Tells(f, k) <=> k = kk
  BY DEF Tells, Sets, Replaced
<1>8. \A j \in D : Tells(u.queue[j].frame, kk) => j <= n
  BY <1>2, <1>3 DEF Tells, Concerns
<1> HIDE DEF n, D
<1>9. ASSUME NEW i \in u.seed_vectors, NEW j \in D, j # n,
             Tells(u.queue[j].frame, objs[i].key)
      PROVE  objs2[i].val = objs[i].val
  <2> SUFFICES ASSUME objs2[i].val # objs[i].val PROVE FALSE
    OBVIOUS
  <2>1. objs[i].key = kk /\ props[objs[i].key] = i
    BY DEF Follows, Sets, Replaced
  <2>2. u.coalescible[kk] = j
    BY <1>9, <2>1 DEF SeedsFresh, D
  <2> QED BY <1>9, <2>2 DEF n
<1>10. QueueInOrder(v, t, objs2, last2)
  <2> SUFFICES ASSUME NEW j \in D, NEW k \in Key, Tells(t.queue[j].frame, k)
               PROVE  /\ Older(t.queue[j].frame.val, last2[k])
                      /\ \A x \in Value : Near(v, u, k, x) => Older(x, t.queue[j].frame.val)
                      /\ \A i \in u.seed_vectors :
                           objs[i].key = k => Older(objs2[i].val, t.queue[j].frame.val)
                      /\ \A m \in D :
                           m < j /\ Tells(t.queue[m].frame, k) =>
                             Older(t.queue[m].frame.val, t.queue[j].frame.val)
    BY <1>1, <1>5, <1>6 DEF QueueInOrder, Follows
  <2>1. ASSUME NEW m \in D, Tells(u.queue[m].frame, k)
        PROVE  u.queue[m].frame.val \in Value /\ Older(u.queue[m].frame.val, last2[k])
    <3>1. u.queue[m].frame.val \in Value
      BY <2>1, SlotValue DEF D
    <3>2. Older(u.queue[m].frame.val, last[k])
      BY <2>1 DEF QueueInOrder, D
    <3> QED BY <3>1, <3>2, OlderOrder
  <2>2. CASE j # n
    <3>1. t.queue[j] = u.queue[j] /\ Tells(u.queue[j].frame, k)
      BY <1>5, <2>2
    <3>2. /\ \A x \in Value : Near(v, u, k, x) => Older(x, u.queue[j].frame.val)
          /\ \A i \in u.seed_vectors :
               objs[i].key = k => Older(objs[i].val, u.queue[j].frame.val)
          /\ \A m \in D :
               m < j /\ Tells(u.queue[m].frame, k) =>
                 Older(u.queue[m].frame.val, u.queue[j].frame.val)
      BY <3>1 DEF QueueInOrder, D
    <3>3. \A i \in u.seed_vectors :
            objs[i].key = k => Older(objs2[i].val, u.queue[j].frame.val)
      BY <1>9, <2>2, <3>1, <3>2
    <3>4. ASSUME NEW m \in D, m < j, Tells(t.queue[m].frame, k)
          PROVE  Older(t.queue[m].frame.val, u.queue[j].frame.val)
      <4>1. m # n
        <5> SUFFICES ASSUME m = n PROVE FALSE
          OBVIOUS
        <5>1. k = kk
          BY <1>5, <1>7, <3>4
        <5>2. j <= n
          BY <1>8, <3>1, <5>1
        <5> QED BY <1>2, <3>4, <5>2
      <4> QED BY <1>5, <3>2, <3>4, <4>1
    <3> QED BY <2>1, <3>1, <3>2, <3>3, <3>4
  <2>3. CASE j = n
    <3>1. k = kk /\ t.queue[j].frame.val = last2[k] /\ last2[k] \in Value
      BY <1>5, <1>7, <2>3 DEF Follows
    <3>2. \A m \in D : m < j => t.queue[m] = u.queue[m]
      BY <1>2, <1>5, <2>3
    <3> QED BY <1>1, <2>1, <3>1, <3>2, OlderOrder
  <2> QED BY <2>2, <2>3
<1>11. SeedsFresh(t, objs2, props2)
  <2> SUFFICES ASSUME NEW i \in u.seed_vectors, NEW j \in D,
                      props2[objs[i].key] = i, Tells(t.queue[j].frame, objs[i].key)
               PROVE  u.coalescible[objs[i].key] = j
    BY <1>5, <1>6 DEF SeedsFresh, Follows
  <2>1. props[objs[i].key] = i
    BY DEF Follows
  <2>2. CASE j # n
    BY <1>5, <2>1, <2>2 DEF SeedsFresh, D
  <2>3. CASE j = n
    <3>1. objs[i].key = kk
      BY <1>1, <1>5, <1>7, <2>3
    <3> QED BY <2>3, <3>1 DEF n
  <2> QED BY <2>2, <2>3
<1> QED BY <1>1, <1>10, <1>11

-----------------------------------------------------------------------------
(* A broadcast.                                                            *)

\* What is in front of the pump stays in order as the newest grows.
LEMMA FrontStays ==
  ASSUME NEW v \in Page, NEW w \in Page, NEW u \in Subscription, NEW t \in Subscription,
         NEW last \in [Key -> Value], NEW last2 \in [Key -> Value],
         FrontInOrder(v, u, last), w.props = v.props,
         t.inflight \in {u.inflight, NoFrame},
         \A k \in Key : Older(last[k], last2[k])
  PROVE  FrontInOrder(w, t, last2)
<1> SUFFICES ASSUME NEW k \in Key, NEW x \in Value
             PROVE  /\ Near(w, t, k, x) => Older(x, last2[k])
                    /\ w.props[k] = x /\ Tells(t.inflight, k) => Older(x, t.inflight.val)
  BY DEF FrontInOrder
<1>1. Near(w, t, k, x) => Near(v, u, k, x)
  BY DEF Near, Tells, NoFrame
<1>2. Near(v, u, k, x) => Older(x, last[k])
  BY DEF FrontInOrder
<1>3. Near(w, t, k, x) => Older(x, last2[k])
  BY <1>1, <1>2, OlderOrder
<1>4. w.props[k] = x /\ Tells(t.inflight, k) => Older(x, t.inflight.val)
  BY DEF FrontInOrder, Tells, NoFrame
<1> QED BY <1>3, <1>4

\* A dropped pump sends no more.
LEMMA DropEnds ==
  ASSUME NEW e \in Subscription
  PROVE  ~Live(Drop(e))
<1> DEFINE c == [e EXCEPT !.closed = TRUE, !.dropped_for_backlog = TRUE]
           b == c.pump \in {"created", "sending", "waiting"}
<1>1. Drop(e) = [c EXCEPT !.cancelled = b]
  BY DEF Drop, Cancel
<1>2. c \in Subscription
  BY DEF Subscription
<1> HIDE DEF c
<1>3. Drop(e).cancelled = b /\ Drop(e).pump = c.pump
  BY <1>1, <1>2 DEF Subscription
<1> QED BY <1>3 DEF Live

\* What queueing does to the slots that may be replaced.
LEMMA EnqueueSlots ==
  ASSUME NEW u \in Subscription, NEW f \in Frame, NEW k \in Key \cup {None}
  PROVE  /\ k \in Held(u.coalescible) => Enqueue(u, f, k).coalescible = u.coalescible
         /\ k \notin Held(u.coalescible) =>
              Enqueue(u, f, k).coalescible =
                IF k = None THEN u.coalescible ELSE [u.coalescible EXCEPT ![k] = Len(u.queue) + 1]
<1>1. CASE k \in Held(u.coalescible)
  <2>1. Enqueue(u, f, k) = [u EXCEPT !.queue = Overwrite(u.queue, u.coalescible[k], f)]
    BY <1>1 DEF Enqueue, Replace
  <2> QED BY <1>1, <2>1 DEF Subscription
<1>2. CASE k \notin Held(u.coalescible)
  <2>1. Enqueue(u, f, k) =
          [u EXCEPT !.queue = Append(u.queue, [frame |-> f, key |-> k]),
                    !.coalescible = IF k = None THEN u.coalescible
                                    ELSE [u.coalescible EXCEPT ![k] = Len(u.queue) + 1],
                    !.ready = TRUE]
    BY <1>2 DEF Enqueue, Join
  <2> QED BY <1>2, <2>1 DEF Subscription
<1> QED BY <1>1, <1>2

\* Whether a broadcast is a set, to be folded under its property.
Folding(f, kk, gone) ==
  /\ f \in Frame /\ kk \in Key \cup {None}
  /\ \A k \in Key : Sets(f, k) <=> kk = k
  /\ kk # None => gone = {}

\* An open subscription has been delivered a frame.
HasTaken(u, t, f, kk, gone) == ~u.closed /\ t = Deliver(Invalidate(u, gone), f, kk)

\* Delivering what follows the store keeps a pump's frames in order, or ends the pump.
LEMMA DeliverInOrder ==
  ASSUME NEW v \in Page, NEW u \in Subscription, NEW t \in Subscription,
         NEW f, NEW kk, NEW gone, Folding(f, kk, gone),
         NEW objs \in Objects, NEW objs2 \in Objects, NEW props, NEW props2,
         NEW last \in [Key -> Value], NEW last2 \in [Key -> Value],
         InOrder(v, u, objs, props, last), SlotsSound(u),
         HasTaken(u, t, f, kk, gone),
         \A k \in Key : Older(last[k], last2[k]),
         u.seed_vectors \subseteq DOMAIN objs,
         Follows(f, u.seed_vectors, objs, objs2, props, props2, last2),
         \A i \in u.seed_vectors : props2[objs[i].key] = i => objs[i].key \notin gone
  PROVE  /\ InOrder(v, t, objs2, props2, last2)
         /\ Live(t) => ~Overflows(Invalidate(u, gone), f, kk)
<1> DEFINE r == Invalidate(u, gone)
           e == Enqueue(r, f, kk)
<1>0. f \in Frame /\ kk \in Key \cup {None} /\ None \notin Key
  BY BridgeAssumption DEF Folding
<1>1. /\ r \in Subscription /\ Rest(r) = Rest(u) /\ Standing(r) = Standing(u)
      /\ r.queue = u.queue /\ r.coalescible = Without(u.coalescible, gone)
  BY InvalidateShape, InvalidateType
<1>2. t = Deliver(r, f, kk)
  BY DEF HasTaken
<1> HIDE DEF r
<1>3. Rest(t) = Rest(u)
  BY <1>0, <1>1, <1>2, DeliverShape
<1>4. t.inflight = u.inflight /\ ~r.closed
  BY <1>1, <1>3 DEF Rest, Standing, HasTaken
<1>5. FrontInOrder(v, t, last2)
  <2>1. FrontInOrder(v, u, last)
    BY DEF InOrder
  <2> QED BY <1>4, <2>1, FrontStays
<1>6. e \in Subscription
  BY <1>0, <1>1, EnqueueType
<1>10. ~Overflows(r, f, kk) => Standing(Deliver(r, f, kk)) = Standing(r)
  BY <1>0, <1>1, DeliverShape
<1>11. e.queue = QueueWith(r, f, kk)
  BY <1>0, <1>1, EnqueueShape
<1>12. /\ kk \in Held(r.coalescible) => e.coalescible = r.coalescible
       /\ kk \notin Held(r.coalescible) =>
            e.coalescible =
              IF kk = None THEN r.coalescible ELSE [r.coalescible EXCEPT ![kk] = Len(r.queue) + 1]
  BY <1>0, <1>1, EnqueueSlots
<1>7. Overflows(r, f, kk) => ~Live(t)
  <2>1. Overflows(r, f, kk) => t = Drop(e)
    BY <1>2, <1>4 DEF Deliver
  <2> HIDE DEF e
  <2> QED BY <1>6, <2>1, DropEnds
<1>8. ASSUME Live(t) PROVE InOrder(v, t, objs2, props2, last2)
  <2>1. ~Overflows(r, f, kk) /\ t = e
    BY <1>2, <1>4, <1>7, <1>8 DEF Deliver
  <2>2. Live(u)
    <3>1. Standing(t) = Standing(r)
      BY <1>2, <1>10, <2>1
    <3> QED BY <1>1, <1>3, <1>8, <3>1 DEF Live, Rest, Standing
  <2>3. /\ FrontInOrder(v, u, last) /\ SeedsInOrder(v, u, objs, last)
        /\ QueueInOrder(v, u, objs, last) /\ SeedsFresh(u, objs, props) /\ SeedFramesPlain(u)
    BY <2>2 DEF InOrder
  <2>4. /\ t.queue = QueueWith(r, f, kk)
        /\ kk \in Held(r.coalescible) => t.coalescible = r.coalescible
        /\ kk \notin Held(r.coalescible) =>
             t.coalescible =
               IF kk = None THEN r.coalescible ELSE [r.coalescible EXCEPT ![kk] = Len(r.queue) + 1]
    <3> HIDE DEF e
    <3> QED BY <1>11, <1>12, <2>1
  <2>5. u.coalescible \in Dict(Nat) /\ u.queue \in Seq(Slot)
    BY DEF Subscription
  <2>6. kk # None => r.coalescible = u.coalescible
    BY <1>1, <2>5 DEF Folding, Without, Dict
  <2>7. CASE kk \in Held(r.coalescible)
    <3>1. kk \in Key /\ kk # None
      BY <1>0, <2>7 DEF Held
    <3>2. /\ t.queue = Overwrite(u.queue, u.coalescible[kk], f) /\ t.coalescible = u.coalescible
          /\ kk \in Held(u.coalescible)
      BY <1>1, <2>4, <2>6, <2>7, <3>1 DEF QueueWith
    <3>3. Sets(f, kk)
      BY <3>1 DEF Folding
    <3>5. Replaced(u, t, f, kk)
      BY <3>2, <3>3 DEF Replaced
    <3> HIDE DEF e
    <3>4. /\ FrontInOrder(v, t, last2) /\ SeedsInOrder(v, t, objs2, last2)
          /\ QueueInOrder(v, t, objs2, last2) /\ SeedsFresh(t, objs2, props2)
          /\ SeedFramesPlain(t)
      <4>1. PICK m \in Key, g \in Frame : m = kk /\ g = f
        BY <1>0, <3>1
      <4>2. Replaced(u, t, g, m)
        BY <3>5, <4>1
      <4>3. Follows(g, u.seed_vectors, objs, objs2, props, props2, last2)
        BY <4>1
      <4> QED BY <1>3, <2>3, <4>2, <4>3, ReplacesInOrder, SMTT(60)
    <3> QED BY <3>4 DEF InOrder
  <2>8. CASE kk \notin Held(r.coalescible)
    <3>1. t.queue = Append(u.queue, [frame |-> f, key |-> kk])
      BY <1>1, <2>4, <2>8 DEF QueueWith
    <3>2. [frame |-> f, key |-> kk] \in Slot /\ [frame |-> f, key |-> kk].frame = f
      BY <1>0 DEF Slot
    <3>3. \A k \in Key : Sets(f, k) => u.coalescible[k] = None
      BY <1>0, <2>6, <2>8 DEF Folding, Held
    <3>4. ASSUME NEW i \in u.seed_vectors, props2[objs[i].key] = i
          PROVE  t.coalescible[objs[i].key] =
                   IF Tells(f, objs[i].key) THEN Len(u.queue) + 1 ELSE u.coalescible[objs[i].key]
      <4>1. objs[i].key \in Key
        <5>1. objs[i] \in [key : Key, val : Value]
          BY ElementOfSeq, LenProperties DEF Objects
        <5> QED BY <5>1
      <4>2. objs[i].key \notin gone /\ (Tells(f, objs[i].key) => Sets(f, objs[i].key))
        BY <3>4 DEF Follows
      <4>3. Tells(f, objs[i].key) <=> kk = objs[i].key
        BY <4>1, <4>2 DEF Folding, Tells, Sets
      <4>4. CASE kk = None
        <5>1. t.coalescible = Without(u.coalescible, gone)
          BY <1>1, <2>4, <2>8, <4>4
        <5> QED BY <1>0, <4>1, <4>2, <4>3, <4>4, <5>1 DEF Without
      <4>5. CASE kk # None
        <5>1. t.coalescible = [u.coalescible EXCEPT ![kk] = Len(u.queue) + 1]
          BY <1>1, <2>4, <2>6, <2>8, <4>5
        <5> QED BY <1>0, <2>5, <4>1, <4>3, <4>5, <5>1 DEF Dict
      <4> QED BY <4>4, <4>5
    <3>5. Joined(u, t, f, objs, props2)
      <4> DEFINE slot == [frame |-> f, key |-> kk]
      <4> HIDE DEF slot
      <4>1. slot \in Slot /\ slot.frame = f /\ t.queue = Append(u.queue, slot)
        BY <3>1, <3>2 DEF slot
      <4> QED BY <3>3, <3>4, <4>1 DEF Joined
    <3> HIDE DEF e
    <3>6. /\ FrontInOrder(v, t, last2) /\ SeedsInOrder(v, t, objs2, last2)
          /\ QueueInOrder(v, t, objs2, last2) /\ SeedsFresh(t, objs2, props2)
          /\ SeedFramesPlain(t)
      BY <1>0, <1>3, <2>3, <3>5, JoinsInOrder
    <3> QED BY <3>6 DEF InOrder
  <2> QED BY <2>7, <2>8
<1>9. CASE ~Live(t)
  BY <1>5, <1>9 DEF InOrder
<1> QED BY <1>7, <1>8, <1>9 DEF r

\* A broadcast keeps every browser in order, and tells every pump that goes on.
LEMMA BroadcastInOrder ==
  ASSUME IInv, Registered, LiveRegistered, NEW f, NEW kk, NEW gone,
         Fitting(f, kk, gone), Folding(f, kk, gone), Broadcast(f, kk, gone), UNCHANGED browser,
         NEW objs \in Objects, NEW props,
         NEW last \in [Key -> Value], NEW last2 \in [Key -> Value],
         \A k \in Key : Older(last[k], last2[k]), objects \in Objects, objs \in Objects,
         NEW s \in Subs, InOrder(view[s], sub[s], objects, cache, last), sub'[s] \in Subscription,
         Follows(f, sub[s].seed_vectors, objects, objs, cache, props, last2),
         \A i \in sub[s].seed_vectors : props[objects[i].key] = i => objects[i].key \notin gone
  PROVE  InOrder(view'[s], sub'[s], objs, props, last2) /\ (Live(sub'[s]) => s \in subs')
<1>1. view[s] \in Page /\ view' = view /\ sub[s] \in Subscription /\ subs \subseteq Subs
      /\ SlotsSound(sub[s]) /\ sub[s].seed_vectors \subseteq DOMAIN objects
  BY DEF IInv, BrowserType, SubsType, SeedsType, BridgeType, CoalescingSound, browser
<1>2. sub'[s] = IF s \in subs THEN Deliver(Invalidate(sub[s], gone), f, kk) ELSE sub[s]
  BY DEF Broadcast
<1>3. CASE s \in subs
  <2>1. ~sub[s].closed
    BY <1>3 DEF Registered
  <2>2. PICK u \in Subscription, t \in Subscription, v \in Page :
          u = sub[s] /\ t = sub'[s] /\ v = view[s]
    BY <1>1
  <2>3. HasTaken(u, t, f, kk, gone)
    BY <1>2, <1>3, <2>1, <2>2 DEF HasTaken
  <2>4. /\ InOrder(v, u, objects, cache, last) /\ SlotsSound(u)
        /\ u.seed_vectors \subseteq DOMAIN objects
        /\ Follows(f, u.seed_vectors, objects, objs, cache, props, last2)
        /\ \A i \in u.seed_vectors : props[objects[i].key] = i => objects[i].key \notin gone
    BY <1>1, <2>1, <2>2
  <2>5. /\ InOrder(v, t, objs, props, last2)
        /\ Live(t) => ~Overflows(Invalidate(u, gone), f, kk)
    BY <2>3, <2>4, DeliverInOrder
  <2>6. subs' = subs \ Late(f, kk, gone)
    BY <1>1, BroadcastIs
  <2> QED BY <1>1, <1>3, <2>2, <2>5, <2>6 DEF Late
<1>4. CASE s \notin subs
  <2>1. sub'[s] = sub[s] /\ ~Live(sub[s])
    BY <1>2, <1>4 DEF LiveRegistered
  <2>2. FrontInOrder(view[s], sub[s], last)
    BY DEF InOrder
  <2>3. FrontInOrder(view[s], sub[s], last2)
    BY <1>1, <2>2, FrontStays
  <2> QED BY <1>1, <2>1, <2>3 DEF InOrder
<1> QED BY <1>3, <1>4

-----------------------------------------------------------------------------
(* The pump takes the next frame.                                          *)

\* The pump takes nothing of a property; or the next of its seed; or, the seed being
\* sent, what is first in the queue.
TakesPlain(u, t) ==
  /\ \A k \in Key : ~Tells(t.inflight, k)
  /\ t.seed_vectors = u.seed_vectors /\ t.queue = u.queue /\ t.coalescible = u.coalescible
TakesSeed(u, t, objs) ==
  \E i \in u.seed_vectors :
    /\ t.inflight = VectorFrame("def", objs[i].key, objs[i].val)
    /\ t.seed_vectors = u.seed_vectors \ {i}
    /\ t.queue = u.queue /\ t.coalescible = u.coalescible
TakesQueued(u, t) ==
  /\ u.seed_vectors = {} /\ t.seed_vectors = {} /\ u.queue # <<>>
  /\ t.inflight = Head(u.queue).frame /\ t.queue = Tail(u.queue)

\* A page has nothing but what it had and what was in flight to it.
Shows(v, u, w) == \A k \in Key, x \in Value : w.props[k] = x => Near(v, u, k, x)

\* Seeds are objects, of properties and with values.
LEMMA SeedKeys ==
  ASSUME NEW objs \in Objects, NEW i \in DOMAIN objs
  PROVE  objs[i].key \in Key /\ objs[i].val \in Value
<1>1. objs[i] \in [key : Key, val : Value]
  BY ElementOfSeq, LenProperties DEF Objects
<1> QED BY <1>1

\* What the pump takes was behind what it had taken, and in front of the rest.
LEMMA PlainInOrder ==
  ASSUME NEW v \in Page, NEW w \in Page, NEW u \in Subscription, NEW t \in Subscription,
         NEW objs \in Objects, NEW props, NEW last \in [Key -> Value],
         InOrder(v, u, objs, props, last), Live(u), Shows(v, u, w),
         u.seed_vectors \subseteq DOMAIN objs, TakesPlain(u, t), SeedFramesPlain(t)
  PROVE  InOrder(w, t, objs, props, last)
<1>1. \A k \in Key, x \in Value : Near(w, t, k, x) => Near(v, u, k, x)
  BY DEF Near, Shows, TakesPlain
<1>2. /\ FrontInOrder(v, u, last) /\ SeedsInOrder(v, u, objs, last)
      /\ QueueInOrder(v, u, objs, last) /\ SeedsFresh(u, objs, props)
  BY DEF InOrder
<1>3. /\ \A k \in Key : ~Tells(t.inflight, k)
      /\ t.seed_vectors = u.seed_vectors /\ t.queue = u.queue /\ t.coalescible = u.coalescible
  BY DEF TakesPlain
<1>4. FrontInOrder(w, t, last)
  BY <1>1, <1>2, <1>3 DEF FrontInOrder
<1>5. SeedsInOrder(w, t, objs, last)
  <2> SUFFICES ASSUME NEW i \in u.seed_vectors
               PROVE  /\ Older(objs[i].val, last[objs[i].key])
                      /\ \A x \in Value : Near(w, t, objs[i].key, x) => Older(x, objs[i].val)
    BY <1>3 DEF SeedsInOrder
  <2>1. /\ Older(objs[i].val, last[objs[i].key])
        /\ \A x \in Value : Near(v, u, objs[i].key, x) => Older(x, objs[i].val)
    BY <1>2 DEF SeedsInOrder
  <2>3. objs[i].key \in Key
    BY SeedKeys
  <2> QED BY <1>1, <2>1, <2>3
<1>6. QueueInOrder(w, t, objs, last)
  <2> SUFFICES ASSUME NEW j \in DOMAIN u.queue, NEW k \in Key, Tells(u.queue[j].frame, k)
               PROVE  /\ Older(u.queue[j].frame.val, last[k])
                      /\ \A x \in Value : Near(w, t, k, x) => Older(x, u.queue[j].frame.val)
                      /\ \A i \in u.seed_vectors :
                           objs[i].key = k => Older(objs[i].val, u.queue[j].frame.val)
                      /\ \A n \in DOMAIN u.queue :
                           n < j /\ Tells(u.queue[n].frame, k) =>
                             Older(u.queue[n].frame.val, u.queue[j].frame.val)
    BY <1>3 DEF QueueInOrder
  <2>1. /\ Older(u.queue[j].frame.val, last[k])
        /\ \A x \in Value : Near(v, u, k, x) => Older(x, u.queue[j].frame.val)
        /\ \A i \in u.seed_vectors :
             objs[i].key = k => Older(objs[i].val, u.queue[j].frame.val)
        /\ \A n \in DOMAIN u.queue :
             n < j /\ Tells(u.queue[n].frame, k) =>
               Older(u.queue[n].frame.val, u.queue[j].frame.val)
    BY <1>2 DEF QueueInOrder
  <2> QED BY <1>1, <2>1
<1>7. SeedsFresh(t, objs, props)
  BY <1>2, <1>3 DEF SeedsFresh
<1> QED BY <1>4, <1>5, <1>6, <1>7 DEF InOrder

LEMMA SeedInOrder ==
  ASSUME NEW v \in Page, NEW w \in Page, NEW u \in Subscription, NEW t \in Subscription,
         NEW objs \in Objects, NEW props, NEW last \in [Key -> Value],
         InOrder(v, u, objs, props, last), Live(u), Shows(v, u, w),
         u.seed_vectors \subseteq DOMAIN objs, OneEach(u.seed_vectors, objs),
         TakesSeed(u, t, objs), SeedFramesPlain(t)
  PROVE  InOrder(w, t, objs, props, last)
<1>1. PICK i \in u.seed_vectors :
        /\ t.inflight = VectorFrame("def", objs[i].key, objs[i].val)
        /\ t.seed_vectors = u.seed_vectors \ {i}
        /\ t.queue = u.queue /\ t.coalescible = u.coalescible
  BY DEF TakesSeed
<1>2. /\ FrontInOrder(v, u, last) /\ SeedsInOrder(v, u, objs, last)
      /\ QueueInOrder(v, u, objs, last) /\ SeedsFresh(u, objs, props)
  BY DEF InOrder
<1>3. \A j \in u.seed_vectors : objs[j].key \in Key /\ objs[j].val \in Value
  BY SeedKeys
<1>4. /\ t.inflight.val = objs[i].val
      /\ \A k : Tells(t.inflight, k) <=> k = objs[i].key
  BY <1>1 DEF Tells, VectorFrame
<1>5. \A k \in Key, x \in Value :
        Near(w, t, k, x) => Near(v, u, k, x) \/ (k = objs[i].key /\ x = objs[i].val)
  BY <1>4 DEF Near, Shows
<1>6. /\ Older(objs[i].val, last[objs[i].key])
      /\ \A x \in Value : Near(v, u, objs[i].key, x) => Older(x, objs[i].val)
  BY <1>2 DEF SeedsInOrder
<1>7. FrontInOrder(w, t, last)
  <2> SUFFICES ASSUME NEW k \in Key, NEW x \in Value
               PROVE  /\ Near(w, t, k, x) => Older(x, last[k])
                      /\ w.props[k] = x /\ Tells(t.inflight, k) => Older(x, t.inflight.val)
    BY DEF FrontInOrder
  <2>1. Near(v, u, k, x) => Older(x, last[k])
    BY <1>2 DEF FrontInOrder
  <2>2. w.props[k] = x => Near(v, u, k, x)
    BY DEF Shows
  <2> QED BY <1>4, <1>5, <1>6, <2>1, <2>2
<1>8. SeedsInOrder(w, t, objs, last)
  <2> SUFFICES ASSUME NEW j \in u.seed_vectors, j # i
               PROVE  /\ Older(objs[j].val, last[objs[j].key])
                      /\ \A x \in Value : Near(w, t, objs[j].key, x) => Older(x, objs[j].val)
    BY <1>1 DEF SeedsInOrder
  <2>1. objs[j].key # objs[i].key
    BY DEF OneEach
  <2>2. /\ Older(objs[j].val, last[objs[j].key])
        /\ \A x \in Value : Near(v, u, objs[j].key, x) => Older(x, objs[j].val)
    BY <1>2 DEF SeedsInOrder
  <2> QED BY <1>3, <1>5, <2>1, <2>2
<1>9. QueueInOrder(w, t, objs, last)
  <2> SUFFICES ASSUME NEW j \in DOMAIN u.queue, NEW k \in Key, Tells(u.queue[j].frame, k)
               PROVE  /\ Older(u.queue[j].frame.val, last[k])
                      /\ \A x \in Value : Near(w, t, k, x) => Older(x, u.queue[j].frame.val)
                      /\ \A m \in u.seed_vectors :
                           objs[m].key = k => Older(objs[m].val, u.queue[j].frame.val)
                      /\ \A n \in DOMAIN u.queue :
                           n < j /\ Tells(u.queue[n].frame, k) =>
                             Older(u.queue[n].frame.val, u.queue[j].frame.val)
    BY <1>1 DEF QueueInOrder
  <2>1. /\ Older(u.queue[j].frame.val, last[k])
        /\ \A x \in Value : Near(v, u, k, x) => Older(x, u.queue[j].frame.val)
        /\ \A m \in u.seed_vectors :
             objs[m].key = k => Older(objs[m].val, u.queue[j].frame.val)
        /\ \A n \in DOMAIN u.queue :
             n < j /\ Tells(u.queue[n].frame, k) =>
               Older(u.queue[n].frame.val, u.queue[j].frame.val)
    BY <1>2 DEF QueueInOrder
  <2> QED BY <1>5, <2>1
<1>10. SeedsFresh(t, objs, props)
  BY <1>1, <1>2 DEF SeedsFresh
<1> QED BY <1>7, <1>8, <1>9, <1>10 DEF InOrder

LEMMA QueuedInOrder ==
  ASSUME NEW v \in Page, NEW w \in Page, NEW u \in Subscription, NEW t \in Subscription,
         NEW objs \in Objects, NEW props, NEW last \in [Key -> Value],
         InOrder(v, u, objs, props, last), Live(u), Shows(v, u, w),
         TakesQueued(u, t), SeedFramesPlain(t)
  PROVE  InOrder(w, t, objs, props, last)
<1> DEFINE n == Len(u.queue)
           g == u.queue[1].frame
<1>1. /\ u.seed_vectors = {} /\ t.seed_vectors = {} /\ u.queue # <<>>
      /\ t.inflight = Head(u.queue).frame /\ t.queue = Tail(u.queue)
  BY DEF TakesQueued
<1>2. u.queue \in Seq(Slot) /\ n \in Nat /\ DOMAIN u.queue = 1..n
  BY DEF Subscription
<1>3. /\ n >= 1 /\ t.inflight = g /\ DOMAIN t.queue = 1..(n - 1)
      /\ \A j \in 1..(n - 1) : t.queue[j] = u.queue[j + 1]
  <2>1. n # 0
    BY <1>1, <1>2
  <2> QED BY <1>1, <1>2, <2>1
<1> HIDE DEF n, g
<1>4. FrontInOrder(v, u, last) /\ QueueInOrder(v, u, objs, last)
  BY DEF InOrder
<1>5. ASSUME NEW k \in Key, Tells(g, k)
      PROVE  /\ g.val \in Value /\ Older(g.val, last[k])
             /\ \A x \in Value : Near(v, u, k, x) => Older(x, g.val)
  <2>1. 1 \in DOMAIN u.queue
    BY <1>2, <1>3
  <2>2. Older(u.queue[1].frame.val, last[k])
        /\ \A x \in Value : Near(v, u, k, x) => Older(x, u.queue[1].frame.val)
    BY <1>4, <1>5, <2>1 DEF QueueInOrder, g
  <2>3. u.queue[1].frame.val \in Value
    BY <1>5, <2>1, SlotValue DEF g
  <2> QED BY <2>2, <2>3 DEF g
<1>6. \A k \in Key, x \in Value :
        Near(w, t, k, x) => Near(v, u, k, x) \/ (Tells(g, k) /\ x = g.val)
  BY <1>3 DEF Near, Shows
<1>7. FrontInOrder(w, t, last)
  <2> SUFFICES ASSUME NEW k \in Key, NEW x \in Value
               PROVE  /\ Near(w, t, k, x) => Older(x, last[k])
                      /\ w.props[k] = x /\ Tells(g, k) => Older(x, g.val)
    BY <1>3 DEF FrontInOrder
  <2>1. Near(v, u, k, x) => Older(x, last[k])
    BY <1>4 DEF FrontInOrder
  <2>2. w.props[k] = x => Near(v, u, k, x)
    BY DEF Shows
  <2> QED BY <1>5, <1>6, <2>1, <2>2
<1>8. QueueInOrder(w, t, objs, last)
  <2> SUFFICES ASSUME NEW j \in DOMAIN t.queue, NEW k \in Key, Tells(t.queue[j].frame, k)
               PROVE  /\ Older(t.queue[j].frame.val, last[k])
                      /\ \A x \in Value : Near(w, t, k, x) => Older(x, t.queue[j].frame.val)
                      /\ \A m \in DOMAIN t.queue :
                           m < j /\ Tells(t.queue[m].frame, k) =>
                             Older(t.queue[m].frame.val, t.queue[j].frame.val)
    BY <1>1 DEF QueueInOrder
  <2>1. j + 1 \in DOMAIN u.queue /\ t.queue[j] = u.queue[j + 1] /\ 1 \in DOMAIN u.queue /\ 1 < j + 1
    BY <1>2, <1>3
  <2>2. /\ Older(u.queue[j + 1].frame.val, last[k])
        /\ \A x \in Value : Near(v, u, k, x) => Older(x, u.queue[j + 1].frame.val)
        /\ \A m \in DOMAIN u.queue :
             m < j + 1 /\ Tells(u.queue[m].frame, k) =>
               Older(u.queue[m].frame.val, u.queue[j + 1].frame.val)
    BY <1>4, <2>1 DEF QueueInOrder
  <2>3. ASSUME NEW m \in DOMAIN t.queue, m < j, Tells(t.queue[m].frame, k)
        PROVE  Older(t.queue[m].frame.val, t.queue[j].frame.val)
    <3>1. m + 1 \in DOMAIN u.queue /\ m + 1 < j + 1 /\ t.queue[m] = u.queue[m + 1]
      BY <1>2, <1>3, <2>3
    <3> QED BY <2>1, <2>2, <2>3, <3>1
  <2>4. Tells(g, k) => Older(g.val, u.queue[j + 1].frame.val)
    BY <2>1, <2>2 DEF g
  <2>5. \A x \in Value : Near(w, t, k, x) => Older(x, u.queue[j + 1].frame.val)
    BY <1>6, <2>2, <2>4
  <2> QED BY <2>1, <2>2, <2>3, <2>5
<1>9. SeedsInOrder(w, t, objs, last) /\ SeedsFresh(t, objs, props)
  BY <1>1 DEF SeedsInOrder, SeedsFresh
<1> QED BY <1>7, <1>8, <1>9 DEF InOrder

\* Whatever a running pump takes, all stays in order.
LEMMA ProceedInOrder ==
  ASSUME IInv, NEW s \in Subs, Proceed(s), Live(sub[s]), NEW w \in Page,
         NEW last \in [Key -> Value], OneEach(sub[s].seed_vectors, objects),
         InOrder(view[s], sub[s], objects, cache, last), Shows(view[s], sub[s], w),
         sub'[s] \in Subscription
  PROVE  InOrder(w, sub'[s], objects, cache, last)
<1>1. /\ sub \in [Subs -> Subscription] /\ sub[s] \in Subscription /\ view[s] \in Page
      /\ objects \in Objects /\ sub[s].seed_vectors \subseteq DOMAIN objects
  BY DEF IInv, SubsType, BrowserType, StoreType, SeedsType
<1>2. SeedFramesPlain(sub[s])
  BY DEF InOrder
<1>3. CASE SendPreamble(s)
  <2>1. /\ sub'[s] = [sub[s] EXCEPT !.preamble = Tail(@), !.pump = "sending",
                                     !.inflight = Head(sub[s].preamble)]
        /\ sub[s].preamble = <<HelloFrame>>
    BY <1>1, <1>3 DEF SendPreamble, Subscription
  <2>2. /\ sub'[s].inflight = HelloFrame /\ sub'[s].seed_vectors = sub[s].seed_vectors
        /\ sub'[s].queue = sub[s].queue /\ sub'[s].coalescible = sub[s].coalescible
        /\ sub'[s].seed_frames = sub[s].seed_frames
    BY <1>1, <2>1 DEF Subscription
  <2>3. TakesPlain(sub[s], sub'[s]) /\ SeedFramesPlain(sub'[s])
    BY <1>2, <2>2 DEF TakesPlain, Tells, HelloFrame, SeedFramesPlain
  <2> QED BY <1>1, <2>3, PlainInOrder
<1>4. CASE SendSeedVector(s)
  <2>1. PICK i \in sub[s].seed_vectors :
          sub'[s] = [sub[s] EXCEPT !.seed_vectors = @ \ {i}, !.pump = "sending",
                       !.inflight = VectorFrame("def", objects[i].key, objects[i].val)]
    BY <1>1, <1>4 DEF SendSeedVector
  <2>2. /\ sub'[s].inflight = VectorFrame("def", objects[i].key, objects[i].val)
        /\ sub'[s].seed_vectors = sub[s].seed_vectors \ {i}
        /\ sub'[s].queue = sub[s].queue /\ sub'[s].coalescible = sub[s].coalescible
        /\ sub'[s].seed_frames = sub[s].seed_frames
    BY <1>1, <2>1 DEF Subscription
  <2>3. TakesSeed(sub[s], sub'[s], objects) /\ SeedFramesPlain(sub'[s])
    BY <1>2, <2>2 DEF TakesSeed, SeedFramesPlain
  <2> QED BY <1>1, <2>3, SeedInOrder
<1>5. CASE SendSeedFrame(s)
  <2>1. /\ sub'[s] = [sub[s] EXCEPT !.seed_frames = Tail(@), !.pump = "sending",
                                     !.inflight = Head(sub[s].seed_frames)]
        /\ sub[s].seed_frames # <<>> /\ sub[s].seed_frames \in Seq(Frame)
    BY <1>1, <1>5 DEF SendSeedFrame, Subscription
  <2>2. /\ sub'[s].inflight = Head(sub[s].seed_frames)
        /\ sub'[s].seed_vectors = sub[s].seed_vectors
        /\ sub'[s].queue = sub[s].queue /\ sub'[s].coalescible = sub[s].coalescible
        /\ sub'[s].seed_frames = Tail(sub[s].seed_frames)
    BY <1>1, <2>1 DEF Subscription
  <2>3. PICK q \in Seq(Frame) : q = sub[s].seed_frames
    BY <2>1
  <2>4. Head(q) = q[1] /\ 1 \in DOMAIN q
        /\ \A j \in DOMAIN Tail(q) : j + 1 \in DOMAIN q /\ Tail(q)[j] = q[j + 1]
    BY <2>1, <2>3
  <2>5. \A k \in Key, j \in DOMAIN q : ~Tells(q[j], k)
    BY <1>2, <2>3 DEF SeedFramesPlain
  <2>6. \A k \in Key : ~Tells(Head(q), k) /\ \A j \in DOMAIN Tail(q) : ~Tells(Tail(q)[j], k)
    BY <2>4, <2>5
  <2>7. TakesPlain(sub[s], sub'[s]) /\ SeedFramesPlain(sub'[s])
    BY <2>2, <2>3, <2>6 DEF TakesPlain, SeedFramesPlain
  <2> QED BY <1>1, <2>7, PlainInOrder
<1>6. CASE SendQueued(s)
  <2> DEFINE p == Pop(sub[s])
  <2>1. /\ p \in Subscription /\ p.queue = Tail(sub[s].queue)
        /\ p.seed_vectors = sub[s].seed_vectors /\ p.seed_frames = sub[s].seed_frames
    BY <1>1, <1>6, PopType DEF SendQueued, Pop, Subscription
  <2>2. /\ sub'[s] = [p EXCEPT !.pump = "sending", !.inflight = Head(sub[s].queue).frame]
        /\ sub[s].seed_vectors = {} /\ sub[s].queue # <<>>
    BY <1>1, <1>6 DEF SendQueued, Seeded
  <2> HIDE DEF p
  <2>3. /\ sub'[s].inflight = Head(sub[s].queue).frame /\ sub'[s].queue = Tail(sub[s].queue)
        /\ sub'[s].seed_vectors = {} /\ sub'[s].seed_frames = sub[s].seed_frames
    BY <2>1, <2>2 DEF Subscription
  <2>4. TakesQueued(sub[s], sub'[s]) /\ SeedFramesPlain(sub'[s])
    BY <1>2, <2>2, <2>3 DEF TakesQueued, SeedFramesPlain
  <2> QED BY <1>1, <2>4, QueuedInOrder
<1>7. CASE AwaitReady(s)
  <2>1. sub'[s] = [sub[s] EXCEPT !.ready = FALSE, !.pump = "waiting", !.inflight = NoFrame]
    BY <1>1, <1>7 DEF AwaitReady
  <2>2. /\ sub'[s].inflight = NoFrame /\ sub'[s].seed_vectors = sub[s].seed_vectors
        /\ sub'[s].queue = sub[s].queue /\ sub'[s].coalescible = sub[s].coalescible
        /\ sub'[s].seed_frames = sub[s].seed_frames
    BY <1>1, <2>1 DEF Subscription
  <2>3. TakesPlain(sub[s], sub'[s]) /\ SeedFramesPlain(sub'[s])
    BY <1>2, <2>2 DEF TakesPlain, Tells, NoFrame, SeedFramesPlain
  <2> QED BY <1>1, <2>3, PlainInOrder
<1> QED BY <1>3, <1>4, <1>5, <1>6, <1>7 DEF Proceed

-----------------------------------------------------------------------------
(* The store grows newer.                                                  *)

\* The newest value of each property is one, and no newer than the clock allows.
LEMMA NewestType ==
  ASSUME NEW objs \in Objects, NEW props \in Dict(DOMAIN objs), NEW now \in Nat
  PROVE  NewestOf(objs, props, now) \in [Key -> Value]
<1>1. \A k \in Key : props[k] # None => objs[props[k]].val \in Value
  <2> TAKE k \in Key
  <2>1. props[k] # None => props[k] \in DOMAIN objs
    BY DEF Dict
  <2> QED BY <2>1, SeedKeys
<1>2. [a \in Fields |-> now] \in Value
  BY DEF Value
<1> QED BY <1>1, <1>2 DEF NewestOf

\* What a step does to the store: each property is gone, the same object and no
\* older, or newer than everything.
Renewed(objs, objs2, props, props2, now) ==
  \A k \in Key :
    \/ props2[k] = None
    \/ /\ props[k] # None /\ props2[k] = props[k]
       /\ Older(objs[props[k]].val, objs2[props2[k]].val)
    \/ props2[k] # None /\ \A a \in Fields : now <= objs2[props2[k]].val[a]

LEMMA NewestGrows ==
  ASSUME NEW objs \in Objects, NEW props \in Dict(DOMAIN objs), NEW now \in Nat,
         NEW objs2 \in Objects, NEW props2 \in Dict(DOMAIN objs2), NEW now2 \in Nat,
         now <= now2, \A i \in DOMAIN objs, a \in Fields : objs[i].val[a] <= now,
         Renewed(objs, objs2, props, props2, now)
  PROVE  \A k \in Key : Older(NewestOf(objs, props, now)[k], NewestOf(objs2, props2, now2)[k])
<1> DEFINE last == NewestOf(objs, props, now)
           last2 == NewestOf(objs2, props2, now2)
<1> SUFFICES ASSUME NEW k \in Key PROVE Older(last[k], last2[k])
  OBVIOUS
<1>1. /\ props[k] = None => last[k] = [a \in Fields |-> now]
      /\ props[k] # None => last[k] = objs[props[k]].val
      /\ props2[k] = None => last2[k] = [a \in Fields |-> now2]
      /\ props2[k] # None => last2[k] = objs2[props2[k]].val
  BY DEF NewestOf
<1>2. last \in [Key -> Value] /\ last2 \in [Key -> Value]
  BY NewestType
<1> HIDE DEF last, last2
<1>3. \A a \in Fields : last[k][a] \in Nat /\ last2[k][a] \in Nat
  BY <1>2 DEF Value
<1>4. \A a \in Fields : last[k][a] <= now
  <2>1. props[k] # None => props[k] \in DOMAIN objs
    BY DEF Dict
  <2> QED BY <1>1, <2>1
<1>5. CASE props2[k] = None
  BY <1>1, <1>3, <1>4, <1>5 DEF Older
<1>6. CASE /\ props[k] # None /\ props2[k] = props[k]
           /\ Older(objs[props[k]].val, objs2[props2[k]].val)
  BY <1>1, <1>6
<1>7. CASE props2[k] # None /\ \A a \in Fields : now <= objs2[props2[k]].val[a]
  <2>1. \A a \in Fields : now <= last2[k][a]
    BY <1>1, <1>7
  <2> QED BY <1>3, <1>4, <2>1 DEF Older
<1> QED BY <1>5, <1>6, <1>7 DEF Renewed

\* Without a subscriber that suspends, the bridge is told at once.
LEMMA ToldAtOnce ==
  ASSUME ~SlowSubscribers, NEW e \in Event, NEW objs \in Objects, NEW props \in Dict(DOMAIN objs),
         e.type \in {"def", "set"} => props[<<e.dev, e.name>>] # None,
         Dispatch(e, objs, props)
  PROVE  /\ Broadcast(FrameOf(e, objs, props), KeyOf(e), GoneOf(e))
         /\ Fitting(FrameOf(e, objs, props), KeyOf(e), GoneOf(e))
         /\ pending' = pending
<1>1. OnCallback(e, objs, props) /\ pending' = pending
  BY DEF Dispatch
<1> QED BY <1>1, OnCallbackIs

\* A step that tells every browser a frame, and what the frame says of the store.
LEMMA EventInOrder ==
  ASSUME IInv, IInv', Registered, Forwards, Dated', PendingPlain', UNCHANGED browser,
         NEW f, NEW kk, NEW gone,
         Fitting(f, kk, gone), Folding(f, kk, gone), Broadcast(f, kk, gone),
         clock <= clock', Renewed(objects, objects', cache, cache', clock),
         \A k \in Key : Tells(f, k) => f.val = Newest'[k],
         \A i \in DOMAIN objects :
           /\ objects'[i].key = objects[i].key
           /\ \/ objects'[i].val = objects[i].val
              \/ /\ Sets(f, objects[i].key) /\ cache[objects[i].key] = i
                 /\ objects'[i].val = Newest'[objects[i].key]
           /\ cache'[objects[i].key] = i =>
                /\ cache[objects[i].key] = i /\ objects[i].key \notin gone
                /\ Tells(f, objects[i].key) => Sets(f, objects[i].key)
  PROVE  Forwards'
<1>1. /\ objects \in Objects /\ cache \in Dict(DOMAIN objects) /\ clock \in Nat
      /\ objects' \in Objects /\ cache' \in Dict(DOMAIN objects') /\ clock' \in Nat
  BY DEF IInv, StoreType
<1>2. Newest \in [Key -> Value] /\ Newest' \in [Key -> Value]
  BY <1>1, NewestType DEF Newest
<1>3. \A k \in Key : Older(Newest[k], Newest'[k])
  <2>1. \A i \in DOMAIN objects, a \in Fields : objects[i].val[a] <= clock
    BY DEF Forwards, Dated
  <2> QED BY <1>1, <2>1, NewestGrows DEF Newest
<1>4. LiveRegistered
  BY DEF Forwards
<1>5. ASSUME NEW s \in Subs
      PROVE  InOrder(view'[s], sub'[s], objects', cache', Newest') /\ (Live(sub'[s]) => s \in subs')
  <2>1. InOrder(view[s], sub[s], objects, cache, Newest)
    BY DEF Forwards, AllInOrder
  <2>2. sub'[s] \in Subscription /\ sub[s].seed_vectors \subseteq DOMAIN objects
    BY DEF IInv, SubsType, SeedsType
  <2>3. PICK last \in [Key -> Value], last2 \in [Key -> Value], objs \in Objects, props \in Dict(DOMAIN objects') :
          last = Newest /\ last2 = Newest' /\ objs = objects' /\ props = cache'
    BY <1>1, <1>2
  <2>4. Follows(f, sub[s].seed_vectors, objects, objs, cache, props, last2)
    BY <2>2, <2>3 DEF Follows
  <2>5. \A i \in sub[s].seed_vectors : props[objects[i].key] = i => objects[i].key \notin gone
    BY <2>2, <2>3
  <2>6. InOrder(view'[s], sub'[s], objs, props, last2) /\ (Live(sub'[s]) => s \in subs')
    BY <1>1, <1>3, <1>4, <2>1, <2>2, <2>3, <2>4, <2>5, BroadcastInOrder
  <2> QED BY <2>3, <2>6
<1> QED BY <1>5 DEF Forwards, LiveRegistered, AllInOrder

\* As time passes all that is in the store is as new as it was.
LEMMA LaterStore ==
  ASSUME IInv, IInv', Forwards, UNCHANGED <<objects, cache>>, clock <= clock'
  PROVE  /\ Newest \in [Key -> Value] /\ Newest' \in [Key -> Value] /\ Dated'
         /\ \A k \in Key : Older(Newest[k], Newest'[k])
<1>1. /\ objects \in Objects /\ cache \in Dict(DOMAIN objects) /\ clock \in Nat /\ clock' \in Nat
  BY DEF IInv, StoreType
<1>2. Newest = NewestOf(objects, cache, clock) /\ Newest' = NewestOf(objects, cache, clock')
  BY DEF Newest
<1>3. Newest \in [Key -> Value] /\ Newest' \in [Key -> Value]
  BY <1>1, <1>2, NewestType
<1>4. \A i \in DOMAIN objects, a \in Fields : objects[i].val[a] \in Nat /\ objects[i].val[a] <= clock
  BY <1>1, SeedKeys DEF Forwards, Dated, Value
<1>5. \A k \in Key : Older(Newest[k], Newest'[k])
  <2>1. Renewed(objects, objects, cache, cache, clock)
    <3>1. \A k \in Key : cache[k] # None => objects[cache[k]].val \in Value
      BY <1>1, SeedKeys DEF Dict
    <3> QED BY <3>1, OlderOrder DEF Renewed
  <2> QED BY <1>1, <1>2, <1>4, <2>1, NewestGrows
<1>6. Dated'
  BY <1>1, <1>4 DEF Dated
<1> QED BY <1>3, <1>5, <1>6

\* Nothing is told and the store only grows older: everything stays in order.
LEMMA QuietInOrder ==
  ASSUME IInv, IInv', Forwards, PendingPlain', UNCHANGED <<objects, cache>>, clock <= clock',
         \A s \in Subs :
           /\ view'[s].props = view[s].props
           /\ \/ Rest(sub'[s]) = Rest(sub[s])
              \/ ~Live(sub'[s]) /\ sub'[s].inflight \in {sub[s].inflight, NoFrame}
           /\ Live(sub'[s]) => /\ Live(sub[s]) /\ sub'[s].queue = sub[s].queue
                               /\ sub'[s].coalescible = sub[s].coalescible
                               /\ s \in subs => s \in subs'
  PROVE  Forwards'
<1>1. /\ objects \in Objects /\ cache \in Dict(DOMAIN objects) /\ clock \in Nat /\ clock' \in Nat
      /\ \A s \in Subs : /\ sub[s] \in Subscription /\ sub'[s] \in Subscription
                         /\ view[s] \in Page /\ view'[s] \in Page
                         /\ sub[s].seed_vectors \subseteq DOMAIN objects
  BY DEF IInv, StoreType, SubsType, BrowserType, SeedsType
<1>3. /\ Newest \in [Key -> Value] /\ Newest' \in [Key -> Value] /\ Dated'
      /\ \A k \in Key : Older(Newest[k], Newest'[k])
  BY LaterStore
<1>7. ASSUME NEW s \in Subs
      PROVE  InOrder(view'[s], sub'[s], objects', cache', Newest')
  <2>1. InOrder(view[s], sub[s], objects, cache, Newest)
    BY DEF Forwards, AllInOrder
  <2>2. PICK last \in [Key -> Value], last2 \in [Key -> Value],
             u \in Subscription, t \in Subscription, v \in Page, w \in Page,
             objs \in Objects, props \in Dict(DOMAIN objects) :
          /\ last = Newest /\ last2 = Newest' /\ u = sub[s] /\ t = sub'[s]
          /\ objs = objects /\ props = cache
          /\ v = view[s] /\ w = view'[s]
    BY <1>1, <1>3
  <2>3. /\ InOrder(v, u, objs, props, last) /\ w.props = v.props
        /\ Rest(t) = Rest(u) \/ (~Live(t) /\ t.inflight \in {u.inflight, NoFrame})
        /\ Live(t) => Live(u) /\ t.queue = u.queue /\ t.coalescible = u.coalescible
        /\ u.seed_vectors \subseteq DOMAIN objs
    BY <1>1, <2>1, <2>2
  <2>4. \A k \in Key : Older(last[k], last2[k])
    BY <1>3, <2>2
  <2>5. InOrder(w, t, objs, props, last2)
    BY <2>3, <2>4, StaysInOrder
  <2> QED BY <2>2, <2>5
<1>8. LiveRegistered'
  BY DEF Forwards, LiveRegistered
<1> QED BY <1>3, <1>7, <1>8 DEF Forwards, AllInOrder

-----------------------------------------------------------------------------
(* The steps of the upstream.                                              *)

\* A definition: a new object, newer than all there is.
LEMMA DefInOrder ==
  ASSUME ~SlowSubscribers, IInv, IInv', Registered, Forwards, NEW k \in Key, ReceiveDef(k)
  PROVE  Forwards'
<1> DEFINE e == PropertyEvent("def", k[1], k[2])
           val == [a \in Fields |-> clock + 1]
<1>1. /\ pending = NoEvent /\ UNCHANGED browser
      /\ val \in Value /\ e \in Event /\ <<e.dev, e.name>> = k
      /\ objects' \in Objects /\ cache' \in Dict(DOMAIN objects') /\ cache'[k] # None
      /\ Dispatch(e, objects', cache')
      /\ FrameOf(e, objects', cache') = VectorFrame("def", k, val)
      /\ \A i \in DOMAIN objects : i \in DOMAIN objects' /\ objects'[i] = objects[i]
      /\ objects'[cache'[k]].val = val
      /\ \A j \in Key : j # k => cache'[j] = cache[j]
  BY DefShape
<1>2. /\ clock' = clock + 1 /\ cache' = [cache EXCEPT ![k] = Len(objects) + 1]
      /\ objects' = Append(objects, [key |-> k, val |-> val])
  BY DEF ReceiveDef, Tick
<1>3. /\ objects \in Objects /\ cache \in Dict(DOMAIN objects) /\ clock \in Nat
  BY DEF IInv, StoreType
<1>4. /\ DOMAIN objects = 1..Len(objects) /\ Len(objects) \in Nat
      /\ DOMAIN objects' = DOMAIN objects \cup {Len(objects) + 1}
      /\ cache'[k] = Len(objects) + 1
  BY <1>2, <1>3 DEF Objects, Dict
<1>5. \A a \in Fields : val[a] = clock + 1
  OBVIOUS
<1>6. e.type = "def"
  BY EventKinds
<1> HIDE DEF e, val
<1>7. PICK g : g = FrameOf(e, objects', cache')
  OBVIOUS
<1>8. Broadcast(g, None, {k}) /\ Fitting(g, None, {k}) /\ pending' = pending
  <2>1. KeyOf(e) = None /\ GoneOf(e) = {k}
    BY <1>1, <1>6 DEF KeyOf, GoneOf
  <2>2. /\ Broadcast(FrameOf(e, objects', cache'), KeyOf(e), GoneOf(e))
        /\ Fitting(FrameOf(e, objects', cache'), KeyOf(e), GoneOf(e))
        /\ pending' = pending
    BY <1>1, ToldAtOnce
  <2> QED BY <1>7, <2>1, <2>2
<1>9. g.tag = "def" /\ g.key = k /\ g.val = val
  BY <1>1, <1>7 DEF VectorFrame
<1>10. Folding(g, None, {k})
  BY <1>8, <1>9, BridgeAssumption DEF Folding, Fitting, Sets
<1>11. Dated'
  <2> SUFFICES ASSUME NEW i \in DOMAIN objects', NEW a \in Fields
               PROVE  objects'[i].val[a] <= clock'
    BY DEF Dated
  <2>1. CASE i \in DOMAIN objects
    <3>1. objects[i].val[a] <= clock /\ objects[i].val[a] \in Nat
      BY <1>3, <2>1, SeedKeys DEF Forwards, Dated, Value
    <3> QED BY <1>1, <1>2, <1>3, <2>1, <3>1
  <2>2. CASE i = Len(objects) + 1
    BY <1>1, <1>2, <1>3, <1>4, <1>5, <2>2
  <2> QED BY <1>4, <2>1, <2>2
<1>12. PendingPlain'
  BY <1>1, <1>8 DEF PendingPlain
<1>13. Renewed(objects, objects', cache, cache', clock)
  <2> SUFFICES ASSUME NEW j \in Key, cache'[j] # None
               PROVE  \/ /\ cache[j] # None /\ cache'[j] = cache[j]
                         /\ Older(objects[cache[j]].val, objects'[cache'[j]].val)
                      \/ \A a \in Fields : clock <= objects'[cache'[j]].val[a]
    BY DEF Renewed
  <2>1. CASE j = k
    BY <1>1, <1>3, <1>5, <2>1
  <2>2. CASE j # k
    <3>1. cache'[j] = cache[j] /\ cache[j] \in DOMAIN objects
      BY <1>1, <1>3, <2>2 DEF Dict
    <3>2. objects[cache[j]].val \in Value /\ objects'[cache'[j]] = objects[cache[j]]
      BY <1>1, <1>3, <3>1, SeedKeys
    <3> QED BY <3>1, <3>2, OlderOrder
  <2> QED BY <2>1, <2>2
<1>14. \A j \in Key : Tells(g, j) => g.val = Newest'[j]
  BY <1>1, <1>9 DEF Tells, Newest, NewestOf
<1>15. \A i \in DOMAIN objects :
           /\ objects'[i].key = objects[i].key
           /\ \/ objects'[i].val = objects[i].val
              \/ /\ Sets(g, objects[i].key) /\ cache[objects[i].key] = i
                 /\ objects'[i].val = Newest'[objects[i].key]
           /\ cache'[objects[i].key] = i =>
                /\ cache[objects[i].key] = i /\ objects[i].key \notin {k}
                /\ Tells(g, objects[i].key) => Sets(g, objects[i].key)
  <2> TAKE i \in DOMAIN objects
  <2>1. objects'[i] = objects[i] /\ objects[i].key \in Key /\ i # Len(objects) + 1
    BY <1>1, <1>3, <1>4, SeedKeys
  <2>2. ASSUME cache'[objects[i].key] = i
        PROVE  cache[objects[i].key] = i /\ objects[i].key # k
    BY <1>1, <1>4, <2>1, <2>2
  <2> QED BY <1>9, <2>1, <2>2 DEF Tells
<1>16. clock <= clock'
  BY <1>2, <1>3
<1> HIDE DEF IInv, Registered, Forwards
<1> QED BY <1>1, <1>8, <1>10, <1>11, <1>12, <1>13, <1>14, <1>15, <1>16, EventInOrder

\* A set: some fields of the cached object are newer than all there is.
LEMMA SetInOrder ==
  ASSUME ~SlowSubscribers, IInv, IInv', Keyed, Registered, Forwards, NEW k \in Key, NEW carried,
         ReceiveSet(k, carried)
  PROVE  Forwards'
<1> DEFINE e == PropertyEvent("set", k[1], k[2])
           val == objects'[cache[k]].val
           n == cache[k]
<1>1. /\ pending = NoEvent /\ UNCHANGED <<cache, browser>>
      /\ val \in Value /\ e \in Event /\ <<e.dev, e.name>> = k
      /\ objects' \in Objects /\ cache' \in Dict(DOMAIN objects') /\ cache[k] # None
      /\ Dispatch(e, objects', cache')
      /\ FrameOf(e, objects', cache') = VectorFrame("set", k, val)
      /\ DOMAIN objects' = DOMAIN objects
      /\ \A i \in DOMAIN objects : /\ objects'[i].key = objects[i].key
                                   /\ i # n => objects'[i] = objects[i]
  BY SetShape
<1>2. /\ objects \in Objects /\ cache \in Dict(DOMAIN objects) /\ clock \in Nat
      /\ n \in DOMAIN objects /\ objects[n].val \in Value /\ objects[n].key = k
  <2>1. objects \in Objects /\ cache \in Dict(DOMAIN objects) /\ clock \in Nat
    BY DEF IInv, StoreType
  <2>2. n \in DOMAIN objects
    BY <1>1, <2>1 DEF Dict
  <2>3. k \in Held(cache)
    BY <1>1 DEF Held
  <2>4. objects[n].key = k
    BY <2>3 DEF Keyed
  <2> QED BY <2>1, <2>2, <2>4, SeedKeys
<1>3. /\ clock' = clock + 1
      /\ val = [a \in Fields |-> IF a \in carried THEN clock + 1 ELSE objects[n].val[a]]
  <2>1. /\ objects' = [objects EXCEPT ![n].val =
                        [a \in Fields |-> IF a \in carried THEN clock + 1 ELSE @[a]]]
        /\ clock' = clock + 1
    BY DEF ReceiveSet, Tick
  <2>2. objects[n] \in [key : Key, val : Value]
    BY <1>2, ElementOfSeq, NoneIsNoIndex DEF Objects
  <2> QED BY <1>2, <2>1, <2>2
<1>4. e.type = "set"
  BY EventKinds
<1>5. \A a \in Fields : val[a] \in {clock + 1, objects[n].val[a]} /\ objects[n].val[a] \in Nat
                        /\ objects[n].val[a] <= clock
  BY <1>2, <1>3 DEF Value, Forwards, Dated
<1> HIDE DEF e, val, n
<1>6. PICK g : g = FrameOf(e, objects', cache')
  OBVIOUS
<1>7. Broadcast(g, k, {}) /\ Fitting(g, k, {}) /\ pending' = pending
  <2>1. KeyOf(e) = k /\ GoneOf(e) = {}
    BY <1>1, <1>4 DEF KeyOf, GoneOf
  <2>2. e.type \in {"def", "set"} => cache'[<<e.dev, e.name>>] # None
    BY <1>1
  <2>3. /\ Broadcast(FrameOf(e, objects', cache'), KeyOf(e), GoneOf(e))
        /\ Fitting(FrameOf(e, objects', cache'), KeyOf(e), GoneOf(e))
        /\ pending' = pending
    BY <1>1, <2>2, ToldAtOnce
  <2> QED BY <1>6, <2>1, <2>3
<1>8. g.tag = "set" /\ g.key = k /\ g.val = val
  BY <1>1, <1>6 DEF VectorFrame
<1>9. Folding(g, k, {})
  BY <1>7, <1>8 DEF Folding, Fitting, Sets
<1>10. Older(objects[n].val, val) /\ \A a \in Fields : val[a] \in Nat /\ val[a] <= clock'
  BY <1>2, <1>3, <1>5 DEF Older
<1>11. objects'[n].val = val
  BY DEF val, n
<1>12. Dated'
  <2> SUFFICES ASSUME NEW i \in DOMAIN objects, NEW a \in Fields
               PROVE  objects'[i].val[a] <= clock'
    BY <1>1 DEF Dated
  <2>1. CASE i # n
    <3>1. objects[i].val[a] <= clock /\ objects[i].val[a] \in Nat
      BY <1>2, SeedKeys DEF Forwards, Dated, Value
    <3> QED BY <1>1, <1>2, <1>3, <2>1, <3>1
  <2>2. CASE i = n
    BY <1>10, <1>11, <2>2
  <2> QED BY <2>1, <2>2
<1>13. PendingPlain'
  BY <1>1, <1>7 DEF PendingPlain
<1>14. Renewed(objects, objects', cache, cache', clock)
  <2> SUFFICES ASSUME NEW j \in Key, cache[j] # None
               PROVE  Older(objects[cache[j]].val, objects'[cache[j]].val)
    BY <1>1 DEF Renewed
  <2>1. cache[j] \in DOMAIN objects
    BY <1>2 DEF Dict
  <2>2. CASE cache[j] = n
    BY <1>10, <1>11, <2>2
  <2>3. CASE cache[j] # n
    <3>1. objects[cache[j]].val \in Value /\ objects'[cache[j]] = objects[cache[j]]
      BY <1>1, <1>2, <2>1, <2>3, SeedKeys
    <3> QED BY <3>1, OlderOrder
  <2> QED BY <2>2, <2>3
<1>15. Newest'[k] = val
  BY <1>1, <1>11 DEF Newest, NewestOf, n
<1>16. \A j \in Key : Tells(g, j) => g.val = Newest'[j]
  BY <1>8, <1>15 DEF Tells
<1>17. \A i \in DOMAIN objects :
           /\ objects'[i].key = objects[i].key
           /\ \/ objects'[i].val = objects[i].val
              \/ /\ Sets(g, objects[i].key) /\ cache[objects[i].key] = i
                 /\ objects'[i].val = Newest'[objects[i].key]
           /\ cache'[objects[i].key] = i =>
                /\ cache[objects[i].key] = i /\ objects[i].key \notin {}
                /\ Tells(g, objects[i].key) => Sets(g, objects[i].key)
  <2> TAKE i \in DOMAIN objects
  <2>1. CASE i = n
    BY <1>1, <1>2, <1>8, <1>11, <1>15, <2>1 DEF Tells, Sets, n
  <2>2. CASE i # n
    BY <1>1, <1>8, <2>2 DEF Tells, Sets
  <2> QED BY <2>1, <2>2
<1>18. clock <= clock'
  BY <1>2, <1>3
<1> HIDE DEF IInv, Registered, Forwards
<1> QED BY <1>1, <1>7, <1>9, <1>12, <1>13, <1>14, <1>16, <1>17, <1>18, EventInOrder

\* A frame that says nothing of a value, while no object changes and none is cached anew.
LEMMA PlainEventInOrder ==
  ASSUME IInv, IInv', Registered, Forwards, PendingPlain', UNCHANGED <<objects, browser>>,
         clock <= clock',
         NEW g \in Frame, g.tag \notin {"def", "set"}, NEW gone,
         Fitting(g, None, gone), Broadcast(g, None, gone),
         \A j \in Key : cache'[j] = IF j \in gone THEN None ELSE cache[j]
  PROVE  Forwards'
<1>1. /\ objects \in Objects /\ cache \in Dict(DOMAIN objects) /\ clock \in Nat /\ clock' \in Nat
  BY DEF IInv, StoreType
<1>2. Dated'
  <2> SUFFICES ASSUME NEW i \in DOMAIN objects, NEW a \in Fields
               PROVE  objects[i].val[a] <= clock'
    BY DEF Dated
  <2>1. objects[i].val[a] <= clock /\ objects[i].val[a] \in Nat
    BY <1>1, SeedKeys DEF Forwards, Dated, Value
  <2> QED BY <1>1, <2>1
<1>3. \A j \in Key : ~Tells(g, j) /\ ~Sets(g, j) /\ j # None
  BY BridgeAssumption DEF Tells, Sets
<1>4. Folding(g, None, gone)
  BY <1>3 DEF Folding, Fitting
<1>5. Renewed(objects, objects', cache, cache', clock)
  <2> SUFFICES ASSUME NEW j \in Key, cache'[j] # None
               PROVE  /\ cache[j] # None /\ cache'[j] = cache[j]
                      /\ Older(objects[cache[j]].val, objects'[cache'[j]].val)
    BY DEF Renewed
  <2>1. cache'[j] = cache[j] /\ cache[j] \in DOMAIN objects
    BY <1>1 DEF Dict
  <2>2. objects[cache[j]].val \in Value
    BY <1>1, <2>1, SeedKeys
  <2> QED BY <2>1, <2>2, OlderOrder
<1>6. \A j \in Key : Tells(g, j) => g.val = Newest'[j]
  BY <1>3
<1>7. \A i \in DOMAIN objects :
           /\ objects'[i].key = objects[i].key
           /\ \/ objects'[i].val = objects[i].val
              \/ /\ Sets(g, objects[i].key) /\ cache[objects[i].key] = i
                 /\ objects'[i].val = Newest'[objects[i].key]
           /\ cache'[objects[i].key] = i =>
                /\ cache[objects[i].key] = i /\ objects[i].key \notin gone
                /\ Tells(g, objects[i].key) => Sets(g, objects[i].key)
  <2> TAKE i \in DOMAIN objects
  <2>1. objects[i].key \in Key /\ i # None
    BY <1>1, SeedKeys, NoneIsNoIndex
  <2>2. ASSUME cache'[objects[i].key] = i
        PROVE  cache[objects[i].key] = i /\ objects[i].key \notin gone
    BY <2>1, <2>2
  <2> QED BY <1>3, <2>1, <2>2
<1> HIDE DEF IInv, Registered, Forwards
<1> QED BY <1>2, <1>4, <1>5, <1>6, <1>7, EventInOrder

\* A deletion, ...
LEMMA DelInOrder ==
  ASSUME ~SlowSubscribers, IInv, IInv', Registered, Forwards,
         NEW d \in Devices, NEW n \in Names \cup {None}, ReceiveDel(d, n)
  PROVE  Forwards'
<1> DEFINE e == PropertyEvent("del", d, n)
<1>1. /\ pending = NoEvent /\ UNCHANGED <<objects, browser>>
      /\ e \in Event /\ e.type = "del" /\ e.dev = d /\ e.name = n
      /\ objects \in Objects /\ cache' \in Dict(DOMAIN objects)
      /\ Dispatch(e, objects', cache')
      /\ FrameOf(e, objects', cache') = DelFrame(d, n)
      /\ \A j \in Key : cache'[j] = IF j \in DelKeys(d, n) THEN None ELSE cache[j]
  BY DelShape
<1>2. clock' = clock + 1 /\ clock \in Nat
  BY DEF ReceiveDel, Tick, IInv, StoreType
<1> HIDE DEF e
<1>3. PICK g : g = FrameOf(e, objects', cache')
  OBVIOUS
<1>4. PICK gone : gone = DelKeys(d, n)
  OBVIOUS
<1>5. Broadcast(g, None, gone) /\ Fitting(g, None, gone) /\ pending' = pending
  <2>1. KeyOf(e) = None /\ GoneOf(e) = gone
    BY <1>1, <1>4 DEF KeyOf, GoneOf
  <2>2. /\ Broadcast(FrameOf(e, objects', cache'), KeyOf(e), GoneOf(e))
        /\ Fitting(FrameOf(e, objects', cache'), KeyOf(e), GoneOf(e))
        /\ pending' = pending
    BY <1>1, ToldAtOnce
  <2> QED BY <1>3, <2>1, <2>2
<1>6. g \in Frame /\ g.tag \notin {"def", "set"}
  BY <1>1, <1>3, <1>5 DEF DelFrame, Fitting
<1>7. PendingPlain'
  BY <1>1, <1>5 DEF PendingPlain
<1>8. clock <= clock'
  BY <1>2
<1> HIDE DEF IInv, Registered, Forwards
<1> QED BY <1>1, <1>4, <1>5, <1>6, <1>7, <1>8, PlainEventInOrder

\* ... a message, ...
LEMMA MessageInOrder ==
  ASSUME IInv, IInv', HistoryTail, Registered, Forwards, ReceiveMessage
  PROVE  Forwards'
<1>1. /\ UNCHANGED <<objects, cache, pending, browser>> /\ pending = NoEvent
      /\ MessageFrame(logged + 1) \in Frame /\ Broadcast(MessageFrame(logged + 1), None, {})
  BY MessageShape
<1>2. PICK g : g = MessageFrame(logged + 1)
  OBVIOUS
<1>3. g.tag \notin {"def", "set", "del"} /\ g \in Frame /\ Broadcast(g, None, {})
  BY <1>1, <1>2 DEF MessageFrame
<1>4. Fitting(g, None, {})
  BY <1>3 DEF Fitting, Concerns
<1>5. clock <= clock' /\ PendingPlain'
  <2>1. clock' = clock + 1 /\ clock \in Nat
    BY DEF ReceiveMessage, Tick, IInv, StoreType
  <2> QED BY <1>1, <2>1 DEF PendingPlain
<1> HIDE DEF IInv, Registered, Forwards
<1> QED BY <1>1, <1>3, <1>4, <1>5, PlainEventInOrder

\* ... and the state of the link say nothing of a value.
LEMMA ConnectionInOrder ==
  ASSUME IInv, IInv', Registered, Forwards, NEW e \in Event, e.type = "connection",
         OnCallback(e, objects', cache'), PendingPlain', UNCHANGED <<objects, cache, browser>>,
         clock <= clock'
  PROVE  Forwards'
<1>1. objects' \in Objects /\ cache' \in Dict(DOMAIN objects')
  BY DEF IInv, StoreType
<1>2. /\ Broadcast(FrameOf(e, objects', cache'), KeyOf(e), GoneOf(e))
      /\ Fitting(FrameOf(e, objects', cache'), KeyOf(e), GoneOf(e))
  BY <1>1, OnCallbackIs
<1>3. PICK g : g = FrameOf(e, objects', cache')
  OBVIOUS
<1>4. KeyOf(e) = None /\ GoneOf(e) = {} /\ g.tag = "connection"
  BY <1>3 DEF KeyOf, GoneOf, FrameOf, ConnectionFrame
<1>5. /\ Broadcast(g, None, {}) /\ Fitting(g, None, {}) /\ g \in Frame
      /\ g.tag \notin {"def", "set"}
  BY <1>2, <1>3, <1>4 DEF Fitting
<1> HIDE DEF IInv, Registered, Forwards
<1> QED BY <1>5, PlainEventInOrder

\* Whatever the upstream does, no page will be told anything older.
LEMMA UpstreamInOrder ==
  ASSUME ~SlowSubscribers, IInv, IInv', Orderly, Forwards, Upstream \/ OnEvent
  PROVE  Forwards'
<1>1. Keyed /\ HistoryTail /\ Registered /\ clock \in Nat /\ pending \in Event \cup {NoEvent}
  BY DEF Orderly, IInv, StoreType
<1>2. ASSUME NEW k \in Key, ReceiveDef(k) PROVE Forwards'
  BY <1>1, <1>2, DefInOrder
<1>3. ASSUME NEW k \in Key, NEW carried, ReceiveSet(k, carried) PROVE Forwards'
  BY <1>1, <1>3, SetInOrder
<1>4. ASSUME NEW d \in Devices, NEW n \in Names \cup {None}, ReceiveDel(d, n) PROVE Forwards'
  BY <1>1, <1>4, DelInOrder
<1>5. CASE ReceiveMessage
  BY <1>1, <1>5, MessageInOrder
<1>6. CASE UpstreamUp
  <2>1. PICK e : e = ConnectionEvent(TRUE)
    OBVIOUS
  <2>2. e \in Event /\ e.type = "connection"
    BY <2>1, EventTypes, EventKinds
  <2>3. /\ OnCallback(e, objects, cache) /\ pending' = pending
        /\ UNCHANGED <<objects, cache, browser>> /\ clock' = clock + 1
    BY <1>6, <2>1 DEF UpstreamUp, Dispatch, Tick
  <2>4. OnCallback(e, objects', cache') /\ clock <= clock' /\ PendingPlain'
    BY <1>1, <2>3 DEF Forwards, PendingPlain
  <2> QED BY <1>1, <2>2, <2>3, <2>4, ConnectionInOrder
<1>7. CASE UpstreamDown
  <2>1. /\ UNCHANGED <<objects, cache, sub, subs, browser>> /\ clock' = clock + 1
        /\ pending' = ConnectionEvent(FALSE)
    BY <1>7 DEF UpstreamDown, Tick
  <2>2. PendingPlain'
    BY <2>1, EventKinds DEF PendingPlain
  <2>4. clock <= clock'
    BY <1>1, <2>1
  <2>3. \A s \in Subs : sub'[s] = sub[s] /\ view'[s] = view[s]
    BY <2>1 DEF browser
  <2> QED BY <2>1, <2>2, <2>3, <2>4, QuietInOrder
<1>8. CASE OnEvent
  <2>1. /\ pending # NoEvent /\ OnCallback(pending, objects, cache) /\ pending' = NoEvent
        /\ UNCHANGED <<objects, cache, clock, browser>>
    BY <1>8 DEF OnEvent
  <2>2. PICK e : e = pending
    OBVIOUS
  <2>3. e \in Event /\ e.type = "connection" /\ OnCallback(e, objects', cache')
    BY <1>1, <2>1, <2>2 DEF Forwards, PendingPlain
  <2>4. clock <= clock' /\ PendingPlain'
    BY <1>1, <2>1 DEF PendingPlain
  <2> QED BY <1>1, <2>1, <2>3, <2>4, ConnectionInOrder
<1> QED BY <1>2, <1>3, <1>4, <1>5, <1>6, <1>7, <1>8 DEF Upstream

-----------------------------------------------------------------------------
(* The steps of one browser.                                               *)

\* While the store stays as it is, only the browser that moves has anything to keep.
LEMMA OneInOrder ==
  ASSUME IInv, Forwards, NEW s \in Subs, UNCHANGED <<objects, cache, pending, clock>>,
         \A r \in Subs : r # s => sub'[r] = sub[r] /\ view'[r] = view[r],
         \A r \in subs : r # s => r \in subs',
         Live(sub'[s]) => s \in subs',
         InOrder(view'[s], sub'[s], objects, cache, Newest)
  PROVE  Forwards'
<1>1. Newest' = Newest
  BY DEF Newest, NewestOf
<1>2. AllInOrder'
  <2> SUFFICES ASSUME NEW r \in Subs
               PROVE  InOrder(view'[r], sub'[r], objects, cache, Newest)
    BY <1>1 DEF AllInOrder
  <2>1. InOrder(view[r], sub[r], objects, cache, Newest)
    BY DEF Forwards, AllInOrder
  <2> QED BY <2>1
<1>3. LiveRegistered'
  BY DEF Forwards, LiveRegistered
<1>4. Dated' /\ PendingPlain'
  BY DEF Forwards, Dated, PendingPlain
<1> QED BY <1>2, <1>3, <1>4 DEF Forwards

\* What a page shows after a frame, it had or was being sent.
LEMMA ShowShows ==
  ASSUME NEW v \in Page, NEW u \in Subscription
  PROVE  Shows(v, u, v) /\ Shows(v, u, Show(v, u.inflight))
<1>1. \A x \in Value : x # None
  BY BridgeAssumption DEF Value
<1>2. u.inflight \in Frame \cup {NoFrame}
  BY DEF Subscription
<1>3. Shows(v, u, v)
  BY DEF Shows, Near
<1>4. Shows(v, u, Show(v, u.inflight))
  <2> SUFFICES ASSUME NEW k \in Key, NEW x \in Value, Show(v, u.inflight).props[k] = x
               PROVE  Near(v, u, k, x)
    BY DEF Shows
  <2>1. v.props[k] = x \/ (Tells(u.inflight, k) /\ u.inflight.val = x)
    BY <1>2, ShowGives
  <2> QED BY <2>1 DEF Near
<1> QED BY <1>3, <1>4

\* A running pump, ...
LEMMA RunInOrder ==
  ASSUME IInv, IInv', Orderly, Forwards, NEW s \in Subs,
         PumpStart(s) \/ PumpSent(s) \/ PumpWake(s)
  PROVE  Forwards'
<1>1. /\ Proceed(s) /\ sub[s].pump \in {"created", "sending", "waiting"} /\ ~sub[s].cancelled
      /\ UNCHANGED <<objects, cache, pending, clock, subs>>
      /\ view' \in {view, [view EXCEPT ![s] = Show(@, sub[s].inflight)]}
  BY DEF PumpStart, PumpSent, PumpWake, Running, upstream, browser
<1>2. /\ view \in [Subs -> Page] /\ view[s] \in Page /\ sub[s] \in Subscription
      /\ sub'[s] \in Subscription /\ view'[s] \in Page
      /\ objects \in Objects /\ cache \in Dict(DOMAIN objects) /\ clock \in Nat
  BY DEF IInv, BrowserType, SubsType, StoreType
<1>3. Live(sub[s]) /\ s \in subs'
  BY <1>1 DEF Live, Forwards, LiveRegistered
<1>4. Shows(view[s], sub[s], view'[s])
  <2>1. view'[s] \in {view[s], Show(view[s], sub[s].inflight)}
    BY <1>1, <1>2
  <2> QED BY <1>2, <2>1, ShowShows
<1>5. \A r \in Subs : r # s => sub'[r] = sub[r] /\ view'[r] = view[r]
  BY <1>1, <1>2, ProceedShape
<1>6. InOrder(view'[s], sub'[s], objects, cache, Newest)
  <2>1. InOrder(view[s], sub[s], objects, cache, Newest)
    BY DEF Forwards, AllInOrder
  <2>2. OneEach(sub[s].seed_vectors, objects)
    BY DEF Orderly, SeedsOnce
  <2>3. PICK last \in [Key -> Value], w \in Page : last = Newest /\ w = view'[s]
    BY <1>2, NewestType DEF Newest
  <2>4. InOrder(w, sub'[s], objects, cache, last)
    BY <1>1, <1>2, <1>3, <1>4, <2>1, <2>2, <2>3, ProceedInOrder
  <2> QED BY <2>3, <2>4
<1> HIDE DEF IInv, Orderly, Forwards
<1> QED BY <1>1, <1>3, <1>5, <1>6, OneInOrder

\* ... one that ends, having perhaps sent what was in flight, ...
LEMMA EndInOrder ==
  ASSUME IInv, IInv', Forwards, NEW s \in Subs,
         SinkFailed(s) \/ PumpCancelled(s) \/ PumpNeverRan(s)
  PROVE  Forwards'
<1>0. /\ sub \in [Subs -> Subscription] /\ view \in [Subs -> Page] /\ subs \subseteq Subs
      /\ sub[s] \in Subscription /\ view[s] \in Page
      /\ objects \in Objects /\ cache \in Dict(DOMAIN objects) /\ clock \in Nat
      /\ sub'[s] \in Subscription /\ view'[s] \in Page
  BY DEF IInv, SubsType, BrowserType, StoreType
<1>1. /\ UNCHANGED <<objects, cache, pending, clock>>
      /\ \A r \in subs : r # s => r \in subs'
      /\ \A r \in Subs : r # s => view'[r] = view[r]
      /\ \A r \in Subs : r # s => sub'[r] = sub[r]
  BY <1>0 DEF SinkFailed, PumpCancelled, PumpNeverRan, Running, upstream, browser,
              EndPump, Detach
<1>2. sub'[s].pump = "done"
  BY <1>0 DEF SinkFailed, PumpCancelled, PumpNeverRan, EndPump, Subscription
<1>3. ~Live(sub'[s])
  BY <1>2 DEF Live
<1>4. PICK last \in [Key -> Value] : last = Newest
  BY <1>0, NewestType DEF Newest
<1>5. FrontInOrder(view[s], sub[s], last)
  BY <1>4 DEF Forwards, AllInOrder, InOrder
<1>6. FrontInOrder(view'[s], sub'[s], last)
  <2>1. CASE SinkFailed(s) \/ PumpCancelled(s)
    <3>1. /\ sub'[s].inflight = NoFrame
          /\ view'[s] \in {view[s], Show(view[s], sub[s].inflight)}
      BY <1>0, <2>1 DEF SinkFailed, PumpCancelled, EndPump, Subscription, browser
    <3>2. Shows(view[s], sub[s], view'[s])
      BY <1>0, <3>1, ShowShows
    <3>3. \A k : ~Tells(sub'[s].inflight, k)
      BY <3>1 DEF Tells, NoFrame
    <3>4. \A k \in Key, x \in Value : Near(view'[s], sub'[s], k, x) => Near(view[s], sub[s], k, x)
      BY <3>2, <3>3 DEF Near, Shows
    <3> QED BY <1>5, <3>3, <3>4 DEF FrontInOrder
  <2>2. CASE PumpNeverRan(s)
    <3>1. sub'[s].inflight = sub[s].inflight /\ view'[s] = view[s]
      BY <1>0, <2>2 DEF PumpNeverRan, Subscription, browser
    <3> QED BY <1>5, <3>1 DEF FrontInOrder, Near
  <2> QED BY <2>1, <2>2
<1>7. InOrder(view'[s], sub'[s], objects, cache, Newest)
  BY <1>3, <1>4, <1>6 DEF InOrder
<1> HIDE DEF IInv, Forwards
<1> QED BY <1>1, <1>3, <1>7, OneInOrder

\* ... a new one, whose seed is the newest there is, ...
LEMMA AttachInOrder ==
  ASSUME IInv, IInv', Orderly, Forwards, NEW s \in Subs, Attach(s)
  PROVE  Forwards'
<1> DEFINE t == sub'[s]
           history == [i \in DOMAIN messages |-> MessageFrame(messages[i])]
<1>0. /\ sub \in [Subs -> Subscription] /\ view[s] \in Page /\ subs \subseteq Subs
      /\ objects \in Objects /\ cache \in Dict(DOMAIN objects) /\ clock \in Nat
      /\ messages \in Seq(Nat) /\ connected \in BOOLEAN
  BY DEF IInv, SubsType, BrowserType, StoreType, BridgeType
<1>1. /\ UNCHANGED <<objects, cache, pending, clock, view>>
      /\ \A r \in Subs : r # s => sub'[r] = sub[r]
      /\ subs' = subs \cup {s}
      /\ t.seed_vectors = {cache[k] : k \in Held(cache)}
      /\ t.seed_frames = Append(history, ConnectionFrame(connected))
      /\ t.queue = <<>> /\ t.inflight = NoFrame
  BY <1>0 DEF Attach, upstream
<1> HIDE DEF t
<1>2. PICK last \in [Key -> Value] : last = Newest
  BY <1>0, NewestType DEF Newest
<1>3. \A k : ~Tells(t.inflight, k)
  BY <1>1 DEF Tells, NoFrame
<1>4. FrontInOrder(view[s], sub[s], last)
  BY <1>2 DEF Forwards, AllInOrder, InOrder
<1>5. \A k \in Key, x \in Value : Near(view[s], t, k, x) => Older(x, last[k])
  BY <1>3, <1>4 DEF FrontInOrder, Near
<1>6. FrontInOrder(view[s], t, last)
  BY <1>3, <1>5 DEF FrontInOrder
<1>7. SeedsInOrder(view[s], t, objects, last)
  <2> SUFFICES ASSUME NEW k \in Held(cache)
               PROVE  /\ Older(objects[cache[k]].val, last[objects[cache[k]].key])
                      /\ \A x \in Value :
                           Near(view[s], t, objects[cache[k]].key, x) =>
                             Older(x, objects[cache[k]].val)
    BY <1>1 DEF SeedsInOrder
  <2>1. k \in Key /\ cache[k] # None /\ cache[k] \in DOMAIN objects
    BY <1>0, NoneIsNoIndex DEF Held
  <2>2. objects[cache[k]].key = k /\ last[k] = objects[cache[k]].val
    BY <1>2, <2>1 DEF Orderly, Keyed, Newest, NewestOf
  <2>3. Older(last[k], last[k])
    BY <2>1, OlderOrder
  <2> QED BY <1>5, <2>1, <2>2, <2>3
<1>8. QueueInOrder(view[s], t, objects, last) /\ SeedsFresh(t, objects, cache)
  BY <1>1 DEF QueueInOrder, SeedsFresh
<1>9. SeedFramesPlain(t)
  <2>1. history \in Seq(Frame) /\ Len(history) \in Nat
    BY <1>0, HistoryShows
  <2>2. /\ \A j \in DOMAIN history : history[j].tag = "message"
        /\ ConnectionFrame(connected).tag = "connection"
    BY DEF MessageFrame, ConnectionFrame
  <2> HIDE DEF history
  <2>3. PICK g : g = ConnectionFrame(connected)
    OBVIOUS
  <2>4. \A j \in DOMAIN Append(history, g) : Append(history, g)[j].tag \in {"message", "connection"}
    BY <2>1, <2>2, <2>3
  <2> QED BY <1>1, <2>3, <2>4 DEF SeedFramesPlain, Tells
<1>10. InOrder(view'[s], sub'[s], objects, cache, Newest)
  <2>1. InOrder(view[s], t, objects, cache, last)
    BY <1>6, <1>7, <1>8, <1>9 DEF InOrder
  <2> QED BY <1>1, <1>2, <2>1 DEF t
<1> HIDE DEF IInv, Orderly, Forwards
<1> QED BY <1>1, <1>10, OneInOrder

\* ... one told of a frame that was refused, ...
LEMMA RefuseInOrder ==
  ASSUME IInv, IInv', Orderly, Forwards, NEW s \in Subs, Refuse(s)
  PROVE  Forwards'
<1>0. /\ sub \in [Subs -> Subscription] /\ view \in [Subs -> Page] /\ subs \subseteq Subs
      /\ objects \in Objects /\ cache \in Dict(DOMAIN objects) /\ clock \in Nat
      /\ sub' \in [Subs -> Subscription]
      /\ \A r \in Subs : sub[r].seed_vectors \subseteq DOMAIN objects /\ SlotsSound(sub[r])
  BY DEF IInv, SubsType, BrowserType, StoreType, SeedsType, CoalescingSound
<1>1. /\ UNCHANGED <<objects, cache, pending, view>> /\ clock' = clock + 1
      /\ \A r \in Subs : r # s => sub'[r] = sub[r]
      /\ sub'[s] = Deliver(sub[s], ErrorFrame, None)
      /\ subs' = IF Overflows(sub[s], ErrorFrame, None) THEN subs \ {s} ELSE subs
  BY <1>0 DEF Refuse, Tick, browser
<1>2. clock <= clock' /\ PendingPlain'
  BY <1>0, <1>1 DEF Forwards, PendingPlain
<1>3. /\ Newest \in [Key -> Value] /\ Newest' \in [Key -> Value] /\ Dated'
      /\ \A k \in Key : Older(Newest[k], Newest'[k])
  BY <1>1, <1>2, LaterStore
<1>4. PICK last \in [Key -> Value], last2 \in [Key -> Value], f \in {ErrorFrame} :
        last = Newest /\ last2 = Newest'
  BY <1>3
<1>5. \A k \in Key : Older(last[k], last2[k])
  BY <1>3, <1>4
<1>6. \A r \in Subs : InOrder(view[r], sub[r], objects, cache, last)
  BY <1>4 DEF Forwards, AllInOrder
<1>7. ASSUME NEW r \in Subs, sub'[r] = sub[r]
      PROVE  InOrder(view[r], sub'[r], objects, cache, last2)
  <2>1. PICK u \in Subscription, v \in Page : u = sub[r] /\ v = view[r]
    BY <1>0
  <2>2. InOrder(v, u, objects, cache, last) /\ u.seed_vectors \subseteq DOMAIN objects
    BY <1>0, <1>6, <2>1
  <2>3. InOrder(v, u, objects, cache, last2)
    BY <1>0, <1>5, <2>2, StaysInOrder
  <2> QED BY <1>7, <2>1, <2>3
<1>8. ASSUME ~sub[s].closed
      PROVE  /\ InOrder(view[s], sub'[s], objects, cache, last2)
             /\ Live(sub'[s]) => s \in subs'
  <2>1. PICK u \in Subscription, v \in Page, t \in Subscription :
          u = sub[s] /\ v = view[s] /\ t = sub'[s]
    BY <1>0
  <2>0. PICK kk, gone : kk = None /\ gone = {}
    OBVIOUS
  <2>a. PICK objs \in Objects, objs2 \in Objects,
             props \in Dict(DOMAIN objects), props2 \in Dict(DOMAIN objects) :
          objs = objects /\ objs2 = objects /\ props = cache /\ props2 = cache
    BY <1>0
  <2>2. f \in Frame /\ \A k : ~Tells(f, k) /\ ~Sets(f, k)
    BY <1>4, FrameTypes DEF Tells, Sets, ErrorFrame
  <2>3. Folding(f, kk, gone)
    BY <2>0, <2>2, BridgeAssumption DEF Folding
  <2>4. Invalidate(u, gone) = u
    <3>1. u.coalescible \in [Key -> Nat \cup {None}]
      BY DEF Subscription, Dict
    <3>2. Without(u.coalescible, gone) = u.coalescible
      BY <2>0, <3>1 DEF Without
    <3> QED BY <3>2 DEF Invalidate, Subscription
  <2>5. HasTaken(u, t, f, kk, gone)
    BY <2>0, <1>1, <1>4, <1>8, <2>1, <2>4 DEF HasTaken
  <2>6. Follows(f, u.seed_vectors, objs, objs2, props, props2, last2)
    BY <2>2, <2>a DEF Follows
  <2>7. /\ InOrder(v, u, objs, props, last) /\ SlotsSound(u)
        /\ u.seed_vectors \subseteq DOMAIN objs
        /\ \A i \in u.seed_vectors : props2[objs[i].key] = i => objs[i].key \notin gone
    BY <1>0, <1>6, <2>0, <2>1, <2>a
  <2>b. /\ InOrder(v, t, objs2, props2, last2)
        /\ Live(t) => ~Overflows(Invalidate(u, gone), f, kk)
    BY <1>5, <2>3, <2>5, <2>6, <2>7, DeliverInOrder
  <2>8. /\ InOrder(v, t, objects, cache, last2)
        /\ Live(t) => ~Overflows(Invalidate(u, gone), f, None)
    BY <2>0, <2>a, <2>b
  <2>9. Live(t) => s \in subs'
    <3> SUFFICES ASSUME Live(t) PROVE s \in subs'
      OBVIOUS
    <3>1. ~Overflows(u, f, None) /\ subs' = subs
      BY <1>1, <1>4, <2>1, <2>4, <2>8
    <3>2. t = Deliver(u, f, None) /\ None \in Key \cup {None}
      BY <1>1, <1>4, <2>1
    <3>3. Rest(t) = Rest(u) /\ Standing(t) = Standing(u)
      BY <2>2, <3>1, <3>2, DeliverShape
    <3>4. Live(u)
      BY <3>3 DEF Live, Rest, Standing
    <3> QED BY <2>1, <3>1, <3>4 DEF Forwards, LiveRegistered
  <2> QED BY <2>1, <2>8, <2>9
<1>9. ASSUME sub[s].closed PROVE sub'[s] = sub[s] /\ subs' = subs
  BY <1>1, <1>9 DEF Deliver, Overflows
<1>10. AllInOrder'
  BY <1>1, <1>4, <1>7, <1>8, <1>9 DEF AllInOrder
<1>11. LiveRegistered'
  BY <1>1, <1>8, <1>9 DEF Forwards, LiveRegistered
<1> QED BY <1>2, <1>3, <1>10, <1>11 DEF Forwards

\* ... and one that is to end, or whose bridge or client is.
LEMMA CloseInOrder ==
  ASSUME IInv, IInv', Forwards,
         (\E s \in Subs : EndRoute(s) \/ RouteFinishes(s)) \/ Stop \/ StopClient \/ UNCHANGED vars
  PROVE  Forwards'
<1>0. /\ sub \in [Subs -> Subscription] /\ view \in [Subs -> Page] /\ subs \subseteq Subs
      /\ clock \in Nat
  BY DEF IInv, SubsType, BrowserType, StoreType
<1>1. \A u \in Subscription : Rest(Cancel(u)) = Rest(u) /\ ~Live(Cancel(u))
  <2> TAKE u \in Subscription
  <2>1. Rest(Cancel(u)) = Rest(u)
    BY CancelShape
  <2>2. Cancel(u).cancelled = (u.pump \in {"created", "sending", "waiting"})
    BY DEF Cancel, Subscription
  <2> QED BY <2>1, <2>2 DEF Live, Rest
<1> DEFINE Quiet ==
             /\ UNCHANGED <<objects, cache, clock>> /\ PendingPlain'
             /\ \A r \in Subs :
                  /\ view'[r].props = view[r].props
                  /\ \/ sub'[r] = sub[r] /\ (r \in subs => r \in subs')
                     \/ Rest(sub'[r]) = Rest(sub[r]) /\ ~Live(sub'[r])
<1>2. Quiet
  <2>1. ASSUME NEW s \in Subs, EndRoute(s) PROVE Quiet
    <3>1. /\ UNCHANGED <<objects, cache, clock, pending, subs, view>>
          /\ \A r \in Subs : r # s => sub'[r] = sub[r]
          /\ sub'[s] = Cancel(sub[s])
      BY <1>0, <2>1 DEF EndRoute, upstream
    <3> QED BY <1>0, <1>1, <3>1 DEF Forwards, PendingPlain
  <2>2. ASSUME NEW s \in Subs, RouteFinishes(s) PROVE Quiet
    <3>1. /\ UNCHANGED <<objects, cache, clock, pending>> /\ subs' = subs \ {s}
          /\ \A r \in Subs : r # s => sub'[r] = sub[r]
          /\ \A r \in Subs : r # s => view'[r] = view[r]
          /\ view'[s] = SocketClosed(view[s])
      BY <1>0, <2>2 DEF RouteFinishes, upstream, Detach
    <3>2. Rest(sub'[s]) = Rest(sub[s]) /\ sub'[s].pump = "done"
      BY <1>0, <2>2 DEF RouteFinishes, Rest, Subscription
    <3>3. view'[s].props = view[s].props
      BY <1>0, <3>1 DEF SocketClosed, Page
    <3> QED BY <1>0, <3>1, <3>2, <3>3 DEF Forwards, PendingPlain, Live
  <2>3. ASSUME Stop PROVE Quiet
    <3>1. /\ UNCHANGED <<objects, cache, clock, pending, subs, view>>
          /\ \A r \in Subs : sub'[r] = IF r \in subs THEN Cancel(sub[r]) ELSE sub[r]
      BY <2>3 DEF Stop, upstream, browser
    <3> QED BY <1>0, <1>1, <3>1 DEF Forwards, PendingPlain
  <2>4. ASSUME StopClient PROVE Quiet
    <3>1. UNCHANGED <<objects, cache, clock, subs, sub, view>>
      BY <2>4 DEF StopClient, browser
    <3>2. PendingPlain'
      BY <2>4, EventKinds DEF StopClient, PendingPlain
    <3> QED BY <3>1, <3>2
  <2>5. ASSUME UNCHANGED vars PROVE Quiet
    BY <2>5 DEF vars, upstream, browser, Forwards, PendingPlain
  <2> QED BY <2>1, <2>2, <2>3, <2>4, <2>5
<1>3. clock <= clock'
  BY <1>0, <1>2
<1>4. \A r \in Subs :
        /\ \/ Rest(sub'[r]) = Rest(sub[r])
           \/ ~Live(sub'[r]) /\ sub'[r].inflight \in {sub[r].inflight, NoFrame}
        /\ Live(sub'[r]) => /\ Live(sub[r]) /\ sub'[r].queue = sub[r].queue
                            /\ sub'[r].coalescible = sub[r].coalescible
                            /\ r \in subs => r \in subs'
  BY <1>2
<1> HIDE DEF IInv, Forwards
<1> QED BY <1>2, <1>3, <1>4, QuietInOrder

\* Every step keeps everything in order.
LEMMA NextForwards ==
  ASSUME ~SlowSubscribers, IInv, IInv', Orderly, Forwards, [Next]_vars
  PROVE  Forwards'
<1>1. CASE Upstream \/ OnEvent
  BY <1>1, UpstreamInOrder
<1>2. ASSUME NEW s \in Subs, Pump(s) PROVE Forwards'
  BY <1>2, RunInOrder, EndInOrder DEF Pump
<1>3. ASSUME NEW s \in Subs, Route(s) PROVE Forwards'
  <2>1. Attach(s) \/ Refuse(s) \/ EndRoute(s) \/ RouteFinishes(s)
    BY <1>3 DEF Route, BrowserLeaves, RouteSeesClosed
  <2>2. ASSUME EndRoute(s) \/ RouteFinishes(s) PROVE Forwards'
    BY <2>2, CloseInOrder
  <2> QED BY <2>1, <2>2, AttachInOrder, RefuseInOrder
<1>4. CASE Stop \/ StopClient \/ UNCHANGED vars
  BY <1>4, CloseInOrder
<1> QED BY <1>1, <1>2, <1>3, <1>4 DEF Next

\* At first nothing is shown, and nothing is on its way.
LEMMA InitForwards == Init => Forwards
<1> SUFFICES ASSUME Init PROVE Forwards
  OBVIOUS
<1>1. Dated /\ PendingPlain
  BY DEF Init, Dated, PendingPlain
<1>2. ASSUME NEW s \in Subs
      PROVE  ~Live(sub[s]) /\ InOrder(view[s], sub[s], objects, cache, Newest)
  <2>1. sub[s].pump = "none" /\ sub[s].inflight = NoFrame /\ view[s].props = Empty
    BY DEF Init, NotAttached, NewPage
  <2>2. \A k \in Key, x \in Value : ~Near(view[s], sub[s], k, x) /\ view[s].props[k] # x
    BY <2>1, BridgeAssumption DEF Near, Tells, NoFrame, Empty, Value
  <2> QED BY <2>1, <2>2 DEF Live, InOrder, FrontInOrder
<1> QED BY <1>1, <1>2 DEF Forwards, LiveRegistered, AllInOrder

\* What a step shows is what was there or in flight.
LEMMA StepShows ==
  ASSUME IInv, [Next]_vars, NEW s \in Subs
  PROVE  view'[s].props \in {view[s].props, Show(view[s], sub[s].inflight).props}
<1>0. view \in [Subs -> Page]
  BY DEF IInv, BrowserType
<1>1. CASE Upstream \/ OnEvent
  BY <1>1, UpstreamTells DEF browser
<1>2. ASSUME NEW r \in Subs, Pump(r)
      PROVE  view' \in {view, [view EXCEPT ![r] = Show(@, sub[r].inflight)]}
  BY <1>2 DEF Pump, PumpStart, PumpSent, PumpWake, SinkFailed, PumpCancelled, PumpNeverRan, browser
<1>3. ASSUME NEW r \in Subs, Route(r)
      PROVE  view' \in {view, [view EXCEPT ![r] = SocketClosed(@)]}
  BY <1>3 DEF Route, Attach, Refuse, BrowserLeaves, RouteSeesClosed, EndRoute, RouteFinishes, browser
<1>4. CASE Stop \/ StopClient \/ UNCHANGED vars
  BY <1>4 DEF Stop, StopClient, vars, browser
<1>5. \A v \in Page : SocketClosed(v).props = v.props
  BY DEF SocketClosed, Page
<1> QED BY <1>0, <1>1, <1>2, <1>3, <1>4, <1>5 DEF Next

\* So no page goes back.
LEMMA StepForwards ==
  ASSUME IInv, Forwards, [Next]_vars,
         NEW s \in Subs, NEW k \in Held(view[s].props) \cap Held(view'[s].props), NEW a \in Fields
  PROVE  view'[s].props[k][a] >= view[s].props[k][a]
<1>1. /\ view[s] \in Page /\ sub[s] \in Subscription /\ k \in Key
      /\ sub[s].inflight \in Frame \cup {NoFrame}
  BY DEF IInv, BrowserType, SubsType, Held, Subscription
<1>2. PICK x, y : x = view[s].props[k] /\ y = view'[s].props[k]
  OBVIOUS
<1>3. x \in Value /\ y \in Value
  <2>1. Show(view[s], sub[s].inflight) \in Page
    BY <1>1, ShowType
  <2>2. view'[s].props \in Dict(Value) /\ view[s].props \in Dict(Value)
    BY <1>1, <2>1, StepShows DEF Page
  <2>3. x # None /\ y # None
    BY <1>2 DEF Held
  <2> QED BY <1>1, <1>2, <2>2, <2>3 DEF Dict
<1>4. y = x \/ (Tells(sub[s].inflight, k) /\ sub[s].inflight.val = y)
  <2>1. CASE view'[s].props = view[s].props
    BY <1>2, <2>1
  <2>2. CASE view'[s].props = Show(view[s], sub[s].inflight).props
    <3>1. Show(view[s], sub[s].inflight).props[k] = y
      BY <1>2, <2>2
    <3>2. view[s].props[k] = y \/ (Tells(sub[s].inflight, k) /\ sub[s].inflight.val = y)
      BY <1>1, <1>3, <3>1, ShowGives
    <3> QED BY <1>2, <3>2
  <2> QED BY <2>1, <2>2, StepShows
<1>5. FrontInOrder(view[s], sub[s], Newest)
  BY DEF Forwards, AllInOrder, InOrder
<1>6. Older(x, y)
  <2>1. CASE y = x
    BY <1>3, <2>1, OlderOrder
  <2>2. CASE Tells(sub[s].inflight, k) /\ sub[s].inflight.val = y
    BY <1>1, <1>2, <1>3, <1>5, <2>2 DEF FrontInOrder
  <2> QED BY <1>4, <2>1, <2>2
<1>7. x[a] <= y[a] /\ x[a] \in Nat /\ y[a] \in Nat
  BY <1>3, <1>6 DEF Older, Value
<1> QED BY <1>2, <1>7

\* While no other subscriber suspends between the store and the bridge, no page ever
\* replaces a value it shows by an older one, whatever is coalesced, redefined or
\* seeded late (Subscription.enqueue, invalidate and pop, Bridge._pump and attach).
THEOREM PagesNeverGoBack ==
  ASSUME ~SlowSubscribers
  PROVE  Spec => NeverBackwards
<1> DEFINE A == \A s \in Subs :
                  \A k \in Held(view[s].props) \cap Held(view'[s].props) :
                    \A f \in Fields : view'[s].props[k][f] >= view[s].props[k][f]
           I == IInv /\ Orderly /\ DropsCounted /\ AllDue
<1>1. Spec => []I
  BY Delivered
<1>2. Init => Forwards
  BY InitForwards
<1>3. I /\ I' /\ Forwards /\ [Next]_vars => Forwards'
  BY NextForwards
<1>4. I /\ Forwards /\ [Next]_vars => A
  BY StepForwards
<1> HIDE DEF A, I
<1>5. Spec => [][A]_vars
  BY <1>1, <1>2, <1>3, <1>4, PTL DEF Spec
<1> QED BY <1>5 DEF NeverBackwards, A

=============================================================================
