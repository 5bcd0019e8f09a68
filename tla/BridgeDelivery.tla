--------------------------- MODULE BridgeDelivery ---------------------------
(***************************************************************************)
(* What the bridge promises each browser: the properties of Bridge that    *)
(* need the whole pipeline between the store and the page.                 *)
(***************************************************************************)
EXTENDS Bridge, SequencesExt

\* Every frame still on its way to a browser, in the order it will be sent,
\* as it would be serialised if nothing else happened.
SeedFrame(i) == VectorFrame("def", objects[i].key, objects[i].val)
Pipeline(s) ==
  LET u == sub[s]
      vectors == SetToSeq(u.seed_vectors)
  IN  (IF u.inflight = NoFrame THEN <<>> ELSE <<u.inflight>>)
        \o u.preamble
        \o [i \in DOMAIN vectors |-> SeedFrame(vectors[i])]
        \o u.seed_frames
        \o [i \in DOMAIN u.queue |-> u.queue[i].frame]

\* A page once it has been sent some frames, one after the other.
ShowAll(v, frames) ==
  LET shown[i \in 0..Len(frames)] ==
        IF i = 0 THEN v ELSE Show(shown[i - 1], frames[i])
  IN  shown[Len(frames)]

\* The page once it has been sent all that is on its way.
Final(s) == ShowAll(view[s], Pipeline(s))

Served(s) == s \in subs /\ ~sub[s].cancelled /\ sub[s].pump # "done"
Truth == [k \in Key |-> IF cache[k] = None THEN None ELSE objects[cache[k]].val]

\* Attaching, coalescing and in-place merging converge: whatever the store did
\* since the snapshot, a served browser that drains what is queued for it shows
\* the current value of every property of the store, and the link state of the
\* client.  On a page's first socket it shows nothing else.
Converges ==
  pending = NoEvent =>
    \A s \in Subs : Served(s) =>
      /\ \A k \in Held(cache) : Final(s).props[k] = Truth[k]
      /\ attaches[s] = 1 => Final(s).props = Truth
      /\ Final(s).up = connected

\* No property on a page ever goes back to an older value.
NeverBackwards ==
  [][\A s \in Subs :
       \A k \in Held(view[s].props) \cap Held(view'[s].props) :
         \A f \in Fields : view'[s].props[k][f] >= view[s].props[k][f]]_vars

\* On a page's first socket snapshot plus live traffic is the log without a gap
\* or a repeat, from as far back as the retained history goes to the latest
\* message.  (A later socket replays the history the page already has.)
LogGapless ==
  \A s \in Subs : Served(s) /\ attaches[s] = 1 =>
    LET log == Final(s).log
    IN  /\ \A i \in 1..Len(log) : log[i] = logged - Len(log) + i
        /\ Len(log) >= Len(messages)

\* Every exposure broadcast to a browser is taken by its pump, waits in its
\* queue, or was replaced there and counted.
Waiting ==
  UNION {{<<s, i>> : i \in {j \in DOMAIN sub[s].queue : IsExposure(sub[s].queue[j].frame)}} :
         s \in Subs}
ExposuresCounted == exposures = coalesced_blobs + Cardinality(Waiting)

\* BridgeStats can be reconciled with what happened: the browsers dropped and
\* the exposures replaced are counted once each, whoever broadcasts, pumps,
\* closes or is cancelled in between.
CountersAreTrue == DropsCounted /\ ExposuresCounted

-----------------------------------------------------------------------------
\* Until the bridge is shut down, a browser whose socket keeps taking frames
\* catches up or is closed: no wakeup of its pump is lost, and no other
\* browser's back-pressure can hold it up.
Drained(s) == sub[s].pump = "waiting" /\ sub[s].queue = <<>>
CatchesUp ==
  \A s \in Prompt : s \in subs ~> (Drained(s) \/ sub[s].closed \/ phase # "serving")

\* A browser dropped for its backlog has its route end, although its sink may
\* never return and it sends nothing.
DroppedRouteEnds ==
  \A s \in Subs : sub[s].dropped_for_backlog ~> (route[s] = "ended" /\ code[s] = 1013)

=============================================================================
