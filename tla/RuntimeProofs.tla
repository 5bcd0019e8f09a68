---------------------------- MODULE RuntimeProofs ---------------------------
(***************************************************************************)
(* What is proved of Runtime, for any devices, jobs, intervals, messages   *)
(* and chunks: a late job never catches up, and a stream that has gone     *)
(* silent is noticed within the threshold.                                 *)
(***************************************************************************)
EXTENDS Runtime, TLAPS

-----------------------------------------------------------------------------
(* The deadlines.  When the last two ticks began, and the deadline, go     *)
(* together: the deadline is never before the last tick but one plus an    *)
(* interval, nor before the last tick.                                     *)

TimeTypes ==
  /\ job \in [Jobs -> {"gated", "sleeping", "queued", "ticking", "cancelled"}]
  /\ left \in [Jobs -> Late .. Interval]
  /\ ago \in [Jobs -> [last : 0 .. Interval, before : 0 .. Interval]]

\* A time ago that has not reached an interval is exact.
Reaches(time, span) == time = Interval \/ time >= span

NotStarted(j) == job[j] = "gated" => ago[j] = [last |-> Interval, before |-> Interval]
Waiting(j) ==
  job[j] \in {"sleeping", "queued"} =>
    Reaches(ago[j].before, Interval - left[j]) /\ Reaches(ago[j].last, -left[j])
Running(j) == job[j] = "ticking" => Reaches(ago[j].before, -left[j])

Deadlines == TimeTypes /\ \A j \in Jobs : NotStarted(j) /\ Waiting(j) /\ Running(j)

LEMMA IntervalIsPositive == Interval \in Nat /\ Interval > 0 /\ Late \in Int /\ Late = -Interval - 1
  BY RuntimeAssumption DEF Late

LEMMA DeadlinesInit == Init => Deadlines
  BY IntervalIsPositive
  DEF Init, Deadlines, TimeTypes, NotStarted, Waiting, Running, Reaches

\* A step that is not about the jobs.
LEMMA DeadlinesKept == Deadlines /\ UNCHANGED <<job, timing>> => Deadlines'
  BY DEF Deadlines, timing, TimeTypes, NotStarted, Waiting, Running, Reaches

\* The next deadline is an interval after this one, or now.
LEMMA NextDeadlineTypes ==
  ASSUME NEW j \in Jobs, left[j] \in Late .. Interval, left[j] <= 0
  PROVE  /\ NextDeadline(j) \in 0 .. Interval
         /\ NextDeadline(j) >= left[j] + Interval
  BY IntervalIsPositive DEF NextDeadline

\* A deadline that has been reached stays reached while a tick waits and runs.
Reached == \A j \in Jobs : job[j] \in {"queued", "ticking"} => left[j] <= 0

TimeInv == Deadlines /\ Reached

LEMMA GateSound ==
  ASSUME TimeInv, NEW j \in Jobs, Gate(j)
  PROVE  TimeInv'
<1>1. /\ job[j] = "gated" /\ ago' = ago
      /\ \/ job' = [job EXCEPT ![j] = "queued"] /\ left' = [left EXCEPT ![j] = 0]
         \/ job' = [job EXCEPT ![j] = "sleeping"] /\ left' = [left EXCEPT ![j] = Interval]
  BY DEF Gate
<1>2. ago[j].last = Interval /\ ago[j].before = Interval
  BY <1>1 DEF TimeInv, Deadlines, NotStarted
<1>3. TimeTypes'
  BY <1>1, IntervalIsPositive DEF TimeInv, Deadlines, TimeTypes
<1>4. ASSUME NEW k \in Jobs
      PROVE  /\ NotStarted(k)' /\ Waiting(k)' /\ Running(k)'
             /\ job'[k] \in {"queued", "ticking"} => left'[k] <= 0
  <2>1. CASE k = j
    BY <1>1, <1>2, <2>1
    DEF TimeInv, Deadlines, TimeTypes, NotStarted, Waiting, Running, Reaches
  <2>2. CASE k # j
    BY <1>1, <2>2
    DEF TimeInv, Deadlines, Reached, TimeTypes, NotStarted, Waiting, Running
  <2> QED
    BY <2>1, <2>2
<1> QED
  BY <1>3, <1>4 DEF TimeInv, Deadlines, Reached

LEMMA WakeSound ==
  ASSUME TimeInv, NEW j \in Jobs, Wake(j)
  PROVE  TimeInv'
  BY IntervalIsPositive
  DEF Wake, timing, TimeInv, Deadlines, Reached, TimeTypes, NotStarted, Waiting, Running, Reaches

\* Both a skipped and a finished tick set the next deadline.
LEMMA SkipSound ==
  ASSUME TimeInv, NEW j \in Jobs, Skip(j)
  PROVE  TimeInv'
<1>1. job[j] = "sleeping" /\ left[j] <= 0 /\ left[j] \in Late .. Interval
  BY DEF Skip, TimeInv, Deadlines, TimeTypes
<1>2. job' = job /\ ago' = ago /\ left' = [left EXCEPT ![j] = NextDeadline(j)]
  BY DEF Skip
<1>3. /\ NextDeadline(j) \in 0 .. Interval
      /\ NextDeadline(j) >= left[j] + Interval
  BY <1>1, NextDeadlineTypes
<1> QED
  BY <1>1, <1>2, <1>3, IntervalIsPositive
  DEF TimeInv, Deadlines, Reached, TimeTypes, NotStarted, Waiting, Running, Reaches

LEMMA TickEndsSound ==
  ASSUME TimeInv, NEW j \in Jobs, TickEnds(j)
  PROVE  TimeInv'
<1>1. job[j] = "ticking" /\ left[j] <= 0 /\ left[j] \in Late .. Interval
  BY DEF TickEnds, TimeInv, Reached, Deadlines, TimeTypes
<1>2. /\ job' = [job EXCEPT ![j] = "sleeping"] /\ ago' = ago
      /\ left' = [left EXCEPT ![j] = NextDeadline(j)]
  BY DEF TickEnds
<1>3. /\ NextDeadline(j) \in 0 .. Interval
      /\ NextDeadline(j) >= left[j] + Interval
  BY <1>1, NextDeadlineTypes
<1> QED
  BY <1>1, <1>2, <1>3, IntervalIsPositive
  DEF TimeInv, Deadlines, Reached, TimeTypes, NotStarted, Waiting, Running, Reaches

LEMMA TickBeginsSound ==
  ASSUME TimeInv, NEW j \in Jobs, TickBegins(j)
  PROVE  TimeInv' /\ ago[j].before = Interval
<1>1. job[j] = "queued" /\ left[j] <= 0
  BY DEF TickBegins, TimeInv, Reached
<1>2. ago[j].before = Interval
  <2>1. left[j] \in Late .. Interval /\ ago[j].before \in 0 .. Interval
    BY DEF TimeInv, Deadlines, TimeTypes
  <2>2. ago[j].before = Interval \/ ago[j].before >= Interval - left[j]
    BY <1>1 DEF TimeInv, Deadlines, Waiting, Reaches
  <2> QED
    BY <1>1, <2>1, <2>2, IntervalIsPositive
<1>3. /\ job' = [job EXCEPT ![j] = "ticking"] /\ left' = left
      /\ ago' = [ago EXCEPT ![j] = [last |-> 0, before |-> ago[j].last]]
  BY DEF TickBegins
<1> QED
  BY <1>1, <1>2, <1>3, IntervalIsPositive
  DEF TimeInv, Deadlines, Reached, TimeTypes, NotStarted, Waiting, Running, Reaches

LEMMA ElapseSound ==
  ASSUME TimeInv, Elapse
  PROVE  TimeInv'
<1>1. /\ job' = job
      /\ left' = [j \in Jobs |-> Soonest(left[j] - 1)]
      /\ ago' = [j \in Jobs |-> [last |-> Longest(ago[j].last + 1),
                                 before |-> Longest(ago[j].before + 1)]]
  BY DEF Elapse
<1>2. TimeTypes'
  BY <1>1, IntervalIsPositive DEF TimeInv, Deadlines, TimeTypes, Soonest, Longest
<1>3. ASSUME NEW j \in Jobs
      PROVE  /\ NotStarted(j)' /\ Waiting(j)' /\ Running(j)'
             /\ job'[j] \in {"queued", "ticking"} => left'[j] <= 0
  <2>1. /\ left[j] \in Late .. Interval /\ ago[j].last \in 0 .. Interval
        /\ ago[j].before \in 0 .. Interval
    BY DEF TimeInv, Deadlines, TimeTypes
  <2>2. /\ left'[j] = Soonest(left[j] - 1)
        /\ ago'[j].last = Longest(ago[j].last + 1)
        /\ ago'[j].before = Longest(ago[j].before + 1)
        /\ job'[j] = job[j]
    BY <1>1
  <2>3. NotStarted(j)'
    BY <1>1, <2>1, <2>2, IntervalIsPositive
    DEF TimeInv, Deadlines, NotStarted, Longest
  <2>4. Waiting(j)'
    BY <2>1, <2>2, IntervalIsPositive
    DEF TimeInv, Deadlines, Waiting, Reaches, Soonest, Longest
  <2>5. Running(j)'
    <3> SUFFICES ASSUME job[j] = "ticking" PROVE Reaches(ago'[j].before, -(left'[j]))
      BY <2>2 DEF Running
    <3>1. ago[j].before = Interval \/ ago[j].before >= -left[j]
      BY DEF TimeInv, Deadlines, Running, Reaches
    <3> QED
      BY <2>1, <2>2, <3>1, IntervalIsPositive DEF Reaches, Soonest, Longest
  <2>6. job'[j] \in {"queued", "ticking"} => left'[j] <= 0
    BY <2>1, <2>2, IntervalIsPositive DEF TimeInv, Reached, Soonest
  <2> QED
    BY <2>3, <2>4, <2>5, <2>6
<1> QED
  BY <1>2, <1>3 DEF TimeInv, Deadlines, Reached

LEMMA CancelJobSound ==
  ASSUME TimeInv, NEW j \in Jobs, CancelJob(j)
  PROVE  TimeInv'
<1>1. /\ job' = [job EXCEPT ![j] = "cancelled"] /\ left' = [left EXCEPT ![j] = 0]
      /\ ago' = [ago EXCEPT ![j] = [last |-> Interval, before |-> Interval]]
  BY DEF CancelJob
<1> QED
  BY <1>1, IntervalIsPositive
  DEF TimeInv, Deadlines, Reached, TimeTypes, NotStarted, Waiting, Running, Reaches

\* What the others do with the jobs: nothing.
LEMMA OthersLeaveTheJobs ==
  ASSUME \/ Reads \/ ReadEnds \/ Handles \/ HandlerEmits \/ HandlerEnds
         \/ \E j \in Jobs : TickEmits(j)
         \/ Writes \/ Stops \/ Drains \/ Ends \/ CancelReader \/ Cancelled
         \/ UNCHANGED vars
  PROVE  UNCHANGED <<job, timing>>
  BY DEF Reads, ReadChunk, ReadEnds, Handles, ChunkDone, NextMessage, HandlerBegins,
         HandlerEmits, HandlerEnds, HandlerReturns, HandlerRaises, TickEmits, Writes, Take,
         Write, WriteFails, Stops, Drains, Ends, CancelReader, Cancelled, vars

LEMMA TimeStep ==
  ASSUME TimeInv, [Next]_vars
  PROVE  TimeInv'
         /\ \A j \in Jobs :
              job[j] # "ticking" /\ job'[j] = "ticking" => ago[j].before = Interval
<1>1. CASE UNCHANGED <<job, timing>>
  BY <1>1, DeadlinesKept DEF TimeInv, Reached, timing
<1>2. ASSUME NEW j \in Jobs, Gate(j) \/ Wake(j) \/ Skip(j) \/ TickEnds(j) \/ CancelJob(j)
      PROVE  TimeInv' /\ \A k \in Jobs : job[k] = "ticking" \/ job'[k] # "ticking"
  <2>1. TimeInv'
    BY <1>2, GateSound, WakeSound, SkipSound, TickEndsSound, CancelJobSound
  <2>2. \A k \in Jobs : job[k] = "ticking" \/ job'[k] # "ticking"
    BY <1>2 DEF Gate, Wake, Skip, TickEnds, CancelJob, TimeInv, Deadlines, TimeTypes
  <2> QED
    BY <2>1, <2>2
<1>3. ASSUME NEW j \in Jobs, TickBegins(j)
      PROVE  TimeInv' /\ ago[j].before = Interval
             /\ \A k \in Jobs : k # j => job'[k] = job[k]
  <2>1. \A k \in Jobs : k # j => job'[k] = job[k]
    BY <1>3 DEF TickBegins, TimeInv, Deadlines, TimeTypes
  <2> QED
    BY <1>3, <2>1, TickBeginsSound
<1>4. CASE Elapse
  BY <1>4, ElapseSound DEF Elapse
<1> QED
  BY <1>1, <1>2, <1>3, <1>4, OthersLeaveTheJobs DEF Next, Ticks, Finishes

\* For any number of jobs and any interval, however long ticks, guards and the event loop
\* take: when a tick begins, the one before the last began at least an interval ago.
THEOREM NoBacklogEver == Spec => NoBacklog
<1>1. Init => TimeInv
  BY DeadlinesInit, IntervalIsPositive DEF TimeInv, Reached, Init
<1>2. TimeInv /\ [Next]_vars => TimeInv'
  BY TimeStep
<1>3. TimeInv /\ [Next]_vars =>
        [\A j \in Jobs :
           job[j] # "ticking" /\ job'[j] = "ticking" => ago[j].before = Interval]_vars
  BY TimeStep
<1> QED
  BY <1>1, <1>2, <1>3, PTL DEF Spec, NoBacklog

-----------------------------------------------------------------------------
(* The silence.  The parser's count is that of the bytes since an element  *)
(* last ended, and the reader looks at it before every read.               *)

CountsSilence ==
  /\ parser.quiet = silence /\ silence \in Nat
  /\ NoSilentStream

\* What a chunk leaves of the count.
LEMMA FedQuiet ==
  ASSUME NEW c
  PROVE  Fed(parser, c).quiet =
           IF Seen(parser, c).ended # <<>> THEN 0 ELSE parser.quiet + c.bytes
  BY DEF Fed, Reset, Opened

LEMMA SilenceInit == Init => CountsSilence
  BY StallThresholdAssumption DEF Init, CountsSilence, NewParser, NoSilentStream

LEMMA SilenceStep == CountsSilence /\ [Next]_vars => CountsSilence'
<1> SUFFICES ASSUME CountsSilence, [Next]_vars PROVE CountsSilence'
  OBVIOUS
<1>1. ASSUME NEW c \in Chunks, ReadChunk(c) PROVE CountsSilence'
  <2>1. /\ parser' = Fed(parser, c) /\ reader' = "fed"
        /\ silence' = IF Seen(parser, c).ended # <<>> THEN 0 ELSE silence + c.bytes
    BY <1>1 DEF ReadChunk
  <2>2. c.bytes \in Nat
    BY RuntimeAssumption
  <2>3. parser'.quiet = IF Seen(parser, c).ended # <<>> THEN 0 ELSE parser.quiet + c.bytes
    BY <2>1, FedQuiet
  <2>4. parser'.quiet = silence' /\ silence' \in Nat
    BY <2>1, <2>2, <2>3 DEF CountsSilence
  <2> QED
    BY <2>1, <2>4 DEF CountsSilence, NoSilentStream
<1>2. CASE ChunkDone
  <2>1. CASE Stalled(parser)
    <3>1. parser' = Resynced(parser) /\ silence' = 0
      BY <1>2, <2>1 DEF ChunkDone
    <3>2. parser'.quiet = 0
      BY <3>1 DEF Resynced, Opened
    <3> QED
      BY <3>1, <3>2, StallThresholdAssumption DEF CountsSilence, NoSilentStream
  <2>2. CASE ~Stalled(parser)
    <3>1. parser' = parser /\ silence' = silence
      BY <1>2, <2>2 DEF ChunkDone
    <3> QED
      BY <2>2, <3>1, StallThresholdAssumption DEF Stalled, CountsSilence, NoSilentStream
  <2> QED
    BY <2>1, <2>2
<1>3. CASE ReaderGone
  BY <1>3, StallThresholdAssumption DEF ReaderGone, NewParser, CountsSilence, NoSilentStream
<1>4. CASE UNCHANGED <<parser, silence>> /\ (reader' = reader \/ reader' # "reading")
  BY <1>4 DEF CountsSilence, NoSilentStream
<1>5. CASE \/ NextMessage \/ HandlerBegins \/ HandlerEmits \/ HandlerReturns \/ HandlerRaises
  <2>1. UNCHANGED <<parser, silence>>
    BY <1>5 DEF NextMessage, HandlerBegins, HandlerEmits, HandlerReturns, HandlerRaises, input
  <2>2. CASE HandlerBegins \/ HandlerEmits
    BY <1>4, <2>1, <2>2 DEF HandlerBegins, HandlerEmits, handing
  <2>3. CASE NextMessage \/ HandlerReturns \/ HandlerRaises
    <3>1. PICK m, names, g : HandTo(m, names, g)
      BY <2>3 DEF NextMessage, HandlerReturns, HandlerRaises
    <3>2. reader' # "reading"
      BY <3>1 DEF HandTo
    <3> QED
      BY <1>4, <2>1, <3>2
  <2> QED
    BY <1>5, <2>2, <2>3
<1>6. CASE ReadEnds \/ CancelReader
  BY <1>3, <1>6 DEF ReadEnds, CancelReader
<1>7. ASSUME NEW j \in Jobs, Ticks(j) \/ TickEmits(j) \/ TickEnds(j) \/ CancelJob(j)
      PROVE  CountsSilence'
  BY <1>4, <1>7
  DEF Ticks, Gate, Wake, Skip, TickBegins, TickEmits, TickEnds, CancelJob, input, handing
<1>8. CASE Elapse \/ Writes \/ Stops \/ Drains \/ Ends \/ Cancelled \/ UNCHANGED vars
  BY <1>4, <1>8
  DEF Elapse, Writes, Take, Write, WriteFails, Stops, Drains, Ends, Cancelled, vars,
      input, handing
<1> QED
  BY <1>1, <1>2, <1>5, <1>6, <1>7, <1>8
  DEF Next, Reads, Handles, HandlerEnds, Finishes

\* Whatever lxml makes of what the peer sends, however the chunks are cut: at every read
\* the chunks since an element last ended, or the parser was rebuilt, are within the
\* threshold.
THEOREM SilenceIsNoticed == Spec => []NoSilentStream
<1>1. CountsSilence => NoSilentStream
  BY DEF CountsSilence
<1> QED
  BY <1>1, SilenceInit, SilenceStep, PTL DEF Spec

-----------------------------------------------------------------------------
(* The outbox.  Everything a device said that can be written is written or *)
(* queued, in the order it was said, and behind the sentinel there are     *)
(* only the writer's own reports.  The parts of the invariant take the     *)
(* outbox, what was emitted and what is written as arguments, for the      *)
(* steps that take a message and put another in its place.                 *)

Kinds == {"fine", "broken", "report"}

Queued(out) == {k \in DOMAIN out : out[k] # Stop}

OutTypes(out, em, wr) ==
  em \in Seq(Kinds) /\ out \in Seq(Nat \cup {Stop}) /\ wr \in Seq(Nat)

Ordered(out, em, wr) ==
  /\ \A m, n \in DOMAIN wr : m < n => wr[m] < wr[n]
  /\ \A k \in Queued(out) : out[k] \in DOMAIN em
  /\ \A k \in DOMAIN wr : wr[k] \in DOMAIN em
  /\ \A k, l \in Queued(out) : k < l => out[k] < out[l]
  /\ \A k \in DOMAIN wr, l \in Queued(out) : wr[k] < out[l]

NothingLost(out, em, wr) ==
  \A i \in DOMAIN em : em[i] = "fine" =>
    \/ \E k \in DOMAIN wr : wr[k] = i
    \/ \E l \in DOMAIN out : out[l] = i

IsReport(out, em, l) == out[l] # Stop /\ em[out[l]] = "report"

\* `over` says that the sentinel has been taken.
SentinelIsLast(out, em, ph, over) ==
  /\ ph \in {"serving", "stopping"} => Queued(out) = DOMAIN out /\ ~over
  /\ \A k, l \in DOMAIN out : out[k] = Stop /\ k < l => IsReport(out, em, l)
  /\ over => \A l \in DOMAIN out : IsReport(out, em, l)

OutGood(out, em, wr, ph, over) ==
  /\ OutTypes(out, em, wr) /\ Ordered(out, em, wr) /\ NothingLost(out, em, wr)
  /\ SentinelIsLast(out, em, ph, over)

OutInv ==
  /\ OutGood(outbox, emitted, written, phase, writer = "done")
  /\ writer = "writing" => outbox # <<>> /\ Head(outbox) # Stop

\* One more message at the end of the outbox.
LEMMA AppendSound ==
  ASSUME NEW out, NEW em, NEW wr, NEW ph, NEW over \in BOOLEAN,
         OutGood(out, em, wr, ph, over), NEW kind \in Kinds,
         kind # "report" => ph \in {"serving", "stopping"}
  PROVE  OutGood(Append(out, Len(em) + 1), Append(em, kind), wr, ph, over)
<1> DEFINE longer == Append(out, Len(em) + 1)
           more == Append(em, kind)
<1>1. em \in Seq(Kinds) /\ out \in Seq(Nat \cup {Stop}) /\ wr \in Seq(Nat)
  BY DEF OutGood, OutTypes
<1>2. /\ DOMAIN em = 1 .. Len(em) /\ DOMAIN more = 1 .. (Len(em) + 1)
      /\ Len(em) \in Nat /\ more[Len(em) + 1] = kind /\ more \in Seq(Kinds)
      /\ \A i \in DOMAIN em : more[i] = em[i]
  BY <1>1
<1>3. /\ DOMAIN out = 1 .. Len(out) /\ DOMAIN longer = 1 .. (Len(out) + 1)
      /\ Len(out) \in Nat /\ longer[Len(out) + 1] = Len(em) + 1
      /\ longer \in Seq(Nat \cup {Stop})
      /\ \A k \in DOMAIN out : longer[k] = out[k]
  BY <1>1, <1>2
<1> HIDE DEF longer, more
<1>4. Queued(longer) = Queued(out) \cup {Len(out) + 1}
  BY <1>2, <1>3, StopIsNoMessage DEF Queued
<1>5. Ordered(longer, more, wr)
  <2>1. \A k \in Queued(out) :
          k \in DOMAIN out /\ longer[k] = out[k] /\ out[k] \in DOMAIN em /\ out[k] \in Nat
    BY <1>2, <1>3 DEF OutGood, Ordered, Queued
  <2>2. \A k \in DOMAIN wr : wr[k] \in DOMAIN em /\ wr[k] \in DOMAIN more /\ wr[k] < Len(em) + 1
    BY <1>2 DEF OutGood, Ordered
  <2>3. \A k \in Queued(longer) : longer[k] \in DOMAIN more
    BY <1>2, <1>3, <1>4, <2>1
  <2>4. \A k, l \in Queued(longer) : k < l => longer[k] < longer[l]
    <3> SUFFICES ASSUME NEW k \in Queued(longer), NEW l \in Queued(longer), k < l
                 PROVE  longer[k] < longer[l]
      OBVIOUS
    <3>1. CASE l \in Queued(out)
      <4>1. k \in Queued(out)
        BY <1>3, <1>4, <2>1, <3>1
      <4> QED
        BY <2>1, <3>1, <4>1 DEF OutGood, Ordered
    <3>2. CASE l = Len(out) + 1
      <4>1. k \in Queued(out)
        BY <1>4, <3>2
      <4> QED
        BY <1>2, <1>3, <2>1, <3>2, <4>1
    <3> QED
      BY <1>4, <3>1, <3>2
  <2>5. \A k \in DOMAIN wr, l \in Queued(longer) : wr[k] < longer[l]
    BY <1>3, <1>4, <2>1, <2>2 DEF OutGood, Ordered
  <2> QED
    BY <2>2, <2>3, <2>4, <2>5 DEF OutGood, Ordered
<1>6. NothingLost(longer, more, wr)
  BY <1>2, <1>3 DEF OutGood, NothingLost
<1>7. ASSUME NEW l \in DOMAIN out, IsReport(out, em, l)
      PROVE  IsReport(longer, more, l)
  <2>1. l \in Queued(out) /\ out[l] \in DOMAIN em
    BY <1>7 DEF IsReport, Queued, OutGood, Ordered
  <2> QED
    BY <1>2, <1>3, <1>7, <2>1 DEF IsReport
<1>8. kind = "report" => IsReport(longer, more, Len(out) + 1)
  BY <1>2, <1>3, StopIsNoMessage DEF IsReport
<1>9. SentinelIsLast(longer, more, ph, over)
  <2>1. ph \in {"serving", "stopping"} => Queued(longer) = DOMAIN longer /\ ~over
    BY <1>3, <1>4 DEF OutGood, SentinelIsLast
  <2>2. ASSUME NEW k \in DOMAIN longer, NEW l \in DOMAIN longer, longer[k] = Stop, k < l
        PROVE  IsReport(longer, more, l)
    <3>1. k \in DOMAIN out /\ out[k] = Stop /\ k \notin Queued(out)
      BY <1>3, <2>2 DEF Queued
    <3>2. ph \notin {"serving", "stopping"}
      BY <3>1 DEF OutGood, SentinelIsLast
    <3>3. l \in DOMAIN out => IsReport(out, em, l)
      BY <2>2, <3>1 DEF OutGood, SentinelIsLast
    <3>4. l \in DOMAIN out \/ l = Len(out) + 1
      BY <1>3
    <3> QED
      BY <1>7, <1>8, <3>2, <3>3, <3>4
  <2>3. ASSUME over, NEW l \in DOMAIN longer
        PROVE  IsReport(longer, more, l)
    <3>1. ph \notin {"serving", "stopping"} /\ (l \in DOMAIN out => IsReport(out, em, l))
      BY <2>3 DEF OutGood, SentinelIsLast
    <3>2. l \in DOMAIN out \/ l = Len(out) + 1
      BY <1>3
    <3> QED
      BY <1>7, <1>8, <3>1, <3>2
  <2> QED
    BY <2>1, <2>2, <2>3 DEF SentinelIsLast
<1>10. OutTypes(longer, more, wr)
  BY <1>1, <1>2, <1>3 DEF OutTypes
<1> QED
  BY <1>5, <1>6, <1>9, <1>10 DEF OutGood, longer, more

LEMMA TailFacts ==
  ASSUME NEW S, NEW s \in Seq(S), s # <<>>
  PROVE  /\ Tail(s) \in Seq(S) /\ DOMAIN Tail(s) = 1 .. (Len(s) - 1)
         /\ DOMAIN s = 1 .. Len(s) /\ Len(s) \in Nat \ {0} /\ Head(s) = s[1]
         /\ \A k \in DOMAIN Tail(s) : k + 1 \in DOMAIN s /\ Tail(s)[k] = s[k + 1]
  OBVIOUS

\* The head of the outbox is taken away: the sentinel, or a message that is not to be
\* written or was.
LEMMA TailSound ==
  ASSUME NEW out, NEW em, NEW wr, NEW ph, NEW over \in BOOLEAN,
         OutGood(out, em, wr, ph, over), out # <<>>,
         Head(out) # Stop /\ em[Head(out)] = "fine" => \E k \in DOMAIN wr : wr[k] = Head(out)
  PROVE  OutGood(Tail(out), em, wr, ph, over \/ Head(out) = Stop)
<1> DEFINE rest == Tail(out)
<1>1. em \in Seq(Kinds) /\ out \in Seq(Nat \cup {Stop}) /\ wr \in Seq(Nat)
  BY DEF OutGood, OutTypes
<1>2. /\ rest \in Seq(Nat \cup {Stop}) /\ DOMAIN rest = 1 .. (Len(out) - 1)
      /\ DOMAIN out = 1 .. Len(out) /\ Len(out) \in Nat \ {0} /\ Head(out) = out[1]
      /\ \A k \in DOMAIN rest : k + 1 \in DOMAIN out /\ rest[k] = out[k + 1]
  BY <1>1, TailFacts
<1> HIDE DEF rest
<1>3. \A k \in Queued(rest) :
        k \in DOMAIN rest /\ k \in Nat /\ k + 1 \in Queued(out) /\ rest[k] = out[k + 1]
  BY <1>2 DEF Queued
<1>4. Ordered(rest, em, wr)
  <2>1. \A k \in Queued(rest) : rest[k] \in DOMAIN em
    BY <1>3 DEF OutGood, Ordered
  <2>2. \A k, l \in Queued(rest) : k < l => rest[k] < rest[l]
    <3> SUFFICES ASSUME NEW k \in Queued(rest), NEW l \in Queued(rest), k < l
                 PROVE  rest[k] < rest[l]
      OBVIOUS
    <3>1. k + 1 \in Queued(out) /\ l + 1 \in Queued(out) /\ k + 1 < l + 1
      BY <1>3
    <3> QED
      BY <1>3, <3>1 DEF OutGood, Ordered
  <2>3. \A k \in DOMAIN wr, l \in Queued(rest) : wr[k] < rest[l]
    BY <1>3 DEF OutGood, Ordered
  <2> QED
    BY <2>1, <2>2, <2>3 DEF OutGood, Ordered
<1>5. NothingLost(rest, em, wr)
  <2> SUFFICES ASSUME NEW i \in DOMAIN em, em[i] = "fine"
               PROVE  (\E k \in DOMAIN wr : wr[k] = i) \/ (\E l \in DOMAIN rest : rest[l] = i)
    BY DEF NothingLost
  <2>1. CASE \E k \in DOMAIN wr : wr[k] = i
    BY <2>1
  <2>2. CASE \E l \in DOMAIN out : out[l] = i
    <3>1. PICK l \in DOMAIN out : out[l] = i
      BY <2>2
    <3>2. CASE l = 1
      <4>1. i \in Nat
        BY <1>1
      <4> QED
        BY <1>2, <3>1, <3>2, <4>1, StopIsNoMessage
    <3>3. CASE l # 1
      <4>1. l - 1 \in DOMAIN rest /\ rest[l - 1] = out[(l - 1) + 1] /\ (l - 1) + 1 = l
        BY <1>2, <3>3
      <4> QED
        BY <3>1, <4>1
    <3> QED
      BY <3>2, <3>3
  <2> QED
    BY <2>1, <2>2 DEF OutGood, NothingLost
<1>6. ASSUME NEW l \in DOMAIN rest, IsReport(out, em, l + 1)
      PROVE  IsReport(rest, em, l)
  BY <1>2, <1>6 DEF IsReport
<1>7. SentinelIsLast(rest, em, ph, over \/ Head(out) = Stop)
  <2>1. ph \in {"serving", "stopping"} =>
          Queued(rest) = DOMAIN rest /\ ~(over \/ Head(out) = Stop)
    BY <1>2 DEF OutGood, SentinelIsLast, Queued
  <2>2. ASSUME NEW k \in DOMAIN rest, NEW l \in DOMAIN rest, rest[k] = Stop, k < l
        PROVE  IsReport(rest, em, l)
    <3>1. out[k + 1] = Stop /\ k + 1 < l + 1 /\ k + 1 \in DOMAIN out /\ l + 1 \in DOMAIN out
      BY <1>2, <2>2
    <3>2. IsReport(out, em, l + 1)
      BY <3>1 DEF OutGood, SentinelIsLast
    <3> QED
      BY <1>6, <3>2
  <2>3. ASSUME over \/ Head(out) = Stop, NEW l \in DOMAIN rest
        PROVE  IsReport(rest, em, l)
    <3>1. l + 1 \in DOMAIN out /\ 1 \in DOMAIN out /\ 1 < l + 1
      BY <1>2
    <3>2. IsReport(out, em, l + 1)
      BY <1>2, <2>3, <3>1 DEF OutGood, SentinelIsLast
    <3> QED
      BY <1>6, <3>2
  <2> QED
    BY <2>1, <2>2, <2>3 DEF SentinelIsLast
<1>8. OutTypes(rest, em, wr)
  BY <1>1, <1>2 DEF OutTypes
<1> QED
  BY <1>4, <1>5, <1>7, <1>8 DEF OutGood, rest

\* The head of the outbox is written.
LEMMA WrittenSound ==
  ASSUME NEW out, NEW em, NEW wr, NEW ph, NEW over \in BOOLEAN,
         OutGood(out, em, wr, ph, over), out # <<>>, Head(out) # Stop
  PROVE  OutGood(Tail(out), em, Append(wr, Head(out)), ph, over)
<1> DEFINE rest == Tail(out)
           longer == Append(wr, Head(out))
<1>1. em \in Seq(Kinds) /\ out \in Seq(Nat \cup {Stop}) /\ wr \in Seq(Nat)
  BY DEF OutGood, OutTypes
<1>2. /\ rest \in Seq(Nat \cup {Stop}) /\ DOMAIN rest = 1 .. (Len(out) - 1)
      /\ DOMAIN out = 1 .. Len(out) /\ Len(out) \in Nat \ {0} /\ Head(out) = out[1]
      /\ \A k \in DOMAIN rest : k + 1 \in DOMAIN out /\ rest[k] = out[k + 1]
  BY <1>1, TailFacts
<1>3. 1 \in Queued(out) /\ out[1] \in Nat
  BY <1>1, <1>2 DEF Queued
<1>4. /\ longer \in Seq(Nat) /\ DOMAIN longer = 1 .. (Len(wr) + 1)
      /\ DOMAIN wr = 1 .. Len(wr) /\ Len(wr) \in Nat
      /\ \A k \in DOMAIN wr : longer[k] = wr[k] /\ wr[k] \in Nat
      /\ longer[Len(wr) + 1] = out[1]
  BY <1>1, <1>2, <1>3
<1> HIDE DEF rest, longer
<1>5. \A k \in Queued(rest) :
        k \in DOMAIN rest /\ k \in Nat \ {0} /\ k + 1 \in Queued(out) /\ rest[k] = out[k + 1]
  BY <1>2 DEF Queued
<1>6. Ordered(rest, em, longer)
  <2>1. \A k \in Queued(rest) : rest[k] \in DOMAIN em
    BY <1>5 DEF OutGood, Ordered
  <2>2. \A k \in DOMAIN longer : longer[k] \in DOMAIN em
    BY <1>3, <1>4 DEF OutGood, Ordered
  <2>3. \A k, l \in Queued(rest) : k < l => rest[k] < rest[l]
    <3> SUFFICES ASSUME NEW k \in Queued(rest), NEW l \in Queued(rest), k < l
                 PROVE  rest[k] < rest[l]
      OBVIOUS
    <3>1. k + 1 \in Queued(out) /\ l + 1 \in Queued(out) /\ k + 1 < l + 1
      BY <1>5
    <3> QED
      BY <1>5, <3>1 DEF OutGood, Ordered
  <2>4. \A k \in DOMAIN longer, l \in Queued(rest) : longer[k] < rest[l]
    <3> SUFFICES ASSUME NEW k \in DOMAIN longer, NEW l \in Queued(rest)
                 PROVE  longer[k] < rest[l]
      OBVIOUS
    <3>1. l + 1 \in Queued(out) /\ 1 < l + 1 /\ rest[l] = out[l + 1]
      BY <1>5
    <3>2. CASE k \in DOMAIN wr
      BY <1>4, <3>1, <3>2 DEF OutGood, Ordered
    <3>3. CASE k = Len(wr) + 1
      BY <1>3, <1>4, <3>1, <3>3 DEF OutGood, Ordered
    <3> QED
      BY <1>4, <3>2, <3>3
  <2>5. \A m, n \in DOMAIN longer : m < n => longer[m] < longer[n]
    <3> SUFFICES ASSUME NEW m \in DOMAIN longer, NEW n \in DOMAIN longer, m < n
                 PROVE  longer[m] < longer[n]
      OBVIOUS
    <3>1. m \in DOMAIN wr
      BY <1>4
    <3>2. CASE n \in DOMAIN wr
      BY <1>4, <3>1, <3>2 DEF OutGood, Ordered
    <3>3. CASE n = Len(wr) + 1
      BY <1>3, <1>4, <3>1, <3>3 DEF OutGood, Ordered
    <3> QED
      BY <1>4, <3>2, <3>3
  <2> QED
    BY <2>1, <2>2, <2>3, <2>4, <2>5 DEF Ordered
<1>7. NothingLost(rest, em, longer)
  <2> SUFFICES ASSUME NEW i \in DOMAIN em, em[i] = "fine"
               PROVE  \/ \E k \in DOMAIN longer : longer[k] = i
                      \/ \E l \in DOMAIN rest : rest[l] = i
    BY DEF NothingLost
  <2>1. CASE \E k \in DOMAIN wr : wr[k] = i
    BY <1>4, <2>1
  <2>2. CASE \E l \in DOMAIN out : out[l] = i
    <3>1. PICK l \in DOMAIN out : out[l] = i
      BY <2>2
    <3>2. CASE l = 1
      <4>1. Len(wr) + 1 \in DOMAIN longer /\ longer[Len(wr) + 1] = i
        BY <1>4, <3>1, <3>2
      <4> QED
        BY <4>1
    <3>3. CASE l # 1
      <4>1. l - 1 \in DOMAIN rest /\ rest[l - 1] = out[(l - 1) + 1] /\ (l - 1) + 1 = l
        BY <1>2, <3>3
      <4> QED
        BY <3>1, <4>1
    <3> QED
      BY <3>2, <3>3
  <2> QED
    BY <2>1, <2>2 DEF OutGood, NothingLost
<1>8. ASSUME NEW l \in DOMAIN rest, IsReport(out, em, l + 1)
      PROVE  IsReport(rest, em, l)
  BY <1>2, <1>8 DEF IsReport
<1>9. SentinelIsLast(rest, em, ph, over)
  <2>1. ph \in {"serving", "stopping"} => Queued(rest) = DOMAIN rest /\ ~over
    BY <1>2 DEF OutGood, SentinelIsLast, Queued
  <2>2. ASSUME NEW k \in DOMAIN rest, NEW l \in DOMAIN rest, rest[k] = Stop, k < l
        PROVE  IsReport(rest, em, l)
    <3>1. out[k + 1] = Stop /\ k + 1 < l + 1 /\ k + 1 \in DOMAIN out /\ l + 1 \in DOMAIN out
      BY <1>2, <2>2
    <3>2. IsReport(out, em, l + 1)
      BY <3>1 DEF OutGood, SentinelIsLast
    <3> QED
      BY <1>8, <3>2
  <2>3. ASSUME over, NEW l \in DOMAIN rest
        PROVE  IsReport(rest, em, l)
    <3>1. IsReport(out, em, l + 1)
      BY <1>2, <2>3 DEF OutGood, SentinelIsLast
    <3> QED
      BY <1>8, <3>1
  <2> QED
    BY <2>1, <2>2, <2>3 DEF SentinelIsLast
<1>10. OutTypes(rest, em, longer)
  BY <1>1, <1>2, <1>4 DEF OutTypes
<1> QED
  BY <1>6, <1>7, <1>9, <1>10 DEF OutGood, rest, longer

\* The sentinel goes to the end of the outbox.
LEMMA SentinelSound ==
  ASSUME NEW out, NEW em, NEW wr,
         OutGood(out, em, wr, "stopping", FALSE)
  PROVE  OutGood(Append(out, Stop), em, wr, "draining", FALSE)
<1> DEFINE longer == Append(out, Stop)
<1>1. em \in Seq(Kinds) /\ out \in Seq(Nat \cup {Stop}) /\ wr \in Seq(Nat)
  BY DEF OutGood, OutTypes
<1>2. /\ DOMAIN out = 1 .. Len(out) /\ DOMAIN longer = 1 .. (Len(out) + 1)
      /\ Len(out) \in Nat /\ longer[Len(out) + 1] = Stop
      /\ longer \in Seq(Nat \cup {Stop})
      /\ \A k \in DOMAIN out : longer[k] = out[k]
  BY <1>1
<1> HIDE DEF longer
<1>3. Queued(out) = DOMAIN out /\ Queued(longer) = Queued(out)
  BY <1>2 DEF OutGood, SentinelIsLast, Queued
<1>4. Ordered(longer, em, wr)
  BY <1>2, <1>3 DEF OutGood, Ordered
<1>5. NothingLost(longer, em, wr)
  BY <1>2 DEF OutGood, NothingLost
<1>6. SentinelIsLast(longer, em, "draining", FALSE)
  BY <1>2, <1>3 DEF SentinelIsLast, Queued
<1>7. OutTypes(longer, em, wr)
  BY <1>1, <1>2 DEF OutTypes
<1> QED
  BY <1>4, <1>5, <1>6, <1>7 DEF OutGood, longer

-----------------------------------------------------------------------------
(* The steps. *)

LEMMA OutInit == Init => OutInv
  BY DEF Init, OutInv, OutGood, OutTypes, Ordered, NothingLost, SentinelIsLast, Queued

LEMMA OutKept ==
  ASSUME OutInv, UNCHANGED <<output, writer, written>>,
         \/ phase' = phase
         \/ phase' = "stopping" /\ phase = "serving"
         \/ phase' = "ended" /\ phase = "draining"
  PROVE  OutInv'
  BY DEF OutInv, OutGood, OutTypes, Ordered, NothingLost, SentinelIsLast, Queued, output, IsReport

\* A device says something while it is served, or while its task is being cancelled.
LEMMA EmitSound ==
  ASSUME OutInv, NEW kind \in Kinds, Emit(kind), phase \in {"serving", "stopping"},
         UNCHANGED <<written, phase, writer>>
  PROVE  OutInv'
<1>1. OutGood(outbox', emitted', written', phase', writer' = "done")
  BY AppendSound DEF Emit, OutInv
<1>2. writer = "writing" => outbox' # <<>> /\ Head(outbox') = Head(outbox)
  <2> SUFFICES ASSUME outbox # <<>> PROVE outbox' # <<>> /\ Head(outbox') = Head(outbox)
    BY DEF OutInv
  <2>1. outbox \in Seq(Nat \cup {Stop}) /\ emitted \in Seq(Kinds)
    BY DEF OutInv, OutGood, OutTypes
  <2>2. outbox' = Append(outbox, Len(emitted) + 1) /\ Len(emitted) + 1 \in Nat
    BY <2>1 DEF Emit
  <2> QED
    BY <2>1, <2>2
<1> QED
  BY <1>1, <1>2 DEF OutInv

LEMMA TakeSound == OutInv /\ Take => OutInv'
<1> SUFFICES ASSUME OutInv, Take PROVE OutInv'
  OBVIOUS
<1>1. /\ outbox # <<>> /\ writer = "getting" /\ phase' = phase
      /\ OutGood(outbox, emitted, written, phase, FALSE)
  BY DEF Take, OutInv
<1>2. CASE /\ Head(outbox) = Stop /\ writer' = "done" /\ outbox' = Tail(outbox)
           /\ UNCHANGED <<emitted, written>>
  BY <1>1, <1>2, TailSound DEF OutInv
<1>3. CASE Head(outbox) # Stop /\ writer' = "writing" /\ UNCHANGED <<output, written>>
  BY <1>1, <1>3 DEF OutInv, output
<1>4. CASE /\ Head(outbox) # Stop /\ emitted[Head(outbox)] = "broken"
           /\ emitted' = Append(emitted, "report")
           /\ outbox' = Append(Tail(outbox), Len(emitted) + 1)
           /\ UNCHANGED <<writer, written>>
  <2>1. OutGood(Tail(outbox), emitted, written, phase, FALSE)
    BY <1>1, <1>4, TailSound
  <2>2. OutGood(outbox', emitted', written', phase', FALSE)
    BY <1>1, <1>4, <2>1, AppendSound DEF Kinds
  <2> QED
    BY <1>1, <1>4, <2>2 DEF OutInv
<1> QED
  BY <1>2, <1>3, <1>4 DEF Take

LEMMA WriteSound == OutInv /\ (Write \/ WriteFails) => OutInv'
<1> SUFFICES ASSUME OutInv, Write \/ WriteFails PROVE OutInv'
  OBVIOUS
<1>1. CASE Write
  BY <1>1, WrittenSound DEF Write, OutInv
<1>2. CASE WriteFails
  BY <1>2 DEF WriteFails, OutInv, output
<1> QED
  BY <1>1, <1>2

LEMMA DrainsSound == OutInv /\ Drains => OutInv'
<1> SUFFICES ASSUME OutInv, Drains PROVE OutInv'
  OBVIOUS
<1>1. phase = "stopping" /\ phase' = "draining" /\ writer # "done"
  BY DEF Drains, OutInv, OutGood, SentinelIsLast
<1>2. OutGood(outbox, emitted, written, "stopping", FALSE)
  BY <1>1 DEF OutInv
<1>3. OutGood(outbox', emitted', written', phase', writer' = "done")
  BY <1>1, <1>2, SentinelSound DEF Drains
<1>4. writer = "writing" => outbox' # <<>> /\ Head(outbox') # Stop
  <2> SUFFICES ASSUME outbox # <<>>, Head(outbox) # Stop
               PROVE  outbox' # <<>> /\ Head(outbox') # Stop
    BY DEF OutInv
  <2>1. outbox \in Seq(Nat \cup {Stop}) /\ outbox' = Append(outbox, Stop)
    BY DEF OutInv, OutGood, OutTypes, Drains
  <2> QED
    BY <2>1
<1> QED
  BY <1>3, <1>4 DEF OutInv, Drains

LEMMA OutStep == OutInv /\ [Next]_vars => OutInv'
<1> SUFFICES ASSUME OutInv, [Next]_vars PROVE OutInv'
  OBVIOUS
<1>1. ASSUME NEW kind \in Kinds, Emit(kind), phase \in {"serving", "stopping"},
             UNCHANGED <<written, phase, writer>>
      PROVE  OutInv'
  BY <1>1, EmitSound
<1>2. CASE HandlerEmits \/ HandlerRaises
  BY <1>1, <1>2 DEF HandlerEmits, HandlerRaises, DeviceEmits, LogError, Kinds, Serving
<1>3. CASE CancelReader
  <2>1. UNCHANGED <<written, phase, writer>> /\ phase = "stopping"
    BY <1>3 DEF CancelReader
  <2>2. UNCHANGED output \/ \E kind \in Kinds : Emit(kind)
    BY <1>3 DEF CancelReader, LastWords, DeviceEmits, Kinds
  <2> QED
    BY <1>1, <2>1, <2>2, OutKept
<1>4. ASSUME NEW j \in Jobs, TickEmits(j) \/ TickEnds(j) \/ CancelJob(j)
      PROVE  OutInv'
  <2>1. UNCHANGED <<written, phase, writer>> /\ phase \in {"serving", "stopping"}
    BY <1>4 DEF TickEmits, TickEnds, CancelJob, Serving
  <2>2. UNCHANGED output \/ \E kind \in Kinds : Emit(kind)
    BY <1>4 DEF TickEmits, TickEnds, CancelJob, LastWords, LogError, DeviceEmits, Kinds
  <2> QED
    BY <1>1, <2>1, <2>2, OutKept
<1>5. CASE \/ Reads \/ ReadEnds \/ Handles \/ HandlerReturns \/ Elapse \/ Stops \/ Ends
           \/ Cancelled \/ (\E j \in Jobs : Ticks(j)) \/ UNCHANGED vars
  <2>1. UNCHANGED <<output, writer, written>>
    BY <1>5
    DEF Reads, ReadChunk, ReadEnds, Handles, ChunkDone, NextMessage, HandlerBegins,
        HandlerReturns, Elapse, Stops, Ends, Cancelled, Ticks, Gate, Wake, Skip, TickBegins, vars
  <2>2. \/ phase' = phase
        \/ phase' = "stopping" /\ phase = "serving"
        \/ phase' = "ended" /\ phase = "draining"
    BY <1>5
    DEF Reads, ReadChunk, ReadEnds, Handles, ChunkDone, NextMessage, HandlerBegins,
        HandlerReturns, Elapse, Stops, Ends, Cancelled, Ticks, Gate, Wake, Skip, TickBegins, vars,
        Serving
  <2> QED
    BY <2>1, <2>2, OutKept
<1> QED
  BY <1>2, <1>3, <1>4, <1>5, TakeSound, WriteSound, DrainsSound
  DEF Next, HandlerEnds, Writes, Finishes

\* For any devices and jobs, whatever fails or is cancelled: what is written is written once
\* and in order, and a driver that has ended without a failed write has written everything
\* its devices said that could be written.
THEOREM NothingSaidIsLost == Spec => []Drained
<1>1. OutInv => Drained
  <2> SUFFICES ASSUME OutInv PROVE Drained
    OBVIOUS
  <2>1. InOrder
    BY DEF OutInv, OutGood, Ordered, InOrder
  <2>2. ASSUME writer = "done", NEW i \in DOMAIN emitted, emitted[i] = "fine"
        PROVE  \E k \in DOMAIN written : written[k] = i
    <3>1. \A l \in DOMAIN outbox : outbox[l] # i
      BY <2>2 DEF OutInv, OutGood, SentinelIsLast, IsReport
    <3> QED
      BY <2>2, <3>1 DEF OutInv, OutGood, NothingLost
  <2> QED
    BY <2>1, <2>2 DEF Drained
<1> QED
  BY <1>1, OutInit, OutStep, PTL DEF Spec

=============================================================================
