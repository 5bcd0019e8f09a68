------------------------------ MODULE Runtime -------------------------------
(***************************************************************************)
(* DriverRuntime (src/src/indikit/driver/runtime.py): several devices on   *)
(* one stream.                                                             *)
(*                                                                         *)
(*   reader   reads a chunk, and hands each message of it to each device   *)
(*            it is for, one after the other, under that device's guard    *)
(*   jobs     the @every jobs, each under the guard of its own device      *)
(*   writer   takes the messages of the outbox to the transport            *)
(*   serve    waits for either end to finish, cancels the rest, lets the   *)
(*            writer drain and stops                                       *)
(*                                                                         *)
(* What a device does with a message and in a tick is the module Device;   *)
(* here it emits, raises, returns, and completes its setup.  A message     *)
(* that is emitted can be written (Fine) or not be serialised (Broken).    *)
(*                                                                         *)
(* Time: `left` is deadline - loop.time(), and what is more than an        *)
(* interval late is as late as it can be; `ago` says how long ago each of  *)
(* the two last ticks began, up to an interval.                            *)
(***************************************************************************)
EXTENDS StreamParser

CONSTANTS
  Devices,       \* the devices served, in order: a sequence
  Jobs,          \* the @every jobs
  DeviceOf,      \* the device a job belongs to
  Immediate,     \* the jobs with start_immediately
  WhenConnected, \* the jobs with when_connected
  Interval,      \* spec.interval
  Hanging,       \* the devices whose handlers may never return
  Reader,        \* the reader task
  Stop,          \* the outbox's sentinel
  Chunks,        \* what a read may return
  MaxDepth,      \* bound: how deep unclosed elements nest
  MaxEmits       \* bound: messages the devices emit

Served == Range(Devices)
Tasks == Jobs \cup {Reader}

\* A message is a getProperties (asks) or a write, and is for some devices.
ASSUME RuntimeAssumption ==
  /\ Devices \in Seq(Served)
  /\ Reader \notin Jobs /\ DeviceOf \in [Jobs -> Served]
  /\ Immediate \subseteq Jobs /\ WhenConnected \subseteq Jobs /\ Hanging \subseteq Served
  /\ Interval \in Nat \ {0} /\ MaxDepth \in Nat /\ MaxEmits \in Nat
  /\ \A m \in Messages : m.asks \in BOOLEAN /\ m.for \subseteq Served
  /\ \A c \in Chunks : c.bytes \in Nat \ {0} /\ c.tags \in Seq(Tags)
ASSUME StopIsNoMessage == Stop \notin Nat

VARIABLES
  (* the reader *)
  parser,    \* XMLStreamParser
  pending,   \* what the chunk has still to yield
  reader,    \* where the reader is
  message,   \* the message that is being handed round
  to,        \* the devices it has still to be handed to, the present one first
  (* the devices *)
  guard,     \* Device._dispatch_lock: its holder, then those who wait
  setup,     \* the devices whose setup() is complete
  connected, \* the devices that are connected
  (* the jobs *)
  job,       \* where each job is
  left,      \* the time to its deadline
  ago,       \* how long ago its last tick, and the one before, began
  (* the writer *)
  outbox,    \* DriverRuntime._outbox
  writer,    \* where the writer is
  (* serve *)
  phase,
  (* history *)
  emitted,   \* every message that was put on the outbox
  written,   \* those that reached the transport
  silence,   \* bytes of the chunks since an element last ended, or the parser was rebuilt
  gone       \* the input ended or failed, a write failed, or serve() was cancelled

input == <<parser, pending, silence>>
handing == <<reader, message, to>>
timing == <<left, ago>>
output == <<outbox, emitted>>
devices == <<guard, setup, connected>>
vars == <<input, handing, devices, job, timing, output, writer, written, phase, gone>>

NoMessage == [asks |-> FALSE, for |-> {}]
Late == -(Interval + 1)
Soonest(t) == IF t < Late THEN Late ELSE t
Longest(t) == IF t > Interval THEN Interval ELSE t

Init ==
  /\ parser = NewParser /\ pending = <<>> /\ silence = 0
  /\ reader = "reading" /\ message = NoMessage /\ to = <<>>
  /\ guard = [d \in Served |-> <<>>] /\ setup = {} /\ connected = {}
  /\ job = [j \in Jobs |-> "gated"]
  /\ left = [j \in Jobs |-> 0]
  /\ ago = [j \in Jobs |-> [last |-> Interval, before |-> Interval]]
  /\ outbox = <<>> /\ emitted = <<>> /\ writer = "getting" /\ written = <<>>
  /\ phase = "serving" /\ gone = FALSE

Serving == phase = "serving"

\* The jobs that run now, and the devices whose connection any job asks about.
Due(j) == j \in WhenConnected => DeviceOf[j] \in connected
Polled == {DeviceOf[j] : j \in WhenConnected}

-----------------------------------------------------------------------------
(* The outbox and the guards. *)

\* DriverRuntime._emit, DriverRuntime._report
Emit(kind) ==
  /\ emitted' = Append(emitted, kind)
  /\ outbox' = Append(outbox, Len(emitted) + 1)

\* A device has something to say, which the codec may or may not render.
MayEmit == Len(SelectSeq(emitted, LAMBDA k : k # "report")) < MaxEmits
DeviceEmits == MayEmit /\ \E kind \in {"fine", "broken"} : Emit(kind)
\* device.log_error
LogError == MayEmit /\ Emit("fine")

Joined(g, task, d) == [g EXCEPT ![d] = Append(@, task)]
Released(d) == [guard EXCEPT ![d] = Tail(@)]
Holds(task, d) == guard[d] # <<>> /\ Head(guard[d]) = task
Without(task) == [d \in Served |-> SelectSeq(guard[d], LAMBDA t : t # task)]

-----------------------------------------------------------------------------
(* DriverRuntime._reader_loop *)

ReadChunk(c) ==
  /\ Serving /\ reader = "reading"
  /\ Fed(parser, c).depth <= MaxDepth
  /\ parser' = Fed(parser, c)
  /\ pending' = Yielded(parser, c)
  /\ silence' = IF Seen(parser, c).ended # <<>> THEN 0 ELSE silence + c.bytes
  /\ reader' = "fed"
  /\ UNCHANGED <<message, to, devices, job, timing, output, writer, written, phase, gone>>

\* The reader has ended, and its parser and what it was iterating are gone with it.
ReaderGone ==
  /\ parser' = NewParser /\ pending' = <<>> /\ silence' = 0
  /\ message' = NoMessage /\ to' = <<>>

\* EOF, or the read raises.
ReadEnds ==
  /\ Serving /\ reader = "reading"
  /\ reader' \in {"eof", "failed"} /\ gone' = TRUE
  /\ ReaderGone
  /\ UNCHANGED <<devices, job, timing, output, writer, written, phase>>

\* The chunk has yielded all it had.
ChunkDone ==
  /\ Serving /\ reader = "fed" /\ pending = <<>>
  /\ parser' = IF Stalled(parser) THEN Resynced(parser) ELSE parser
  /\ silence' = IF Stalled(parser) THEN 0 ELSE silence
  /\ reader' = "reading"
  /\ UNCHANGED <<pending, message, to, devices, job, timing, output, writer, written,
                 phase, gone>>

(* DriverRuntime._handle: a device the message is not for returns at once. *)

\* The message goes to the next of its devices, where the reader waits its turn.
HandTo(m, names, g) ==
  /\ to' = names /\ message' = IF names = <<>> THEN NoMessage ELSE m
  /\ reader' = IF names = <<>> THEN "fed" ELSE "queued"
  /\ guard' = IF names = <<>> THEN g ELSE Joined(g, Reader, Head(names))

NextMessage ==
  /\ Serving /\ reader = "fed" /\ pending # <<>>
  /\ pending' = Tail(pending)
  /\ HandTo(Head(pending), SelectSeq(Devices, LAMBDA d : d \in Head(pending).for), guard)
  /\ UNCHANGED <<parser, silence, setup, connected, job, timing, output, writer, written, phase, gone>>

HandlerBegins ==
  /\ Serving /\ reader = "queued" /\ Holds(Reader, Head(to))
  /\ reader' = "running"
  /\ UNCHANGED <<input, message, to, devices, job, timing, output, writer, written,
                 phase, gone>>

HandlerEmits ==
  /\ Serving /\ reader = "running"
  /\ DeviceEmits
  /\ UNCHANGED <<input, handing, devices, job, timing, writer, written, phase, gone>>

\* A getProperties opens the gate of its device's jobs, also when setup() raises.
SetUpAfter(m, d) == IF m.asks THEN setup \cup {d} ELSE setup

HandlerReturns ==
  /\ Serving /\ reader = "running"
  /\ setup' = SetUpAfter(message, Head(to))
  /\ connected' \in {connected, Polled \cap (connected \cup {Head(to)}), connected \ {Head(to)}}
  /\ HandTo(message, Tail(to), Released(Head(to)))
  /\ UNCHANGED <<input, job, timing, output, writer, written, phase, gone>>

\* Mutant: the exception ends the reader.
HandlerRaisesThrough ==
  /\ Serving /\ reader = "running"
  /\ reader' = "failed" /\ guard' = Released(Head(to))
  /\ setup' = SetUpAfter(message, Head(to))
  /\ ReaderGone
  /\ UNCHANGED <<connected, job, timing, output, writer, written, phase, gone>>
\* The exception is reported, and the devices behind this one get the message.
HandlerRaises ==
  /\ Serving /\ reader = "running"
  /\ LogError
  /\ setup' = SetUpAfter(message, Head(to))
  /\ HandTo(message, Tail(to), Released(Head(to)))
  /\ UNCHANGED <<input, connected, job, timing, writer, written, phase, gone>>

HandlerEnds == HandlerReturns \/ HandlerRaises

-----------------------------------------------------------------------------
(* DriverRuntime._run_periodic and _tick *)

\* Mutant: a job that is late catches up.
NextDeadlineCatchingUp(j) == Soonest(left[j] + Interval)
\* An overrun is forgotten: the next deadline is never in the past.
NextDeadline(j) == IF left[j] + Interval < 0 THEN 0 ELSE left[j] + Interval

\* setup() is complete: the deadline is now, and an immediate job has its first tick.
Gate(j) ==
  /\ Serving /\ job[j] = "gated" /\ DeviceOf[j] \in setup
  /\ \/ /\ j \in Immediate /\ Due(j)
        /\ job' = [job EXCEPT ![j] = "queued"]
        /\ left' = [left EXCEPT ![j] = 0]
        /\ guard' = Joined(guard, j, DeviceOf[j])
     \/ /\ ~(j \in Immediate /\ Due(j))
        /\ job' = [job EXCEPT ![j] = "sleeping"]
        /\ left' = [left EXCEPT ![j] = Interval]
        /\ UNCHANGED guard
  /\ UNCHANGED <<input, handing, setup, connected, ago, output, writer, written, phase, gone>>

Wake(j) ==
  /\ Serving /\ job[j] = "sleeping" /\ left[j] <= 0 /\ Due(j)
  /\ job' = [job EXCEPT ![j] = "queued"]
  /\ guard' = Joined(guard, j, DeviceOf[j])
  /\ UNCHANGED <<input, handing, setup, connected, timing, output, writer, written, phase, gone>>

\* The device is not connected.
Skip(j) ==
  /\ Serving /\ job[j] = "sleeping" /\ left[j] <= 0 /\ ~Due(j)
  /\ left' = [left EXCEPT ![j] = NextDeadline(j)]
  /\ UNCHANGED <<input, handing, devices, job, ago, output, writer, written, phase, gone>>

TickBegins(j) ==
  /\ Serving /\ job[j] = "queued" /\ Holds(j, DeviceOf[j])
  /\ job' = [job EXCEPT ![j] = "ticking"]
  /\ ago' = [ago EXCEPT ![j] = [last |-> 0, before |-> @.last]]
  /\ UNCHANGED <<input, handing, devices, left, output, writer, written, phase, gone>>

TickEmits(j) ==
  /\ Serving /\ job[j] = "ticking"
  /\ DeviceEmits
  /\ UNCHANGED <<input, handing, devices, job, timing, writer, written, phase, gone>>

\* The tick returns, or raises and is reported.
TickEnds(j) ==
  /\ Serving /\ job[j] = "ticking"
  /\ LogError \/ UNCHANGED output
  /\ job' = [job EXCEPT ![j] = "sleeping"]
  /\ left' = [left EXCEPT ![j] = NextDeadline(j)]
  /\ guard' = Released(DeviceOf[j])
  /\ UNCHANGED <<input, handing, setup, connected, ago, writer, written, phase, gone>>

\* Time passes.
Elapse ==
  /\ Serving
  /\ left' = [j \in Jobs |-> Soonest(left[j] - 1)]
  /\ ago' = [j \in Jobs |-> [last |-> Longest(ago[j].last + 1),
                             before |-> Longest(ago[j].before + 1)]]
  /\ UNCHANGED <<input, handing, devices, job, output, writer, written, phase, gone>>

-----------------------------------------------------------------------------
(* DriverRuntime._writer_loop *)

Take ==
  /\ writer = "getting" /\ outbox # <<>>
  /\ \/ /\ Head(outbox) = Stop
        /\ writer' = "done" /\ outbox' = Tail(outbox)
        /\ UNCHANGED <<emitted, written>>
     \/ /\ Head(outbox) # Stop /\ emitted[Head(outbox)] # "broken"
        /\ writer' = "writing"
        /\ UNCHANGED <<output, written>>
     \/ /\ Head(outbox) # Stop /\ emitted[Head(outbox)] = "broken"
        \* to_xml raises: one message is lost, and a report takes its place at the end.
        /\ emitted' = Append(emitted, "report")
        /\ outbox' = Append(Tail(outbox), Len(emitted) + 1)
        /\ UNCHANGED <<writer, written>>
  /\ UNCHANGED <<input, handing, devices, job, timing, phase, gone>>

Write ==
  /\ writer = "writing"
  /\ writer' = "getting"
  /\ written' = Append(written, Head(outbox)) /\ outbox' = Tail(outbox)
  /\ UNCHANGED <<input, handing, devices, job, timing, emitted, phase, gone>>

WriteFails ==
  /\ writer = "writing"
  /\ writer' = "broken" /\ gone' = TRUE
  /\ UNCHANGED <<input, handing, devices, job, timing, output, written, phase>>

-----------------------------------------------------------------------------
(* DriverRuntime.serve *)

\* Mutant: serve() waits for the reader alone.
EitherEndsReaderOnly == reader \in {"eof", "failed"}
EitherEnds == reader \in {"eof", "failed"} \/ writer = "broken"

\* asyncio.wait returns.
Stops ==
  /\ Serving /\ EitherEnds
  /\ phase' = "stopping"
  /\ UNCHANGED <<input, handing, devices, job, timing, output, writer, written, gone>>

\* serve() is cancelled from outside while it waits.
Cancelled ==
  /\ Serving
  /\ phase' = "stopping" /\ gone' = TRUE
  /\ UNCHANGED <<input, handing, devices, job, timing, output, writer, written>>

\* A task that is cancelled leaves its guard or its place in the queue, and a handler or a
\* tick may have last words, in a finally.
LastWords(running) == UNCHANGED output \/ (running /\ DeviceEmits)

CancelReader ==
  /\ phase = "stopping" /\ reader \in {"reading", "fed", "queued", "running"}
  /\ reader' = "cancelled"
  /\ guard' = Without(Reader)
  /\ ReaderGone
  /\ LastWords(reader = "running")
  /\ UNCHANGED <<setup, connected, job, timing, writer, written, phase, gone>>

CancelJob(j) ==
  /\ phase = "stopping" /\ job[j] # "cancelled"
  /\ job' = [job EXCEPT ![j] = "cancelled"]
  /\ guard' = Without(j)
  /\ left' = [left EXCEPT ![j] = 0]
  /\ ago' = [ago EXCEPT ![j] = [last |-> Interval, before |-> Interval]]
  /\ LastWords(job[j] = "ticking")
  /\ UNCHANGED <<input, handing, setup, connected, writer, written, phase, gone>>

AllEnded ==
  /\ reader \in {"eof", "failed", "cancelled"}
  /\ \A j \in Jobs : job[j] = "cancelled"

\* Mutant: the sentinel does not wait for the tasks.
DrainsAtOnce ==
  /\ phase = "stopping" /\ reader \in {"eof", "failed", "cancelled"}
  /\ phase' = "draining"
  /\ outbox' = Append(outbox, Stop)
  /\ reader' = "cancelled" /\ job' = [j \in Jobs |-> "cancelled"]
  /\ \/ UNCHANGED emitted
     \/ /\ MayEmit /\ \E j \in Jobs : job[j] = "ticking"
        /\ emitted' = Append(emitted, "fine")
  /\ UNCHANGED <<input, message, to, guard, setup, connected, timing, writer, written, gone>>
\* The tasks are gone: the sentinel goes behind everything they said.
Drains ==
  /\ phase = "stopping" /\ AllEnded
  /\ phase' = "draining"
  /\ outbox' = Append(outbox, Stop)
  /\ UNCHANGED <<input, handing, devices, job, timing, emitted, writer, written, gone>>

Ends ==
  /\ phase = "draining" /\ writer \in {"done", "broken"}
  /\ phase' = "ended"
  /\ UNCHANGED <<input, handing, devices, job, timing, output, writer, written, gone>>

-----------------------------------------------------------------------------
Reads == \E c \in Chunks : ReadChunk(c)
Handles == ChunkDone \/ NextMessage \/ HandlerBegins
Ticks(j) == Gate(j) \/ Wake(j) \/ Skip(j) \/ TickBegins(j)
Writes == Take \/ Write \/ WriteFails
Finishes == Stops \/ Drains \/ Ends \/ CancelReader \/ \E j \in Jobs : CancelJob(j)

Next ==
  \/ Reads \/ ReadEnds \/ Handles \/ HandlerEmits \/ HandlerEnds
  \/ \E j \in Jobs : Ticks(j) \/ TickEmits(j) \/ TickEnds(j)
  \/ Elapse \/ Writes \/ Finishes \/ Cancelled

Spec == Init /\ [][Next]_vars

\* The event loop runs what is ready, time passes, and cancelled tasks end.  Nothing says
\* that the input ever has anything to say, nor that a handler of a Hanging device returns.
Fairness ==
  /\ WF_vars(Handles) /\ WF_vars(HandlerEnds /\ Head(to) \notin Hanging)
  /\ \A j \in Jobs : WF_vars(Ticks(j)) /\ WF_vars(TickEnds(j) /\ DeviceOf[j] \notin Hanging)
  /\ WF_vars(Elapse) /\ WF_vars(Writes) /\ WF_vars(Finishes)

FairSpec == Spec /\ Fairness

-----------------------------------------------------------------------------
TypeOK ==
  /\ parser \in Parser /\ pending \in Seq(Messages) /\ silence \in Nat
  /\ reader \in {"reading", "fed", "queued", "running", "eof", "failed", "cancelled"}
  /\ message \in Messages \cup {NoMessage} /\ to \in Seq(Served)
  /\ guard \in [Served -> Seq(Tasks)] /\ setup \subseteq Served /\ connected \subseteq Served
  /\ job \in [Jobs -> {"gated", "sleeping", "queued", "ticking", "cancelled"}]
  /\ left \in [Jobs -> Late .. Interval]
  /\ ago \in [Jobs -> [last : 0 .. Interval, before : 0 .. Interval]]
  /\ outbox \in Seq(Nat \cup {Stop}) /\ emitted \in Seq({"fine", "broken", "report"})
  /\ writer \in {"getting", "writing", "done", "broken"} /\ written \in Seq(Nat)
  /\ phase \in {"serving", "stopping", "draining", "ended"} /\ gone \in BOOLEAN

\* A stream from which nothing comes out is noticed: when the reader turns to its next
\* chunk, the chunks since an element last ended hold no more than the threshold, whether
\* lxml is mute, everything is nested in something unclosed, or the peer sends nothing but
\* close tags.  (XMLStreamParser.stalled, _reset and resync.)
NoSilentStream == reader = "reading" => silence <= StallThreshold

\* What is written is written once and in the order it was said; and a driver that has
\* ended has written everything its devices said that could be written, the last words of
\* cancelled handlers and ticks among it, unless a write failed.  (serve's gather before
\* the sentinel; _writer_loop's isolation of a message that cannot be serialised.)
InOrder == \A m, n \in DOMAIN written : m < n => written[m] < written[n]
Drained ==
  /\ InOrder
  /\ phase = "ended" /\ writer = "done" =>
       \A i \in DOMAIN emitted : emitted[i] = "fine" => \E k \in DOMAIN written : written[k] = i

\* A job that overran does not catch up: when a tick begins, the one before the last began
\* at least an interval ago, whatever ticks, guards and the event loop took.
\* (_run_periodic's "instead of firing the backlog back-to-back".)
NoBacklog ==
  [][\A j \in Jobs :
       job[j] # "ticking" /\ job'[j] = "ticking" => ago[j].before = Interval]_vars

\* As long as the transport is there a device's jobs keep ticking: no handler of another
\* device that never returns, no exception of anybody's code, nothing the peer sends and
\* no message that cannot be serialised stops them.  (DriverRuntime: "B keeps polling and
\* publishing throughout A's handler"; the isolation in _handle, _tick and _writer_loop.)
OthersKeepTicking ==
  \A j \in Jobs :
    DeviceOf[j] \notin Hanging =>
      (job[j] = "sleeping" /\ Due(j) ~> job[j] = "ticking" \/ ~Due(j) \/ gone)

\* The end of either end is the end of the driver, however a handler hangs.  (serve.)
ServeEnds ==
  (phase = "serving" /\ (reader \in {"eof", "failed"} \/ writer = "broken")) ~> phase = "ended"

=============================================================================
