---------------------------- MODULE StreamParser ----------------------------
(***************************************************************************)
(* XMLStreamParser (src/src/indikit/protocol/xml.py): framing and recovery *)
(* of the endless stream of INDI elements.                                 *)
(*                                                                         *)
(* A chunk is a number of bytes and the tags that end in it.  A start tag  *)
(* is what its element converts to once it is closed, whatever else gets   *)
(* nested in it: a message, Malformed (message_from_xml raises ValueError) *)
(* or Unknown (it returns None).  End closes the innermost open element    *)
(* whatever name it bears, and at depth 0 the synthetic root.  Garble is a *)
(* root close in the middle of a start tag, from which on lxml says        *)
(* nothing.  The counters of dropped elements and resets, which the code   *)
(* only logs, are left out.                                                *)
(***************************************************************************)
EXTENDS Integers, Sequences, SequencesExt

CONSTANTS
  Messages,       \* what a well-formed element converts to
  Malformed,      \* an element that is dropped
  Unknown,        \* a tag the codec does not know, a comment
  End,            \* a close tag
  Garble,         \* a root close arriving while a start tag is half-parsed
  StallThreshold  \* STALL_THRESHOLD_BYTES

Elements == Messages \cup {Malformed, Unknown}
Tags == Elements \cup {End, Garble}
ASSUME DistinctTags ==
  /\ Malformed \notin Messages /\ Unknown \notin Messages \cup {Malformed}
  /\ End \notin Elements /\ Garble \notin Elements \cup {End}
ASSUME StallThresholdAssumption == StallThreshold \in Nat

\* XMLStreamParser: how deep in the synthetic document lxml is, what the open top-level
\* element will convert to, whether lxml has gone mute, and bytes_since_last_message.
Parser == [depth : Nat, top : Elements, mute : BOOLEAN, quiet : Nat]

\* XMLStreamParser._open: a fresh document.
Opened(parser) == [parser EXCEPT !.depth = 0, !.top = Unknown, !.mute = FALSE]
NewParser == [depth |-> 0, top |-> Unknown, mute |-> FALSE, quiet |-> 0]

\* XMLStreamParser._reset: recovering framing is no progress, so the count runs on.
Reset(parser) == Opened(parser)

\* lxml (external): the top-level elements that end, until the root does.
Lex(seen, tag) ==
  CASE seen.over \/ seen.mute -> seen
    [] tag = Garble -> [seen EXCEPT !.mute = TRUE]
    [] tag \in Elements ->
         [seen EXCEPT !.depth = @ + 1, !.top = IF seen.depth = 0 THEN tag ELSE @]
    [] tag = End /\ seen.depth = 0 -> [seen EXCEPT !.over = TRUE]
    [] tag = End /\ seen.depth = 1 ->
         [seen EXCEPT !.depth = 0, !.top = Unknown, !.ended = Append(@, seen.top)]
    [] OTHER -> [seen EXCEPT !.depth = @ - 1]

Seen(parser, chunk) ==
  FoldLeft(Lex, [depth |-> parser.depth, top |-> parser.top, mute |-> parser.mute,
                 over |-> FALSE, ended |-> <<>>], chunk.tags)

\* XMLStreamParser.feed, its yields: of the elements that ended, those that convert.
Yielded(parser, chunk) == SelectSeq(Seen(parser, chunk).ended, LAMBDA e : e \in Messages)

\* Mutant: the bytes are counted again from a reset, as the code once did.
FedClearingAtReset(parser, chunk) ==
  LET seen == Seen(parser, chunk)
      fed == [depth |-> seen.depth, top |-> seen.top, mute |-> seen.mute,
              quiet |-> IF seen.ended # <<>> \/ seen.over THEN 0 ELSE parser.quiet + chunk.bytes]
  IN  IF seen.over THEN Reset(fed) ELSE fed
\* ... and what it leaves behind.  A root that ended is reopened (_reset), and the rest of
\* the chunk is lost; only an element that ended starts the count of bytes again.
Fed(parser, chunk) ==
  LET seen == Seen(parser, chunk)
      fed == [depth |-> seen.depth, top |-> seen.top, mute |-> seen.mute,
              quiet |-> IF seen.ended # <<>> THEN 0 ELSE parser.quiet + chunk.bytes]
  IN  IF seen.over THEN Reset(fed) ELSE fed

\* XMLStreamParser.stalled
Stalled(parser) == parser.quiet > StallThreshold

\* XMLStreamParser.resync
Resynced(parser) == [Opened(parser) EXCEPT !.quiet = 0]

=============================================================================
