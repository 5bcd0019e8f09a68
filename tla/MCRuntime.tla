----------------------------- MODULE MCRuntime ------------------------------
(* Runtime for TLC: a device whose handlers hang, and one with a job.      *)
EXTENDS Runtime

CONSTANTS da, db, j1

MCDevices == <<da, db>>
MCDeviceOf == [j \in Jobs |-> db]

Asks == [asks |-> TRUE, for |-> {da, db}]
WritesA == [asks |-> FALSE, for |-> {da}]
MCMessages == {Asks, WritesA}

\* Bytes in the middle of something, whole elements, an element that stays open, close
\* tags of nothing, and what silences lxml.
MCChunks ==
  [bytes : {1},
   tags : {<<>>, <<Asks, End>>, <<WritesA, End, End>>, <<Malformed, End>>, <<Unknown>>,
           <<End>>, <<Garble>>}]

=============================================================================
