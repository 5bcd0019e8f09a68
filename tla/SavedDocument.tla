---------------------------- MODULE SavedDocument ----------------------------
(***************************************************************************)
(* What a saved configuration promises to the processes that save, purge   *)
(* and load it: the file is at every moment one whole document or absent,  *)
(* a request that fails changes nothing, and a power cut takes the file    *)
(* back to what it was at some moment since its directory was last         *)
(* durable, never to anything it has not been.                             *)
(***************************************************************************)
EXTENDS Naturals, Sequences

CONSTANTS
  Processes,  \* those that hold the file
  Documents,  \* what a device may ask to have saved
  Nothing,    \* no file; as a request, a purge
  Load,       \* a request to be told the document
  Quiet       \* no request; no answer

VARIABLES
  past,    \* what the file has been since its directory was last durable, newest last
  wanted,  \* the request of each process
  told     \* the last answer it was given

vars == <<past, wanted, told>>

Now == past[Len(past)]

\* Before any of them the file is whatever it is.
Init ==
  /\ DOMAIN past = 1 .. 1
  /\ wanted = [p \in Processes |-> Quiet]
  /\ told = [p \in Processes |-> Quiet]

Answer(p, answer) ==
  /\ wanted' = [wanted EXCEPT ![p] = Quiet]
  /\ told' = [told EXCEPT ![p] = answer]

Ask(p, w) ==
  /\ wanted[p] = Quiet
  /\ wanted' = [wanted EXCEPT ![p] = w]
  /\ UNCHANGED <<past, told>>

Save(p) ==
  /\ wanted[p] \in Documents
  /\ past' = Append(past, wanted[p])
  /\ Answer(p, "ok")

Purge(p) ==
  /\ wanted[p] = Nothing
  /\ past' = IF Now = Nothing THEN past ELSE Append(past, Nothing)
  /\ Answer(p, "ok")

Look(p) ==
  /\ wanted[p] = Load /\ Now \in Documents
  /\ Answer(p, Now)
  /\ UNCHANGED past

Fail(p) ==
  /\ wanted[p] # Quiet
  /\ Answer(p, "failed")
  /\ UNCHANGED past

\* A process that dies gets no answer.
Die(p) ==
  /\ wanted' = [wanted EXCEPT ![p] = Quiet]
  /\ UNCHANGED <<past, told>>

Settle ==
  /\ past' = <<Now>>
  /\ UNCHANGED <<wanted, told>>

PowerCut ==
  /\ \E i \in DOMAIN past : past' = <<past[i]>>
  /\ wanted' = [p \in Processes |-> Quiet]
  /\ UNCHANGED told

Next ==
  \/ \E p \in Processes :
       \/ \E w \in Documents \cup {Nothing, Load} : Ask(p, w)
       \/ Save(p) \/ Purge(p) \/ Look(p) \/ Fail(p) \/ Die(p)
  \/ Settle \/ PowerCut

Spec == Init /\ [][Next]_vars

=============================================================================
