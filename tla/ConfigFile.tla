----------------------------- MODULE ConfigFile -----------------------------
(***************************************************************************)
(* One device's saved configuration (src/src/indikit/driver/config.py):    *)
(* write_document, remove_document and read_document system call by system *)
(* call, run by several processes at once, any of which may be killed      *)
(* between two calls, and under a power cut of the machine.                *)
(*                                                                         *)
(* A document is a model value; its rendering and its parsing are left     *)
(* out, but not that a reader meets bytes that are no document of this     *)
(* version: Foreign stands for somebody else's file, one too large to be   *)
(* read, another version's, and Torn for what a power cut leaves of bytes  *)
(* nobody synced.                                                          *)
(*                                                                         *)
(* The file system (external): a rename or an unlink takes effect at once  *)
(* for every process, and on the disk when the directory is written back,  *)
(* which the code never asks for; `names` keeps what the final name has    *)
(* been since then.  A temporary file has a name nobody else uses.         *)
(***************************************************************************)
EXTENDS Naturals, Sequences

CONSTANTS
  Processes,   \* threads of one or of several drivers that hold the file
  Documents,   \* configurations a device may have
  Foreign,     \* bytes read_document refuses
  Torn,        \* what is left of an unsynced file after a power cut
  Nothing,     \* no file; as a request, a purge
  Load,        \* a request to load
  Quiet,       \* no request; no answer
  MaxBehind    \* bound: directory operations not yet on the disk, plus one

Bodies == Documents \cup {Foreign}
Requests == Documents \cup {Nothing, Load}

ASSUME DistinctValues ==
  /\ Foreign \notin Documents /\ Torn \notin Bodies
  /\ Nothing \notin Bodies \cup {Torn}
  /\ Load \notin Bodies \cup {Torn, Nothing}
  /\ Quiet \notin Requests \cup {Foreign, Torn}
ASSUME NoFileIsNothing == Nothing \notin [body : Bodies \cup {Torn}, safe : BOOLEAN]
ASSUME BehindBound == MaxBehind \in Nat \ {0}

VARIABLES
  names,    \* what the final name held since its directory was last durable, newest last
  temp,     \* the temporary file each process is writing
  pc,       \* where in its call each process is
  want,     \* what the call was asked to do
  told,     \* what the last one answered
  litter,   \* a temporary file nobody will remove lies beside the final name
  excuse    \* a process was killed, an unlink was refused or the power was cut

vars == <<names, temp, pc, want, told, litter, excuse>>

File == [body : Bodies \cup {Torn}, safe : BOOLEAN]
Current == names[Len(names)]

TypeOK ==
  /\ names \in Seq(File \cup {Nothing}) /\ Len(names) \in 1 .. MaxBehind
  /\ temp \in [Processes -> File \cup {Nothing}]
  /\ pc \in [Processes -> {"idle", "create", "write", "sync", "replace", "abandon",
                           "unlink", "stat", "read"}]
  /\ want \in [Processes -> Requests \cup {Quiet}]
  /\ told \in [Processes -> Documents \cup {Quiet, "ok", "failed"}]
  /\ litter \in BOOLEAN /\ excuse \in BOOLEAN

Init ==
  /\ \E found \in [body : Bodies, safe : {TRUE}] \cup {Nothing} : names = <<found>>
  /\ temp = [p \in Processes |-> Nothing]
  /\ pc = [p \in Processes |-> "idle"]
  /\ want = [p \in Processes |-> Quiet]
  /\ told = [p \in Processes |-> Quiet]
  /\ litter = FALSE /\ excuse = FALSE

At(p, here, there) == pc[p] = here /\ pc' = [pc EXCEPT ![p] = there]

\* The call returns to the device, or raises into it.
Answers(p, here, answer) ==
  /\ At(p, here, "idle")
  /\ want' = [want EXCEPT ![p] = Quiet]
  /\ told' = [told EXCEPT ![p] = answer]

-----------------------------------------------------------------------------
(* The device asks for a save, a purge or a load. *)

FirstStep(w) == CASE w = Nothing -> "unlink"
                  [] w = Load -> "stat"
                  [] OTHER -> "create"

Ask(p, w) ==
  /\ At(p, "idle", FirstStep(w))
  /\ want' = [want EXCEPT ![p] = w]
  /\ UNCHANGED <<names, temp, told, litter, excuse>>

(* write_document *)

\* The directory is made and the temporary file created in it, empty.
Create(p) ==
  /\ At(p, "create", "write")
  /\ temp' = [temp EXCEPT ![p] = [body |-> Torn, safe |-> FALSE]]
  /\ UNCHANGED <<names, want, told, litter, excuse>>

CreateFails(p) ==
  /\ Answers(p, "create", "failed")
  /\ UNCHANGED <<names, temp, litter, excuse>>

WriteBody(p) ==
  /\ At(p, "write", "sync")
  /\ temp' = [temp EXCEPT ![p] = [body |-> want[p], safe |-> FALSE]]
  /\ UNCHANGED <<names, want, told, litter, excuse>>

\* Mutant: the body is flushed to the kernel and never to the disk.
SyncForgotten(p) ==
  /\ At(p, "sync", "replace")
  /\ UNCHANGED <<names, temp, want, told, litter, excuse>>

Sync(p) ==
  /\ At(p, "sync", "replace")
  /\ temp' = [temp EXCEPT ![p] = [body |-> @.body, safe |-> TRUE]]
  /\ UNCHANGED <<names, want, told, litter, excuse>>

Replace(p) ==
  /\ Answers(p, "replace", "ok")
  /\ Len(names) < MaxBehind
  /\ names' = Append(names, temp[p])
  /\ temp' = [temp EXCEPT ![p] = Nothing]
  /\ UNCHANGED <<litter, excuse>>

\* The write, the fsync or the rename raises.
Fails(p) ==
  /\ \E here \in {"write", "sync", "replace"} : At(p, here, "abandon")
  /\ UNCHANGED <<names, temp, want, told, litter, excuse>>

\* Mutant: the failure is raised with the temporary file left where it is.
AbandonWithoutUnlink(p) ==
  /\ Answers(p, "abandon", "failed")
  /\ temp' = [temp EXCEPT ![p] = Nothing]
  /\ litter' = TRUE
  /\ UNCHANGED <<names, excuse>>

\* The unlink of the except clause, and the error the caller is given either way.
Abandon(p) ==
  /\ Answers(p, "abandon", "failed")
  /\ temp' = [temp EXCEPT ![p] = Nothing]
  /\ \/ UNCHANGED <<litter, excuse>>
     \/ litter' = TRUE /\ excuse' = TRUE
  /\ UNCHANGED names

(* remove_document *)

Purge(p) ==
  /\ Answers(p, "unlink", "ok")
  /\ \/ Current = Nothing /\ UNCHANGED names
     \/ /\ Current # Nothing /\ Len(names) < MaxBehind
        /\ names' = Append(names, Nothing)
  /\ UNCHANGED <<temp, litter, excuse>>

PurgeFails(p) ==
  /\ Answers(p, "unlink", "failed")
  /\ UNCHANGED <<names, temp, litter, excuse>>

(* read_document *)

\* The size is looked at before the bytes; an oversized file is one of the Foreign.
Stat(p) ==
  /\ Current # Nothing
  /\ At(p, "stat", "read")
  /\ UNCHANGED <<names, temp, want, told, litter, excuse>>

Parses(file) == file # Nothing /\ file.body \in Documents

\* The file may have been replaced or purged since its size was looked at.
ReadBytes(p) ==
  /\ Parses(Current)
  /\ Answers(p, "read", Current.body)
  /\ UNCHANGED <<names, temp, litter, excuse>>

\* Absent, unreadable, too large, not a document, another version's.
LoadFails(p) ==
  /\ \E here \in {"stat", "read"} : Answers(p, here, "failed")
  /\ UNCHANGED <<names, temp, litter, excuse>>

-----------------------------------------------------------------------------
(* External: the operating system and the power. *)

Kill(p) ==
  /\ pc[p] # "idle"
  /\ pc' = [pc EXCEPT ![p] = "idle"]
  /\ want' = [want EXCEPT ![p] = Quiet]
  /\ temp' = [temp EXCEPT ![p] = Nothing]
  /\ litter' = (litter \/ temp[p] # Nothing) /\ excuse' = TRUE
  /\ UNCHANGED <<names, told>>

\* The directory is written back.
Settle ==
  /\ Len(names) > 1
  /\ names' = <<Current>>
  /\ UNCHANGED <<temp, pc, want, told, litter, excuse>>

\* What a file holds when the machine is up again.
Survives(file) ==
  IF file = Nothing \/ file.safe THEN {file} ELSE {file, [body |-> Torn, safe |-> TRUE]}

\* The final name is one of those the directory has had since it was last written back.
PowerCut ==
  /\ \E i \in DOMAIN names : \E found \in Survives(names[i]) : names' = <<found>>
  /\ pc' = [p \in Processes |-> "idle"]
  /\ want' = [p \in Processes |-> Quiet]
  /\ temp' = [p \in Processes |-> Nothing]
  /\ litter' = (litter \/ \E p \in Processes : temp[p] # Nothing) /\ excuse' = TRUE
  /\ UNCHANGED told

-----------------------------------------------------------------------------
Write(p) == Create(p) \/ CreateFails(p) \/ WriteBody(p) \/ Sync(p) \/ Replace(p)
            \/ Fails(p) \/ Abandon(p)
Remove(p) == Purge(p) \/ PurgeFails(p)
Read(p) == Stat(p) \/ ReadBytes(p) \/ LoadFails(p)

Next ==
  \/ \E p \in Processes :
       \/ \E w \in Requests : Ask(p, w)
       \/ Write(p) \/ Remove(p) \/ Read(p) \/ Kill(p)
  \/ Settle \/ PowerCut

Spec == Init /\ [][Next]_vars

-----------------------------------------------------------------------------
\* Whatever the final name has held is whole and on the disk, and so is what is about to
\* take its place: a body of its own, synced.  (The strengthening the refinement needs.)
WholeFiles ==
  /\ \A i \in DOMAIN names : names[i] # Nothing => names[i].safe /\ names[i].body # Torn
  /\ \A p \in Processes :
       /\ pc[p] = "sync" => temp[p] = [body |-> want[p], safe |-> FALSE]
       /\ pc[p] = "replace" => temp[p] = [body |-> want[p], safe |-> TRUE]
       /\ pc[p] = "write" => temp[p] = [body |-> Torn, safe |-> FALSE]
  /\ \A p \in Processes : want[p] = (CASE pc[p] = "idle" -> Quiet
                                       [] pc[p] = "unlink" -> Nothing
                                       [] pc[p] \in {"stat", "read"} -> Load
                                       [] OTHER -> want[p])
  /\ \A p \in Processes :
       pc[p] \in {"create", "write", "sync", "replace", "abandon"} => want[p] \in Documents

\* What the final name holds, as somebody who reads it sees it.
Body(file) == IF file = Nothing THEN Nothing ELSE file.body

Saved == INSTANCE SavedDocument
  WITH past <- [i \in DOMAIN names |-> Body(names[i])], wanted <- want, told <- told

\* The file is at every moment one whole document or what it was before, whichever system
\* call a kill, an error, another process or the power falls between: each step of the
\* code is one step of SavedDocument, or none.  (write_document's temporary file, its
\* fsync and its os.replace; config.py's "no window in which the final name exists
\* half-written" and "should still know all of that after a power cut".)
ImplementsSavedDocument == Saved!Spec

\* A save that fails leaves nothing beside the file: a temporary file outlives its writer
\* only when that was killed, or its unlink refused, or the power cut.  (The except clause
\* of write_document.)
NoLitter == litter => excuse

=============================================================================
