-------------------------- MODULE ConfigFileProofs --------------------------
(***************************************************************************)
(* For any processes, documents and bound: the final name only ever holds  *)
(* whole and synced files, which is what makes every system call of the    *)
(* code a step of SavedDocument, or none.                                  *)
(***************************************************************************)
EXTENDS ConfigFile, SequenceTheorems, TLAPS

\* What SavedDocument's `past` is.
Past == [i \in DOMAIN names |-> Body(names[i])]

Inv == TypeOK /\ WholeFiles

-----------------------------------------------------------------------------
(* The inductive invariant. *)

LEMMA InitInv == Init => Inv
<1> SUFFICES ASSUME Init PROVE Inv
  OBVIOUS
<1>1. PICK found \in [body : Bodies, safe : {TRUE}] \cup {Nothing} : names = <<found>>
  BY DEF Init
<1>2. found \in File \cup {Nothing} /\ (found # Nothing => found.safe /\ found.body # Torn)
  BY DistinctValues DEF File
<1>3. TypeOK
  <2>1. names \in Seq(File \cup {Nothing}) /\ Len(names) = 1
    BY <1>1, <1>2
  <2>2. /\ temp \in [Processes -> File \cup {Nothing}]
        /\ want \in [Processes -> Requests \cup {Quiet}]
        /\ told \in [Processes -> Documents \cup {Quiet, "ok", "failed"}]
    BY DEF Init
  <2>3. /\ pc \in [Processes -> {"idle", "create", "write", "sync", "replace", "abandon",
                                 "unlink", "stat", "read"}]
        /\ litter \in BOOLEAN /\ excuse \in BOOLEAN
    BY DEF Init
  <2> QED
    BY <2>1, <2>2, <2>3, BehindBound DEF TypeOK
<1>4. WholeFiles
  BY <1>1, <1>2 DEF Init, WholeFiles
<1> QED
  BY <1>3, <1>4 DEF Inv

LEMMA LenNames ==
  ASSUME TypeOK
  PROVE  /\ Len(names) \in Nat \ {0} /\ DOMAIN names = 1 .. Len(names)
         /\ Current \in File \cup {Nothing}
BY DEF TypeOK, Current

\* A process that returns from its call, whatever else it changes of its own.
LEMMA AnswersInv ==
  ASSUME Inv, NEW p \in Processes, NEW here, NEW answer \in Documents \cup {"ok", "failed"},
         Answers(p, here, answer),
         temp' \in {temp, [temp EXCEPT ![p] = Nothing]},
         litter' \in BOOLEAN, excuse' \in BOOLEAN,
         names' \in Seq(File \cup {Nothing}), Len(names') \in 1 .. MaxBehind,
         \A i \in DOMAIN names' : names'[i] # Nothing => names'[i].safe /\ names'[i].body # Torn
  PROVE  Inv'
<1> USE DEF Inv, Answers, At
<1>1. TypeOK'
  BY DEF TypeOK
<1>2. WholeFiles'
  BY ZenonT(60) DEF TypeOK, WholeFiles
<1> QED
  BY <1>1, <1>2

\* A name is added to those the directory has had.
LEMMA NamedInv ==
  ASSUME Inv, NEW f \in File \cup {Nothing}, Len(names) < MaxBehind,
         f # Nothing => f.safe /\ f.body # Torn,
         names' = Append(names, f)
  PROVE  /\ names' \in Seq(File \cup {Nothing}) /\ Len(names') \in 1 .. MaxBehind
         /\ \A i \in DOMAIN names' :
              names'[i] # Nothing => names'[i].safe /\ names'[i].body # Torn
<1>1. /\ names \in Seq(File \cup {Nothing}) /\ Len(names) \in 1 .. MaxBehind
      /\ \A i \in DOMAIN names : names[i] # Nothing => names[i].safe /\ names[i].body # Torn
  BY DEF Inv, TypeOK, WholeFiles
<1>2. /\ names' \in Seq(File \cup {Nothing}) /\ Len(names') = Len(names) + 1
      /\ \A i \in 1 .. Len(names) : names'[i] = names[i]
      /\ names'[Len(names) + 1] = f
  BY <1>1
<1> QED
  BY <1>1, <1>2, BehindBound

LEMMA WriteInv ==
  ASSUME Inv, NEW p \in Processes, Write(p)
  PROVE  Inv'
<1>1. CASE Create(p)
  <2> USE <1>1 DEF Inv, Create, At
  <2>1. TypeOK'
    BY DEF TypeOK, File
  <2>2. WholeFiles'
    BY DEF TypeOK, WholeFiles
  <2> QED
    BY <2>1, <2>2
<1>2. CASE CreateFails(p)
  BY <1>2, AnswersInv DEF CreateFails, Inv, TypeOK, WholeFiles
<1>3. CASE WriteBody(p)
  <2> USE <1>3 DEF Inv, WriteBody, At
  <2>0. want[p] \in Documents /\ temp[p] = [body |-> Torn, safe |-> FALSE]
    BY DEF WholeFiles
  <2>1. temp' = [temp EXCEPT ![p] = [body |-> want[p], safe |-> FALSE]]
    BY <2>0 DEF TypeOK
  <2>2. TypeOK'
    BY <2>0, <2>1 DEF TypeOK, File, Bodies
  <2>3. WholeFiles'
    BY <2>0, <2>1 DEF TypeOK, WholeFiles
  <2> QED
    BY <2>2, <2>3
<1>4. CASE Sync(p)
  <2> USE <1>4 DEF Inv, Sync, At
  <2>0. want[p] \in Documents /\ temp[p] = [body |-> want[p], safe |-> FALSE]
    BY DEF WholeFiles
  <2>1. temp' = [temp EXCEPT ![p] = [body |-> want[p], safe |-> TRUE]]
    BY <2>0 DEF TypeOK
  <2>2. TypeOK'
    BY <2>0, <2>1 DEF TypeOK, File, Bodies
  <2>3. WholeFiles'
    BY <2>0, <2>1 DEF TypeOK, WholeFiles
  <2> QED
    BY <2>2, <2>3
<1>5. CASE Replace(p)
  <2>1. /\ want[p] \in Documents /\ temp[p] = [body |-> want[p], safe |-> TRUE]
        /\ temp[p] \in File \cup {Nothing}
    BY <1>5 DEF Inv, TypeOK, WholeFiles, Replace, Answers, At
  <2>2. temp[p].safe /\ temp[p].body # Torn
    BY <2>1, DistinctValues DEF Bodies
  <2> QED
    BY <1>5, <2>1, <2>2, NamedInv, AnswersInv DEF Replace, Inv, TypeOK
<1>6. CASE Fails(p)
  <2> USE <1>6 DEF Inv, Fails, At
  <2>1. TypeOK'
    BY DEF TypeOK
  <2>2. WholeFiles'
    BY DEF TypeOK, WholeFiles
  <2> QED
    BY <2>1, <2>2
<1>7. CASE Abandon(p)
  BY <1>7, AnswersInv DEF Abandon, Inv, TypeOK, WholeFiles
<1> QED
  BY <1>1, <1>2, <1>3, <1>4, <1>5, <1>6, <1>7 DEF Write

LEMMA RemoveInv ==
  ASSUME Inv, NEW p \in Processes, Remove(p)
  PROVE  Inv'
<1>1. CASE Purge(p)
  <2>1. CASE UNCHANGED names
    BY <1>1, <2>1, AnswersInv DEF Purge, Inv, TypeOK, WholeFiles
  <2>2. CASE Len(names) < MaxBehind /\ names' = Append(names, Nothing)
    BY <1>1, <2>2, NamedInv, AnswersInv DEF Purge, Inv, TypeOK
  <2> QED
    BY <1>1, <2>1, <2>2 DEF Purge
<1>2. CASE PurgeFails(p)
  BY <1>2, AnswersInv DEF PurgeFails, Inv, TypeOK, WholeFiles
<1> QED
  BY <1>1, <1>2 DEF Remove

LEMMA ReadInv ==
  ASSUME Inv, NEW p \in Processes, Read(p)
  PROVE  Inv'
<1>1. CASE Stat(p)
  <2> USE <1>1 DEF Inv, Stat, At
  <2>1. TypeOK'
    BY DEF TypeOK
  <2>2. WholeFiles'
    BY DEF TypeOK, WholeFiles
  <2> QED
    BY <2>1, <2>2
<1>2. CASE ReadBytes(p)
  BY <1>2, AnswersInv DEF ReadBytes, Parses, Inv, TypeOK, WholeFiles
<1>3. CASE LoadFails(p)
  <2>1. PICK here \in {"stat", "read"} : Answers(p, here, "failed")
    BY <1>3 DEF LoadFails
  <2> QED
    BY <1>3, <2>1, AnswersInv DEF LoadFails, Inv, TypeOK, WholeFiles
<1> QED
  BY <1>1, <1>2, <1>3 DEF Read

LEMMA NextInv == Inv /\ [Next]_vars => Inv'
<1> SUFFICES ASSUME Inv, [Next]_vars PROVE Inv'
  OBVIOUS
<1>1. ASSUME NEW p \in Processes, NEW w \in Requests, Ask(p, w) PROVE Inv'
  <2> USE <1>1 DEF Inv, Ask, At, FirstStep, Requests
  <2>1. TypeOK'
    BY DEF TypeOK
  <2>2. WholeFiles'
    BY DistinctValues DEF TypeOK, WholeFiles, Bodies
  <2> QED
    BY <2>1, <2>2
<1>2. ASSUME NEW p \in Processes, Kill(p) PROVE Inv'
  <2> USE <1>2 DEF Inv, Kill
  <2>1. TypeOK'
    BY DEF TypeOK
  <2>2. WholeFiles'
    BY DEF TypeOK, WholeFiles
  <2> QED
    BY <2>1, <2>2
<1>3. CASE Settle
  <2> USE <1>3 DEF Inv, Settle, Current
  <2>1. TypeOK'
    BY LenNames, BehindBound DEF TypeOK
  <2>2. WholeFiles'
    BY LenNames DEF TypeOK, WholeFiles
  <2> QED
    BY <2>1, <2>2
<1>4. CASE PowerCut
  <2>1. PICK i \in DOMAIN names : \E found \in Survives(names[i]) : names' = <<found>>
    BY <1>4 DEF PowerCut
  <2>2. names' = <<names[i]>>
    BY <2>1 DEF Inv, WholeFiles, Survives
  <2>3. names[i] \in File \cup {Nothing}
    BY <2>1 DEF Inv, TypeOK
  <2>4. TypeOK'
    BY <1>4, <2>2, <2>3, BehindBound DEF PowerCut, Inv, TypeOK
  <2>5. WholeFiles'
    BY <1>4, <2>1, <2>2 DEF PowerCut, Inv, TypeOK, WholeFiles
  <2> QED
    BY <2>4, <2>5 DEF Inv
<1>5. CASE UNCHANGED vars
  BY <1>5 DEF vars, Inv, TypeOK, WholeFiles
<1> QED
  BY <1>1, <1>2, <1>3, <1>4, <1>5, WriteInv, RemoveInv, ReadInv DEF Next

\* Types, and whole files under the final name: whatever the final name held since its
\* directory was last on the disk is a synced file with a body of its own.
THEOREM FilesAreWhole == Spec => [](TypeOK /\ WholeFiles)
<1>1. Spec => []Inv
  BY InitInv, NextInv, PTL DEF Spec
<1> QED
  BY <1>1, PTL DEF Inv

-----------------------------------------------------------------------------
(* What is left beside the file. *)

LEMMA LitterStep == Inv /\ NoLitter /\ [Next]_vars => NoLitter'
<1> SUFFICES ASSUME Inv, NoLitter, [Next]_vars PROVE NoLitter'
  OBVIOUS
<1>1. UNCHANGED <<litter, excuse>> => NoLitter'
  BY DEF NoLitter
<1>2. excuse' = TRUE => NoLitter'
  BY DEF NoLitter
<1>3. ASSUME NEW p \in Processes, Write(p) PROVE NoLitter'
  BY <1>1, <1>2, <1>3
     DEF Write, Create, CreateFails, WriteBody, Sync, Replace, Fails, Abandon
<1>4. ASSUME NEW p \in Processes, Remove(p) \/ Read(p) PROVE NoLitter'
  <2>1. CASE Remove(p)
    BY <1>1, <2>1 DEF Remove, Purge, PurgeFails
  <2>2. CASE Read(p)
    BY <1>1, <2>2 DEF Read, Stat, ReadBytes, LoadFails
  <2> QED
    BY <1>4, <2>1, <2>2
<1>5. ASSUME NEW p \in Processes, Kill(p) \/ \E w \in Requests : Ask(p, w) PROVE NoLitter'
  BY <1>1, <1>2, <1>5 DEF Ask, Kill
<1>6. CASE Settle \/ UNCHANGED vars
  BY <1>1, <1>6 DEF Settle, vars
<1>7. CASE PowerCut
  BY <1>2, <1>7 DEF PowerCut
<1> QED
  BY <1>3, <1>4, <1>5, <1>6, <1>7 DEF Next

\* However many processes write the file at once, and whichever of write_document's calls
\* raises: a temporary file is left beside it only by a writer that was killed, an unlink
\* that was refused, or a power cut.
THEOREM FailedSavesCleanUp == Spec => []NoLitter
<1>1. Init => NoLitter
  BY DEF Init, NoLitter
<1> QED
  BY <1>1, InitInv, NextInv, LitterStep, PTL DEF Spec

-----------------------------------------------------------------------------
(* The refinement. *)

\* SavedDocument's `past` is as long as the history of the name, and its last is what the
\* name holds now.
LEMMA PastNow ==
  ASSUME Inv
  PROVE  /\ Len(Past) = Len(names) /\ DOMAIN Past = DOMAIN names
         /\ Past \in Seq(Bodies \cup {Torn, Nothing})
         /\ Past[Len(Past)] = Body(Current)
<1>1. Len(names) \in Nat \ {0} /\ DOMAIN names = 1 .. Len(names)
  BY LenNames DEF Inv
<1>2. \A i \in DOMAIN names : Body(names[i]) \in Bodies \cup {Torn, Nothing}
  BY DEF Inv, TypeOK, Body, File
<1>3. Past \in [1 .. Len(names) -> Bodies \cup {Torn, Nothing}]
  BY <1>1, <1>2 DEF Past
<1>4. Past \in Seq(Bodies \cup {Torn, Nothing})
  BY <1>1, <1>3
<1>5. Len(Past) = Len(names)
  BY <1>1, <1>3, <1>4
<1> QED
  BY <1>1, <1>4, <1>5 DEF Past, Current

LEMMA PastAppends ==
  ASSUME Inv, Inv', NEW f \in File \cup {Nothing}, names' = Append(names, f)
  PROVE  Past' = Append(Past, Body(f))
<1>1. /\ Len(names) \in Nat /\ DOMAIN names = 1 .. Len(names)
      /\ names \in Seq(File \cup {Nothing})
  BY LenNames DEF Inv, TypeOK
<1>2. /\ Len(names') = Len(names) + 1 /\ DOMAIN names' = 1 .. (Len(names) + 1)
      /\ \A i \in 1 .. Len(names) : names'[i] = names[i]
      /\ names'[Len(names) + 1] = f
  BY <1>1
<1>3. Past' = [i \in 1 .. (Len(names) + 1) |-> Body(names'[i])]
  BY <1>2 DEF Past
<1>4. /\ Past \in Seq(Bodies \cup {Torn, Nothing}) /\ Len(Past) = Len(names)
      /\ \A i \in 1 .. Len(names) : Past[i] = Body(names[i])
  BY <1>1, PastNow DEF Past
<1>5. Body(f) \in Bodies \cup {Torn, Nothing}
  BY DEF Body, File
<1> DEFINE longer == Append(Past, Body(f))
<1>6. /\ longer \in Seq(Bodies \cup {Torn, Nothing})
      /\ DOMAIN longer = 1 .. (Len(names) + 1)
      /\ \A i \in 1 .. Len(names) : longer[i] = Past[i]
      /\ longer[Len(names) + 1] = Body(f)
  BY <1>1, <1>4, <1>5, AppendProperties
<1>7. \A i \in 1 .. (Len(names) + 1) : longer[i] = Past'[i]
  <2> SUFFICES ASSUME NEW i \in 1 .. (Len(names) + 1) PROVE longer[i] = Past'[i]
    OBVIOUS
  <2>1. Past'[i] = Body(names'[i])
    BY <1>3
  <2>2. i \in 1 .. Len(names) \/ i = Len(names) + 1
    BY <1>1
  <2>3. CASE i \in 1 .. Len(names)
    BY <1>2, <1>4, <1>6, <2>1, <2>3
  <2>4. CASE i = Len(names) + 1
    BY <1>2, <1>6, <2>1, <2>4
  <2> QED
    BY <2>2, <2>3, <2>4
<1> HIDE DEF longer
<1>8. longer \in [1 .. (Len(names) + 1) -> Bodies \cup {Torn, Nothing}]
  BY <1>6
<1>9. Past' \in [1 .. (Len(names) + 1) -> Bodies \cup {Torn, Nothing}]
  BY <1>1, <1>2, PastNow DEF Past, Inv, TypeOK, Body, File
<1>10. longer = Past'
  BY <1>7, <1>8, <1>9
<1> QED
  BY <1>10 DEF longer

LEMMA PastKept == UNCHANGED names => UNCHANGED Past
  BY DEF Past

\* One name is left: the i-th of those the directory has had.
LEMMA PastIsOne ==
  ASSUME Inv, NEW i \in DOMAIN names, names' = <<names[i]>>
  PROVE  Past' = <<Past[i]>>
<1>1. DOMAIN names' = 1 .. 1 /\ names'[1] = names[i]
  OBVIOUS
<1>2. Past' = [j \in 1 .. 1 |-> Body(names[i])]
  BY <1>1 DEF Past
<1> QED
  BY <1>2 DEF Past

\* What a call that returns does to its process.
LEMMA AnswersMaps ==
  ASSUME NEW p \in Processes, NEW here, NEW answer, Answers(p, here, answer)
  PROVE  Saved!Answer(p, answer)
  BY DEF Answers, Saved!Answer

LEMMA WantedInv ==
  ASSUME Inv, NEW p \in Processes
  PROVE  /\ pc[p] # "idle" => want[p] # Quiet
         /\ pc[p] = "idle" => want[p] = Quiet
         /\ pc[p] = "unlink" => want[p] = Nothing
         /\ pc[p] \in {"stat", "read"} => want[p] = Load
         /\ pc[p] = "replace" => want[p] \in Documents /\ temp[p].body = want[p]
                                 /\ temp[p] \in File
<1>1. /\ pc[p] = "idle" => want[p] = Quiet
      /\ pc[p] = "unlink" => want[p] = Nothing
      /\ pc[p] \in {"stat", "read"} => want[p] = Load
      /\ pc[p] \in {"create", "write", "sync", "replace", "abandon"} => want[p] \in Documents
  BY DEF Inv, WholeFiles
<1>2. pc[p] \in {"idle", "create", "write", "sync", "replace", "abandon",
                 "unlink", "stat", "read"}
  BY DEF Inv, TypeOK
<1>3. pc[p] # "idle" => want[p] # Quiet
  BY <1>1, <1>2, DistinctValues DEF Bodies, Requests
<1>4. pc[p] = "replace" => temp[p] = [body |-> want[p], safe |-> TRUE]
  BY DEF Inv, WholeFiles
<1>5. pc[p] = "replace" => temp[p].body = want[p] /\ temp[p] \in File
  <2> SUFFICES ASSUME pc[p] = "replace" PROVE temp[p].body = want[p] /\ temp[p] \in File
    OBVIOUS
  <2>1. want[p] \in Documents
    BY <1>1
  <2>2. [body |-> want[p], safe |-> TRUE] \in File
    BY <2>1 DEF File, Bodies
  <2> QED
    BY <1>4, <2>2
<1> QED
  BY <1>1, <1>3, <1>5

\* A call that fails changes nothing but its answer.
LEMMA FailsMaps ==
  ASSUME Inv, NEW p \in Processes, NEW here,
         here # "idle", Answers(p, here, "failed"), UNCHANGED names
  PROVE  Saved!Fail(p)
  BY AnswersMaps, WantedInv, PastKept DEF Saved!Fail, Answers, At, Past

LEMMA InitMaps == Init => Saved!Init
<1> SUFFICES ASSUME Init PROVE Saved!Init
  OBVIOUS
<1>1. DOMAIN names = 1 .. 1
  BY DEF Init
<1> QED
  BY <1>1 DEF Init, Saved!Init

LEMMA WriteMaps ==
  ASSUME Inv, Inv', NEW p \in Processes, Write(p)
  PROVE  Saved!Next \/ UNCHANGED Saved!vars
<1>1. CASE UNCHANGED <<names, want, told>>
  BY <1>1, PastKept DEF Saved!vars, Past
<1>2. CASE Create(p) \/ WriteBody(p) \/ Sync(p) \/ Fails(p)
  BY <1>1, <1>2 DEF Create, WriteBody, Sync, Fails
<1>3. CASE CreateFails(p)
  BY <1>3, FailsMaps DEF CreateFails, Saved!Next
<1>4. CASE Abandon(p)
  BY <1>4, FailsMaps DEF Abandon, Saved!Next
<1>5. CASE Replace(p)
  <2>1. want[p] \in Documents /\ temp[p] \in File /\ temp[p] # Nothing /\ temp[p].body = want[p]
    BY <1>5, WantedInv, NoFileIsNothing DEF Replace, Answers, At, File
  <2>2. Past' = Append(Past, want[p])
    BY <1>5, <2>1, PastAppends DEF Replace, Body
  <2>3. Saved!Save(p)
    BY <1>5, <2>1, <2>2, AnswersMaps DEF Replace, Saved!Save, Past
  <2> QED
    BY <2>3 DEF Saved!Next
<1> QED
  BY <1>2, <1>3, <1>4, <1>5 DEF Write

LEMMA RemoveMaps ==
  ASSUME Inv, Inv', NEW p \in Processes, Remove(p)
  PROVE  Saved!Next
<1>1. CASE PurgeFails(p)
  BY <1>1, FailsMaps DEF PurgeFails, Saved!Next
<1>2. CASE Purge(p)
  <2>1. want[p] = Nothing /\ Saved!Answer(p, "ok")
    BY <1>2, AnswersMaps, WantedInv DEF Purge, Answers, At
  <2>2. Saved!Now = Body(Current)
    BY PastNow DEF Saved!Now, Past
  <2>3. CASE Current = Nothing /\ UNCHANGED names
    <3>1. Saved!Now = Nothing /\ UNCHANGED Past
      BY <2>2, <2>3, PastKept DEF Body
    <3> QED
      BY <2>1, <3>1 DEF Saved!Purge, Saved!Next, Past
  <2>4. CASE Current # Nothing /\ names' = Append(names, Nothing)
    <3>1. Saved!Now # Nothing
      BY <2>2, <2>4, LenNames, DistinctValues DEF Body, Inv, File
    <3>2. Past' = Append(Past, Nothing)
      BY <2>4, PastAppends DEF Body
    <3> QED
      BY <2>1, <3>1, <3>2 DEF Saved!Purge, Saved!Next, Past
  <2> QED
    BY <1>2, <2>3, <2>4 DEF Purge
<1> QED
  BY <1>1, <1>2 DEF Remove

LEMMA ReadMaps ==
  ASSUME Inv, NEW p \in Processes, Read(p)
  PROVE  Saved!Next \/ UNCHANGED Saved!vars
<1>1. CASE Stat(p)
  BY <1>1, PastKept DEF Stat, Saved!vars, Past
<1>2. CASE ReadBytes(p)
  <2>1. want[p] = Load /\ Saved!Answer(p, Current.body)
    BY <1>2, AnswersMaps, WantedInv DEF ReadBytes, Answers, At
  <2>2. Saved!Now = Current.body /\ Current.body \in Documents
    BY <1>2, PastNow DEF Saved!Now, Past, ReadBytes, Parses, Body
  <2>3. UNCHANGED Past
    BY <1>2, PastKept DEF ReadBytes
  <2> QED
    BY <2>1, <2>2, <2>3 DEF Saved!Look, Saved!Next, Past
<1>3. CASE LoadFails(p)
  <2>1. PICK here \in {"stat", "read"} : Answers(p, here, "failed")
    BY <1>3 DEF LoadFails
  <2>2. Saved!Fail(p)
    BY <1>3, <2>1, FailsMaps DEF LoadFails
  <2> QED
    BY <2>2 DEF Saved!Next
<1> QED
  BY <1>1, <1>2, <1>3 DEF Read

LEMMA NextMaps ==
  ASSUME Inv, Inv', [Next]_vars
  PROVE  Saved!Next \/ UNCHANGED Saved!vars
<1>1. ASSUME NEW p \in Processes, NEW w \in Requests, Ask(p, w) PROVE Saved!Next
  <2>1. want[p] = Quiet /\ UNCHANGED Past
    BY <1>1, WantedInv, PastKept DEF Ask, At
  <2>2. Saved!Ask(p, w)
    BY <1>1, <2>1 DEF Ask, Saved!Ask, Past
  <2> QED
    BY <2>2 DEF Saved!Next, Requests
<1>2. ASSUME NEW p \in Processes, Kill(p) PROVE Saved!Next
  <2>1. Saved!Die(p)
    BY <1>2, PastKept DEF Kill, Saved!Die, Past
  <2> QED
    BY <2>1 DEF Saved!Next
<1>3. CASE Settle
  <2>1. Len(names) \in DOMAIN names
    BY LenNames DEF Inv
  <2>2. Past' = <<Past[Len(names)]>>
    BY <1>3, <2>1, PastIsOne DEF Settle, Current
  <2>3. Past' = <<Past[Len(Past)]>>
    BY <2>2, PastNow
  <2>4. Saved!Settle
    BY <1>3, <2>3 DEF Settle, Saved!Settle, Saved!Now, Past
  <2> QED
    BY <2>4 DEF Saved!Next
<1>4. CASE PowerCut
  <2>1. PICK i \in DOMAIN names : \E found \in Survives(names[i]) : names' = <<found>>
    BY <1>4 DEF PowerCut
  <2>2. names' = <<names[i]>>
    BY <2>1 DEF Inv, WholeFiles, Survives
  <2>3. Past' = <<Past[i]>> /\ i \in DOMAIN Past
    BY <2>1, <2>2, PastIsOne, PastNow
  <2>4. Saved!PowerCut
    BY <1>4, <2>3 DEF PowerCut, Saved!PowerCut, Past
  <2> QED
    BY <2>4 DEF Saved!Next
<1>5. CASE UNCHANGED vars
  BY <1>5, PastKept DEF vars, Saved!vars, Past
<1> QED
  BY <1>1, <1>2, <1>3, <1>4, <1>5, WriteMaps, RemoveMaps, ReadMaps DEF Next

\* However many processes save, purge and load one file, and wherever in write_document,
\* remove_document and read_document a kill, an error or a power cut falls, what can be
\* seen is SavedDocument: one whole document or none, changed by whole requests only.
THEOREM SavesAreAtomic == Spec => ImplementsSavedDocument
<1>1. Spec => []Inv
  BY InitInv, NextInv, PTL DEF Spec
<1>2. Inv /\ Inv' /\ [Next]_vars => [Saved!Next]_(Saved!vars)
  BY NextMaps
<1> QED
  BY <1>1, <1>2, InitMaps, PTL DEF Spec, ImplementsSavedDocument, Saved!Spec

=============================================================================
