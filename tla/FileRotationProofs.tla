------------------------ MODULE FileRotationProofs ------------------------
(***************************************************************************)
(* Proofs about FileRotation, for any number of files, any limits, records *)
(* and restarts, and failures of any call.                                 *)
(*                                                                         *)
(* Records are numbered as they are flushed, so whatever the batch adds to *)
(* the active file is newer than all that was there (Newer), and the       *)
(* cascade moves each file to a place that was emptied before (Gap).  So   *)
(* no rename loses or reorders anything, wherever it stops.                *)
(***************************************************************************)
EXTENDS FileRotation, FiniteSetTheorems, TLAPS

\* The records so far are numbered from 1.
Numbered == IsFiniteSet(Handed) /\ Handed = 1 .. Cardinality(Handed)

\* Overwrite mode goes its own way, and only rotation closes the active file.
OwnWay ==
  /\ mode = "overwrite" =>
       /\ pc \in {"idle", "create", "replace", "down"}
       /\ \A i \in Numbers \ {0} : files[i] = {}
  /\ pc \in {"create", "replace"} => mode = "overwrite"
  /\ pc \in {"rotate", "reopen"} => mode = "rotate"

\* What is being flushed is a batch, and newer than everything before it.
Newer ==
  /\ batch = {} \/ batch \in batches
  /\ pc \in {"idle", "down"} => batch = {}
  /\ pc = "replace" => tmp = batch
  /\ mode # "overwrite" => \A r \in batch : \A q \in OnDisk \cup confirmed : q < r

\* Only files that exist hold records, and an open stream has its file.
Existing ==
  /\ \A i \in Numbers \ present : files[i] = {}
  /\ stream = "open" => 0 \in present
  /\ pc \in {"rotate", "reopen"} => stream = "closed"

\* The cascade: the next place is free.
Gap ==
  /\ pc = "rotate" /\ step < MaxFiles => files[step + 1] = {}
  /\ pc = "reopen" => files[0] = {}

\* The batch fits, or has the active file for itself.
Room ==
  mode = "rotate" /\ ~blind /\ pc = "write" =>
    files[0] = {} \/ Cardinality(files[0]) + Cardinality(batch) <= MaxSize

IInv ==
  /\ TypeOK /\ Numbered /\ OwnWay /\ Newer /\ Existing /\ Gap /\ Room
  /\ ReadsInOrder /\ ConfirmedKept /\ SizeLimit /\ TargetWhole

-----------------------------------------------------------------------------
(* What a step does to the files.                                          *)

Keeps == files' = files /\ confirmed' = confirmed

\* Records of the batch are appended, and confirmed only if all of them are.
Adds ==
  /\ pc = "write"
  /\ \E W \in SUBSET batch :
       /\ files' = [files EXCEPT ![0] = files[0] \cup W]
       /\ confirmed' = confirmed \/ (W = batch /\ confirmed' = confirmed \cup batch)

DropsOldest ==
  /\ pc = "rotate" /\ confirmed' = confirmed
  /\ files' = [files EXCEPT ![MaxFiles] = {}]

Shifts ==
  /\ pc = "rotate" /\ step < MaxFiles /\ confirmed' = confirmed
  /\ files' = [files EXCEPT ![step] = {}, ![step + 1] = files[step]]

Replaces ==
  /\ pc = "replace"
  /\ files' = [files EXCEPT ![0] = tmp]
  /\ confirmed' = confirmed \cup batch

\* Opening the stream keeps every record.
LEMMA OpenKeeps ==
  ASSUME TypeOK, OpenStream
  PROVE  /\ files' = files /\ stream' \in {"open", "closed"}
         /\ present' \subseteq Numbers /\ present \subseteq present'
         /\ stream' = "open" => 0 \in present'
<1>1. 0 \in Numbers
  BY FileAssumption DEF Numbers
<1>. QED
  BY <1>1 DEF TypeOK, OpenStream, Kept

\* The mode stays, and a size that was unknown is remembered.
LEMMA Remembered == ASSUME TypeOK, [Next]_vars PROVE mode' = mode /\ (blind => blind')
<1>1. ASSUME NEW k \in 1 .. MaxBatch, Flush(k) PROVE mode' = mode /\ (blind => blind')
  <2>1. mode' = mode
    BY <1>1 DEF Flush
  <2>2. blind' = blind \/ \E failed \in BOOLEAN : blind' = (blind \/ failed)
    BY <1>1, Zenon DEF Flush
  <2>3. ASSUME blind PROVE blind'
    <3>1. ASSUME NEW failed \in BOOLEAN, blind' = (blind \/ failed) PROVE blind'
      <4>1. (blind \/ failed) = TRUE
        BY <2>3
      <4>. QED
        BY <3>1, <4>1
    <3>2. blind' = blind => blind'
      BY <2>3
    <3>. QED
      BY <2>2, <3>1, <3>2
  <2>. QED
    BY <2>1, <2>3
<1>2. ASSUME RemoveOldest \/ Rename \/ Reopen PROVE mode' = mode /\ blind' = blind
  BY <1>2 DEF RemoveOldest, Rename, Reopen, RotationFails, histVars
<1>3. ASSUME Writing PROVE mode' = mode /\ blind' = blind
  BY <1>3 DEF Writing, Append, OpenLazily, WriteFails, WriteTemp, Replace, histVars
<1>4. ASSUME Shutdown \/ Restart \/ UNCHANGED vars PROVE mode' = mode /\ blind' = blind
  BY <1>4 DEF Shutdown, Restart, vars, histVars
<1>. QED
  BY <1>1, <1>2, <1>3, <1>4 DEF Next, FlushNext, Rotation

\* The step of a rotation that fails keeps every record.
LEMMA FailureKeeps ==
  ASSUME TypeOK, RotationFails
  PROVE  /\ Keeps /\ pc' = "idle" /\ batch' = {}
         /\ stream' \in {"open", "closed"} /\ present' \subseteq Numbers
         /\ present \subseteq present'
         /\ stream' = "open" => 0 \in present'
         /\ UNCHANGED <<mode, default, tmp, step, histVars>>
BY OpenKeeps DEF RotationFails, End, Keeps

\* Every step does one of these things.
LEMMA Effect ==
  ASSUME IInv, [Next]_vars
  PROVE  Keeps \/ Adds \/ DropsOldest \/ Shifts \/ Replaces
<1>. USE DEF IInv
<1>1. ASSUME NEW k \in 1 .. MaxBatch, Flush(k) PROVE Keeps
  BY <1>1 DEF Flush, fileVars, Keeps
<1>2. ASSUME RemoveOldest PROVE Keeps \/ DropsOldest
  BY <1>2, FailureKeeps DEF RemoveOldest, DropsOldest
<1>3. ASSUME Rename PROVE Keeps \/ Shifts
  BY <1>3, FailureKeeps DEF Rename, Keeps, Shifts, Left, Renamed
<1>4. ASSUME Reopen PROVE Keeps
  <2>1. confirmed' = confirmed
    BY <1>4 DEF Reopen, End
  <2>. QED
    BY <1>4, <2>1, OpenKeeps DEF Reopen, Keeps
<1>5. ASSUME Append PROVE Adds
  <2>1. PICK W \in Prefixes(batch), good \in BOOLEAN :
          /\ good => W = batch
          /\ files' = [files EXCEPT ![0] = files[0] \cup W]
          /\ End(good /\ Result(W))
    BY <1>5 DEF Append
  <2>2. W \in SUBSET batch
    BY DEF Prefixes
  <2>3. confirmed' = confirmed \/ (W = batch /\ confirmed' = confirmed \cup batch)
    BY <2>1 DEF End, Result
  <2>. QED
    BY <1>5, <2>1, <2>2, <2>3 DEF Append, Adds
<1>6. ASSUME OpenLazily PROVE Keeps
  <2>1. confirmed' = confirmed
    BY <1>6 DEF OpenLazily, End
  <2>. QED
    BY <1>6, <2>1, OpenKeeps DEF OpenLazily, Keeps
<1>7. ASSUME WriteFails PROVE Keeps
  BY <1>7 DEF WriteFails, End, fileVars, Keeps
<1>8. ASSUME WriteTemp PROVE Keeps
  BY <1>8 DEF WriteTemp, End, Keeps
<1>9. ASSUME Replace PROVE Keeps \/ Replaces
  BY <1>9 DEF Replace, End, Keeps, Replaces
<1>10. ASSUME Shutdown PROVE Keeps
  BY <1>10 DEF Shutdown, fileVars, Keeps
<1>11. ASSUME Restart PROVE Keeps \/ Adds
  <2>1. PICK W \in IF pc = "write" /\ stream = "open" THEN Prefixes(batch) ELSE {{}} :
          files' = [files EXCEPT ![0] = files[0] \cup W]
    BY <1>11 DEF Restart
  <2>2. confirmed' = confirmed
    BY <1>11 DEF Restart
  <2>3. CASE pc = "write" /\ stream = "open"
    BY <2>1, <2>2, <2>3 DEF Prefixes, Adds
  <2>4. CASE ~(pc = "write" /\ stream = "open")
    BY <2>1, <2>2, <2>4, FileAssumption DEF Keeps, TypeOK, Numbers
  <2>. QED
    BY <2>3, <2>4
<1>12. ASSUME UNCHANGED vars PROVE Keeps
  BY <1>12 DEF vars, fileVars, Keeps
<1>. QED
  BY <1>1, <1>2, <1>3, <1>4, <1>5, <1>6, <1>7, <1>8, <1>9, <1>10, <1>11, <1>12
  DEF Next, FlushNext, Rotation, Writing

\* The records of a batch are the next numbers.
LEMMA NextNumbers ==
  ASSUME Numbered, NEW k \in 1 .. MaxBatch, Flush(k)
  PROVE  /\ batch' = Cardinality(Handed) + 1 .. Cardinality(Handed) + k
         /\ Handed' = Handed \cup batch'
         /\ Handed' = 1 .. Cardinality(Handed) + k
         /\ IsFiniteSet(Handed') /\ Cardinality(Handed') = Cardinality(Handed) + k
         /\ Cardinality(Handed) \in Nat
<1>1. k \in Nat \ {0} /\ Cardinality(Handed) \in Nat
  BY FileAssumption, FS_CardinalityType DEF Numbered
<1>2. batch' = Cardinality(Handed) + 1 .. Cardinality(Handed) + k
  BY <1>1 DEF Flush
<1>3. Handed' = Handed \cup batch'
  BY DEF Flush, Handed
<1>4. Handed' = 1 .. Cardinality(Handed) + k
  BY <1>1, <1>2, <1>3 DEF Numbered
<1>5. IsFiniteSet(Handed') /\ Cardinality(Handed') = Cardinality(Handed) + k
  BY <1>1, <1>4, FS_Interval, 1 \in Int, Cardinality(Handed) + k \in Int
<1>. QED
  BY <1>1, <1>2, <1>3, <1>4, <1>5

\* Only a flush hands over records.
LEMMA HandedGrows ==
  ASSUME IInv, [Next]_vars
  PROVE  batches \subseteq batches' /\ Handed \subseteq Handed' /\ Numbered'
<1>1. ASSUME NEW k \in 1 .. MaxBatch, Flush(k)
      PROVE  batches \subseteq batches' /\ Handed \subseteq Handed' /\ Numbered'
  <2>1. batches \subseteq batches'
    BY <1>1 DEF Flush
  <2>. QED
    BY <1>1, <2>1, NextNumbers DEF IInv, Numbered
<1>2. batches' = batches => batches \subseteq batches' /\ Handed \subseteq Handed' /\ Numbered'
  BY DEF IInv, Numbered, Handed
<1>3. CASE Rotation
  BY <1>2, <1>3 DEF Rotation, RemoveOldest, Rename, Reopen, RotationFails, histVars
<1>4. CASE Writing
  BY <1>2, <1>4 DEF Writing, Append, OpenLazily, WriteFails, WriteTemp, Replace, histVars
<1>5. CASE Shutdown \/ Restart \/ UNCHANGED vars
  BY <1>2, <1>5 DEF Shutdown, Restart, histVars, vars
<1>. QED
  BY <1>1, <1>3, <1>4, <1>5 DEF Next, FlushNext

-----------------------------------------------------------------------------
(* Types.                                                                  *)

\* The files keep holding records that were handed over.
LEMMA FileTypes ==
  ASSUME IInv, [Next]_vars
  PROVE  files' \in [Numbers -> SUBSET Handed'] /\ confirmed' \subseteq Handed'
<1>1. Handed \subseteq Handed'
  BY HandedGrows
<1>2. files \in [Numbers -> SUBSET Handed'] /\ confirmed \subseteq Handed'
      /\ batch \subseteq Handed' /\ tmp \subseteq Handed'
  BY <1>1 DEF IInv, TypeOK
<1>3. CASE Keeps
  BY <1>2, <1>3 DEF Keeps
<1>4. CASE Adds
  <2>1. PICK W \in SUBSET batch :
          /\ files' = [files EXCEPT ![0] = files[0] \cup W]
          /\ confirmed' = confirmed \/ (W = batch /\ confirmed' = confirmed \cup batch)
    BY <1>4 DEF Adds
  <2>2. 0 \in Numbers
    BY FileAssumption DEF Numbers
  <2>. QED
    BY <1>2, <2>1, <2>2
<1>5. CASE DropsOldest
  BY <1>2, <1>5 DEF DropsOldest
<1>6. CASE Shifts
  BY <1>2, <1>6 DEF Shifts, IInv, TypeOK
<1>7. CASE Replaces
  BY <1>2, <1>7 DEF Replaces
<1>. QED
  BY <1>3, <1>4, <1>5, <1>6, <1>7, Effect

\* Every step keeps the types.
LEMMA TypeStep == ASSUME IInv, [Next]_vars PROVE TypeOK'
<1>. USE DEF IInv
<1>1. files' \in [Numbers -> SUBSET Handed'] /\ confirmed' \subseteq Handed' /\ Handed \subseteq Handed'
  BY FileTypes, HandedGrows
<1>2. Handed' \subseteq Nat
  BY HandedGrows, FS_CardinalityType DEF Numbered
<1>3. batch \subseteq Handed' /\ tmp \subseteq Handed'
  BY <1>1 DEF TypeOK
<1>4. ASSUME mode' = mode, default' = default, present' \subseteq Numbers, tmp' \subseteq Handed',
             stream' \in {"closed", "open", "bad"},
             pc' \in {"idle", "rotate", "reopen", "write", "create", "replace", "down"},
             step' \in Numbers, batch' \subseteq Handed', blind' \in BOOLEAN,
             restarts' \in 0 .. MaxRestarts
      PROVE  TypeOK'
  BY <1>1, <1>2, <1>4 DEF TypeOK
<1>5. MaxFiles \in Numbers /\ 0 \in Numbers
  BY FileAssumption DEF Numbers
<1>6. ASSUME RotationFails PROVE TypeOK'
  BY <1>3, <1>4, <1>6, FailureKeeps DEF TypeOK, histVars
<1>7. ASSUME NEW k \in 1 .. MaxBatch, Flush(k) PROVE TypeOK'
  <2>1. batch' \subseteq Handed'
    BY <1>7, NextNumbers
  <2>2. blind' \in BOOLEAN
    BY <1>7 DEF Flush, TypeOK
  <2>3. stream' \in {"closed", "open", "bad"} /\ step' \in Numbers
        /\ pc' \in {"idle", "rotate", "reopen", "write", "create", "replace", "down"}
    BY <1>5, <1>7 DEF Flush, TypeOK
  <2>4. UNCHANGED <<mode, default, present, tmp, restarts>>
    BY <1>7 DEF Flush, fileVars
  <2>. QED
    BY <1>3, <1>4, <2>1, <2>2, <2>3, <2>4 DEF TypeOK
<1>8. ASSUME RemoveOldest PROVE TypeOK'
  <2>1. MaxFiles - 1 \in Numbers
    BY FileAssumption DEF Numbers
  <2>. QED
    BY <1>3, <1>4, <1>6, <1>8, <2>1 DEF RemoveOldest, TypeOK, histVars
<1>9. ASSUME Rename PROVE TypeOK'
  <2>1. step + 1 \in Numbers /\ (step # 0 => step - 1 \in Numbers)
    BY <1>9, FileAssumption DEF Rename, TypeOK, Numbers
  <2>2. CASE RotationFails
    BY <1>6, <2>2
  <2>3. CASE ~RotationFails
    <3>1. present' \subseteq Numbers
      BY <1>9, <2>1, <2>3 DEF Rename, Renamed, TypeOK
    <3>2. /\ pc' \in {"idle", "rotate", "reopen", "write", "create", "replace", "down"}
          /\ step' \in Numbers
      BY <1>9, <2>1, <2>3 DEF Rename, TypeOK
    <3>3. UNCHANGED <<mode, default, tmp, stream, batch, histVars>>
      BY <1>9, <2>3 DEF Rename
    <3>. QED
      BY <1>3, <1>4, <3>1, <3>2, <3>3 DEF TypeOK, histVars
  <2>. QED
    BY <2>2, <2>3
<1>10. ASSUME Reopen PROVE TypeOK'
  <2>1. pc' \in {"write", "idle"} /\ batch' \subseteq batch
    BY <1>10 DEF Reopen, End
  <2>. QED
    BY <1>3, <1>4, <1>10, <2>1, OpenKeeps DEF Reopen, TypeOK, histVars
<1>11. ASSUME Append PROVE TypeOK'
  BY <1>3, <1>4, <1>11 DEF Append, End, TypeOK, histVars
<1>12. ASSUME OpenLazily PROVE TypeOK'
  <2>1. pc' \in {"write", "idle"} /\ batch' \subseteq batch
    BY <1>12 DEF OpenLazily, End
  <2>. QED
    BY <1>3, <1>4, <1>12, <2>1, OpenKeeps DEF OpenLazily, TypeOK, histVars
<1>13. ASSUME WriteFails PROVE TypeOK'
  BY <1>3, <1>4, <1>13 DEF WriteFails, End, fileVars, TypeOK, histVars
<1>14. ASSUME WriteTemp PROVE TypeOK'
  <2>1. tmp' \subseteq batch /\ batch' \subseteq batch /\ pc' \in {"replace", "idle"}
    BY <1>14 DEF WriteTemp, Prefixes, End
  <2>. QED
    BY <1>3, <1>4, <1>14, <2>1 DEF WriteTemp, TypeOK, histVars
<1>15. ASSUME Replace PROVE TypeOK'
  BY <1>3, <1>4, <1>5, <1>15 DEF Replace, End, TypeOK, histVars
<1>16. ASSUME Shutdown PROVE TypeOK'
  BY <1>3, <1>4, <1>16 DEF Shutdown, fileVars, TypeOK, histVars
<1>17. ASSUME Restart PROVE TypeOK'
  <2>1. restarts' \in 0 .. MaxRestarts
    BY <1>17, FileAssumption DEF Restart, TypeOK
  <2>. QED
    BY <1>3, <1>4, <1>5, <1>17, <2>1 DEF Restart, Opened, TypeOK
<1>18. ASSUME UNCHANGED vars PROVE TypeOK'
  BY <1>3, <1>4, <1>18 DEF vars, fileVars, histVars, TypeOK
<1>. QED
  BY <1>7, <1>8, <1>9, <1>10, <1>11, <1>12, <1>13, <1>14, <1>15, <1>16, <1>17, <1>18
  DEF Next, FlushNext, Rotation, Writing

-----------------------------------------------------------------------------
(* The places of the flush and what they tell.                             *)

\* Overwrite mode never rotates and rotation is only for its mode.
LEMMA OwnWayStep == ASSUME IInv, [Next]_vars PROVE OwnWay'
<1>. USE DEF IInv
<1>1. 0 \in Numbers /\ MaxFiles \in Numbers /\ TypeOK
  BY FileAssumption DEF Numbers
<1>2. mode' = mode
  BY Remembered
<1>3. ASSUME mode = "overwrite" PROVE \A i \in Numbers \ {0} : files'[i] = {}
  <2>1. pc \notin {"rotate", "write"} /\ \A i \in Numbers \ {0} : files[i] = {}
    BY <1>3 DEF OwnWay
  <2>2. Keeps \/ Replaces
    BY <2>1, Effect DEF Adds, DropsOldest, Shifts
  <2>. QED
    BY <1>1, <2>1, <2>2 DEF Keeps, Replaces, TypeOK
<1>4. /\ mode = "overwrite" => pc' \in {"idle", "create", "replace", "down"}
      /\ pc' \in {"create", "replace"} => mode = "overwrite"
      /\ pc' \in {"rotate", "reopen"} => mode = "rotate"
  <2>1. ASSUME NEW k \in 1 .. MaxBatch, Flush(k)
        PROVE  \/ pc' = "create" /\ mode = "overwrite"
               \/ pc' = "write" /\ mode # "overwrite"
               \/ pc' = "rotate" /\ mode = "rotate"
    BY <2>1 DEF Flush
  <2>2. ASSUME RemoveOldest PROVE pc' \in {pc, "idle"}
    BY <2>2, FailureKeeps DEF RemoveOldest
  <2>3. ASSUME Rename PROVE pc' \in {pc, "idle"} \/ (pc = "rotate" /\ pc' = "reopen")
    BY <2>3, FailureKeeps DEF Rename
  <2>4. ASSUME Reopen PROVE pc = "reopen" /\ pc' \in {"write", "idle"}
    BY <2>4 DEF Reopen, End
  <2>5. ASSUME Writing
        PROVE  pc' \in {pc, "idle"} \/ (pc = "create" /\ pc' = "replace")
    BY <2>5 DEF Writing, Append, OpenLazily, WriteFails, WriteTemp, Replace, End
  <2>6. ASSUME Shutdown \/ Restart \/ UNCHANGED vars PROVE pc' \in {pc, "idle", "down"}
    BY <2>6 DEF Shutdown, Restart, vars
  <2>. QED
    BY <2>1, <2>2, <2>3, <2>4, <2>5, <2>6 DEF OwnWay, Next, FlushNext, Rotation
<1>. QED
  BY <1>2, <1>3, <1>4 DEF OwnWay

\* A file that is not there holds nothing, and what is open is there.
LEMMA ExistingStep == ASSUME IInv, [Next]_vars PROVE Existing'
<1>. USE DEF IInv, Existing
<1>1. 0 \in Numbers /\ MaxFiles \in Numbers \ {0}
  BY FileAssumption DEF Numbers
<1>2. ASSUME RotationFails PROVE Existing'
  BY <1>2, FailureKeeps DEF Keeps
<1>3. ASSUME NEW k \in 1 .. MaxBatch, Flush(k) PROVE Existing'
  BY <1>3 DEF Flush, fileVars
<1>4. ASSUME RemoveOldest PROVE Existing'
  BY <1>1, <1>2, <1>4 DEF RemoveOldest, TypeOK
<1>5. ASSUME Rename PROVE Existing'
  <2>1. CASE RotationFails
    BY <1>2, <2>1
  <2>2. CASE ~RotationFails /\ step \in present
    <3>1. /\ step + 1 \in Numbers /\ step + 1 # step
      BY <1>5, FileAssumption DEF Rename, TypeOK, Numbers
    <3>2. /\ present' = (present \ {step}) \cup {step + 1}
          /\ files' = [files EXCEPT ![step] = {}, ![step + 1] = files[step]]
      BY <1>5, <2>2 DEF Rename, Renamed, Left
    <3>3. stream' = "closed"
      BY <1>5, <2>2 DEF Rename
    <3>4. \A i \in Numbers \ present' : files'[i] = {}
      BY <3>1, <3>2 DEF TypeOK
    <3>. QED
      BY <3>3, <3>4
  <2>3. CASE ~RotationFails /\ step \notin present
    BY <1>5, <2>3 DEF Rename
  <2>. QED
    BY <2>1, <2>2, <2>3
<1>6. ASSUME Reopen PROVE Existing'
  <2>1. pc' \in {"write", "idle"}
    BY <1>6 DEF Reopen, End
  <2>. QED
    BY <1>6, <2>1, OpenKeeps DEF Reopen
<1>7. ASSUME OpenLazily PROVE Existing'
  <2>1. pc' \in {"write", "idle"}
    BY <1>7 DEF OpenLazily, End
  <2>. QED
    BY <1>7, <2>1, OpenKeeps DEF OpenLazily
<1>8. ASSUME Append PROVE Existing'
  BY <1>8 DEF Append, End, TypeOK
<1>9. ASSUME WriteFails \/ WriteTemp PROVE Existing'
  BY <1>9 DEF WriteFails, WriteTemp, End, fileVars
<1>10. ASSUME Replace PROVE Existing'
  BY <1>1, <1>10 DEF Replace, End, TypeOK
<1>11. ASSUME Restart PROVE Existing'
  <2>1. PICK W \in IF pc = "write" /\ stream = "open" THEN Prefixes(batch) ELSE {{}} :
          files' = [files EXCEPT ![0] = files[0] \cup W]
    BY <1>11 DEF Restart
  <2>2. /\ present \subseteq present' /\ pc' = "idle"
        /\ stream' = "open" => 0 \in present'
    BY <1>11 DEF Restart, Opened
  <2>3. \A i \in Numbers \ present' : files'[i] = {}
    <3>1. CASE pc = "write" /\ stream = "open"
      BY <2>1, <2>2, <3>1 DEF TypeOK
    <3>2. CASE ~(pc = "write" /\ stream = "open")
      BY <2>1, <2>2, <3>2 DEF TypeOK
    <3>. QED
      BY <3>1, <3>2
  <2>. QED
    BY <2>2, <2>3
<1>12. ASSUME Shutdown \/ UNCHANGED vars PROVE Existing'
  BY <1>12 DEF Shutdown, vars, fileVars
<1>. QED
  BY <1>3, <1>4, <1>5, <1>6, <1>7, <1>8, <1>9, <1>10, <1>11, <1>12
  DEF Next, FlushNext, Rotation, Writing

\* The place the cascade moves a file to has just been emptied.
LEMMA GapStep == ASSUME IInv, [Next]_vars PROVE Gap'
<1>. USE DEF IInv, Gap
<1>1. ASSUME pc' \notin {"rotate", "reopen"} PROVE Gap'
  BY <1>1
<1>2. ASSUME NEW k \in 1 .. MaxBatch, Flush(k) PROVE Gap'
  <2>1. pc' \notin {"rotate", "reopen"} \/ (pc' = "rotate" /\ step' = MaxFiles)
    BY <1>2 DEF Flush
  <2>. QED
    BY <2>1, FileAssumption
<1>3. ASSUME RemoveOldest PROVE Gap'
  <2>1. CASE RotationFails
    BY <2>1, <1>1, FailureKeeps
  <2>2. CASE ~RotationFails
    BY <1>3, <2>2, FileAssumption DEF RemoveOldest, TypeOK, Numbers
  <2>. QED
    BY <2>1, <2>2
<1>4. ASSUME Rename PROVE Gap'
  <2>1. CASE RotationFails
    BY <2>1, <1>1, FailureKeeps
  <2>2. CASE ~RotationFails
    <3>1. step + 1 \in Numbers /\ step + 1 # step /\ step \in Numbers /\ step \in Nat
      BY <1>4, FileAssumption DEF Rename, TypeOK, Numbers
    <3>2. files'[step] = {}
      <4>1. CASE step \in present
        BY <1>4, <2>2, <3>1, <4>1 DEF Rename, Renamed, Left, TypeOK
      <4>2. CASE step \notin present
        BY <1>4, <2>2, <3>1, <4>2 DEF Rename, Existing
      <4>. QED
        BY <4>1, <4>2
    <3>3. (step = 0 /\ pc' = "reopen") \/ (step # 0 /\ pc' = "rotate" /\ step' = step - 1)
      BY <1>4, <2>2 DEF Rename
    <3>4. (step - 1) + 1 = step
      BY <3>1
    <3>. QED
      BY <3>2, <3>3, <3>4
  <2>. QED
    BY <2>1, <2>2
<1>5. ASSUME Reopen PROVE Gap'
  <2>1. pc' \in {"write", "idle"}
    BY <1>5 DEF Reopen, End
  <2>. QED
    BY <1>1, <2>1
<1>6. ASSUME Writing PROVE pc' \notin {"rotate", "reopen"}
  BY <1>6 DEF Writing, Append, OpenLazily, WriteFails, WriteTemp, Replace, End
<1>7. ASSUME Shutdown \/ Restart PROVE pc' \notin {"rotate", "reopen"}
  BY <1>7 DEF Shutdown, Restart
<1>8. ASSUME UNCHANGED vars PROVE Gap'
  BY <1>8 DEF vars, fileVars
<1>. QED
  BY <1>1, <1>2, <1>3, <1>4, <1>5, <1>6, <1>7, <1>8 DEF Next, FlushNext, Rotation

-----------------------------------------------------------------------------
(* Order and age.                                                          *)

\* A step changes what is in a file only as Effect says: nothing new but
\* records of the batch, and those in the active file.
LEMMA BatchStep == ASSUME IInv, [Next]_vars PROVE Newer'
<1>. USE DEF IInv, Newer
<1>1. mode' = mode
  BY Remembered
<1>2. ASSUME batch' = {}, pc' # "replace" PROVE Newer'
  BY <1>2
<1>3. ASSUME batch' = batch, batches \subseteq batches', files' = files, confirmed' = confirmed,
             pc' \notin {"idle", "down", "replace"}
      PROVE  Newer'
  BY <1>1, <1>3 DEF OnDisk
<1>4. ASSUME NEW k \in 1 .. MaxBatch, Flush(k) PROVE Newer'
  <2>1. batch' \in batches' /\ pc' \notin {"idle", "down", "replace"}
        /\ files' = files /\ confirmed' = confirmed
    BY <1>4 DEF Flush, fileVars
  <2>2. OnDisk' \cup confirmed' \subseteq Handed
    BY <2>1 DEF OnDisk, TypeOK
  <2>3. \A r \in batch' : \A q \in Handed : q < r
    <3>1. /\ batch' = Cardinality(Handed) + 1 .. Cardinality(Handed) + k
          /\ Cardinality(Handed) \in Nat /\ Handed = 1 .. Cardinality(Handed)
      BY <1>4, NextNumbers DEF Numbered
    <3>2. \A r \in batch' : r \in Int /\ r >= Cardinality(Handed) + 1
      BY <3>1, FileAssumption
    <3>3. \A q \in Handed : q \in Int /\ q <= Cardinality(Handed)
      BY <3>1
    <3>. QED
      BY <3>1, <3>2, <3>3
  <2>. QED
    BY <2>1, <2>2, <2>3
<1>5. batches \subseteq batches'
  BY HandedGrows
<1>6. ASSUME RotationFails PROVE Newer'
  BY <1>2, <1>6, FailureKeeps
<1>7. ASSUME RemoveOldest PROVE Newer'
  <2>1. CASE RotationFails
    BY <1>6, <2>1
  <2>2. CASE ~RotationFails
    <3>1. /\ batch' = batch /\ pc' = "rotate" /\ confirmed' = confirmed
          /\ files' = [files EXCEPT ![MaxFiles] = {}]
      BY <1>7, <2>2 DEF RemoveOldest
    <3>2. OnDisk' \subseteq OnDisk
      BY <3>1 DEF OnDisk, TypeOK
    <3>. QED
      BY <1>1, <1>5, <3>1, <3>2
  <2>. QED
    BY <2>1, <2>2
<1>8. ASSUME Rename PROVE Newer'
  <2>1. CASE RotationFails
    BY <1>6, <2>1
  <2>2. CASE ~RotationFails
    <3>1. batch' = batch /\ pc' \in {"rotate", "reopen"} /\ confirmed' = confirmed
      BY <1>8, <2>2 DEF Rename
    <3>2. OnDisk' \subseteq OnDisk
      <4>1. CASE step \in present
        <5>1. files' = [files EXCEPT ![step] = {}, ![step + 1] = files[step]]
              /\ step \in Numbers /\ step + 1 \in Numbers
          BY <1>8, <2>2, <4>1, FileAssumption DEF Rename, Renamed, Left, TypeOK, Numbers
        <5>2. \A i \in Numbers : files'[i] = files[i] \/ files'[i] = {} \/ files'[i] = files[step]
          BY <5>1 DEF TypeOK
        <5>. QED
          BY <5>1, <5>2 DEF OnDisk
      <4>2. CASE step \notin present
        BY <1>8, <2>2, <4>2 DEF Rename, OnDisk
      <4>. QED
        BY <4>1, <4>2
    <3>. QED
      BY <1>1, <1>5, <3>1, <3>2
  <2>. QED
    BY <2>1, <2>2
<1>9. ASSUME Reopen PROVE Newer'
  <2>1. (pc' = "idle" /\ batch' = {}) \/ (pc' = "write" /\ batch' = batch)
    BY <1>9 DEF Reopen, End
  <2>2. files' = files /\ confirmed' = confirmed
    BY <1>9, OpenKeeps DEF Reopen, End
  <2>. QED
    BY <1>2, <1>3, <1>5, <2>1, <2>2
<1>10. ASSUME OpenLazily PROVE Newer'
  <2>1. (pc' = "idle" /\ batch' = {}) \/ (pc' = "write" /\ batch' = batch)
    BY <1>10 DEF OpenLazily, End
  <2>2. files' = files /\ confirmed' = confirmed
    BY <1>10, OpenKeeps DEF OpenLazily, End
  <2>. QED
    BY <1>2, <1>3, <1>5, <2>1, <2>2
<1>11. ASSUME Append \/ WriteFails \/ Replace PROVE Newer'
  <2>1. pc' = "idle" /\ batch' = {}
    BY <1>11 DEF Append, WriteFails, Replace, End
  <2>. QED
    BY <1>2, <2>1
<1>12. ASSUME WriteTemp PROVE Newer'
  <2>1. \/ pc' = "idle" /\ batch' = {}
        \/ pc' = "replace" /\ batch' = batch /\ tmp' = batch
    BY <1>12 DEF WriteTemp, End, Result
  <2>2. (files' = files /\ confirmed' = confirmed) \/ batch' = {}
    BY <1>12 DEF WriteTemp, End
  <2>3. pc = "create" /\ mode = "overwrite"
    BY <1>12 DEF WriteTemp, OwnWay
  <2>. QED
    BY <1>1, <1>2, <1>5, <2>1, <2>2, <2>3
<1>13. ASSUME Shutdown PROVE Newer'
  BY <1>2, <1>13 DEF Shutdown
<1>14. ASSUME Restart PROVE Newer'
  BY <1>2, <1>14 DEF Restart
<1>15. ASSUME UNCHANGED vars PROVE Newer'
  BY <1>15 DEF vars, fileVars, histVars, OnDisk
<1>. QED
  BY <1>4, <1>7, <1>8, <1>9, <1>10, <1>11, <1>12, <1>13, <1>14, <1>15
  DEF Next, FlushNext, Rotation, Writing

\* The files stay in the order of their numbers.
LEMMA OrderStep == ASSUME IInv, [Next]_vars PROVE ReadsInOrder'
<1>. USE DEF IInv
<1>1. SUFFICES ASSUME NEW i \in Numbers, NEW j \in Numbers, i < j,
                      NEW r \in files'[i], NEW q \in files'[j]
               PROVE  q < r
  BY DEF ReadsInOrder
<1>2. i \in Int /\ j \in Int /\ j # 0 /\ 0 \in Numbers /\ 0 < j
  BY <1>1, FileAssumption DEF Numbers
<1>3. CASE Keeps
  BY <1>1, <1>3 DEF Keeps, ReadsInOrder
<1>4. CASE Adds
  <2>1. PICK W \in SUBSET batch : files' = [files EXCEPT ![0] = files[0] \cup W]
    BY <1>4 DEF Adds
  <2>2. q \in files[j] /\ q \in OnDisk
    BY <1>2, <2>1 DEF TypeOK, OnDisk
  <2>3. r \in files[i] \/ (r \in batch /\ i = 0)
    BY <1>2, <2>1 DEF TypeOK
  <2>4. mode # "overwrite"
    BY <1>4 DEF Adds, OwnWay
  <2>5. CASE r \in files[i]
    BY <1>1, <2>2, <2>5 DEF ReadsInOrder
  <2>6. CASE r \in batch
    BY <2>2, <2>4, <2>6 DEF Newer
  <2>. QED
    BY <2>3, <2>5, <2>6
<1>5. CASE DropsOldest
  <2>1. r \in files[i] /\ q \in files[j]
    BY <1>5 DEF DropsOldest, TypeOK
  <2>. QED
    BY <1>1, <2>1 DEF ReadsInOrder
<1>6. CASE Shifts
  <2>1. /\ step \in Int /\ step \in Numbers /\ step + 1 \in Numbers /\ step + 1 # step
        /\ files' = [files EXCEPT ![step] = {}, ![step + 1] = files[step]]
    BY <1>6, FileAssumption DEF Shifts, TypeOK, Numbers
  <2>2. i # step /\ j # step
    BY <2>1 DEF TypeOK
  <2>3. CASE i = step + 1
    <3>1. r \in files[step] /\ q \in files[j] /\ step < j
      BY <1>1, <1>2, <2>1, <2>2, <2>3 DEF TypeOK
    <3>. QED
      BY <2>1, <3>1 DEF ReadsInOrder
  <2>4. CASE j = step + 1
    <3>1. r \in files[i] /\ q \in files[step] /\ i < step
      BY <1>1, <1>2, <2>1, <2>2, <2>4 DEF TypeOK
    <3>. QED
      BY <2>1, <3>1 DEF ReadsInOrder
  <2>5. CASE i # step + 1 /\ j # step + 1
    <3>1. r \in files[i] /\ q \in files[j]
      BY <2>1, <2>2, <2>5 DEF TypeOK
    <3>. QED
      BY <1>1, <3>1 DEF ReadsInOrder
  <2>. QED
    BY <2>3, <2>4, <2>5
<1>7. CASE Replaces
  <2>1. files[j] = {} /\ files'[j] = files[j]
    BY <1>2, <1>7 DEF Replaces, OwnWay, TypeOK
  <2>. QED
    BY <1>1, <2>1
<1>. QED
  BY <1>3, <1>4, <1>5, <1>6, <1>7, Effect

\* Out of overwrite mode a step takes records away, if any, from the old end.
\* (Rotations that fail may do so one after the other, until only the active
\* file is left: age is what this promises, not a number of files.)
RecordsGoByAge ==
  [][mode # "overwrite" =>
       \A r \in OnDisk \ OnDisk' : \A q \in OnDisk' : r < q]_vars

\* A rename moves a file onto a free place, so it takes nothing from the disk.
LEMMA ShiftsKeep == ASSUME IInv, Shifts PROVE OnDisk' = OnDisk
<1>1. /\ step \in Numbers /\ step + 1 \in Numbers /\ step + 1 # step
      /\ files' = [files EXCEPT ![step] = {}, ![step + 1] = files[step]]
      /\ files[step + 1] = {}
  BY FileAssumption DEF IInv, Shifts, TypeOK, Numbers, Gap
<1>2. ASSUME NEW o PROVE o \in OnDisk' => o \in OnDisk
  BY <1>1 DEF IInv, OnDisk, TypeOK
<1>3. ASSUME NEW o PROVE o \in OnDisk => o \in OnDisk'
  <2>1. SUFFICES ASSUME NEW i \in Numbers, o \in files[i] PROVE o \in OnDisk'
    BY DEF OnDisk
  <2>2. o \in files'[IF i = step THEN step + 1 ELSE i]
    BY <1>1, <2>1 DEF IInv, TypeOK
  <2>. QED
    BY <1>1, <2>2 DEF OnDisk
<1>. QED
  BY <1>2, <1>3

\* What a step takes from the disk is older than all that stays.
LEMMA OnlyOldest ==
  ASSUME IInv, [Next]_vars, mode # "overwrite",
         NEW r \in OnDisk, r \notin OnDisk', NEW q \in OnDisk'
  PROVE  r < q
<1>. USE DEF IInv
<1>1. ~Keeps
  BY DEF Keeps, OnDisk
<1>2. ~Adds
  <2>. SUFFICES ASSUME Adds PROVE FALSE
    OBVIOUS
  <2>1. PICK W \in SUBSET batch : files' = [files EXCEPT ![0] = files[0] \cup W]
    BY DEF Adds
  <2>. QED
    BY <2>1 DEF OnDisk, TypeOK
<1>3. ~Shifts
  BY ShiftsKeep
<1>4. ~Replaces
  BY DEF Replaces, OwnWay
<1>5. files' = [files EXCEPT ![MaxFiles] = {}]
  BY <1>1, <1>2, <1>3, <1>4, Effect DEF DropsOldest
<1>6. PICK j \in Numbers : r \in files[j]
  BY DEF OnDisk
<1>7. PICK i \in Numbers : q \in files'[i]
  BY DEF OnDisk
<1>8. r \notin files'[j]
  BY DEF OnDisk
<1>9. j = MaxFiles
  BY <1>5, <1>6, <1>8 DEF TypeOK
<1>10. i # MaxFiles /\ q \in files[i]
  BY <1>5, <1>7, <1>9 DEF TypeOK
<1>11. i < MaxFiles
  BY <1>10, FileAssumption DEF Numbers
<1>. QED
  BY <1>6, <1>9, <1>10, <1>11 DEF ReadsInOrder

\* A confirmed record goes only with, or after, all that are older.
LEMMA AgeStep == ASSUME IInv, [Next]_vars PROVE ConfirmedKept'
<1>. USE DEF IInv
<1>0. mode' = mode
  BY Remembered
<1>1. SUFFICES ASSUME mode # "overwrite", NEW r \in confirmed', r \notin OnDisk',
                      NEW q \in OnDisk'
               PROVE  r < q
  BY <1>0 DEF ConfirmedKept
<1>2. CASE r \in OnDisk
  BY <1>1, <1>2, OnlyOldest
<1>3. CASE r \notin OnDisk
  <2>1. r \in confirmed \/ (r \in batch /\ Adds)
    <3>1. r \in confirmed \/ confirmed' # confirmed
      BY <1>1
    <3>2. ~Replaces
      BY <1>1 DEF Replaces, OwnWay
    <3>3. CASE Adds
      BY <1>1, <3>3 DEF Adds
    <3>. QED
      BY <3>1, <3>2, <3>3, Effect DEF Keeps, DropsOldest, Shifts
  <2>2. \A o \in OnDisk' : o \in OnDisk \/ (o \in batch /\ Adds)
    <3>1. CASE Adds
      <4>1. PICK W \in SUBSET batch : files' = [files EXCEPT ![0] = files[0] \cup W]
        BY <3>1 DEF Adds
      <4>2. OnDisk' = OnDisk \cup W
        BY <4>1, FileAssumption DEF OnDisk, TypeOK, Numbers
      <4>. QED
        BY <3>1, <4>2
    <3>2. CASE Keeps
      BY <3>2 DEF Keeps, OnDisk
    <3>3. CASE DropsOldest
      BY <3>3 DEF DropsOldest, OnDisk, TypeOK
    <3>4. CASE Shifts
      BY <3>4, ShiftsKeep
    <3>. QED
      <4>1. ~Replaces
        BY <1>1 DEF Replaces, OwnWay
      <4>. QED
        BY <3>1, <3>2, <3>3, <3>4, <4>1, Effect
  <2>3. CASE r \in confirmed
    BY <1>1, <1>3, <2>2, <2>3 DEF ConfirmedKept, Newer
  <2>4. CASE r \in batch /\ Adds /\ r \notin confirmed
    <3>1. PICK W \in SUBSET batch :
            /\ files' = [files EXCEPT ![0] = files[0] \cup W]
            /\ confirmed' = confirmed \/ (W = batch /\ confirmed' = confirmed \cup batch)
      BY <2>4 DEF Adds
    <3>2. r \in files'[0] /\ 0 \in Numbers
      BY <1>1, <2>4, <3>1, FileAssumption DEF TypeOK, Numbers
    <3>. QED
      BY <1>1, <3>2 DEF OnDisk
  <2>. QED
    BY <2>1, <2>3, <2>4
<1>. QED
  BY <1>2, <1>3

-----------------------------------------------------------------------------
(* Size, and the target of overwrite mode.                                 *)

\* Sets of records are finite.
LEMMA AllFinite ==
  ASSUME TypeOK, Numbered, NEW S, S \subseteq Handed
  PROVE  IsFiniteSet(S) /\ Cardinality(S) \in Nat
BY FS_Subset, FS_CardinalityType DEF Numbered

\* Adding a part of B makes a file at most Cardinality(B) longer.
LEMMA UnionSize ==
  ASSUME NEW A, NEW B, NEW W \in SUBSET B, IsFiniteSet(A), IsFiniteSet(B)
  PROVE  Cardinality(A \cup W) <= Cardinality(A) + Cardinality(B)
<1>1. IsFiniteSet(W) /\ Cardinality(W) <= Cardinality(B)
  BY FS_Subset
<1>2. IsFiniteSet(A \cap W)
  BY <1>1, FS_Subset, A \cap W \subseteq W
<1>3. Cardinality(A \cup W) = Cardinality(A) + Cardinality(W) - Cardinality(A \cap W)
  BY <1>1, FS_Union
<1>. QED
  BY <1>1, <1>2, <1>3, FS_CardinalityType

\* A batch is only written when it fits, or alone.
LEMMA RoomStep == ASSUME IInv, [Next]_vars PROVE Room'
<1>. USE DEF IInv
<1>1. mode' = mode /\ (blind => blind')
  BY Remembered
<1>2. ASSUME pc' # "write" PROVE Room'
  BY <1>2 DEF Room
<1>3. ASSUME pc = "write", files' = files, batch' = batch PROVE Room'
  BY <1>1, <1>3 DEF Room
<1>4. ASSUME NEW k \in 1 .. MaxBatch, Flush(k) PROVE Room'
  <2>. SUFFICES ASSUME mode = "rotate", ~blind', pc' = "write"
                PROVE  Cardinality(files'[0]) + Cardinality(batch') <= MaxSize
    BY <1>1 DEF Room
  <2>1. \E failed \in BOOLEAN :
          /\ blind' = (blind \/ failed)
          /\ ~TooLong(IF failed THEN 0 ELSE Cardinality(files[0]))
    BY <1>4 DEF Flush
  <2>2. ~(Cardinality(files[0]) + Cardinality(batch') > MaxSize)
    BY <2>1 DEF TooLong
  <2>3. Cardinality(files[0]) \in Nat /\ Cardinality(batch') \in Nat
    <3>1. files[0] \subseteq Handed
      BY FileAssumption DEF TypeOK, Numbers
    <3>2. IsFiniteSet(batch')
      BY <1>4, NextNumbers, FS_Subset
    <3>. QED
      BY <3>1, <3>2, AllFinite, FS_CardinalityType
  <2>4. files' = files
    BY <1>4 DEF Flush, fileVars
  <2>. QED
    BY <2>2, <2>3, <2>4, FileAssumption
<1>5. ASSUME RemoveOldest PROVE Room'
  <2>1. pc' # "write"
    BY <1>5, FailureKeeps DEF RemoveOldest
  <2>. QED
    BY <1>2, <2>1
<1>6. ASSUME Rename PROVE Room'
  <2>1. pc' # "write"
    BY <1>6, FailureKeeps DEF Rename
  <2>. QED
    BY <1>2, <2>1
<1>7. ASSUME Reopen PROVE Room'
  BY <1>7, OpenKeeps DEF Reopen, Gap, Room
<1>8. ASSUME OpenLazily PROVE Room'
  <2>1. files' = files /\ pc = "write" /\ (pc' = "idle" \/ batch' = batch)
    BY <1>8, OpenKeeps DEF OpenLazily, End
  <2>. QED
    BY <1>2, <1>3, <2>1
<1>9. ASSUME Append \/ WriteFails \/ WriteTemp \/ Replace PROVE pc' # "write"
  BY <1>9 DEF Append, WriteFails, WriteTemp, Replace, End
<1>10. ASSUME Shutdown \/ Restart PROVE pc' # "write"
  BY <1>10 DEF Shutdown, Restart
<1>11. ASSUME UNCHANGED vars PROVE Room'
  BY <1>11 DEF vars, fileVars, histVars, Room
<1>. QED
  BY <1>2, <1>4, <1>5, <1>6, <1>7, <1>8, <1>9, <1>10, <1>11
  DEF Next, FlushNext, Rotation, Writing

\* Files keep their limit.
LEMMA SizeStep == ASSUME IInv, [Next]_vars PROVE SizeLimit'
<1>. USE DEF IInv
<1>1. /\ mode' = mode /\ (blind => blind') /\ batches \subseteq batches'
      /\ 0 \in Numbers /\ MaxFiles \in Numbers /\ TypeOK
  <2>1. mode' = mode /\ (blind => blind')
    BY Remembered
  <2>. QED
    BY <2>1, HandedGrows, FileAssumption DEF Numbers
<1>. DEFINE Short(S) == Cardinality(S) <= MaxSize \/ \E b \in batches' : S \subseteq b
<1>2. SUFFICES ASSUME mode = "rotate", ~blind, NEW i \in Numbers PROVE Short(files'[i])
  BY <1>1 DEF SizeLimit
<1>3. \A n \in Numbers : Short(files[n])
  BY <1>1, <1>2 DEF SizeLimit
<1>4. Short({})
  BY FS_EmptySet, FileAssumption
<1>5. CASE Keeps
  BY <1>3, <1>5 DEF Keeps
<1>6. CASE Adds
  <2>1. PICK W \in SUBSET batch : files' = [files EXCEPT ![0] = files[0] \cup W]
    BY <1>6 DEF Adds
  <2>2. files'[i] = files[i] \/ (i = 0 /\ files'[i] = files[0] \cup W)
    BY <1>1, <2>1 DEF TypeOK
  <2>3. CASE files[0] = {}
    <3>1. files[0] \cup W \subseteq batch
      BY <2>3
    <3>2. CASE batch \in batches
      BY <1>1, <1>3, <2>2, <3>1, <3>2
    <3>3. CASE batch = {}
      <4>1. files[0] \cup W = {}
        BY <3>1, <3>3
      <4>. QED
        BY <1>3, <1>4, <2>2, <4>1
    <3>. QED
      BY <3>2, <3>3 DEF Newer
  <2>4. CASE Cardinality(files[0]) + Cardinality(batch) <= MaxSize
    <3>1. /\ IsFiniteSet(files[0]) /\ Cardinality(files[0]) \in Nat
          /\ IsFiniteSet(batch) /\ Cardinality(batch) \in Nat
          /\ Cardinality(files[0] \cup W) \in Nat
      <4>1. files[0] \subseteq Handed /\ batch \subseteq Handed /\ files[0] \cup W \subseteq Handed
        BY <1>1 DEF TypeOK
      <4>. QED
        BY <4>1, AllFinite
    <3>2. Cardinality(files[0] \cup W) <= Cardinality(files[0]) + Cardinality(batch)
      BY <3>1, UnionSize
    <3>3. Short(files[0] \cup W)
      BY <2>4, <3>1, <3>2, FileAssumption
    <3>. QED
      BY <1>3, <2>2, <3>3
  <2>. QED
    BY <1>2, <1>6, <2>3, <2>4 DEF Room, Adds
<1>7. CASE DropsOldest
  <2>1. files'[i] = files[i] \/ files'[i] = {}
    BY <1>1, <1>7 DEF DropsOldest, TypeOK
  <2>. QED
    BY <1>3, <1>4, <2>1
<1>8. CASE Shifts
  <2>1. files'[i] = files[i] \/ files'[i] = {} \/ (step \in Numbers /\ files'[i] = files[step])
    BY <1>1, <1>8 DEF Shifts, TypeOK
  <2>. QED
    BY <1>3, <1>4, <2>1
<1>9. CASE Replaces
  BY <1>2, <1>9 DEF Replaces, OwnWay
<1>. QED
  BY <1>5, <1>6, <1>7, <1>8, <1>9, Effect

\* The target is a whole batch.
LEMMA TargetStep == ASSUME IInv, [Next]_vars PROVE TargetWhole'
<1>. USE DEF IInv
<1>1. mode' = mode
  BY Remembered
<1>2. SUFFICES ASSUME mode = "overwrite" PROVE files'[0] \in batches' \cup {{}}
  BY <1>1 DEF TargetWhole
<1>3. files[0] \in batches' \cup {{}}
  BY <1>2, HandedGrows DEF TargetWhole
<1>4. Keeps \/ Replaces
  BY <1>2, Effect DEF OwnWay, Adds, DropsOldest, Shifts
<1>5. CASE Replaces
  <2>1. tmp \in batches \cup {{}}
    BY <1>5 DEF Replaces, Newer
  <2>2. files'[0] = tmp
    BY <1>5, FileAssumption DEF Replaces, TypeOK, Numbers
  <2>. QED
    BY <2>1, <2>2, HandedGrows
<1>. QED
  BY <1>3, <1>4, <1>5 DEF Keeps

-----------------------------------------------------------------------------
(* Theorems.                                                               *)

\* A writer starts with no records.
LEMMA InitInv == Init => IInv
<1>. SUFFICES ASSUME Init PROVE IInv
  OBVIOUS
<1>1. Handed = {} /\ OnDisk = {} /\ 0 \in Numbers /\ MaxFiles \in Numbers
  BY FileAssumption DEF Init, Handed, OnDisk, Numbers
<1>2. TypeOK
  <2>1. files \in [Numbers -> SUBSET Handed] /\ present \subseteq Numbers
    BY <1>1 DEF Init
  <2>2. stream \in {"closed", "open", "bad"}
    BY DEF Init, Opened
  <2>3. restarts \in 0 .. MaxRestarts
    BY FileAssumption DEF Init
  <2>4. tmp = {} /\ batch = {} /\ confirmed = {} /\ step \in Numbers
    BY <1>1 DEF Init
  <2>. QED
    BY <1>1, <2>1, <2>2, <2>3, <2>4 DEF Init, TypeOK
<1>3. Numbered
  BY <1>1, FS_EmptySet DEF Numbered
<1>4. OwnWay /\ Newer /\ Gap /\ Room
  BY DEF Init, OwnWay, Newer, Gap, Room
<1>5. Existing
  BY DEF Init, Opened, Existing
<1>6. ReadsInOrder /\ ConfirmedKept /\ TargetWhole
  BY <1>1 DEF Init, ReadsInOrder, ConfirmedKept, TargetWhole
<1>7. SizeLimit
  BY FS_EmptySet, FileAssumption DEF Init, SizeLimit
<1>. QED
  BY <1>2, <1>3, <1>4, <1>5, <1>6, <1>7 DEF IInv

\* The inductive invariant of the files.
THEOREM FileInvariant == Spec => []IInv
<1>1. IInv /\ [Next]_vars => IInv'
  <2>. SUFFICES ASSUME IInv, [Next]_vars PROVE IInv'
    OBVIOUS
  <2>. QED
    BY HandedGrows, TypeStep, OwnWayStep, BatchStep, ExistingStep, GapStep, RoomStep,
       OrderStep, AgeStep, SizeStep, TargetStep DEF IInv
<1>. QED
  BY InitInv, <1>1, PTL DEF Spec

\* Every variable has its type.
THEOREM FileTypesOK == Spec => []TypeOK
BY FileInvariant, PTL DEF IInv

\* path.N to path read in the order of the records, wherever a rotation stopped.
THEOREM FileReadsInOrder == Spec => []ReadsInOrder
BY FileInvariant, PTL DEF IInv

\* Whatever fails, the confirmed records that are gone are older than all that
\* are left; OldestKeptUntilFull, that they go no sooner than they have to,
\* does not hold.
THEOREM FileConfirmedKept == Spec => []ConfirmedKept
BY FileInvariant, PTL DEF IInv

\* No file is longer than the limit, unless one batch is or its size was unknown.
THEOREM FileSizeLimit == Spec => []SizeLimit
BY FileInvariant, PTL DEF IInv

\* In overwrite mode the target is one whole batch, wherever the process dies.
THEOREM FileTargetWhole == Spec => []TargetWhole
BY FileInvariant, PTL DEF IInv

\* Records leave the disk by age only, confirmed or not.
THEOREM FileRecordsGoByAge == Spec => RecordsGoByAge
<1>1. IInv /\ [Next]_vars =>
        [mode # "overwrite" =>
           \A r \in OnDisk \ OnDisk' : \A q \in OnDisk' : r < q]_vars
  BY OnlyOldest
<1>. QED
  BY <1>1, FileInvariant, PTL DEF Spec, RecordsGoByAge

=============================================================================
