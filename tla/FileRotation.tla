---------------------------- MODULE FileRotation ----------------------------
(***************************************************************************)
(* The files of FileWriter (file_writer.cpp) for one destination path: the *)
(* active file, the rotated files path.1 to path.N, and the persistent     *)
(* stream that appends to the active one.  Destinations share nothing but  *)
(* the result of flush_impl, so one is enough.                             *)
(*                                                                         *)
(* A step is one call that changes the file system, and any of them may    *)
(* fail; the process may die between two of them and come back.  Records   *)
(* are numbered in the order they are flushed, a batch is an interval of   *)
(* numbers, and a file is the set of records in it (it is only appended    *)
(* to); a record counts one byte.  Left out: records torn within their     *)
(* text, stat calls that fail, but for file_size, and bytes a failed       *)
(* stream still holds, which its close() may write.                        *)
(***************************************************************************)
EXTENDS Integers, FiniteSets

CONSTANTS
  MaxFiles,    \* max_files
  MaxSize,     \* max_file_size_bytes
  MaxBatch,    \* bound: records in a batch
  MaxRecords,  \* bound: records in all
  MaxRestarts  \* bound: crashes and restarts

ASSUME FileAssumption ==
  /\ MaxFiles \in Nat \ {0} /\ MaxSize \in Nat \ {0}
  /\ MaxBatch \in Nat /\ MaxRecords \in Nat /\ MaxRestarts \in Nat

VARIABLES
  mode,       \* "append", "rotate" (append with enable_rotation) or "overwrite"
  default,    \* path is options_.path: the stream is ofs_
  present,    \* files that exist: 0 is path, n is path.n
  files,      \* the records in each
  tmp,        \* the temporary file of overwrite mode
  stream,     \* the persistent stream: "closed", "open" or "bad"
  pc,         \* what flush_impl does next for this path
  step,       \* performRotation moves path.step next; N: removes the oldest
  batch,      \* the records being flushed
  batches,    \* history: all batches
  confirmed,  \* history: records of batches flush_impl returned true for
  blind,      \* history: a file_size failed
  restarts    \* bound: crashes so far

fileVars == <<present, files, tmp>>
histVars == <<batches, blind, restarts>>
vars == <<mode, default, fileVars, stream, pc, step, batch, confirmed, histVars>>

Numbers == 0 .. MaxFiles
OnDisk == UNION {files[i] : i \in Numbers}
Handed == UNION batches

-----------------------------------------------------------------------------
(* Faults for the mutants.                                                 *)

OneTooFar(n) == n + 2
Copied(n) == files[n]
Truncated(S) == {}
SizeBefore(seen) == seen > MaxSize
TakenForWhole(W) == TRUE

-----------------------------------------------------------------------------
(* The writer and its stream.                                              *)

\* The constructor opens the default path; other streams open when needed.
Opened == IF default THEN "open" ELSE "closed"

Init ==
  /\ mode \in {"append", "rotate", "overwrite"}
  /\ default \in BOOLEAN
  /\ present = IF default THEN {0} ELSE {}
  /\ files = [i \in Numbers |-> {}]
  /\ tmp = {}
  /\ stream = Opened
  /\ pc = "idle" /\ step = MaxFiles
  /\ batch = {} /\ batches = {} /\ confirmed = {}
  /\ blind = FALSE /\ restarts = 0

\* flush_impl is done with this path.
End(result) ==
  /\ pc' = "idle"
  /\ batch' = {}
  /\ confirmed' = IF result THEN confirmed \cup batch ELSE confirmed

\* std::ios::app keeps what is in the file.
Kept(S) == S

\* ofs.open(path, app) creates the file when it is not there.
OpenStream ==
  \/ /\ stream' = "open" /\ present' = present \cup {0}
     /\ files' = [files EXCEPT ![0] = Kept(files[0])]
  \/ stream' = "closed" /\ UNCHANGED <<present, files>>

\* The writes that got through before one failed.
Prefixes(B) == {W \in SUBSET B : \A r \in W, q \in B : q < r => q \in W}

TooLong(seen) == seen + Cardinality(batch') > MaxSize

\* flush_impl gets the next k records; closing the stream clears its errors.
Flush(k) ==
  /\ pc = "idle"
  /\ LET first == Cardinality(Handed) + 1
     IN  batch' = first .. first + k - 1
  /\ batches' = batches \cup {batch'}
  /\ \/ /\ mode = "overwrite" /\ pc' = "create"
        /\ UNCHANGED <<stream, step, blind>>
     \/ /\ mode = "append" /\ pc' = "write"
        /\ UNCHANGED <<stream, step, blind>>
     \/ /\ mode = "rotate"
        /\ \E failed \in BOOLEAN :
             LET seen == IF failed THEN 0 ELSE Cardinality(files[0])
             IN  /\ blind' = (blind \/ failed)
                 /\ IF TooLong(seen)
                    THEN pc' = "rotate" /\ stream' = "closed" /\ step' = MaxFiles
                    ELSE pc' = "write" /\ UNCHANGED <<stream, step>>
  /\ UNCHANGED <<mode, default, fileVars, confirmed, restarts>>

-----------------------------------------------------------------------------
(* performRotation.                                                        *)

\* A step of it fails: the batch is skipped, the stream is reopened.
RotationFails ==
  /\ End(FALSE)
  /\ OpenStream
  /\ UNCHANGED <<mode, default, tmp, step, histVars>>

RemoveOldest ==
  /\ pc = "rotate" /\ step = MaxFiles
  /\ \/ /\ present' = present \ {MaxFiles}
        /\ files' = [files EXCEPT ![MaxFiles] = {}]
        /\ step' = MaxFiles - 1
        /\ UNCHANGED <<mode, default, tmp, stream, pc, batch, confirmed, histVars>>
     \/ MaxFiles \in present /\ RotationFails

\* The number under which it is kept, and what stays under the old one.
Renamed(n) == n + 1
Left(n) == {}

\* path.step is renamed to path.(step + 1), and path to path.1.
Rename ==
  /\ pc = "rotate" /\ step < MaxFiles
  /\ \/ /\ IF step \in present
           THEN /\ present' = (present \ {step}) \cup {Renamed(step)}
                /\ files' = [files EXCEPT ![step] = Left(step), ![Renamed(step)] = files[step]]
           ELSE UNCHANGED <<present, files>>
        /\ IF step = 0
           THEN pc' = "reopen" /\ UNCHANGED step
           ELSE step' = step - 1 /\ UNCHANGED pc
        /\ UNCHANGED <<mode, default, tmp, stream, batch, confirmed, histVars>>
     \/ step \in present /\ RotationFails

\* The new active file.
Reopen ==
  /\ pc = "reopen"
  /\ OpenStream
  /\ IF stream' = "open"
     THEN pc' = "write" /\ UNCHANGED <<batch, confirmed>>
     ELSE End(FALSE)
  /\ UNCHANGED <<mode, default, tmp, step, histVars>>

-----------------------------------------------------------------------------
(* Writing.                                                                *)

\* flush_impl's result for a batch of which W was written.
Result(W) == W = batch

\* ofs << payload for each, and flush().  An error of the stream stays.
Append ==
  /\ pc = "write" /\ stream = "open"
  /\ \E W \in Prefixes(batch), good \in BOOLEAN :
       /\ good => W = batch
       /\ files' = [files EXCEPT ![0] = files[0] \cup W]
       /\ stream' = IF good THEN "open" ELSE "bad"
       /\ End(good /\ Result(W))
  /\ UNCHANGED <<mode, default, present, tmp, step, histVars>>

\* Only the stream of another path is opened again here.
OpenLazily ==
  /\ pc = "write" /\ stream = "closed" /\ ~default
  /\ OpenStream
  /\ IF stream' = "open" THEN UNCHANGED <<pc, batch, confirmed>> ELSE End(FALSE)
  /\ UNCHANGED <<mode, default, tmp, step, histVars>>

WriteFails ==
  /\ pc = "write"
  /\ stream = "bad" \/ (stream = "closed" /\ default)
  /\ End(FALSE)
  /\ UNCHANGED <<mode, default, fileVars, stream, step, histVars>>

\* Overwrite mode: the batch goes to a temporary file.
WriteTemp ==
  /\ pc = "create"
  /\ \E W \in Prefixes(batch) :
       /\ tmp' = W
       /\ IF Result(W)
          THEN pc' = "replace" /\ UNCHANGED <<batch, confirmed>>
          ELSE End(FALSE)
  /\ UNCHANGED <<mode, default, present, files, stream, step, histVars>>

Replace ==
  /\ pc = "replace"
  /\ \/ /\ files' = [files EXCEPT ![0] = tmp]
        /\ present' = present \cup {0}
        /\ End(TRUE)
     \/ UNCHANGED <<files, present>> /\ End(FALSE)
  /\ tmp' = {}
  /\ UNCHANGED <<mode, default, stream, step, histVars>>

-----------------------------------------------------------------------------
(* Shutdown and restart.                                                   *)

\* do_shutdown, after the last batch.
Shutdown ==
  /\ pc = "idle"
  /\ pc' = "down" /\ stream' = "closed"
  /\ UNCHANGED <<mode, default, fileVars, step, batch, confirmed, histVars>>

\* The process ends, killed or not, and a new one constructs the writer.
Restart ==
  /\ restarts < MaxRestarts
  /\ restarts' = restarts + 1
  /\ \E W \in IF pc = "write" /\ stream = "open" THEN Prefixes(batch) ELSE {{}} :
       files' = [files EXCEPT ![0] = files[0] \cup W]
  /\ present' = IF default THEN present \cup {0} ELSE present
  /\ stream' = Opened
  /\ pc' = "idle" /\ batch' = {} /\ tmp' = {}
  /\ UNCHANGED <<mode, default, step, confirmed, batches, blind>>

FlushNext ==
  \E k \in 1 .. MaxBatch : Cardinality(Handed) + k <= MaxRecords /\ Flush(k)
Rotation == RemoveOldest \/ Rename \/ Reopen
Writing == Append \/ OpenLazily \/ WriteFails \/ WriteTemp \/ Replace

Next == FlushNext \/ Rotation \/ Writing \/ Shutdown \/ Restart

Spec == Init /\ [][Next]_vars

-----------------------------------------------------------------------------
TypeOK ==
  /\ mode \in {"append", "rotate", "overwrite"} /\ default \in BOOLEAN
  /\ present \subseteq Numbers
  /\ files \in [Numbers -> SUBSET Handed] /\ tmp \subseteq Handed
  /\ stream \in {"closed", "open", "bad"}
  /\ pc \in {"idle", "rotate", "reopen", "write", "create", "replace", "down"}
  /\ step \in Numbers
  /\ batch \subseteq Handed /\ confirmed \subseteq Handed
  /\ Handed \subseteq Nat
  /\ blind \in BOOLEAN /\ restarts \in 0 .. MaxRestarts

\* path.N, ..., path.1, path read one after the other give the records in the
\* order they were flushed, each at most once: also in the middle of a rotation,
\* after one that failed half way, and after a crash in it.
ReadsInOrder ==
  \A i, j \in Numbers : i < j =>
    \A r \in files[i], q \in files[j] : q < r

\* A record flush_impl reported as written disappears only by age: everything
\* still on disk is newer.  How many are left is another matter: a rotation has
\* removed path.N before it finds out that a rename fails, and while the active
\* file cannot be renamed each flush removes the oldest file that is left and
\* shifts the others, until there is none (see OldestKeptUntilFull).
ConfirmedKept ==
  mode # "overwrite" =>
    \A r \in confirmed \ OnDisk : \A q \in OnDisk : r < q

\* "The oldest file is deleted when the count exceeds max_files"
\* (doc/configuration.md:392): while fewer than max_files rotated files are
\* there, no step takes a confirmed record from the disk.
OldestKeptUntilFull ==
  [][mode = "rotate" /\ ~(1 .. MaxFiles \subseteq present)
       => confirmed \cap OnDisk \subseteq OnDisk']_vars

\* "When the active file would exceed this size after writing the next batch,
\* rotation is triggered before the write" (doc/configuration.md:391): a file is
\* longer only when one batch is, or when the size could not be read.
SizeLimit ==
  mode = "rotate" /\ ~blind =>
    \A i \in Numbers :
      Cardinality(files[i]) <= MaxSize \/ \E b \in batches : files[i] \subseteq b

\* In overwrite mode the target holds one whole batch, whatever fails and
\* wherever the process dies.
TargetWhole ==
  mode = "overwrite" => files[0] \in batches \cup {{}}
=============================================================================
