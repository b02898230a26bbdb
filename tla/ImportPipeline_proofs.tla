------------------------- MODULE ImportPipeline_proofs -------------------------
(***************************************************************************)
(* Proofs about ImportPipeline, for files of any length, any number of     *)
(* overlapping calls and every retry bound.                                *)
(***************************************************************************)
EXTENDS ImportPipeline, TLAPS, FiniteSetTheorems, WellFoundedInduction

-----------------------------------------------------------------------------
(* The operators of BullQueue                                              *)

(* Every operator takes a job to a job; only an attempt that may still be  *)
(* made can be counted.                                                    *)
LEMMA JobOperators ==
  ASSUME NEW j \in Jobs
  PROVE  /\ Added(j) \in Jobs /\ Taken(j) \in Jobs /\ Deferred(j) \in Jobs /\ Promoted(j) \in Jobs
         /\ Completed(j) \in Jobs /\ Completed(Taken(j)) \in Jobs
         /\ Stalled(j) \in Jobs
         /\ j.attempts < MaxAttempts => Thrown(j) \in Jobs
<1>1. /\ j.stalls < MaxStalls => j.stalls + 1 \in 0..MaxStalls
      /\ j.attempts < MaxAttempts => j.attempts + 1 \in 0..MaxAttempts
  BY QueueAssumption DEF Jobs
<1> QED
  BY <1>1 DEF Jobs, JobStates, Added, Taken, Deferred, Promoted, Completed, Stalled, Thrown

(* A thrown attempt fails the job exactly when it was the last one.        *)
LEMMA ThrownAttempts ==
  ASSUME NEW j \in Jobs, j.attempts < MaxAttempts
  PROVE  /\ Thrown(j).attempts = j.attempts + 1
         /\ LastAttempt(j) => Thrown(j).state = "failed" /\ Thrown(j).attempts = MaxAttempts
         /\ ~LastAttempt(j) => Thrown(j).state = "delayed" /\ Thrown(j).attempts < MaxAttempts
BY QueueAssumption DEF Jobs, Thrown, LastAttempt

-----------------------------------------------------------------------------
(* The inductive invariant                                                 *)

Handling == {"batch", "absent", "present"}

ValidRows == {r \in Rows : row[r] = "VALID"}
ImportedRows == {r \in Rows : row[r] = "IMPORTED"}
FailedRows == {r \in Rows : row[r] = "FAILED"}

(* A job that can still be worked on has an attempt left, and only an      *)
(* active job has a worker.                                                *)
JobInv ==
    /\ job.state \in {"none", "waiting", "active", "delayed"} => job.attempts < MaxAttempts
    /\ work.at \notin {"idle", "onFailed"} => job.state = "active"

(* A row that is being dealt with is in the batch; when the lookup found   *)
(* nothing, still no contact of this import has one of its keys.           *)
LookupInv ==
    /\ work.at \in {"absent", "present"} => work.batch # {}
    /\ work.at = "absent" => \A i \in DOMAIN contacts : contacts[i] \cap NextKeys = {}

(* An attempt that has not begun has counted nothing.                      *)
ReadInv ==
    work.at = "read" => work.last = 0 /\ work.imported = 0 /\ work.failed = 0

(* Undisturbed, the worker knows all valid rows that are left.             *)
ValidInv ==
    ~disturbed =>
        /\ work.at = "loop" => \A r \in ValidRows : r > work.last
        /\ work.at \in Handling => work.batch = ValidRows
        /\ work.at \in {"finishing", "done"} => ValidRows = {}
        /\ status \in Finished => ValidRows = {}

CountInv ==
    (~disturbed /\ work.at \in PastBegin) =>
        /\ work.imported <= Cardinality(ImportedRows)
        /\ work.failed <= Cardinality(FailedRows)

IInv ==
    /\ TypeOK
    /\ JobInv
    /\ LookupInv
    /\ ReadInv
    /\ ContactsShareNoKey
    /\ ValidInv
    /\ CountInv
    /\ CountersNeverOverstate

CallType == [at : CallSteps, op : {"upload", "map", "commit", "cancel"},
             mapping : AppliedMappings,
             rest : SUBSET Rows, taken : SUBSET Keys, count : Nat]
WorkType == [at : WorkSteps, batch : SUBSET Rows, keys : [Rows -> SUBSET Keys], last : Nat,
             imported : Nat, failed : Nat]

-----------------------------------------------------------------------------
(* The operators of the specification                                      *)

(* A set of rows that is not empty has a first row.                        *)
LEMMA FirstOfSet ==
  ASSUME NEW S \in SUBSET Rows, S # {}
  PROVE  FirstOf(S) \in S /\ FirstOf(S) \in Rows /\ \A s \in S : FirstOf(S) <= s
<1> DEFINE Less == OpToRel(<, Nat)
<1>1. S \subseteq Nat
  BY ImportAssumption DEF Rows
<1>2. Less = {p \in Nat \X Nat : p[1] < p[2]}
  BY Zenon DEF OpToRel
<1>3. IsWellFoundedOn(Less, Nat)
  BY Zenon, NatLessThanWellFounded
<1> HIDE DEF Less
<1>4. PICK m \in S : \A s \in S : ~(<<s, m>> \in Less)
  BY <1>1, <1>3, WFMin
<1>5. ASSUME NEW s \in S PROVE m <= s
  <2>1. s \in Nat /\ m \in Nat /\ <<s, m>> \notin Less
    BY <1>1, <1>4
  <2>2. s < m => <<s, m>> \in Less
    BY <1>2, <2>1
  <2> QED BY <2>1, <2>2
<1> QED BY <1>5 DEF FirstOf

(* Rows are numbered from one.                                             *)
LEMMA RowsAreNumbers == Rows \subseteq Nat
<1>1. RowCount \in Nat
  BY ImportAssumption
<1> QED BY <1>1 DEF Rows

(* Every set of rows has a size.                                           *)
LEMMA RowSets ==
  ASSUME NEW S \in SUBSET Rows
  PROVE  IsFiniteSet(S) /\ Cardinality(S) \in Nat
<1>1. IsFiniteSet(Rows)
  BY FS_Interval, ImportAssumption DEF Rows
<1> QED BY <1>1, FS_Subset, FS_CardinalityType

(* The records at rest are well formed.                                    *)
LEMMA RestTypes ==
  /\ NoCall \in CallType
  /\ Closed \in CallType /\ Closed.at = "closed"
  /\ NoWork \in WorkType
  /\ NoJob \in Jobs
  /\ NoWork.at = "idle"
BY QueueAssumption
   DEF NoCall, Closed, NoWork, NoJob, CallType, AppliedMappings, CallSteps, Mapping, WorkType, WorkSteps, PastBegin, Jobs, JobStates

(* CallAt moves one call.                                                  *)
LEMMA CallAtEffect ==
  ASSUME call \in [Callers -> CallType], NEW k \in Callers, NEW step \in CallSteps, CallAt(k, step)
  PROVE  /\ call' \in [Callers -> CallType]
         /\ call'[k].at = step
         /\ \A q \in Callers : q # k => call'[q] = call[q]
<1>1. CASE step = "closed"
  BY <1>1, RestTypes DEF CallAt
<1>2. CASE step # "closed"
  BY <1>2 DEF CallAt, CallType
<1> QED BY <1>1, <1>2

(* The keys of contacts and of rows are among those of the instance.       *)
LEMMA KeyTypes ==
  /\ TypeOK => KnownKeys \subseteq Keys
  /\ \A r \in Rows, m \in AppliedMappings : normalizeRow(Cells[r], m) \in SUBSET Keys
  /\ KeysElsewhere \subseteq Keys
<1>1. ASSUME TypeOK PROVE KnownKeys \subseteq Keys
  <2>1. \A i \in DOMAIN contacts : contacts[i] \in SUBSET Keys
    BY <1>1 DEF TypeOK
  <2> QED BY <1>1, <2>1 DEF TypeOK, KnownKeys
<1>2. ASSUME NEW r \in Rows, NEW m \in AppliedMappings
      PROVE  normalizeRow(Cells[r], m) \in SUBSET Keys
  <2>1. normalizeRow(Cells[r], m) \in {normalizeRow(Cells[q], n) : q \in Rows, n \in AppliedMappings}
    OBVIOUS
  <2> QED BY <2>1 DEF Keys
<1> QED BY <1>1, <1>2 DEF Keys

-----------------------------------------------------------------------------
(* Initial states                                                          *)

(* The invariant holds before the upload.                                  *)
LEMMA InitIInv == Init => IInv
<1> SUFFICES ASSUME Init PROVE IInv
  OBVIOUS
<1>1. call \in [Callers -> CallType]
  BY RestTypes DEF Init, CallType
<1>2. TypeOK
  <2>1. /\ status \in Statuses /\ columns \in BOOLEAN /\ valid \in Nat /\ imported \in Nat /\ failed \in Nat
        /\ row \in [Rows -> RowStatuses] /\ job \in Jobs /\ disturbed \in BOOLEAN
    BY RestTypes DEF Init, Statuses, RowStatuses
  <2>2. norm \in [Rows -> SUBSET Keys] /\ contacts \in Seq(SUBSET Keys) /\ elsewhere \subseteq Keys
    BY DEF Init
  <2>3. work \in WorkType
    BY RestTypes DEF Init
  <2> QED BY <1>1, <2>1, <2>2, <2>3 DEF TypeOK, CallType, WorkType
<1>3. JobInv /\ LookupInv /\ ReadInv
  BY QueueAssumption DEF Init, JobInv, LookupInv, ReadInv, NoJob, NoWork
<1>4. ContactsShareNoKey
  BY DEF Init, ContactsShareNoKey
<1>5. ValidInv /\ CountInv /\ CountersNeverOverstate
  BY DEF Init, ValidInv, CountInv, CountersNeverOverstate, NoWork, PastBegin, Handling, Finished
<1> QED BY <1>2, <1>3, <1>4, <1>5 DEF IInv

-----------------------------------------------------------------------------
(* Steps of the upload, the API calls and other writers of contacts        *)

(* A step that leaves the worker alone keeps the invariant when it enters  *)
(* no status of a running import, and rewrites rows only when the history  *)
(* variable notices or nothing is under way.                               *)
LEMMA OutsideWorker ==
  ASSUME IInv, TypeOK', UNCHANGED <<imported, failed, contacts, work>>,
         job' = job \/ job' = Added(job),
         disturbed => disturbed',
         status' \in Finished \cup {"PROCESSING"} => status' = status,
         ~disturbed' => \/ row' = row
                        \/ status' = status /\ status \notin Started /\ work.at = "idle"
  PROVE  IInv'
<1>1. JobInv'
  BY DEF IInv, TypeOK, JobInv, Added, Jobs
<1>2. LookupInv' /\ ContactsShareNoKey' /\ ReadInv'
  BY DEF IInv, LookupInv, NextKeys, ContactsShareNoKey, ReadInv
<1>3. ValidInv'
  <2>1. CASE row' = row
    BY <2>1 DEF IInv, ValidInv, ValidRows, Finished
  <2>2. CASE status' = status /\ status \notin Started /\ work.at = "idle"
    BY <2>2 DEF ValidInv, Started, Handling
  <2> QED BY <2>1, <2>2 DEF ValidInv
<1>4. CountInv'
  <2>1. CASE row' = row
    BY <2>1 DEF IInv, CountInv, ImportedRows, FailedRows
  <2>2. CASE work.at = "idle"
    BY <2>2 DEF CountInv, PastBegin
  <2> QED BY <2>1, <2>2 DEF CountInv
<1>5. CountersNeverOverstate'
  <2>1. CASE row' = row
    BY <2>1 DEF IInv, CountersNeverOverstate
  <2>2. CASE status' = status /\ status \notin Started
    BY <2>2 DEF CountersNeverOverstate, Started, Finished
  <2> QED BY <2>1, <2>2 DEF CountersNeverOverstate
<1> QED BY <1>1, <1>2, <1>3, <1>4, <1>5 DEF IInv

(* The upload.                                                             *)
LEMMA UploadIInv ==
  ASSUME IInv, UploadStep
  PROVE  IInv'
<1>0. call \in [Callers -> CallType] /\ "upload" \in Callers
  BY DEF IInv, TypeOK, CallType, Callers
<1>1. UNCHANGED <<valid, imported, failed, rowVars, contactVars, job, work, disturbed>>
  BY DEF UploadStep, CreateImport, StageFile, RecordUpload, UploadFails, RecordUploadFailure, ApiOnly
<1>2. status' \in {status, "UPLOADED", "MAPPING", "FAILED"} /\ columns' \in {columns, TRUE}
  BY DEF UploadStep, CreateImport, StageFile, RecordUpload, UploadFails, RecordUploadFailure, ApiOnly
<1>3. call' \in [Callers -> CallType]
  <2>1. CASE StageFile
    <3>1. "found" \in CallSteps /\ autoMapping(Header) \in AppliedMappings
      BY DEF CallSteps, AppliedMappings
    <3> QED BY <1>0, <2>1, <3>1 DEF StageFile, CallType
  <2>2. CASE ~StageFile
    <3>1. PICK step \in CallSteps : CallAt("upload", step)
      BY <2>2 DEF UploadStep, CreateImport, RecordUpload, UploadFails, RecordUploadFailure, CallSteps
    <3> QED BY <1>0, <3>1, CallAtEffect
  <2> QED BY <2>1, <2>2
<1>4. TypeOK'
  BY <1>1, <1>2, <1>3 DEF IInv, TypeOK, CallType, rowVars, contactVars, Statuses
<1> QED BY <1>1, <1>2, <1>4, OutsideWorker DEF rowVars, contactVars, Finished

(* Mapping.                                                                *)
LEMMA MappingIInv ==
  ASSUME IInv, NEW k \in Callers, MappingStep(k)
  PROVE  IInv'
<1>0. call \in [Callers -> CallType] /\ status \in Statuses /\ valid \in Nat
      /\ row \in [Rows -> RowStatuses] /\ disturbed \in BOOLEAN
  BY DEF IInv, TypeOK, CallType
<1>1. UNCHANGED <<columns, imported, failed, contactVars, job, work>>
  BY DEF MappingStep, BeginMapping, ReadBatch, MapRow, CountBatch, EndMapping, ApiOnly
<1>2. status' \in {status, "MAPPING", "READY"}
  BY DEF MappingStep, BeginMapping, ReadBatch, MapRow, CountBatch, EndMapping
<1>3. disturbed' \in BOOLEAN /\ (disturbed => disturbed')
  <2>1. NoteDisturbance \/ disturbed' = disturbed
    BY Zenon DEF MappingStep, BeginMapping, ReadBatch, MapRow, CountBatch, EndMapping
  <2> QED BY Zenon, <1>0, <2>1 DEF NoteDisturbance
<1>4. call[k].count \in Nat /\ call[k].rest \in SUBSET Rows
  BY <1>0 DEF CallType
<1>5. valid' \in Nat
  BY <1>0, <1>4 DEF MappingStep, BeginMapping, ReadBatch, MapRow, CountBatch, EndMapping
<1>6. call' \in [Callers -> CallType]
  <2>1. CASE BeginMapping(k) \/ EndMapping(k)
    <3>1. PICK step \in CallSteps : CallAt(k, step)
      BY <2>1 DEF BeginMapping, EndMapping, CallSteps, Mapping
    <3> QED BY <1>0, <3>1, CallAtEffect
  <2>4. CASE CountBatch(k)
    <3>1. call' = [call EXCEPT ![k].at = "mapped", ![k].taken = {}]
      BY <2>4 DEF CountBatch
    <3>2. "mapped" \in CallSteps /\ {} \in SUBSET Keys
      BY DEF CallSteps, Mapping
    <3> QED BY <1>0, <3>1, <3>2 DEF CallType
  <2>2. CASE ReadBatch(k)
    <3>1. KnownKeys \in SUBSET Keys
      BY KeyTypes DEF IInv
    <3>2. call' = [call EXCEPT ![k].at = "rewriting", ![k].rest = Rows, ![k].taken = KnownKeys]
      BY <2>2 DEF ReadBatch
    <3>3. "rewriting" \in CallSteps
      BY DEF CallSteps, Mapping
    <3> QED BY <1>0, <3>1, <3>2, <3>3 DEF CallType
  <2>3. CASE MapRow(k)
    <3>1. PICK r \in Rows, keys \in SUBSET Keys :
             \/ call' = [call EXCEPT ![k].rest = @ \ {r}]
             \/ call' = [call EXCEPT ![k].rest = @ \ {r}, ![k].taken = @ \cup keys, ![k].count = @ + 1]
      <4>1. FirstOf(call[k].rest) \in Rows
        BY <1>4, <2>3, FirstOfSet DEF MapRow
      <4>2. normalizeRow(Cells[FirstOf(call[k].rest)], call[k].mapping) \in SUBSET Keys
        BY <1>0, <4>1, KeyTypes DEF CallType
      <4> QED BY <2>3, <4>1, <4>2 DEF MapRow
    <3> QED BY <1>0, <3>1 DEF CallType
  <2> QED BY <2>1, <2>2, <2>3, <2>4 DEF MappingStep
<1>7. row' \in [Rows -> RowStatuses]
  BY <1>0 DEF MappingStep, BeginMapping, ReadBatch, MapRow, CountBatch, EndMapping, RowStatuses, rowVars
<1>8. ~disturbed' => \/ row' = row
                     \/ status' = status /\ status \notin Started /\ work.at = "idle"
  BY DEF MappingStep, BeginMapping, ReadBatch, MapRow, CountBatch, EndMapping, NoteDisturbance, rowVars
<1>9. norm' \in [Rows -> SUBSET Keys]
  <2>0. norm \in [Rows -> SUBSET Keys]
    BY DEF IInv, TypeOK
  <2>1. CASE MapRow(k)
    <3>1. FirstOf(call[k].rest) \in Rows
      BY <1>4, <2>1, FirstOfSet DEF MapRow
    <3>2. normalizeRow(Cells[FirstOf(call[k].rest)], call[k].mapping) \in SUBSET Keys
      BY <1>0, <3>1, KeyTypes DEF CallType
    <3> QED BY <2>0, <2>1, <3>2 DEF MapRow
  <2>2. CASE norm' = norm
    BY <2>0, <2>2
  <2> QED BY <2>1, <2>2 DEF MappingStep, BeginMapping, ReadBatch, CountBatch, EndMapping, rowVars
<1>10. TypeOK'
  BY <1>0, <1>1, <1>2, <1>3, <1>5, <1>6, <1>7, <1>9 DEF IInv, TypeOK, CallType, rowVars, contactVars, Statuses
<1> QED BY <1>1, <1>2, <1>3, <1>8, <1>10, OutsideWorker DEF rowVars, contactVars, Finished

(* The other steps of API calls.                                           *)
LEMMA CallIInv ==
  ASSUME IInv, NEW k \in Callers, CallAborted(k) \/ (k \in Calls /\ CallStep(k))
  PROVE  IInv'
<1>0. call \in [Callers -> CallType] /\ job \in Jobs
  BY DEF IInv, TypeOK, CallType
<1>1. UNCHANGED <<columns, valid, imported, failed, rowVars, contactVars, work, disturbed>>
  BY DEF CallAborted, CallStep, ReadForMapping, ReadIf, ReadForCommit, AssertContactCapacity, WriteQueued,
         EnqueueImport, QueueRefuses, RestoreReady, ReadForCancel, WriteCancelled, ApiOnly
<1>2. status' \in {status, "QUEUED", "READY", "CANCELLED"} /\ (job' = job \/ job' = Added(job))
  BY DEF CallAborted, CallStep, ReadForMapping, ReadIf, ReadForCommit, AssertContactCapacity, WriteQueued,
         EnqueueImport, QueueRefuses, RestoreReady, ReadForCancel, WriteCancelled
<1>3. \/ \E step \in CallSteps : CallAt(k, step)
      \/ call' = [call EXCEPT ![k] = Closed]
      \/ \E step \in CallSteps, m \in AppliedMappings :
            call' = [call EXCEPT ![k] = [NoCall EXCEPT !.at = step, !.mapping = m]]
      \/ \E step \in CallSteps : call' = [call EXCEPT ![k] = [NoCall EXCEPT !.at = step]]
      \/ \E step \in CallSteps, op \in {"commit", "cancel"} :
            call' = [call EXCEPT ![k] = [NoCall EXCEPT !.op = op, !.at = step]]
  BY DEF CallAborted, CallStep, ReadForMapping, ReadIf, ReadForCommit, AssertContactCapacity, WriteQueued,
         EnqueueImport, QueueRefuses, RestoreReady, ReadForCancel, WriteCancelled, CallSteps,
         AppliedMappings
<1>4. call' \in [Callers -> CallType]
  <2>1. ASSUME NEW step \in CallSteps, CallAt(k, step)
        PROVE  call' \in [Callers -> CallType]
    BY <1>0, <2>1, CallAtEffect
  <2>2. \A step \in CallSteps, op \in {"commit", "cancel"} :
           /\ [NoCall EXCEPT !.at = step] \in CallType
           /\ \A m \in AppliedMappings : [NoCall EXCEPT !.at = step, !.mapping = m] \in CallType
           /\ [NoCall EXCEPT !.op = op, !.at = step] \in CallType
    BY RestTypes DEF CallType
  <2> QED BY <1>0, <1>3, <2>1, <2>2, RestTypes
<1>5. TypeOK'
  BY <1>0, <1>1, <1>2, <1>4, JobOperators DEF IInv, TypeOK, CallType, rowVars, contactVars, Statuses
<1> QED BY <1>1, <1>2, <1>5, OutsideWorker DEF rowVars, contactVars, Finished

(* Somebody else's contact.                                                *)
LEMMA ElsewhereIInv ==
  ASSUME IInv, NEW k \in KeysElsewhere, ContactElsewhere(k)
  PROVE  IInv'
<1>1. TypeOK'
  BY KeyTypes DEF IInv, TypeOK, ContactElsewhere, importVars, rowVars
<1> QED BY <1>1, OutsideWorker DEF ContactElsewhere, importVars, rowVars


-----------------------------------------------------------------------------
(* Steps of the worker                                                     *)

(* Finishing a row takes it out of the batch and gives it its status; when *)
(* the batch is all valid rows it was a valid one.                         *)
LEMMA RowDoneEffect ==
  ASSUME TypeOK, work.batch # {}, NEW s \in {"SKIPPED", "IMPORTED", "FAILED"}, RowDone(s)
  PROVE  /\ row' \in [Rows -> RowStatuses] /\ work' \in WorkType /\ work'.at = "batch"
         /\ work'.imported = IF s = "IMPORTED" THEN work.imported + 1 ELSE work.imported
         /\ work'.failed = IF s = "FAILED" THEN work.failed + 1 ELSE work.failed
         /\ work.batch = ValidRows =>
              /\ work'.batch = ValidRows'
              /\ ImportedRows' = IF s = "IMPORTED" THEN ImportedRows \cup {FirstOf(work.batch)}
                                 ELSE ImportedRows
              /\ FailedRows' = IF s = "FAILED" THEN FailedRows \cup {FirstOf(work.batch)}
                               ELSE FailedRows
              /\ FirstOf(work.batch) \notin ImportedRows \cup FailedRows
<1> DEFINE r == FirstOf(work.batch)
<1>0. work \in WorkType /\ row \in [Rows -> RowStatuses]
  BY DEF TypeOK, WorkType
<1>1. r \in work.batch /\ r \in Rows /\ r \in Nat
  BY <1>0, FirstOfSet, RowsAreNumbers DEF WorkType
<1>2. row' = [row EXCEPT ![r] = s]
  BY DEF RowDone
<1>3. work' = [work EXCEPT !.at = "batch", !.batch = @ \ {r}, !.last = r,
                           !.imported = IF s = "IMPORTED" THEN @ + 1 ELSE @,
                           !.failed = IF s = "FAILED" THEN @ + 1 ELSE @]
  BY DEF RowDone
<1> HIDE DEF r
<1>4. row' \in [Rows -> RowStatuses]
  BY <1>0, <1>1, <1>2 DEF RowStatuses
<1>5. /\ work' \in WorkType /\ work'.at = "batch" /\ work'.batch = work.batch \ {r}
      /\ work'.imported = IF s = "IMPORTED" THEN work.imported + 1 ELSE work.imported
      /\ work'.failed = IF s = "FAILED" THEN work.failed + 1 ELSE work.failed
  <2>1. PICK i, f : /\ i = IF s = "IMPORTED" THEN work.imported + 1 ELSE work.imported
                    /\ f = IF s = "FAILED" THEN work.failed + 1 ELSE work.failed
    OBVIOUS
  <2>2. i \in Nat /\ f \in Nat
    BY <1>0, <2>1 DEF WorkType
  <2>3. work' = [work EXCEPT !.at = "batch", !.batch = work.batch \ {r}, !.last = r,
                             !.imported = i, !.failed = f]
    BY <1>0, <1>3, <2>1 DEF WorkType
  <2>4. "batch" \in WorkSteps
    BY DEF WorkSteps, PastBegin
  <2> QED BY <1>0, <1>1, <2>1, <2>2, <2>3, <2>4 DEF WorkType
<1>6. ASSUME work.batch = ValidRows
      PROVE  /\ work'.batch = ValidRows'
             /\ ImportedRows' = IF s = "IMPORTED" THEN ImportedRows \cup {r} ELSE ImportedRows
             /\ FailedRows' = IF s = "FAILED" THEN FailedRows \cup {r} ELSE FailedRows
             /\ r \notin ImportedRows \cup FailedRows
  <2>1. row[r] = "VALID"
    BY <1>1, <1>6 DEF ValidRows
  <2>2. \A q \in Rows : row'[q] = IF q = r THEN s ELSE row[q]
    BY <1>0, <1>2
  <2>3. ValidRows' = ValidRows \ {r}
    BY <2>1, <2>2 DEF ValidRows
  <2>4. ImportedRows' = IF s = "IMPORTED" THEN ImportedRows \cup {r} ELSE ImportedRows
    BY <1>1, <2>1, <2>2 DEF ImportedRows
  <2>5. FailedRows' = IF s = "FAILED" THEN FailedRows \cup {r} ELSE FailedRows
    BY <1>1, <2>1, <2>2 DEF FailedRows
  <2> QED BY <1>5, <1>6, <2>1, <2>3, <2>4, <2>5 DEF ImportedRows, FailedRows
<1> QED BY <1>4, <1>5, <1>6 DEF r

(* The size of the set of rows in a status when one more row takes it.     *)
LEMMA OneMoreRow ==
  ASSUME NEW S \in SUBSET Rows, NEW r \in Rows, r \notin S
  PROVE  Cardinality(S \cup {r}) = Cardinality(S) + 1 /\ Cardinality(S) \in Nat
BY RowSets, FS_AddElement

(* One row: skipped, imported or failed.                                   *)
LEMMA RowIInv ==
  ASSUME IInv, SkipRow \/ CreateContact \/ RowFails
  PROVE  IInv'
<1> DEFINE r == FirstOf(work.batch)
<1>0. TypeOK /\ work \in WorkType /\ contacts \in Seq(SUBSET Keys)
  BY DEF IInv, TypeOK, WorkType
<1>1. work.at \in Handling /\ work.batch # {}
  BY DEF IInv, LookupInv, SkipRow, CreateContact, RowFails, Handling
<1>2. UNCHANGED <<status, imported, failed, job, columns, valid, norm, elsewhere, call, disturbed>>
  BY DEF SkipRow, CreateContact, RowFails, WorkerOnly
<1>3. PICK s \in {"SKIPPED", "IMPORTED", "FAILED"} :
        /\ RowDone(s)
        /\ contacts' = contacts \/ (work.at = "absent" /\ contacts' = Append(contacts, NextKeys))
  BY DEF SkipRow, CreateContact, RowFails
<1>4. r \in Rows /\ NextKeys \in SUBSET Keys
  BY <1>0, <1>1, FirstOfSet DEF WorkType, NextKeys
<1>5. /\ row' \in [Rows -> RowStatuses] /\ work' \in WorkType /\ work'.at = "batch"
      /\ work'.imported = IF s = "IMPORTED" THEN work.imported + 1 ELSE work.imported
      /\ work'.failed = IF s = "FAILED" THEN work.failed + 1 ELSE work.failed
      /\ work.batch = ValidRows =>
           /\ work'.batch = ValidRows'
           /\ ImportedRows' = IF s = "IMPORTED" THEN ImportedRows \cup {r} ELSE ImportedRows
           /\ FailedRows' = IF s = "FAILED" THEN FailedRows \cup {r} ELSE FailedRows
           /\ r \notin ImportedRows \cup FailedRows
  BY <1>0, <1>1, <1>3, RowDoneEffect
<1> HIDE DEF r
<1>6. contacts' \in Seq(SUBSET Keys)
  BY <1>0, <1>3, <1>4
<1>7. TypeOK'
  BY <1>0, <1>2, <1>5, <1>6 DEF TypeOK, WorkType
<1>8. JobInv' /\ LookupInv' /\ ReadInv'
  BY <1>1, <1>2, <1>5 DEF IInv, JobInv, LookupInv, ReadInv, Handling
<1>9. ContactsShareNoKey'
  <2>1. CASE contacts' = contacts
    BY <2>1 DEF IInv, ContactsShareNoKey
  <2>2. CASE work.at = "absent" /\ contacts' = Append(contacts, NextKeys)
    <3>1. \A i \in DOMAIN contacts : contacts[i] \cap NextKeys = {}
      BY <2>2 DEF IInv, LookupInv
    <3>2. /\ DOMAIN contacts = 1..Len(contacts) /\ DOMAIN contacts' = 1..(Len(contacts) + 1)
          /\ Len(contacts) \in Nat
          /\ \A i \in DOMAIN contacts' :
                contacts'[i] = IF i = Len(contacts) + 1 THEN NextKeys ELSE contacts[i]
      BY <1>0, <1>4, <2>2
    <3>3. ASSUME NEW i \in DOMAIN contacts', NEW j \in DOMAIN contacts', i # j
          PROVE  contacts'[i] \cap contacts'[j] = {}
      <4>1. CASE i \in DOMAIN contacts /\ j \in DOMAIN contacts
        BY <3>2, <3>3, <4>1 DEF IInv, ContactsShareNoKey
      <4>2. CASE i \in DOMAIN contacts /\ j = Len(contacts) + 1
        BY <3>1, <3>2, <4>2
      <4>3. CASE i = Len(contacts) + 1 /\ j \in DOMAIN contacts
        BY <3>1, <3>2, <4>3
      <4> QED BY <3>2, <3>3, <4>1, <4>2, <4>3
    <3> QED BY <3>3 DEF ContactsShareNoKey
  <2> QED BY <1>3, <2>1, <2>2
<1>10. ASSUME ~disturbed
       PROVE  /\ work.batch = ValidRows /\ (status \in Finished => ValidRows = {})
              /\ work.imported <= Cardinality(ImportedRows)
              /\ work.failed <= Cardinality(FailedRows)
  BY <1>1, <1>10 DEF IInv, ValidInv, CountInv, Handling, PastBegin
<1>11. ASSUME ~disturbed
       PROVE  /\ Cardinality(ImportedRows') = IF s = "IMPORTED" THEN Cardinality(ImportedRows) + 1
                                              ELSE Cardinality(ImportedRows)
              /\ Cardinality(FailedRows') = IF s = "FAILED" THEN Cardinality(FailedRows) + 1
                                            ELSE Cardinality(FailedRows)
              /\ Cardinality(ImportedRows) \in Nat /\ Cardinality(FailedRows) \in Nat
  <2>1. ImportedRows \in SUBSET Rows /\ FailedRows \in SUBSET Rows
    BY DEF ImportedRows, FailedRows
  <2>2. r \notin ImportedRows /\ r \notin FailedRows
    BY <1>5, <1>10, <1>11
  <2>3. Cardinality(ImportedRows \cup {r}) = Cardinality(ImportedRows) + 1
    BY <1>4, <2>1, <2>2, OneMoreRow
  <2>4. Cardinality(FailedRows \cup {r}) = Cardinality(FailedRows) + 1
    BY <1>4, <2>1, <2>2, OneMoreRow
  <2> QED BY <1>5, <1>10, <1>11, <2>1, <2>3, <2>4, RowSets
<1>12. ValidInv'
  <2>1. status \notin Finished \/ disturbed
    BY <1>1, <1>10
  <2> QED BY <1>2, <1>5, <1>10, <2>1 DEF ValidInv, Handling
<1>13. CountInv'
  BY <1>0, <1>2, <1>5, <1>10, <1>11 DEF CountInv, WorkType
<1>14. CountersNeverOverstate'
  <2>1. ASSUME ~disturbed, status \in Finished \cup {"PROCESSING"}
        PROVE  imported <= Cardinality(ImportedRows) /\ failed <= Cardinality(FailedRows)
    BY <2>1 DEF IInv, CountersNeverOverstate, ImportedRows, FailedRows
  <2>2. imported \in Nat /\ failed \in Nat
    BY <1>0 DEF TypeOK
  <2>3. ASSUME ~disturbed, status \in Finished \cup {"PROCESSING"}
        PROVE  imported <= Cardinality(ImportedRows') /\ failed <= Cardinality(FailedRows')
    BY <1>11, <2>1, <2>2, <2>3
  <2> QED BY <1>2, <2>3 DEF CountersNeverOverstate, ImportedRows, FailedRows
<1> QED BY <1>7, <1>8, <1>9, <1>12, <1>13, <1>14 DEF IInv

(* Taking the job, and every end of an attempt: no row and no counter is   *)
(* touched, and the worker is at rest or has only just read the import.    *)
LEMMA RestIInv ==
  ASSUME IInv, StartImport \/ EndImport \/ ImportFails \/ OnFailed \/ WorkerLost \/ JobMoves
  PROVE  IInv'
<1>0. TypeOK /\ job \in Jobs /\ work \in WorkType
  BY DEF IInv, TypeOK, WorkType
<1>1. UNCHANGED <<imported, failed, row, norm, contacts, columns, valid, elsewhere, call, disturbed>>
  BY DEF StartImport, EndImport, ImportFails, OnFailed, WorkerLost, JobMoves, WorkerOnly
<1>2. status' = status \/ status' = "FAILED"
  BY DEF StartImport, EndImport, ImportFails, OnFailed, WorkerLost, JobMoves
<1>3. \/ work' = NoWork \/ work' = [NoWork EXCEPT !.at = "onFailed"]
      \/ work' = [NoWork EXCEPT !.at = "read"] /\ job' = Taken(job) /\ job.state = "waiting"
      \/ work' = work /\ (job' = job \/ work.at = "idle" \/ job.state # "active")
  BY DEF StartImport, EndImport, ImportFails, OnFailed, WorkerLost, JobMoves
<1>4. /\ [NoWork EXCEPT !.at = "onFailed"] \in WorkType
      /\ [NoWork EXCEPT !.at = "read"] \in WorkType
      /\ [NoWork EXCEPT !.at = "onFailed"].at = "onFailed"
      /\ [NoWork EXCEPT !.at = "read"].at = "read"
  BY DEF NoWork, WorkType, WorkSteps, PastBegin
<1>5. work' \in WorkType
  BY <1>0, <1>3, <1>4, RestTypes
<1>6. work'.at \in {"idle", "onFailed", "read"} \/ work' = work
  BY <1>3, <1>4, RestTypes
<1>7. job' \in Jobs /\ (job'.state \in {"none", "waiting", "active", "delayed"} =>
                          job'.attempts < MaxAttempts)
  <2>1. CASE ImportFails
    <3>1. job.attempts < MaxAttempts /\ job' = Thrown(job)
      BY <2>1 DEF IInv, JobInv, ImportFails
    <3> QED BY <1>0, <3>1, JobOperators, ThrownAttempts, QueueAssumption
  <2>2. CASE JobMoves
    <3>1. CASE job' = NoJob
      BY <3>1, RestTypes, QueueAssumption DEF NoJob
    <3>2. CASE job.state = "active" /\ job' = Stalled(job)
      <4>1. job' \in Jobs
        BY <1>0, <3>2, JobOperators
      <4>2. job'.attempts = job.attempts
        BY <1>0, <3>2 DEF Stalled, Jobs
      <4> QED BY <3>2, <4>1, <4>2 DEF IInv, JobInv
    <3>3. CASE job.state = "delayed" /\ job' = Promoted(job)
      <4>1. job' \in Jobs
        BY <1>0, <3>3, JobOperators
      <4>2. job'.attempts = job.attempts
        BY <1>0, <3>3 DEF Promoted, Jobs
      <4> QED BY <3>3, <4>1, <4>2 DEF IInv, JobInv
    <3> QED BY <2>2, <3>1, <3>2, <3>3 DEF JobMoves
  <2>3. CASE StartImport
    <3>1. job.attempts < MaxAttempts
      BY <2>3 DEF IInv, JobInv, StartImport
    <3>2. job' = Taken(job) \/ job' = Completed(Taken(job))
      BY <2>3 DEF StartImport
    <3>3. job' \in Jobs
      BY <1>0, <3>2, JobOperators
    <3>4. job'.attempts = job.attempts
      BY <1>0, <3>2 DEF Taken, Completed, Jobs
    <3> QED BY <3>1, <3>3, <3>4
  <2>4. CASE EndImport
    <3>1. job.attempts < MaxAttempts /\ job' = Completed(job)
      BY <2>4 DEF IInv, JobInv, EndImport
    <3>2. job'.attempts = job.attempts
      BY <1>0, <3>1 DEF Completed, Jobs
    <3> QED BY <1>0, <3>1, <3>2, JobOperators
  <2>5. CASE job' = job
    BY <1>0, <2>5 DEF IInv, JobInv
  <2> QED BY <2>1, <2>2, <2>3, <2>4, <2>5
          DEF StartImport, EndImport, ImportFails, OnFailed, WorkerLost, JobMoves
<1>8. JobInv'
  <2>1. CASE work' = [NoWork EXCEPT !.at = "read"] /\ job' = Taken(job)
    BY <1>0, <1>7, <2>1 DEF JobInv, Taken, Jobs
  <2>2. CASE work' = NoWork \/ work' = [NoWork EXCEPT !.at = "onFailed"]
    BY <1>4, <1>7, <2>2, RestTypes DEF JobInv
  <2>3. CASE work' = work /\ (job' = job \/ work.at = "idle" \/ job.state # "active")
    BY <1>7, <2>3 DEF IInv, JobInv
  <2> QED BY <1>3, <2>1, <2>2, <2>3
<1>9. TypeOK'
  BY <1>0, <1>1, <1>2, <1>5, <1>7 DEF TypeOK, WorkType, Statuses
<1>10. LookupInv' /\ ContactsShareNoKey' /\ ReadInv'
  <2>1. LookupInv' /\ ContactsShareNoKey'
    BY <1>1, <1>6 DEF IInv, LookupInv, NextKeys, ContactsShareNoKey
  <2>2. ReadInv'
    BY <1>3, <1>4, RestTypes DEF IInv, ReadInv, NoWork
  <2> QED BY <2>1, <2>2
<1>11. ValidInv'
  BY <1>1, <1>2, <1>6 DEF IInv, ValidInv, ValidRows, Handling, Finished
<1>12. CountInv'
  BY <1>1, <1>6 DEF IInv, CountInv, ImportedRows, FailedRows, PastBegin
<1>13. CountersNeverOverstate'
  BY <1>1, <1>2 DEF IInv, CountersNeverOverstate, Finished
<1> QED BY <1>8, <1>9, <1>10, <1>11, <1>12, <1>13 DEF IInv

(* The import is PROCESSING and counts from zero.                          *)
LEMMA BeginIInv ==
  ASSUME IInv, BeginImport
  PROVE  IInv'
<1>0. TypeOK /\ work \in WorkType
  BY DEF IInv, TypeOK, WorkType
<1>1. /\ work.at = "read" /\ status' = "PROCESSING" /\ imported' = 0 /\ failed' = 0
      /\ work' = [work EXCEPT !.at = "loop"]
      /\ UNCHANGED <<row, norm, contacts, job, columns, valid, elsewhere, call, disturbed>>
  BY DEF BeginImport, WorkerOnly
<1>2. work' \in WorkType /\ work'.at = "loop"
  BY <1>0, <1>1 DEF WorkType, WorkSteps, PastBegin
<1>3. work'.last = 0 /\ work'.imported = 0 /\ work'.failed = 0
  BY <1>0, <1>1 DEF IInv, ReadInv, WorkType
<1>4. \A S \in SUBSET Rows : 0 <= Cardinality(S)
  BY RowSets
<1>5. TypeOK'
  BY <1>0, <1>1, <1>2 DEF TypeOK, WorkType, Statuses
<1>6. JobInv' /\ LookupInv' /\ ContactsShareNoKey' /\ ReadInv'
  BY <1>1, <1>2 DEF IInv, JobInv, LookupInv, ContactsShareNoKey, ReadInv
<1>7. ValidInv'
  <2>1. \A r \in Rows : r > 0
    BY ImportAssumption DEF Rows
  <2> QED BY <1>1, <1>2, <1>3, <2>1 DEF ValidInv, ValidRows, Handling, Finished
<1>8. CountInv' /\ CountersNeverOverstate'
  BY <1>1, <1>3, <1>4 DEF CountInv, CountersNeverOverstate, ImportedRows, FailedRows
<1> QED BY <1>5, <1>6, <1>7, <1>8 DEF IInv

(* The next batch, and the lookup of the next row.                         *)
LEMMA LoopIInv ==
  ASSUME IInv, ReadRows \/ LookUpContact
  PROVE  IInv'
<1>0. TypeOK /\ work \in WorkType
  BY DEF IInv, TypeOK, WorkType
<1>1. UNCHANGED <<status, imported, failed, row, norm, contacts, job, columns, valid, elsewhere, call,
                  disturbed>>
  BY DEF ReadRows, LookUpContact, WorkerOnly
<1>2. /\ work' \in WorkType /\ work.at \in {"loop", "batch"}
      /\ work'.last = work.last /\ work'.imported = work.imported /\ work'.failed = work.failed
      /\ \/ /\ work.at = "loop" /\ work'.batch = {r \in ValidRows : r > work.last}
            /\ work'.at = IF work'.batch = {} THEN "finishing" ELSE "batch"
         \/ /\ work.at = "batch" /\ work'.batch = work.batch /\ work.batch # {}
            /\ \/ work'.at = "present"
               \/ work'.at = "absent" /\ NextKeys \cap KnownKeys = {} /\ NextKeys' = NextKeys
  <2>1. CASE ReadRows
    <3>1. PICK left \in SUBSET Rows :
            /\ left = {r \in ValidRows : r > work.last} /\ work.at = "loop"
            /\ work' = [work EXCEPT !.batch = left,
                                    !.at = IF left = {} THEN "finishing" ELSE "batch",
                                    !.keys = [r \in Rows |-> IF r \in left THEN norm[r] ELSE {}]]
      BY <2>1 DEF ReadRows, ValidRows
    <3>2. [r \in Rows |-> IF r \in left THEN norm[r] ELSE {}] \in [Rows -> SUBSET Keys]
      BY <1>0 DEF TypeOK
    <3> QED BY <1>0, <3>1, <3>2 DEF WorkType, WorkSteps, PastBegin
  <2>2. CASE LookUpContact
    BY <1>0, <2>2 DEF LookUpContact, WorkType, WorkSteps, PastBegin, NextKeys
  <2> QED BY <2>1, <2>2
<1>3. TypeOK'
  BY <1>0, <1>1, <1>2 DEF TypeOK, WorkType
<1>4. JobInv' /\ ContactsShareNoKey' /\ ReadInv'
  BY <1>1, <1>2 DEF IInv, JobInv, ContactsShareNoKey, ReadInv
<1>5. LookupInv'
  BY <1>1, <1>2 DEF LookupInv, KnownKeys
<1>6. ValidInv'
  <2>1. CASE work.at = "loop"
    <3>1. ~disturbed => work'.batch = ValidRows
      BY <1>2, <2>1 DEF IInv, ValidInv, ValidRows
    <3> QED BY <1>1, <1>2, <2>1, <3>1 DEF IInv, ValidInv, ValidRows, Handling
  <2>2. CASE work.at = "batch"
    BY <1>1, <1>2, <2>2 DEF IInv, ValidInv, ValidRows, Handling
  <2> QED BY <1>2, <2>1, <2>2
<1>7. CountInv' /\ CountersNeverOverstate'
  BY <1>1, <1>2 DEF IInv, CountInv, CountersNeverOverstate, ImportedRows, FailedRows, PastBegin
<1> QED BY <1>3, <1>4, <1>5, <1>6, <1>7 DEF IInv

(* The counters are written, at the end of a batch or of the import.       *)
LEMMA RecordIInv ==
  ASSUME IInv, RecordBatch \/ FinishImport
  PROVE  IInv'
<1>0. TypeOK /\ work \in WorkType
  BY DEF IInv, TypeOK, WorkType
<1>1. /\ imported' = work.imported /\ failed' = work.failed
      /\ UNCHANGED <<row, norm, contacts, job, columns, valid, elsewhere, call, disturbed>>
  BY DEF RecordBatch, FinishImport, WorkerOnly
<1>2. \/ /\ work.at = "batch" /\ work.batch = {} /\ status' = status
         /\ work' = [work EXCEPT !.at = "loop"]
      \/ /\ work.at = "finishing" /\ status' \in Finished
         /\ work' = [work EXCEPT !.at = "done"]
  BY DEF RecordBatch, FinishImport, Finished
<1>3. /\ work' \in WorkType /\ work'.imported = work.imported /\ work'.failed = work.failed
      /\ work'.at = IF work.at = "batch" THEN "loop" ELSE "done"
  BY <1>0, <1>2 DEF WorkType, WorkSteps, PastBegin
<1>4. TypeOK'
  BY <1>0, <1>1, <1>2, <1>3 DEF TypeOK, WorkType, Statuses, Finished
<1>5. JobInv' /\ LookupInv' /\ ContactsShareNoKey' /\ ReadInv'
  BY <1>1, <1>2, <1>3 DEF IInv, JobInv, LookupInv, ContactsShareNoKey, ReadInv
<1>6. ~disturbed => ValidRows = {}
  BY <1>2 DEF IInv, ValidInv, Handling
<1>7. ValidInv'
  BY <1>1, <1>3, <1>6 DEF ValidInv, ValidRows, Handling
<1>8. CountInv' /\ CountersNeverOverstate'
  BY <1>1, <1>2, <1>3 DEF IInv, CountInv, CountersNeverOverstate, ImportedRows, FailedRows, PastBegin
<1> QED BY <1>4, <1>5, <1>7, <1>8 DEF IInv

-----------------------------------------------------------------------------
(* The theorems                                                            *)

(* Every step preserves the invariant.                                     *)
LEMMA NextIInv == IInv /\ [Next]_vars => IInv'
<1> SUFFICES ASSUME IInv, [Next]_vars PROVE IInv'
  OBVIOUS
<1>1. CASE UploadStep
  BY <1>1, UploadIInv
<1>2. ASSUME NEW k \in Callers, MappingStep(k)
      PROVE  IInv'
  BY <1>2, MappingIInv
<1>3. ASSUME NEW k \in Callers, CallAborted(k) \/ (k \in Calls /\ CallStep(k))
      PROVE  IInv'
  BY <1>3, CallIInv
<1>4. CASE WorkerStep
  BY <1>4, RowIInv, RestIInv, BeginIInv, LoopIInv, RecordIInv DEF WorkerStep
<1>5. CASE JobMoves
  BY <1>5, RestIInv
<1>6. ASSUME NEW k \in KeysElsewhere, ContactElsewhere(k)
      PROVE  IInv'
  BY <1>6, ElsewhereIInv
<1>7. CASE UNCHANGED vars
  BY <1>7 DEF vars, importVars, rowVars, contactVars, IInv, TypeOK, JobInv, LookupInv, NextKeys, ReadInv,
              ContactsShareNoKey, ValidInv, CountInv, CountersNeverOverstate,
              ValidRows, ImportedRows, FailedRows
<1> QED
  BY <1>1, <1>2, <1>3, <1>4, <1>5, <1>6, <1>7 DEF Next, Callers

(* The invariant holds in every reachable state of every instance.         *)
THEOREM InvariantHolds == Spec => []IInv
BY InitIInv, NextIInv, PTL DEF Spec

(* Every variable keeps its type.                                          *)
THEOREM TypeCorrect == Spec => []TypeOK
<1>1. IInv => TypeOK
  BY DEF IInv
<1> QED BY <1>1, InvariantHolds, PTL

(* For a file of any length and any number of overlapping mappings,        *)
(* commits and attempts, no two contacts that an import makes have a phone *)
(* number or a Zalo id in common.                                          *)
THEOREM ContactsAreDistinct == Spec => []ContactsShareNoKey
<1>1. IInv => ContactsShareNoKey
  BY DEF IInv
<1> QED BY <1>1, InvariantHolds, PTL

(* COMPLETED and PARTIAL leave no valid row behind, however often the      *)
(* attempt failed or stalled on the way.                                   *)
THEOREM FinishedIsThrough == Spec => []FinishedLeavesNoValidRow
<1>1. IInv => FinishedLeavesNoValidRow
  BY DEF IInv, ValidInv, ValidRows, FinishedLeavesNoValidRow
<1> QED BY <1>1, InvariantHolds, PTL

(* The counters never promise more than the rows hold.                     *)
THEOREM CountersHold == Spec => []CountersNeverOverstate
<1>1. IInv => CountersNeverOverstate
  BY DEF IInv
<1> QED BY <1>1, InvariantHolds, PTL

(* A step of a call moves it to a place other than "idle", and leaves the  *)
(* other calls alone.                                                      *)
LEMMA CallMoves ==
  ASSUME IInv, NEW k \in Callers,
         (UploadStep /\ k = "upload") \/ MappingStep(k) \/ CallAborted(k) \/ (k \in Calls /\ CallStep(k))
  PROVE  call'[k].at # "idle" /\ \A q \in Callers : q # k => call'[q] = call[q]
<1>0. call \in [Callers -> CallType]
  BY DEF IInv, TypeOK, CallType
<1>1. ASSUME NEW step \in CallSteps \ {"idle"}, CallAt(k, step)
      PROVE  call'[k].at # "idle" /\ \A q \in Callers : q # k => call'[q] = call[q]
  BY <1>0, <1>1, CallAtEffect
<1>2. CASE UploadStep /\ k = "upload"
  <2>1. CASE StageFile
    BY <1>0, <1>2, <2>1 DEF StageFile, CallType
  <2>2. CASE ~StageFile
    BY <1>1, <1>2, <2>2 DEF UploadStep, CreateImport, RecordUpload, UploadFails, RecordUploadFailure, CallSteps
  <2> QED BY <2>1, <2>2
<1>3. CASE CallAborted(k)
  BY <1>1, <1>3 DEF CallAborted, CallSteps
<1>4. CASE MappingStep(k)
  <2>1. CASE BeginMapping(k) \/ EndMapping(k)
    BY <1>1, <2>1 DEF BeginMapping, EndMapping, CallSteps, Mapping
  <2>2. CASE ReadBatch(k) \/ MapRow(k) \/ CountBatch(k)
    BY <1>0, <2>2 DEF ReadBatch, MapRow, CountBatch, CallType
  <2> QED BY <1>4, <2>1, <2>2 DEF MappingStep
<1>5. CASE k \in Calls /\ CallStep(k)
  <2>1. CASE ReadForMapping(k) \/ ReadForCommit(k) \/ ReadForCancel(k)
    <3>1. PICK c \in {Closed} \cup {[NoCall EXCEPT !.at = "found", !.mapping = m] : m \in Mappings}
                      \cup {[NoCall EXCEPT !.op = "commit", !.at = "found"],
                            [NoCall EXCEPT !.op = "cancel", !.at = "checked"]} : call' = [call EXCEPT ![k] = c]
      BY <2>1 DEF ReadForMapping, ReadIf, ReadForCommit, ReadForCancel
    <3>2. c.at # "idle"
      BY <3>1, RestTypes DEF NoCall
    <3> QED BY <1>0, <3>1, <3>2
  <2>2. CASE AssertContactCapacity(k) \/ WriteQueued(k) \/ EnqueueImport(k) \/ QueueRefuses(k)
             \/ RestoreReady(k) \/ WriteCancelled(k)
    BY <1>1, <2>2 DEF AssertContactCapacity, WriteQueued, EnqueueImport, QueueRefuses, RestoreReady,
                      WriteCancelled, CallSteps
  <2> QED BY <1>5, <2>1, <2>2 DEF CallStep
<1> QED BY <1>2, <1>3, <1>4, <1>5

(* When nothing is under way and the status is not to be worked on, only   *)
(* the upload itself can change anything: every call is refused.           *)
LEMMA StillStep ==
  ASSUME IInv, Still, status \in {"NONE", "CANCELLED"}, [Next]_vars
  PROVE  \/ CreateImport
         \/ status' = status /\ Still' /\ call'["upload"] = call["upload"]
<1>0. call \in [Callers -> CallType] /\ "upload" \in Callers /\ "upload" \notin Calls
  BY ImportAssumption DEF IInv, TypeOK, CallType, Callers
<1>1. CASE UploadStep
  <2>1. call["upload"].at \in {"idle", "closed"}
    BY <1>0 DEF Still, Harmless
  <2> QED BY <1>1, <2>1 DEF UploadStep, StageFile, RecordUpload, UploadFails, RecordUploadFailure, Mapping
<1>2. ASSUME NEW k \in Callers, MappingStep(k)
      PROVE  FALSE
  <2>1. call[k].at \in {"idle", "closed", "checked"}
    BY DEF Still, Harmless
  <2> QED BY <1>2, <2>1 DEF MappingStep, BeginMapping, ReadBatch, MapRow, CountBatch, EndMapping
<1>3. ASSUME NEW k \in Callers, CallAborted(k) \/ (k \in Calls /\ CallStep(k))
      PROVE  status' = status /\ Still' /\ call'["upload"] = call["upload"]
  <2>0. call[k].at \in {"idle", "closed", "checked"}
    BY DEF Still, Harmless
  <2>1. call[k].at = "checked" => status = "CANCELLED" /\ k # "upload" /\ call[k].op = "cancel"
    BY DEF Still, Harmless
  <2>2. \/ ReadForMapping(k) \/ ReadForCommit(k) \/ ReadForCancel(k)
        \/ WriteCancelled(k) \/ CallAborted(k)
    BY <1>3, <2>0, <2>1 DEF CallStep, AssertContactCapacity, WriteQueued, EnqueueImport, QueueRefuses,
                            RestoreReady
  <2>3. k # "upload"
    BY <1>0, <1>3, <2>0, <2>1 DEF CallAborted
  <2>4. status' = status /\ UNCHANGED <<job, work>>
    <3>1. CASE ReadForMapping(k) \/ ReadForCommit(k) \/ ReadForCancel(k) \/ CallAborted(k)
      BY <3>1 DEF ReadForMapping, ReadIf, ReadForCommit, ReadForCancel, CallAborted, ApiOnly
    <3>2. CASE WriteCancelled(k)
      BY <2>1, <3>2 DEF WriteCancelled, ApiOnly
    <3> QED BY <2>2, <3>1, <3>2
  <2>5. Harmless(k)'
    <3>1. CASE ReadForMapping(k)
      <4>1. call'[k].at = IF columns /\ status \notin Started \cup {"NONE", "CANCELLED"}
                            THEN "found" ELSE "closed"
        BY <1>0, <2>2, <3>1, RestTypes DEF ReadForMapping, ReadIf, CallType, NoCall
      <4> QED BY <4>1 DEF Harmless
    <3>2. CASE ReadForCommit(k)
      <4>1. call'[k].at = IF status = "READY" /\ valid > 0 THEN "found" ELSE "closed"
        BY <1>0, <2>2, <3>2, RestTypes DEF ReadForCommit, CallType, NoCall
      <4> QED BY <4>1 DEF Harmless
    <3>3. CASE ReadForCancel(k)
      <4>1. call'[k] = IF status \notin Finished \cup {"PROCESSING", "NONE"}
                         THEN [NoCall EXCEPT !.op = "cancel", !.at = "checked"] ELSE Closed
        BY <1>0, <3>3 DEF ReadForCancel
      <4>2. CASE status = "NONE"
        <5>1. call'[k].at = "closed"
          BY <4>1, <4>2, RestTypes
        <5> QED BY <5>1 DEF Harmless
      <4>3. CASE status = "CANCELLED"
        <5>1. call'[k].at = "closed" \/ (call'[k].op = "cancel" /\ call'[k].at = "checked")
          BY <4>1, RestTypes DEF NoCall
        <5> QED BY <2>3, <2>4, <4>3, <5>1 DEF Harmless
      <4> QED BY <4>2, <4>3
    <3>4. CASE WriteCancelled(k) \/ CallAborted(k)
      <4>1. CallAt(k, "closed") /\ "closed" \in CallSteps
        BY <3>4 DEF WriteCancelled, CallAborted, CallSteps
      <4>2. call'[k].at = "closed"
        BY <1>0, <4>1, CallAtEffect
      <4> QED BY <4>2 DEF Harmless
    <3> QED BY <2>2, <3>1, <3>2, <3>3, <3>4
  <2>6. \A q \in Callers : q # k => call'[q] = call[q]
    BY <1>3, CallMoves
  <2>7. \A q \in Callers : q # k => Harmless(q)'
    BY <2>4, <2>6 DEF Still, Harmless
  <2> QED BY <1>0, <2>3, <2>4, <2>5, <2>6, <2>7 DEF Still
<1>4. CASE WorkerStep
  BY <1>4 DEF WorkerStep, StartImport, BeginImport, ReadRows, LookUpContact, SkipRow, CreateContact,
              RowFails, RecordBatch, FinishImport, EndImport, ImportFails, OnFailed, WorkerLost, Still
<1>5. CASE JobMoves
  BY <1>5 DEF JobMoves, WorkerOnly, Still, Harmless, NoJob
<1>6. ASSUME NEW k \in KeysElsewhere, ContactElsewhere(k)
      PROVE  status' = status /\ Still' /\ call'["upload"] = call["upload"]
  BY <1>6 DEF ContactElsewhere, importVars, Still, Harmless
<1>7. CASE UNCHANGED vars
  BY <1>7 DEF vars, importVars, Still, Harmless
<1> QED BY <1>1, <1>2, <1>3, <1>4, <1>5, <1>6, <1>7 DEF Next, Callers

(* Before the upload nothing has happened.                                 *)
NotUploaded == call["upload"].at = "idle" => status = "NONE" /\ Still

(* The upload begins once, so that this is an invariant.                   *)
LEMMA NotUploadedStep == IInv /\ NotUploaded /\ [Next]_vars => NotUploaded'
<1> SUFFICES ASSUME IInv, NotUploaded, [Next]_vars PROVE NotUploaded'
  OBVIOUS
<1>0. call \in [Callers -> CallType] /\ "upload" \in Callers /\ "upload" \notin Calls
  BY ImportAssumption DEF IInv, TypeOK, CallType, Callers
<1>1. CASE call["upload"].at = "idle"
  <2>1. CASE CreateImport
    BY <1>0, <2>1, CallMoves DEF UploadStep, NotUploaded
  <2>2. CASE status' = status /\ Still' /\ call'["upload"] = call["upload"]
    BY <1>1, <2>2 DEF NotUploaded
  <2> QED BY <1>1, <2>1, <2>2, StillStep DEF NotUploaded
<1>2. CASE call["upload"].at # "idle"
  <2>1. CASE UploadStep
    BY <1>0, <2>1, CallMoves DEF NotUploaded
  <2>2. ASSUME NEW k \in Callers, MappingStep(k) \/ CallAborted(k) \/ (k \in Calls /\ CallStep(k))
        PROVE  call'["upload"].at # "idle"
    BY <1>0, <1>2, <2>2, CallMoves
  <2>3. CASE call' = call
    BY <1>2, <2>3 DEF NotUploaded
  <2>4. WorkerStep \/ JobMoves \/ (\E k \in KeysElsewhere : ContactElsewhere(k)) \/ UNCHANGED vars
          => call' = call
    BY DEF WorkerStep, StartImport, BeginImport, ReadRows, LookUpContact, SkipRow, CreateContact,
           RowFails, RecordBatch, FinishImport, EndImport, ImportFails, OnFailed, WorkerLost, JobMoves,
           WorkerOnly, ContactElsewhere, vars
  <2> QED BY <2>1, <2>2, <2>3, <2>4 DEF Next, NotUploaded, Callers
<1> QED BY <1>1, <1>2

(* An import that is cancelled while nothing is under way stays cancelled. *)
THEOREM CancellationHolds == Spec => QuietCancellationIsFinal
<1>1. Init => NotUploaded
  BY DEF Init, NotUploaded, Still, Harmless, NoJob, NoWork, NoCall
<1>2. IInv /\ NotUploaded /\ [Next]_vars => (QuietlyCancelled => QuietlyCancelled')
  <2> SUFFICES ASSUME IInv, NotUploaded, QuietlyCancelled, [Next]_vars PROVE QuietlyCancelled'
    OBVIOUS
  <2>1. ~CreateImport
    BY DEF CreateImport, NotUploaded, QuietlyCancelled
  <2> QED BY <2>1, StillStep DEF QuietlyCancelled
<1> QED BY <1>1, <1>2, InvariantHolds, NotUploadedStep, PTL DEF Spec, QuietCancellationIsFinal

=============================================================================
