---------------------------- MODULE ImportPipeline ----------------------------
(***************************************************************************)
(* One import file: ImportEngineService uploads it, maps its columns,      *)
(* commits or cancels it, and the worker's processStagedContactImport      *)
(* turns its rows into contacts.  Every call reads the import's status,    *)
(* awaits, and writes it by id later; mapping rewrites all rows one by one. *)
(*                                                                         *)
(* Rows and contacts are compared by their keys, the normalised phone      *)
(* number and the Zalo id that are present, which ImportRows finds under a *)
(* mapping: nothing relates the number of one row to the id of another,    *)
(* whomever they belong to.  A batch of 500 rows is the whole file.        *)
(* Contacts are not deleted here; a deleted one is ignored by every        *)
(* lookup.  The progress bar, skippedRows and the BackgroundJob and        *)
(* AuditLog rows are read by no decision and left out; a refusal by        *)
(* subscription or contact capacity is one of the failures of the step.    *)
(***************************************************************************)
EXTENDS BullQueue, FiniteSets, ImportRows

CONSTANTS
    RowCount,       \* rows of the file
    Header,         \* the columns of the file
    Cells,          \* what each row has in them
    Mappings,       \* the mappings that updateMapping may be asked for
    Calls,          \* API calls on the import, each made once
    MayAsk,         \* the operations each of them may be
    KeysElsewhere,  \* the keys that contacts may get elsewhere
    Hazards         \* what else the instance explores

Rows == 1..RowCount

ASSUME ImportAssumption ==
    /\ RowCount \in Nat \ {0}
    /\ Header \in Seq(importTargets \cup {"other"})
    /\ Cells \in [Rows -> Seq(STRING)]
    /\ DOMAIN Number \subseteq STRING
    /\ "upload" \notin Calls
    /\ MayAsk \in [Calls -> SUBSET {"map", "commit", "cancel"}]
    /\ Hazards \subseteq {"api", "worker", "retention"}

VARIABLES
    \* database
    status,         \* ImportJob.status, "NONE" before the row exists
    columns,        \* detectedColumns was written
    valid,          \* ImportJob.validRows
    imported,       \* ImportJob.importedRows
    failed,         \* ImportJob.failedRows
    row,            \* ImportRow.status
    norm,           \* the keys of ImportRow.normalized
    contacts,       \* the keys of each contact this import has made
    elsewhere,      \* the keys of the contacts that others have made
    \* Redis
    job,            \* the job file-import-<id> in contact.import
    \* processes
    call,           \* where the upload and each API call is
    work,           \* where the worker is
    \* history
    disturbed       \* a mapping wrote while the import was under way or over

importVars == <<status, columns, valid, imported, failed>>
rowVars == <<row, norm>>
contactVars == <<contacts, elsewhere>>
vars == <<importVars, rowVars, contactVars, job, call, work, disturbed>>

Statuses == {"NONE", "UPLOADED", "MAPPING", "READY", "QUEUED", "PROCESSING",
             "COMPLETED", "PARTIAL", "FAILED", "CANCELLED"}
RowStatuses == {"PENDING", "VALID", "INVALID", "DUPLICATE", "IMPORTED", "SKIPPED", "FAILED"}
Finished == {"COMPLETED", "PARTIAL"}
Started == Finished \cup {"QUEUED", "PROCESSING"}

(* The await points of the calls: the status was read ("found"), MAPPING   *)
(* was written, rows are being rewritten, the batch was counted; the       *)
(* capacity was checked, QUEUED was written, the queue refused the job;    *)
(* the upload has its import row, writes its audit entry, or has caught an *)
(* error.                                                                  *)
Mapping == {"mapping", "rewriting", "mapped"}
CallSteps == Mapping \cup {"idle", "found", "checked", "queued", "refused",
                           "staging", "recording", "caught", "closed"}
Callers == Calls \cup {"upload"}

(* What a mapping holds: the target of each column, the rows to go, the    *)
(* keys it has seen and those that contacts had when it read the batch,    *)
(* and its count of valid rows.                                            *)
NoCall == [at |-> "idle", op |-> "map", mapping |-> <<>>,
           rest |-> {}, taken |-> {}, count |-> 0]
AppliedMappings == Mappings \cup {autoMapping(Header), <<>>}
Keys == KeysElsewhere \cup UNION {normalizeRow(Cells[r], m) : r \in Rows, m \in AppliedMappings}
Closed == [NoCall EXCEPT !.at = "closed"]

(* The await points of processStagedContactImport: the import was read; it *)
(* is PROCESSING; a batch is at hand; the contact of the next row was      *)
(* looked up and found or not; no row is left; the result was written.     *)
(* "onFailed" is the 'failed' listener.  The batch holds the rows to go    *)
(* and their keys as they were read.                                       *)
PastBegin == {"loop", "batch", "absent", "present", "finishing", "done"}
WorkSteps == PastBegin \cup {"idle", "read", "onFailed"}
NoWork == [at |-> "idle", batch |-> {}, keys |-> [r \in Rows |-> {}], last |-> 0,
           imported |-> 0, failed |-> 0]

FirstOf(S) == CHOOSE r \in S : \A s \in S : r <= s

(* The keys of the contacts of the workspace, and those of the row that is *)
(* dealt with next.                                                        *)
KnownKeys == elsewhere \cup UNION {contacts[i] : i \in DOMAIN contacts}
NextKeys == work.keys[FirstOf(work.batch)]

(* The unique index of contacts covers the Zalo id, no phone number.       *)
IndexRefuses(keys) == \E k \in keys \cap KnownKeys : k[1] = "zalo"

-----------------------------------------------------------------------------

Init ==
    /\ status = "NONE"
    /\ columns = FALSE
    /\ valid = 0 /\ imported = 0 /\ failed = 0
    /\ row = [r \in Rows |-> "PENDING"]
    /\ norm = [r \in Rows |-> {}]
    /\ contacts = <<>>
    /\ elsewhere = {}
    /\ job = NoJob
    /\ call = [k \in Callers |-> IF k = "upload" THEN [NoCall EXCEPT !.op = "upload"] ELSE NoCall]
    /\ work = NoWork
    /\ disturbed = FALSE

CallAt(k, step) ==
    call' = [call EXCEPT ![k] = IF step = "closed" THEN Closed ELSE [@ EXCEPT !.at = step]]

ApiOnly == UNCHANGED <<columns, imported, failed, contactVars, work>>

(* Mapping does not look at the status again once it has begun.            *)
NoteDisturbance == disturbed' = (disturbed \/ status \in Started \/ work.at # "idle")

-----------------------------------------------------------------------------
(* upload                                                                  *)

(* The row is created; further uploads of the same file are answered with  *)
(* it, or refused by the unique index on the checksum.                     *)
CreateImport ==
    /\ call["upload"].at = "idle"
    /\ status' = "UPLOADED"
    /\ CallAt("upload", "staging")
    /\ UNCHANGED <<valid, rowVars, job, disturbed>>
    /\ ApiOnly

(* The file was parsed into rows; its columns and a first mapping are      *)
(* written together with MAPPING.                                          *)
StageFile ==
    /\ call["upload"].at = "staging"
    /\ status' = "MAPPING"
    /\ columns' = TRUE
    /\ call' = [call EXCEPT !["upload"].at = "found", !["upload"].mapping = autoMapping(Header)]
    /\ UNCHANGED <<valid, imported, failed, rowVars, contactVars, job, work, disturbed>>

(* The audit entry of the upload was written.                              *)
RecordUpload ==
    /\ call["upload"].at = "recording"
    /\ CallAt("upload", "closed")
    /\ UNCHANGED <<status, valid, rowVars, job, disturbed>>
    /\ ApiOnly

(* The file cannot be parsed, or the first mapping or the audit entry      *)
(* fails.                                                                  *)
UploadFails ==
    /\ "api" \in Hazards
    /\ call["upload"].at \in {"staging", "found", "recording"} \cup Mapping
    /\ CallAt("upload", "caught")
    /\ UNCHANGED <<status, valid, rowVars, job, disturbed>>
    /\ ApiOnly

RecordUploadFailure ==
    /\ call["upload"].at = "caught"
    /\ status' = "FAILED"
    /\ CallAt("upload", "closed")
    /\ UNCHANGED <<valid, rowVars, job, disturbed>>
    /\ ApiOnly

-----------------------------------------------------------------------------
(* updateMapping, and applyMapping for it and for the upload               *)

ReadIf(k, open) ==
    /\ call[k].at = "idle"
    /\ "map" \in MayAsk[k]
    /\ \E m \in Mappings :
          call' = [call EXCEPT ![k] =
              IF columns /\ open /\ MayMap(Header, m)
                THEN [NoCall EXCEPT !.at = "found", !.mapping = m] ELSE Closed]
    /\ UNCHANGED <<status, valid, rowVars, job, disturbed>>
    /\ ApiOnly

(* Mutant: CANCELLED is missing in the list of statuses.                   *)
ReadForMappingOfCancelled(k) == ReadIf(k, status \notin Started \cup {"NONE"})

(* A mapping names detected columns only, so without them it is refused.   *)
ReadForMapping(k) == ReadIf(k, status \notin Started \cup {"NONE", "CANCELLED"})

BeginMapping(k) ==
    /\ call[k].at = "found"
    /\ call[k].op \in {"upload", "map"}
    /\ status' = "MAPPING"
    /\ valid' = 0
    /\ CallAt(k, "mapping")
    /\ NoteDisturbance
    /\ UNCHANGED <<rowVars, job>>
    /\ ApiOnly

(* The batch, and the contacts its rows may duplicate.                     *)
ReadBatch(k) ==
    /\ call[k].at = "mapping"
    /\ call' = [call EXCEPT ![k].at = "rewriting", ![k].rest = Rows, ![k].taken = KnownKeys]
    /\ UNCHANGED <<status, valid, rowVars, job, disturbed>>
    /\ ApiOnly

(* The next row: unreadable under this mapping, a duplicate, or valid.     *)
MapRow(k) ==
    LET r == FirstOf(call[k].rest)
        keys == normalizeRow(Cells[r], call[k].mapping)
    IN  /\ call[k].at = "rewriting"
        /\ call[k].rest # {}
        /\ norm' = [norm EXCEPT ![r] = keys]
        /\ \/ /\ keys = {}
              /\ row' = [row EXCEPT ![r] = "INVALID"]
              /\ call' = [call EXCEPT ![k].rest = @ \ {r}]
           \/ /\ keys \cap call[k].taken # {}
              /\ row' = [row EXCEPT ![r] = "DUPLICATE"]
              /\ call' = [call EXCEPT ![k].rest = @ \ {r}]
           \/ /\ keys # {} /\ keys \cap call[k].taken = {}
              /\ row' = [row EXCEPT ![r] = "VALID"]
              /\ call' = [call EXCEPT ![k].rest = @ \ {r},
                                      ![k].taken = @ \cup keys,
                                      ![k].count = @ + 1]
        /\ NoteDisturbance
        /\ UNCHANGED <<status, valid, job>>
        /\ ApiOnly

(* Mutant: the row of column names is subtracted from the count.           *)
CountBatchLessHeader(k) ==
    /\ call[k].at = "rewriting"
    /\ call[k].rest = {}
    /\ valid' = call[k].count - 1
    /\ call' = [call EXCEPT ![k].at = "mapped", ![k].taken = {}]
    /\ UNCHANGED <<status, rowVars, job, disturbed>>
    /\ ApiOnly

CountBatch(k) ==
    /\ call[k].at = "rewriting"
    /\ call[k].rest = {}
    /\ valid' = call[k].count
    /\ call' = [call EXCEPT ![k].at = "mapped", ![k].taken = {}]
    /\ UNCHANGED <<status, rowVars, job, disturbed>>
    /\ ApiOnly

EndMapping(k) ==
    /\ call[k].at = "mapped"
    /\ status' = "READY"
    /\ valid' = call[k].count
    /\ CallAt(k, IF k = "upload" THEN "recording" ELSE "closed")
    /\ UNCHANGED <<rowVars, job, disturbed>>
    /\ ApiOnly

-----------------------------------------------------------------------------
(* commit and cancel                                                       *)

ReadForCommit(k) ==
    /\ call[k].at = "idle"
    /\ "commit" \in MayAsk[k]
    /\ call' = [call EXCEPT ![k] =
          IF status = "READY" /\ valid > 0
            THEN [NoCall EXCEPT !.op = "commit", !.at = "found"] ELSE Closed]
    /\ UNCHANGED <<status, valid, rowVars, job, disturbed>>
    /\ ApiOnly

(* SubscriptionPolicyService.assertContactCapacity lets the valid rows in; *)
(* when it throws, the call ends with nothing done (CallAborted).          *)
AssertContactCapacity(k) ==
    /\ call[k].at = "found"
    /\ call[k].op = "commit"
    /\ CallAt(k, "checked")
    /\ UNCHANGED <<status, valid, rowVars, job, disturbed>>
    /\ ApiOnly

WriteQueued(k) ==
    /\ call[k].at = "checked"
    /\ call[k].op = "commit"
    /\ status' = "QUEUED"
    /\ CallAt(k, "queued")
    /\ UNCHANGED <<valid, rowVars, job, disturbed>>
    /\ ApiOnly

EnqueueImport(k) ==
    /\ call[k].at = "queued"
    /\ job' = Added(job)
    /\ CallAt(k, "closed")
    /\ UNCHANGED <<status, valid, rowVars, disturbed>>
    /\ ApiOnly

(* Redis refuses the job, or takes it and the answer is lost.              *)
QueueRefuses(k) ==
    /\ "api" \in Hazards
    /\ call[k].at = "queued"
    /\ job' \in {job, Added(job)}
    /\ CallAt(k, "refused")
    /\ UNCHANGED <<status, valid, rowVars, disturbed>>
    /\ ApiOnly

RestoreReady(k) ==
    /\ call[k].at = "refused"
    /\ status' = "READY"
    /\ CallAt(k, "closed")
    /\ UNCHANGED <<valid, rowVars, job, disturbed>>
    /\ ApiOnly

ReadForCancel(k) ==
    /\ call[k].at = "idle"
    /\ "cancel" \in MayAsk[k]
    /\ call' = [call EXCEPT ![k] =
          IF status \notin Finished \cup {"PROCESSING", "NONE"}
            THEN [NoCall EXCEPT !.op = "cancel", !.at = "checked"] ELSE Closed]
    /\ UNCHANGED <<status, valid, rowVars, job, disturbed>>
    /\ ApiOnly

WriteCancelled(k) ==
    /\ call[k].at = "checked"
    /\ call[k].op = "cancel"
    /\ status' = "CANCELLED"
    /\ CallAt(k, "closed")
    /\ UNCHANGED <<valid, rowVars, job, disturbed>>
    /\ ApiOnly

(* A call ends with an error or its process dies; the upload's own error   *)
(* handling is UploadFails.                                                *)
CallAborted(k) ==
    /\ "api" \in Hazards
    /\ call[k].at \notin {"idle", "closed"}
    /\ CallAt(k, "closed")
    /\ UNCHANGED <<status, valid, rowVars, job, disturbed>>
    /\ ApiOnly

-----------------------------------------------------------------------------
(* processStagedContactImport                                              *)

WorkerOnly == UNCHANGED <<columns, valid, norm, elsewhere, call, disturbed>>

(* The import is read: one that is COMPLETED or PARTIAL ends the job, any  *)
(* other status does not matter.                                           *)
StartImport ==
    /\ job.state = "waiting"
    /\ IF status \in Finished
         THEN job' = Completed(Taken(job)) /\ UNCHANGED work
         ELSE job' = Taken(job) /\ work' = [NoWork EXCEPT !.at = "read"]
    /\ UNCHANGED <<status, imported, failed, row, contacts>>
    /\ WorkerOnly

BeginImport ==
    /\ work.at = "read"
    /\ status' = "PROCESSING"
    /\ imported' = 0 /\ failed' = 0
    /\ work' = [work EXCEPT !.at = "loop"]
    /\ UNCHANGED <<row, contacts, job>>
    /\ WorkerOnly

ReadRows ==
    /\ work.at = "loop"
    /\ LET left == {r \in Rows : row[r] = "VALID" /\ r > work.last}
       IN  work' = [work EXCEPT !.batch = left, !.at = IF left = {} THEN "finishing" ELSE "batch",
                                !.keys = [r \in Rows |-> IF r \in left THEN norm[r] ELSE {}]]
    /\ UNCHANGED <<status, imported, failed, row, contacts, job>>
    /\ WorkerOnly

(* Mutant: the file was checked for duplicates when it was mapped.         *)
LookUpNever ==
    /\ work.at = "batch"
    /\ work.batch # {}
    /\ work' = [work EXCEPT !.at = "absent"]
    /\ UNCHANGED <<status, imported, failed, row, contacts, job>>
    /\ WorkerOnly

(* A contact that has the phone number or the Zalo id of the row.          *)
LookUpContact ==
    /\ work.at = "batch"
    /\ work.batch # {}
    /\ work' = [work EXCEPT !.at = IF NextKeys \cap KnownKeys # {} THEN "present" ELSE "absent"]
    /\ UNCHANGED <<status, imported, failed, row, contacts, job>>
    /\ WorkerOnly

(* The next row is dealt with: it gets a status and the loop goes on.      *)
RowDone(s) ==
    LET r == FirstOf(work.batch)
    IN  /\ row' = [row EXCEPT ![r] = s]
        /\ work' = [work EXCEPT !.at = "batch", !.batch = @ \ {r}, !.last = r,
                                !.imported = IF s = "IMPORTED" THEN @ + 1 ELSE @,
                                !.failed = IF s = "FAILED" THEN @ + 1 ELSE @]

SkipRow ==
    /\ work.at = "present"
    /\ RowDone("SKIPPED")
    /\ UNCHANGED <<status, imported, failed, contacts, job>>
    /\ WorkerOnly

(* One transaction creates the contact and marks the row.                  *)
CreateContact ==
    /\ work.at = "absent"
    /\ ~IndexRefuses(NextKeys)
    /\ contacts' = Append(contacts, NextKeys)
    /\ RowDone("IMPORTED")
    /\ UNCHANGED <<status, imported, failed, job>>
    /\ WorkerOnly

(* Mutants: the catch block leaves the row as it is; the row is counted    *)
(* as imported whatever became of it.                                      *)
RowFailsUnmarked ==
    /\ "worker" \in Hazards
    /\ work.at \in {"absent", "present"} \/ (work.at = "batch" /\ work.batch # {})
    /\ work' = [work EXCEPT !.at = "batch", !.batch = @ \ {FirstOf(@)},
                            !.last = FirstOf(work.batch), !.failed = @ + 1]
    /\ UNCHANGED <<status, imported, failed, row, contacts, job>>
    /\ WorkerOnly

RowFailsCounted ==
    /\ "worker" \in Hazards
    /\ work.at \in {"absent", "present"} \/ (work.at = "batch" /\ work.batch # {})
    /\ row' = [row EXCEPT ![FirstOf(work.batch)] = "FAILED"]
    /\ work' = [work EXCEPT !.at = "batch", !.batch = @ \ {FirstOf(@)},
                            !.last = FirstOf(work.batch), !.failed = @ + 1, !.imported = @ + 1]
    /\ UNCHANGED <<status, imported, failed, contacts, job>>
    /\ WorkerOnly

(* The lookup or the transaction fails, be it on the unique index, or the  *)
(* transaction commits and its answer is lost: the row is marked and the   *)
(* loop goes on.                                                           *)
RowFails ==
    /\ work.at \in {"absent", "present"} \/ (work.at = "batch" /\ work.batch # {})
    /\ \/ "worker" \in Hazards /\ UNCHANGED contacts
       \/ work.at = "absent" /\ IndexRefuses(NextKeys) /\ UNCHANGED contacts
       \/ /\ "worker" \in Hazards
          /\ work.at = "absent"
          /\ ~IndexRefuses(NextKeys)
          /\ contacts' = Append(contacts, NextKeys)
    /\ RowDone("FAILED")
    /\ UNCHANGED <<status, imported, failed, job>>
    /\ WorkerOnly

RecordBatch ==
    /\ work.at = "batch"
    /\ work.batch = {}
    /\ imported' = work.imported /\ failed' = work.failed
    /\ work' = [work EXCEPT !.at = "loop"]
    /\ UNCHANGED <<status, row, contacts, job>>
    /\ WorkerOnly

FinishImport ==
    /\ work.at = "finishing"
    /\ status' = IF work.failed > 0 THEN "PARTIAL" ELSE "COMPLETED"
    /\ imported' = work.imported /\ failed' = work.failed
    /\ work' = [work EXCEPT !.at = "done"]
    /\ UNCHANGED <<row, contacts, job>>
    /\ WorkerOnly

EndImport ==
    /\ work.at = "done"
    /\ job' = Completed(job)
    /\ work' = NoWork
    /\ UNCHANGED <<status, imported, failed, row, contacts>>
    /\ WorkerOnly

(* The subscription or the capacity refuses, or a call fails.              *)
ImportFails ==
    /\ "worker" \in Hazards
    /\ work.at \notin {"idle", "onFailed"}
    /\ job' = Thrown(job)
    /\ work' = IF LastAttempt(job) THEN [NoWork EXCEPT !.at = "onFailed"] ELSE NoWork
    /\ UNCHANGED <<status, imported, failed, row, contacts>>
    /\ WorkerOnly

OnFailed ==
    /\ work.at = "onFailed"
    /\ status' = IF status \in {"QUEUED", "PROCESSING"} THEN "FAILED" ELSE status
    /\ work' = NoWork
    /\ UNCHANGED <<imported, failed, row, contacts, job>>
    /\ WorkerOnly

WorkerLost ==
    /\ "worker" \in Hazards
    /\ work.at # "idle"
    /\ work' = NoWork
    /\ UNCHANGED <<status, imported, failed, row, contacts, job>>
    /\ WorkerOnly

(* BullMQ returns the job of a lost worker, promotes a delayed one, and    *)
(* forgets a finished one some days later.                                 *)
JobMoves ==
    /\ \/ job.state = "active" /\ work.at = "idle" /\ job' = Stalled(job)
       \/ job.state = "delayed" /\ job' = Promoted(job)
       \/ /\ "retention" \in Hazards
          /\ job.state \in {"completed", "failed"}
          /\ work.at = "idle"
          /\ job' = NoJob
    /\ UNCHANGED <<status, imported, failed, row, contacts, work>>
    /\ WorkerOnly

(* Another import, a webhook or a user makes a contact with this key.      *)
ContactElsewhere(k) ==
    /\ ~IndexRefuses({k})
    /\ elsewhere' = elsewhere \cup {k}
    /\ UNCHANGED <<importVars, rowVars, contacts, job, call, work, disturbed>>

-----------------------------------------------------------------------------

UploadStep ==
    CreateImport \/ StageFile \/ RecordUpload \/ UploadFails \/ RecordUploadFailure

MappingStep(k) ==
    BeginMapping(k) \/ ReadBatch(k) \/ MapRow(k) \/ CountBatch(k) \/ EndMapping(k)

CallStep(k) ==
    \/ ReadForMapping(k)
    \/ ReadForCommit(k)
    \/ AssertContactCapacity(k)
    \/ WriteQueued(k)
    \/ EnqueueImport(k)
    \/ QueueRefuses(k)
    \/ RestoreReady(k)
    \/ ReadForCancel(k)
    \/ WriteCancelled(k)

WorkerStep ==
    \/ StartImport
    \/ BeginImport
    \/ ReadRows
    \/ LookUpContact
    \/ SkipRow
    \/ CreateContact
    \/ RowFails
    \/ RecordBatch
    \/ FinishImport
    \/ EndImport
    \/ ImportFails
    \/ OnFailed
    \/ WorkerLost

Next ==
    \/ UploadStep
    \/ \E k \in Callers : MappingStep(k) \/ CallAborted(k)
    \/ \E k \in Calls : CallStep(k)
    \/ WorkerStep
    \/ JobMoves
    \/ \E k \in KeysElsewhere : ContactElsewhere(k)

Spec == Init /\ [][Next]_vars

-----------------------------------------------------------------------------
(* Properties                                                              *)

TypeOK ==
    /\ status \in Statuses
    /\ columns \in BOOLEAN
    /\ valid \in Nat /\ imported \in Nat /\ failed \in Nat
    /\ row \in [Rows -> RowStatuses]
    /\ norm \in [Rows -> SUBSET Keys]
    /\ contacts \in Seq(SUBSET Keys)
    /\ elsewhere \subseteq Keys
    /\ job \in Jobs
    /\ call \in [Callers -> [at : CallSteps, op : {"upload", "map", "commit", "cancel"},
                             mapping : AppliedMappings, rest : SUBSET Rows, taken : SUBSET Keys, count : Nat]]
    /\ work \in [at : WorkSteps, batch : SUBSET Rows, keys : [Rows -> SUBSET Keys], last : Nat,
                 imported : Nat, failed : Nat]
    /\ disturbed \in BOOLEAN

(* docs/PHASE_REPORT.md: rows are deduplicated in the file and in the      *)
(* tenant.  Whatever mappings, commits and retries overlap, no two of the  *)
(* contacts that this import makes have a phone number or a Zalo id in     *)
(* common, though a row that is mapped anew after it was imported, or the  *)
(* number and the id of one person in two rows, may give two contacts.     *)
ContactsShareNoKey ==
    \A i, j \in DOMAIN contacts : i # j => contacts[i] \cap contacts[j] = {}

(* An import that ends as COMPLETED or PARTIAL has dealt with every valid  *)
(* row, through failed and stalled attempts, unless a mapping that had     *)
(* read the status before the commit rewrote rows under it.                *)
FinishedLeavesNoValidRow ==
    (status \in Finished /\ ~disturbed) => \A r \in Rows : row[r] # "VALID"

(* The counters shown for an import that runs or has ended never promise   *)
(* more than its rows hold.  (They may promise less: a retry counts from   *)
(* zero.)                                                                  *)
CountersNeverOverstate ==
    (status \in Finished \cup {"PROCESSING"} /\ ~disturbed) =>
        /\ imported <= Cardinality({r \in Rows : row[r] = "IMPORTED"})
        /\ failed <= Cardinality({r \in Rows : row[r] = "FAILED"})

(* A call that is over or has not begun, or that is about to cancel an     *)
(* import that is cancelled already, which cancel does not refuse.         *)
Harmless(k) ==
    \/ call[k].at \in {"idle", "closed"}
    \/ status = "CANCELLED" /\ k # "upload" /\ call[k].op = "cancel" /\ call[k].at = "checked"

(* Nobody is working on the import, nor can a job of it come back.         *)
Still ==
    /\ job.state \in {"none", "completed", "failed"}
    /\ work.at = "idle"
    /\ \A k \in Callers : Harmless(k)

(* An import that is cancelled while nothing is under way stays cancelled, *)
(* whatever is asked of it later.                                          *)
QuietlyCancelled == status = "CANCELLED" /\ Still
QuietCancellationIsFinal == [][QuietlyCancelled => QuietlyCancelled']_vars

=============================================================================
