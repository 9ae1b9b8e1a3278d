---------------------------- MODULE IngestBatch ----------------------------
(***************************************************************************)
(* One bulk upload of svc-deepagents: the row of deepagents_ingest_batches *)
(* with the state of every file, the asyncio worker that processes the     *)
(* files with a bounded number at a time, the cancel endpoint, and the     *)
(* session workspace, which lives in memory only.  The row is read and     *)
(* written back without a lock, by several file tasks.                     *)
(***************************************************************************)
EXTENDS Naturals, FiniteSets

CONSTANTS
    Files,          \* files of the upload
    Concurrency,    \* ingest_batch_concurrency
    MaxDbErrors,    \* bound: failed transactions
    MaxCrashes      \* bound: crashes of the service

ASSUME FilesAssumption == IsFiniteSet(Files) /\ Files # {}
ASSUME BoundsAssumption == Concurrency \in Nat \ {0} /\ MaxDbErrors \in Nat /\ MaxCrashes \in Nat

VARIABLES
    row,        \* the batch row: status, completed_count, failed_count, items
    worker,     \* the batch task: "none", "created", "start", "files", "failing",
                \* "closing", "ended", "dead"
    task,       \* task[f]: where the task of file f stands
    snap,       \* snap[f]: the row as task f selected it, while it holds it
    flag,       \* the batch is in _cancelled_batches
    disk,       \* the uploaded files are on disk
    cancel,     \* the cancel request: "none", "marked", "read", "done"
    pending,    \* the session's pending_batch_ids holds the batch
    ingested,   \* the session's ingested_documents > 0
    good,       \* files ingest_single_file processed successfully
    clashes,    \* a commit overwrote a row that changed since it was selected
    errors, crashes     \* bounded: see MaxDbErrors, MaxCrashes

vars == <<row, worker, task, snap, flag, disk, cancel, pending, ingested, good,
          clashes, errors, crashes>>

Total == Cardinality(Files)
Row == [status : {"none", "pending", "running", "completed", "failed", "cancelled"},
        completed : Nat, failed : Nat,
        items : [Files -> {"queued", "running", "done", "error"}]]
NewRow == [status |-> "none", completed |-> 0, failed |-> 0,
           items |-> [f \in Files |-> "queued"]]
TaskPhases == {"none", "begin", "fetch", "wait", "mark", "marking", "ingest", "report",
               "reporting", "retry", "retrying", "over", "raised"}
Terminal == {"completed", "failed", "cancelled"}

Init ==
    /\ row = NewRow
    /\ worker = "none"
    /\ task = [f \in Files |-> "none"]
    /\ snap = [f \in Files |-> NewRow]
    /\ flag = FALSE
    /\ disk = FALSE
    /\ cancel = "none"
    /\ pending = FALSE
    /\ ingested = FALSE
    /\ good = {}
    /\ clashes = FALSE
    /\ errors = 0
    /\ crashes = 0

-----------------------------------------------------------------------------
(* Shorthands.                                                             *)

Session  == <<pending, ingested>>
Request  == <<flag, cancel>>
History  == <<good, clashes, errors, crashes>>
Steps    == <<worker, task, snap>>
Goto(f, phase) == task' = [task EXCEPT ![f] = phase]

\* Files between acquiring and releasing the semaphore.
Holding == {f \in Files : task[f] \in {"mark", "marking", "ingest", "report", "reporting",
                                       "retry", "retrying"}}

-----------------------------------------------------------------------------
(* POST /run-stateful-with-files with more files than the inline threshold. *)

\* The files are saved and the row is committed ...
CreateBatch ==
    /\ worker = "none"
    /\ row' = [row EXCEPT !.status = "pending"]
    /\ disk' = TRUE
    /\ worker' = "created"
    /\ UNCHANGED <<task, snap, Request, Session, History>>

\* ... then the batch is entered in the session, and its task is created.
ScheduleBatch ==
    /\ worker = "created"
    /\ pending' = TRUE
    /\ worker' = "start"
    /\ UNCHANGED <<row, task, snap, disk, Request, ingested, History>>

-----------------------------------------------------------------------------
(* _run_batch                                                              *)

\* status := "running", whatever it is, and one coroutine per file.
StartRun ==
    /\ worker = "start"
    /\ row' = [row EXCEPT !.status = "running"]
    /\ task' = [f \in Files |-> "begin"]
    /\ worker' = "files"
    /\ UNCHANGED <<snap, disk, Request, Session, History>>

\* A file's coroutine: returns when the batch was cancelled in this process ...
TaskBegin(f) ==
    /\ task[f] = "begin"
    /\ Goto(f, IF flag THEN "over" ELSE "fetch")
    /\ UNCHANGED <<row, worker, snap, disk, Request, Session, History>>

\* ... or when the row says so.
TaskFetch(f) ==
    /\ task[f] = "fetch"
    /\ Goto(f, IF row.status = "cancelled" THEN "over" ELSE "wait")
    /\ UNCHANGED <<row, worker, snap, disk, Request, Session, History>>

\* The semaphore, and the flag once more.
UncheckedAcquire(f) ==                              \* fault: the flag is not looked at again
    /\ task[f] = "wait"
    /\ Cardinality(Holding) < Concurrency
    /\ Goto(f, "mark")
    /\ UNCHANGED <<row, worker, snap, disk, Request, Session, History>>
TaskAcquire(f) ==
    /\ task[f] = "wait"
    /\ Cardinality(Holding) < Concurrency
    /\ Goto(f, IF flag THEN "over" ELSE "mark")
    /\ UNCHANGED <<row, worker, snap, disk, Request, Session, History>>

\* ingest_single_file returned, or raised.  A file that is gone cannot be read.
\* On success the worker executes `succeeded += 1` on a name that is local to the
\* coroutine and unbound there: the exception handler takes over.
TaskIngest(f) ==
    /\ task[f] = "ingest"
    /\ \/ /\ disk
          /\ good' = good \cup {f}
          /\ Goto(f, "retry")
       \/ /\ \E phase \in {"report", "retry"} : Goto(f, phase)
          /\ UNCHANGED good
    /\ UNCHANGED <<row, worker, snap, disk, Request, Session, clashes, errors, crashes>>

\* update_batch_item: SELECT the row ...
SelectRow(f) ==
    /\ task[f] \in {"mark", "report", "retry"}
    /\ snap' = [snap EXCEPT ![f] = row]
    /\ Goto(f, CASE task[f] = "mark"   -> "marking"
                 [] task[f] = "report" -> "reporting"
                 [] OTHER              -> "retrying")
    /\ UNCHANGED <<row, worker, disk, Request, Session, History>>

UpdatedLate(r, f, s, increment) ==                  \* fault: off by one
    [r EXCEPT !.items[f] = s,
              !.failed = IF increment THEN @ + 1 ELSE @,
              !.status = IF r.failed > Total /\ @ = "running" THEN "failed" ELSE @]
UpdatedUncounted(r, f, s, increment) ==             \* fault: the failure is not counted
    [r EXCEPT !.items[f] = s]
UpdatedOtherName(r, f, s, increment) ==             \* fault: a status nobody else knows
    [r EXCEPT !.items[f] = IF s = "error" THEN "failed" ELSE s]
\* The row as the object of task f holds it when it commits, the item set to s and,
\* with increment, one more failure.
Updated(r, f, s, increment) ==
    LET failed == IF increment THEN r.failed + 1 ELSE r.failed
        done   == r.completed + failed
        over   == done >= Total /\ r.status = "running"
    IN  [r EXCEPT !.items[f] = s,
                  !.failed = failed,
                  !.status = IF ~over THEN @
                             ELSE IF failed = Total THEN "failed" ELSE "completed"]

\* ... and commit the columns that changed: the items and the count as they were
\* selected but for this file, the status when this update ended the batch.
CommitColumns(f, new) ==
    /\ snap' = [snap EXCEPT ![f] = NewRow]
    /\ row' = [row EXCEPT !.items = new.items,
                          !.failed = IF new.failed # snap[f].failed THEN new.failed ELSE @,
                          !.status = IF new.status # snap[f].status THEN new.status ELSE @]
CommitRunning(f) ==
    /\ task[f] = "marking"
    /\ CommitColumns(f, Updated(snap[f], f, "running", FALSE))
    /\ Goto(f, "ingest")
    /\ clashes' = (clashes \/ row # snap[f])
    /\ UNCHANGED <<worker, disk, Request, Session, good, errors, crashes>>
CommitReport(f) ==
    /\ task[f] \in {"reporting", "retrying"}
    /\ CommitColumns(f, Updated(snap[f], f, "error", TRUE))
    /\ Goto(f, "over")
    /\ clashes' = (clashes \/ row # snap[f])
    /\ UNCHANGED <<worker, disk, Request, Session, good, errors, crashes>>

\* A database error: the except branch reports the file a second time; anywhere
\* else it leaves the coroutine.
TaskError(f) ==
    /\ errors < MaxDbErrors
    /\ task[f] \in {"fetch", "mark", "marking", "report", "reporting", "retry", "retrying"}
    /\ errors' = errors + 1
    /\ snap' = [snap EXCEPT ![f] = NewRow]
    /\ Goto(f, IF task[f] \in {"report", "reporting"} THEN "retry" ELSE "raised")
    /\ UNCHANGED <<row, worker, disk, Request, Session, good, clashes, crashes>>

\* asyncio.gather raises the first exception; the other coroutines run on.  The
\* status is set to "failed", whatever it is ...
GatherRaises ==
    /\ worker = "files"
    /\ \E f \in Files : task[f] = "raised"
    /\ row' = [row EXCEPT !.status = "failed"]
    /\ worker' = "failing"
    /\ UNCHANGED <<task, snap, disk, Request, Session, History>>

\* ... and the finally clause forgets the cancellation and removes the files.
CleanUpFailed ==
    /\ worker = "failing"
    /\ flag' = FALSE
    /\ disk' = FALSE
    /\ worker' = "ended"
    /\ UNCHANGED <<row, task, snap, cancel, Session, History>>

\* All coroutines returned: the same clause, then the row is read again.
CleanUpAtOnce ==                                    \* fault: not awaited
    /\ worker = "files"
    /\ flag' = FALSE
    /\ disk' = FALSE
    /\ worker' = "closing"
    /\ UNCHANGED <<row, task, snap, cancel, Session, History>>
CleanUp ==
    /\ worker = "files"
    /\ \A f \in Files : task[f] = "over"
    /\ flag' = FALSE
    /\ disk' = FALSE
    /\ worker' = "closing"
    /\ UNCHANGED <<row, task, snap, cancel, Session, History>>

\* record_batch_ingestion_complete, unless the row says cancelled.
KeepPending ==                                      \* fault: not taken off the list
    /\ worker = "closing"
    /\ ingested' = (ingested \/ row.completed > 0)
    /\ worker' = "ended"
    /\ UNCHANGED <<row, task, snap, disk, Request, pending, History>>
RecordComplete ==
    /\ worker = "closing"
    /\ IF row.status = "cancelled"
       THEN UNCHANGED Session
       ELSE /\ pending' = FALSE
            /\ ingested' = (ingested \/ row.completed > 0)
    /\ worker' = "ended"
    /\ UNCHANGED <<row, task, snap, disk, Request, History>>

-----------------------------------------------------------------------------
(* POST /api/ingest/batches/{id}/cancel: the flag, then the row.           *)

CancelMark ==
    /\ cancel = "none" /\ row.status # "none" /\ worker # "dead"
    /\ flag' = TRUE
    /\ cancel' = "marked"
    /\ UNCHANGED <<row, Steps, disk, Session, History>>

CancelRead ==
    /\ cancel = "marked"
    /\ cancel' = IF row.status \in Terminal THEN "done" ELSE "read"
    /\ UNCHANGED <<row, Steps, disk, flag, Session, History>>

CancelWrite ==
    /\ cancel = "read"
    /\ row' = [row EXCEPT !.status = "cancelled"]
    /\ cancel' = "done"
    /\ clashes' = (clashes \/ row.status \in Terminal)
    /\ UNCHANGED <<Steps, disk, flag, Session, good, errors, crashes>>

\* A database error in the batch task itself: before the files nothing catches it;
\* the failed status is lost but the finally clause runs; after the files the session
\* is not told.
MainError ==
    /\ errors < MaxDbErrors
    /\ errors' = errors + 1
    /\ \/ worker \in {"start", "closing"} /\ worker' = "ended"
       \/ /\ worker = "files" /\ \E f \in Files : task[f] = "raised"
          /\ worker' = "failing"
    /\ UNCHANGED <<row, task, snap, disk, Request, Session, good, clashes, crashes>>

\* The process dies: tasks, flag and session are gone, the row stays.
Crash ==
    /\ crashes < MaxCrashes
    /\ worker \notin {"none", "dead"}
    /\ crashes' = crashes + 1
    /\ worker' = "dead"
    /\ task' = [f \in Files |-> "none"]
    /\ snap' = [f \in Files |-> NewRow]
    /\ flag' = FALSE
    /\ cancel' = IF cancel \in {"marked", "read"} THEN "done" ELSE cancel
    /\ pending' = FALSE
    /\ ingested' = FALSE
    /\ UNCHANGED <<row, disk, good, clashes, errors>>

Work(f) ==
    \/ TaskBegin(f) \/ TaskFetch(f) \/ TaskAcquire(f) \/ TaskIngest(f)
    \/ SelectRow(f) \/ CommitRunning(f) \/ CommitReport(f)

Main == ScheduleBatch \/ StartRun \/ GatherRaises \/ CleanUpFailed \/ CleanUp \/ RecordComplete

Next ==
    \/ CreateBatch
    \/ Main
    \/ \E f \in Files : Work(f)
    \/ \E f \in Files : TaskError(f)
    \/ MainError
    \/ CancelMark \/ CancelRead \/ CancelWrite
    \/ Crash

Spec == Init /\ [][Next]_vars
\* The event loop runs every coroutine that can go on; asyncio's semaphore is fair.
FairSpec == Spec /\ WF_vars(Main) /\ \A f \in Files : SF_vars(Work(f))
                 /\ WF_vars(CancelRead \/ CancelWrite)

-----------------------------------------------------------------------------
(* Properties.                                                             *)

TypeOK ==
    /\ row \in Row
    /\ worker \in {"none", "created", "start", "files", "failing", "closing", "ended", "dead"}
    /\ task \in [Files -> TaskPhases]
    /\ snap \in [Files -> Row]
    /\ flag \in BOOLEAN
    /\ disk \in BOOLEAN
    /\ cancel \in {"none", "marked", "read", "done"}
    /\ pending \in BOOLEAN
    /\ ingested \in BOOLEAN
    /\ good \in SUBSET Files
    /\ clashes \in BOOLEAN
    /\ errors \in 0..MaxDbErrors
    /\ crashes \in 0..MaxCrashes

\* The counts of the row are the files it shows as finished, as long as no commit
\* overwrote another one's update: the poller of GET /batches/{id} is not told of
\* more or fewer files than ended.
CountsMatchItems ==
    ~clashes =>
        row.completed + row.failed = Cardinality({f \in Files : row.items[f] \in {"done", "error"}})

\* No file is read after the uploads were removed, unless a failed transaction made
\* gather give up on the coroutines that are still running.
FilesOutliveTheirTasks ==
    (errors = 0 /\ \E f \in Files : task[f] = "ingest") => disk

\* Once a cancellation was received no further file is started, whatever the row
\* says and whoever overwrites it, as long as no transaction failed: the flag outlives
\* every coroutine that waits for the semaphore.
NothingStartsAfterCancel ==
    [][(cancel # "none" /\ errors = 0) => \A f \in Files : task'[f] = "mark" => task[f] = "mark"]_vars

\* A batch whose files are under way and whose cancellation was not written before
\* that is settled: its row reaches an end state, unless updates overwrote each
\* other, a transaction failed, or the process died.
BatchSettles ==
    (worker = "files" /\ cancel \in {"none", "marked"}) ~>
        (row.status \in Terminal \/ clashes \/ errors > 0 \/ crashes > 0)

\* When the worker has ended without cancellation, failed transaction or crash, the
\* session no longer lists the batch as pending.
PendingCleared ==
    (worker = "ended" /\ cancel = "none" /\ errors = 0) => ~pending

\* agents/system_prompt.py: "When a batch finishes with at least one successful
\* file, workspace ingestion is satisfied."  It is not: the success branch of the
\* worker raises, and the file is counted as failed.
SuccessSatisfiesIngestion ==
    (worker = "ended" /\ cancel = "none" /\ errors = 0 /\ ~clashes /\ good # {}) => ingested
=============================================================================
