------------------------------ MODULE ImportJob ------------------------------
(***************************************************************************)
(* The import jobs of cafm-connector-service: tasks of the web process     *)
(* that stream a source, batch by batch, into one target table, undo       *)
(* their rows when something raises, and share the table's unique key;     *)
(* and the requests that cancel them.                                      *)
(***************************************************************************)
EXTENDS Naturals, FiniteSets

CONSTANTS
    Jobs,
    Callers,        \* concurrent PUT /imports/{id}/cancel requests
    RowsOf,         \* RowsOf[j]: the rows of job j's source, by their unique key
    BatchSize,      \* import_streaming_batch_size
    MaxCancels,     \* bound: cancel requests
    MaxFailures,    \* bound: calls of the database, redis, the source, ... that raise
    MaxCrashes      \* bound: restarts of the web process

ASSUME RowsAssumption ==
    /\ DOMAIN RowsOf = Jobs
    /\ \A j \in Jobs : IsFiniteSet(RowsOf[j]) /\ RowsOf[j] \subseteq Nat
ASSUME BoundsAssumption ==
    /\ BatchSize \in Nat \ {0}
    /\ MaxCancels \in Nat /\ MaxFailures \in Nat /\ MaxCrashes \in Nat

Keys == UNION {RowsOf[j] : j \in Jobs}
None == "none"

VARIABLES
    job,            \* job[j]: the row of import_jobs
    table,          \* table[j]: rows of the target table that job j inserted
    errorRows,      \* errorRows[j]: rows with a line in import_errors
    task,           \* task[j]: the local variables of run_import_job
    cancelling,     \* cancelling[c]: the job whose status c found not to be final
    lost,           \* jobs whose task ended without writing an end
    kept,           \* jobs whose rows could not be deleted
    cancels, failures, crashes      \* bounded: see MaxCancels, MaxFailures, MaxCrashes

vars == <<job, table, errorRows, task, cancelling, lost, kept, cancels, failures, crashes>>

Final == {"completed", "failed", "cancelled"}
JobRow == [status : {None, "queued", "running"} \cup Final,
           imported : Nat, errors : Nat, rolledBack : BOOLEAN]
NewJob == [status |-> None, imported |-> 0, errors |-> 0, rolledBack |-> FALSE]

\* Where the task stands, the rows it has read, those it made an object of
\* (inserted_ids) and whether it is in, or has been through, the except branch.
NewTask == [at |-> None, read |-> {}, inserted |-> {}, undoing |-> FALSE]
Active == {"count", "read", "write", "finish", "announce"}       \* inside the try
Recovery == {"undo", "mark"}
Task == [at : {None, "start", "prepare", "done"} \cup Active \cup Recovery,
         read : SUBSET Keys, inserted : SUBSET Keys, undoing : BOOLEAN]

Init ==
    /\ job = [j \in Jobs |-> NewJob]
    /\ table = [j \in Jobs |-> {}]
    /\ errorRows = [j \in Jobs |-> {}]
    /\ task = [j \in Jobs |-> NewTask]
    /\ cancelling = [c \in Callers |-> None]
    /\ lost = {}
    /\ kept = {}
    /\ cancels = 0
    /\ failures = 0
    /\ crashes = 0

-----------------------------------------------------------------------------
(* Shorthands.                                                             *)

Data   == <<table, errorRows>>
Ghosts == <<lost, kept>>
Bounds == <<cancels, failures, crashes>>

Goto(j, place) == task' = [task EXCEPT ![j].at = place]
SetStatus(j, s) == job' = [job EXCEPT ![j].status = s]
Fail == failures < MaxFailures /\ failures' = failures + 1 /\ UNCHANGED <<cancels, crashes>>

-----------------------------------------------------------------------------
(* create_import_job and the first part of run_import_job                  *)

\* The job is committed as queued; the task is started unless redis or the plugin
\* discovery raises.
CreateJob(j) ==
    /\ job[j].status = None
    /\ SetStatus(j, "queued")
    /\ \/ Goto(j, "start") /\ UNCHANGED <<lost, Bounds>>
       \/ Fail /\ lost' = lost \cup {j} /\ UNCHANGED task
    /\ UNCHANGED <<Data, cancelling, kept>>

\* RUNNING is committed, whatever the status was.
Start(j) ==
    /\ task[j].at = "start"
    /\ SetStatus(j, "running")
    /\ Goto(j, "prepare")
    /\ UNCHANGED <<Data, cancelling, Ghosts, Bounds>>

\* The connector, the model class, the credentials and the field maps.
Prepare(j) ==
    /\ task[j].at = "prepare"
    /\ \/ Goto(j, "count") /\ UNCHANGED job                         \* all is well
       \/ Goto(j, "done") /\ SetStatus(j, "failed")                 \* no such table, no organization
    /\ UNCHANGED <<Data, cancelling, Ghosts, Bounds>>

\* What raises before the try is not caught.
RaiseEarly(j) ==
    /\ task[j].at \in {"start", "prepare"} /\ Fail
    /\ Goto(j, "done")
    /\ lost' = lost \cup {j}
    /\ UNCHANGED <<job, Data, cancelling, kept>>

-----------------------------------------------------------------------------
(* The try.                                                                *)

\* count_rows, total_rows is committed and announced.
Count(j) ==
    /\ task[j].at = "count"
    /\ Goto(j, "read")
    /\ UNCHANGED <<job, Data, cancelling, Ghosts, Bounds>>

\* The next batch of stream_rows: an object, or an error, for each row.
Left(j) == RowsOf[j] \ task[j].read
Batch(j) == {r \in Left(j) : Cardinality({q \in Left(j) : q < r}) < BatchSize}
ReadWithoutIds(j) ==                                \* fault: inserted_ids forgets a batch
    /\ task[j].at = "read" /\ Left(j) # {}
    /\ \E good \in SUBSET Batch(j) :
          task' = [task EXCEPT ![j].at = "write", ![j].read = @ \cup Batch(j), ![j].inserted = good]
    /\ UNCHANGED <<job, Data, cancelling, Ghosts, Bounds>>
ReadBatch(j) ==
    /\ task[j].at = "read" /\ Left(j) # {}
    /\ \E good \in SUBSET Batch(j) :
          task' = [task EXCEPT ![j].at = "write", ![j].read = @ \cup Batch(j), ![j].inserted = @ \cup good]
    /\ UNCHANGED <<job, Data, cancelling, Ghosts, Bounds>>
ReadEnd(j) ==
    /\ task[j].at = "read" /\ Left(j) = {}
    /\ Goto(j, "finish")
    /\ UNCHANGED <<job, Data, cancelling, Ghosts, Bounds>>

\* Objects, errors and counts are committed together.
Clashes(j) == \E k \in Jobs \ {j} : task[j].inserted \cap table[k] # {}
Raise(j) == task' = [task EXCEPT ![j].at = "undo", ![j].undoing = TRUE]
WriteUncounted(j) ==                                \* fault: the counts are not written
    /\ task[j].at = "write" /\ ~Clashes(j)
    /\ table' = [table EXCEPT ![j] = @ \cup task[j].inserted]
    /\ errorRows' = [errorRows EXCEPT ![j] = task[j].read \ task[j].inserted]
    /\ Goto(j, "read")
    /\ UNCHANGED <<job, cancelling, Ghosts, Bounds>>
WriteBatch(j) ==
    /\ task[j].at = "write" /\ ~Clashes(j)
    /\ table' = [table EXCEPT ![j] = @ \cup task[j].inserted]
    /\ errorRows' = [errorRows EXCEPT ![j] = task[j].read \ task[j].inserted]
    /\ job' = [job EXCEPT ![j].imported = Cardinality(task[j].inserted),
                          ![j].errors = Cardinality(task[j].read \ task[j].inserted)]
    /\ Goto(j, "read")
    /\ UNCHANGED <<cancelling, Ghosts, Bounds>>

\* Another row has the key of one of the objects: the flush raises.
WriteClash(j) ==
    /\ task[j].at = "write" /\ Clashes(j)
    /\ Raise(j)
    /\ UNCHANGED <<job, Data, cancelling, Ghosts, Bounds>>

Finish(j) ==
    /\ task[j].at = "finish"
    /\ SetStatus(j, "completed")
    /\ Goto(j, "announce")
    /\ UNCHANGED <<Data, cancelling, Ghosts, Bounds>>

Announce(j) ==
    /\ task[j].at = "announce"
    /\ Goto(j, "done")
    /\ UNCHANGED <<job, Data, cancelling, Ghosts, Bounds>>

\* Any call inside the try raises, the last announcement included.
RaiseInTry(j) ==
    /\ task[j].at \in Active /\ Fail
    /\ Raise(j)
    /\ UNCHANGED <<job, Data, cancelling, Ghosts>>

-----------------------------------------------------------------------------
(* The except branch.                                                      *)

\* The rows are deleted by id.
UndoByKey(j) ==                                     \* fault: by key
    /\ task[j].at = "undo"
    /\ table' = [k \in Jobs |-> table[k] \ task[j].inserted]
    /\ Goto(j, "mark")
    /\ UNCHANGED <<job, errorRows, cancelling, Ghosts, Bounds>>
Undo(j) ==
    /\ task[j].at = "undo"
    /\ table' = [table EXCEPT ![j] = @ \ task[j].inserted]
    /\ Goto(j, "mark")
    /\ UNCHANGED <<job, errorRows, cancelling, Ghosts, Bounds>>

\* Neither error is reported.  A DELETE that fails leaves the transaction aborted, and
\* the job cannot be marked; after a COMMIT that fails it can.
UndoFails(j) ==
    /\ task[j].at = "undo" /\ task[j].inserted # {} /\ Fail
    /\ kept' = kept \cup {j}
    /\ \/ Goto(j, "done") /\ lost' = lost \cup {j}
       \/ Goto(j, "mark") /\ UNCHANGED lost
    /\ UNCHANGED <<job, Data, cancelling>>

MarkFlagOnly(j) ==                                  \* fault: the status stays
    /\ task[j].at = "mark"
    /\ job' = [job EXCEPT ![j].rolledBack = TRUE]
    /\ Goto(j, "done")
    /\ UNCHANGED <<Data, cancelling, Ghosts, Bounds>>
Mark(j) ==
    /\ task[j].at = "mark"
    /\ job' = [job EXCEPT ![j].status = "failed", ![j].rolledBack = TRUE]
    /\ Goto(j, "done")
    /\ UNCHANGED <<Data, cancelling, Ghosts, Bounds>>

MarkFails(j) ==
    /\ task[j].at = "mark" /\ Fail
    /\ Goto(j, "done")
    /\ lost' = lost \cup {j}
    /\ UNCHANGED <<job, Data, cancelling, kept>>

-----------------------------------------------------------------------------
(* PUT /imports/{id}/cancel, and the process.                              *)

CancelRead(c, j) ==
    /\ cancels < MaxCancels /\ cancelling[c] = None
    /\ job[j].status \notin Final \cup {None}
    /\ cancelling' = [cancelling EXCEPT ![c] = j]
    /\ cancels' = cancels + 1
    /\ UNCHANGED <<job, Data, task, Ghosts, failures, crashes>>

CancelWrite(c) ==
    /\ cancelling[c] # None
    /\ SetStatus(cancelling[c], "cancelled")
    /\ cancelling' = [cancelling EXCEPT ![c] = None]
    /\ UNCHANGED <<Data, task, Ghosts, Bounds>>

\* Nothing resumes the tasks of the process that died.
Crash ==
    /\ crashes < MaxCrashes
    /\ crashes' = crashes + 1
    /\ LET running == {j \in Jobs : task[j].at \notin {None, "done"}}
       IN  /\ task' = [j \in Jobs |-> IF j \in running THEN [task[j] EXCEPT !.at = "done"] ELSE task[j]]
           /\ lost' = lost \cup {j \in running : task[j].at # "announce"}
    /\ cancelling' = [c \in Callers |-> None]
    /\ UNCHANGED <<job, Data, kept, cancels, failures>>

Work(j) ==
    \/ Start(j) \/ Prepare(j)
    \/ Count(j) \/ ReadBatch(j) \/ ReadEnd(j) \/ WriteBatch(j) \/ WriteClash(j)
    \/ Finish(j) \/ Announce(j)
    \/ Undo(j) \/ Mark(j)

Next ==
    \/ \E j \in Jobs :
          \/ CreateJob(j)
          \/ Work(j)
          \/ RaiseEarly(j) \/ RaiseInTry(j) \/ UndoFails(j) \/ MarkFails(j)
    \/ \E c \in Callers : (\E j \in Jobs : CancelRead(c, j)) \/ CancelWrite(c)
    \/ Crash

Spec == Init /\ [][Next]_vars
\* The event loop goes on running the tasks.
FairSpec == Spec /\ \A j \in Jobs : WF_vars(Work(j))

-----------------------------------------------------------------------------
(* Properties.                                                             *)

TypeOK ==
    /\ job \in [Jobs -> JobRow]
    /\ table \in [Jobs -> SUBSET Keys]
    /\ errorRows \in [Jobs -> SUBSET Keys]
    /\ task \in [Jobs -> Task]
    /\ cancelling \in [Callers -> Jobs \cup {None}]
    /\ lost \in SUBSET Jobs /\ kept \in SUBSET Jobs
    /\ cancels \in 0..MaxCancels
    /\ failures \in 0..MaxFailures
    /\ crashes \in 0..MaxCrashes

\* A job that is marked as rolled back has left no row behind, whatever batch it was
\* in when it failed, unless the deletion itself failed.
RolledBackLeavesNothing ==
    \A j \in Jobs : job[j].rolledBack /\ j \notin kept => table[j] = {}

\* A completed job has a row or an error for every row of its source, and keeps them
\* whatever other jobs on the table undo, unless its own last announcement failed.
CompletedIsWhole ==
    \A j \in Jobs : job[j].status = "completed" /\ ~task[j].undoing =>
        /\ table[j] \cup errorRows[j] = RowsOf[j]
        /\ job[j].imported + job[j].errors = Cardinality(RowsOf[j])

\* The counts that are polled are those of the rows in the tables, at any moment
\* before a job undoes its rows.
CountsMatchTables ==
    \A j \in Jobs :
        /\ ~task[j].undoing => job[j].imported = Cardinality(table[j])
        /\ job[j].errors = Cardinality(errorRows[j])

\* A job does not stay queued or running for ever, unless its task was lost: a crash,
\* or something raised where nothing catches it.
JobEnds ==
    \A j \in Jobs : [](job[j].status \in {"queued", "running"} =>
                         <>(job[j].status \in Final \/ j \in lost))
=============================================================================
