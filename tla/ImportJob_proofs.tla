-------------------------- MODULE ImportJob_proofs --------------------------
(***************************************************************************)
(* For any set of jobs, sources, batch size and number of failures and     *)
(* crashes: type correctness, and that completed jobs are whole, rolled    *)
(* back ones leave nothing behind and the counts are those of the tables.  *)
(***************************************************************************)
EXTENDS ImportJob, FiniteSetTheorems, TLAPS

\* The task reads rows of its source; its rows and errors are among those it read.
Reading(j) ==
    /\ task[j].inserted \subseteq task[j].read /\ task[j].read \subseteq RowsOf[j]
    /\ table[j] \subseteq task[j].inserted
    /\ errorRows[j] \subseteq task[j].read \ task[j].inserted

\* Between two batches the tables hold everything that was read.
Written(j) ==
    /\ table[j] = task[j].inserted
    /\ errorRows[j] = task[j].read \ task[j].inserted

\* The except branch is entered once, and before it nothing is undone.
Phase(j) ==
    /\ task[j].at \in {None, "start", "prepare", "count"} => task[j].read = {}
    /\ task[j].at \in Recovery => task[j].undoing
    /\ task[j].undoing => task[j].at \in Recovery \cup {"done"}
    /\ task[j].at \in {"read", "finish", "announce"} => Written(j)
    /\ task[j].at \in {"finish", "announce"} => task[j].read = RowsOf[j]

\* The task comes after the job; after the undo nothing is left, and only a task that
\* is over is marked.
Undone(j) ==
    /\ job[j].status = None => task[j].at = None
    /\ task[j].at = "mark" => table[j] = {} \/ j \in kept
    /\ job[j].rolledBack => task[j].at = "done" /\ (table[j] = {} \/ j \in kept)

\* COMPLETED is written after the last batch.
Whole(j) ==
    job[j].status = "completed" =>
        /\ task[j].at \in {"announce", "done"} \cup Recovery
        /\ ~task[j].undoing => Written(j) /\ task[j].read = RowsOf[j]

Counted(j) ==
    /\ ~task[j].undoing => job[j].imported = Cardinality(table[j])
    /\ job[j].errors = Cardinality(errorRows[j])

JobInv(j) == Reading(j) /\ Phase(j) /\ Undone(j) /\ Whole(j) /\ Counted(j)
IInv == TypeOK /\ \A j \in Jobs : JobInv(j)

-----------------------------------------------------------------------------
LEMMA NewTaskType == NewTask \in Task /\ NewJob \in JobRow
  BY DEF NewTask, Task, NewJob, JobRow, Active, Recovery, Final, None

\* The rows of a source and the subsets of them can be counted.
LEMMA Countable ==
  ASSUME NEW j \in Jobs, NEW S \in SUBSET RowsOf[j]
  PROVE  IsFiniteSet(S) /\ Cardinality(S) \in Nat /\ S \subseteq Keys
  BY RowsAssumption, FS_Subset, FS_CardinalityType DEF Keys

LEMMA InitIInv == Init => IInv
  <1> SUFFICES ASSUME Init PROVE IInv OBVIOUS
  <1>1. TypeOK
    BY NewTaskType, BoundsAssumption DEF Init, TypeOK
  <1>2. ASSUME NEW j \in Jobs PROVE JobInv(j)
    BY FS_EmptySet DEF Init, JobInv, Reading, Phase, Written, Undone, Whole, Counted, NewTask, NewJob,
       Active, Recovery, None
  <1> QED BY <1>1, <1>2 DEF IInv

\* What a job's invariant says of the job depends on its own rows only.
LEMMA Untouched ==
  ASSUME NEW j \in Jobs, JobInv(j), job'[j] = job[j], table'[j] = table[j],
         errorRows'[j] = errorRows[j], task'[j] = task[j], kept \subseteq kept'
  PROVE  JobInv(j)'
  BY DEF JobInv, Reading, Phase, Written, Undone, Whole, Counted

\* What Goto and SetStatus do to the job they name, and that they keep the types.
LEMMA GotoEffect ==
  ASSUME NEW j \in Jobs, TypeOK, NEW place, Goto(j, place),
         place \in {None, "start", "prepare", "done"} \cup Active \cup Recovery
  PROVE  /\ task' \in [Jobs -> Task]
         /\ task'[j].at = place /\ task'[j].read = task[j].read
         /\ task'[j].inserted = task[j].inserted /\ task'[j].undoing = task[j].undoing
         /\ \A k \in Jobs : k # j => task'[k] = task[k]
  BY DEF Goto, TypeOK, Task

LEMMA SetStatusEffect ==
  ASSUME NEW j \in Jobs, TypeOK, NEW s \in {"queued", "running"} \cup Final, SetStatus(j, s)
  PROVE  /\ job' \in [Jobs -> JobRow]
         /\ job'[j].status = s /\ job'[j].imported = job[j].imported
         /\ job'[j].errors = job[j].errors /\ job'[j].rolledBack = job[j].rolledBack
         /\ \A k \in Jobs : k # j => job'[k] = job[k]
  BY DEF SetStatus, TypeOK, JobRow

LEMMA FailType == TypeOK /\ Fail => failures' \in 0..MaxFailures /\ UNCHANGED <<cancels, crashes>>
  BY BoundsAssumption DEF Fail, TypeOK

-----------------------------------------------------------------------------
\* The steps of a task keep the types and the invariant of their job, and leave
\* those of the other jobs alone.
LEMMA CreateStep == ASSUME NEW j \in Jobs, IInv, CreateJob(j) PROVE IInv'
  <1> USE DEF IInv, Data, Ghosts, Bounds
  <1>1. /\ job' \in [Jobs -> JobRow] /\ job'[j].status = "queued"
        /\ job'[j].imported = job[j].imported /\ job'[j].errors = job[j].errors
        /\ job'[j].rolledBack = job[j].rolledBack
        /\ \A k \in Jobs : k # j => job'[k] = job[k]
    BY SetStatusEffect DEF CreateJob
  <1>2. UNCHANGED <<table, errorRows, cancelling, kept>>
    BY DEF CreateJob
  <1>3. task[j].at = None /\ ~task[j].undoing /\ ~job[j].rolledBack
    BY DEF CreateJob, JobInv, Undone, Phase, Recovery, None
  <1>4. CASE Goto(j, "start") /\ UNCHANGED <<lost, cancels, failures, crashes>>
    <2>1. task' \in [Jobs -> Task] /\ task'[j].at = "start" /\ task'[j].read = task[j].read
          /\ task'[j].inserted = task[j].inserted /\ task'[j].undoing = task[j].undoing
          /\ \A k \in Jobs : k # j => task'[k] = task[k]
      BY <1>4, GotoEffect
    <2>2. TypeOK'
      BY <1>1, <1>2, <1>4, <2>1 DEF TypeOK
    <2>3. \A k \in Jobs : k # j => JobInv(k)'
      BY <1>1, <1>2, <2>1, Untouched
    <2>4. JobInv(j)'
      BY <1>1, <1>2, <1>3, <2>1 DEF JobInv, Reading, Phase, Written, Undone, Whole, Counted, Active, Recovery, None
    <2> QED BY <2>2, <2>3, <2>4
  <1>5. CASE Fail /\ lost' = lost \cup {j} /\ UNCHANGED task
    <2>1. TypeOK'
      BY <1>1, <1>2, <1>5, FailType DEF TypeOK
    <2>2. \A k \in Jobs : k # j => JobInv(k)'
      BY <1>1, <1>2, <1>5, Untouched
    <2>3. JobInv(j)'
      BY <1>1, <1>2, <1>3, <1>5 DEF JobInv, Reading, Phase, Written, Undone, Whole, Counted, Active, Recovery, None
    <2> QED BY <2>1, <2>2, <2>3
  <1> QED BY <1>4, <1>5 DEF CreateJob

\* A step that moves the task and perhaps the status, and leaves the tables alone.
LEMMA MoveStep ==
  ASSUME NEW j \in Jobs, IInv, NEW place \in {None, "start", "prepare", "done"} \cup Active \cup Recovery,
         Goto(j, place),
         UNCHANGED <<table, errorRows, cancelling, kept>>,
         lost' \in SUBSET Jobs,
         UNCHANGED <<cancels, crashes>>, failures' \in 0..MaxFailures,
         \/ UNCHANGED job
         \/ \E s \in {"queued", "running"} \cup Final : SetStatus(j, s),
         place # None, ~job[j].rolledBack,
         place \notin Recovery, task[j].undoing => place = "done",
         place \in {"start", "prepare", "count"} => task[j].read = {},
         place \in {"read", "finish", "announce"} => Written(j),
         place \in {"finish", "announce"} => task[j].read = RowsOf[j],
         job'[j].status = "completed" =>
             /\ place \in {"announce", "done"}
             /\ ~task[j].undoing => Written(j) /\ task[j].read = RowsOf[j],
         job'[j].status # None
  PROVE  IInv'
  <1> USE DEF IInv
  <1>1. task' \in [Jobs -> Task] /\ task'[j].at = place /\ task'[j].read = task[j].read
        /\ task'[j].inserted = task[j].inserted /\ task'[j].undoing = task[j].undoing
        /\ \A k \in Jobs : k # j => task'[k] = task[k]
    BY GotoEffect
  <1>2. /\ job' \in [Jobs -> JobRow]
        /\ job'[j].imported = job[j].imported /\ job'[j].errors = job[j].errors
        /\ job'[j].rolledBack = job[j].rolledBack
        /\ \A k \in Jobs : k # j => job'[k] = job[k]
    BY SetStatusEffect DEF TypeOK
  <1>3. TypeOK'
    BY <1>1, <1>2 DEF TypeOK
  <1>4. \A k \in Jobs : k # j => JobInv(k)'
    BY <1>1, <1>2, Untouched
  <1>5. JobInv(j)'
    BY <1>1, <1>2 DEF JobInv, Reading, Phase, Written, Undone, Whole, Counted, Active, Recovery, None
  <1> QED BY <1>3, <1>4, <1>5

LEMMA EarlyStep ==
  ASSUME NEW j \in Jobs, IInv, Start(j) \/ Prepare(j) \/ RaiseEarly(j)
  PROVE  IInv'
  <1> USE DEF IInv, Data, Ghosts, Bounds
  <1>1. /\ ~job[j].rolledBack /\ ~task[j].undoing
        /\ job[j] \in JobRow /\ job[j].status # "completed" /\ job[j].status # None
        /\ lost \in SUBSET Jobs /\ failures \in 0..MaxFailures
    BY DEF Start, Prepare, RaiseEarly, TypeOK, JobInv, Phase, Undone, Whole, Recovery, None
  <1>0. Start(j) \/ Prepare(j) => task[j].read = {}
    BY DEF Start, Prepare, JobInv, Phase, None
  <1>2. CASE Start(j)
    <2>1. SetStatus(j, "running") /\ Goto(j, "prepare")
      BY <1>2 DEF Start
    <2>2. job'[j].status = "running"
      BY <2>1, SetStatusEffect
    <2> QED BY <1>1, <1>2, <2>1, <2>2, <1>0, MoveStep DEF Start, Active, Recovery, None
  <1>3. CASE Prepare(j)
    <2>1. CASE Goto(j, "count") /\ UNCHANGED job
      BY <1>1, <1>3, <2>1, <1>0, MoveStep DEF Prepare, Active, Recovery, None
    <2>2. CASE Goto(j, "done") /\ SetStatus(j, "failed")
      <3>1. job'[j].status = "failed" /\ "failed" \in Final
        BY <2>2, SetStatusEffect DEF Final
      <3> QED BY <1>1, <1>3, <2>2, <3>1, <1>0, MoveStep DEF Prepare, Active, Recovery, None
    <2> QED BY <1>3, <2>1, <2>2 DEF Prepare
  <1>4. CASE RaiseEarly(j)
    <2>1. failures' \in 0..MaxFailures /\ UNCHANGED <<cancels, crashes>>
      BY <1>4, FailType DEF RaiseEarly
    <2> QED BY <1>1, <1>4, <2>1, MoveStep DEF RaiseEarly, Active, Recovery, None
  <1> QED BY <1>2, <1>3, <1>4

LEMMA ReadStep ==
  ASSUME NEW j \in Jobs, IInv, Count(j) \/ ReadEnd(j)
  PROVE  IInv'
  <1> USE DEF IInv, Data, Ghosts, Bounds
  <1>1. /\ ~job[j].rolledBack /\ ~task[j].undoing
        /\ job[j].status # "completed" /\ job[j].status # None
        /\ lost \in SUBSET Jobs /\ failures \in 0..MaxFailures
        /\ task[j].read \subseteq RowsOf[j]
    BY DEF Count, ReadEnd, TypeOK, JobInv, Reading, Phase, Undone, Whole, Active, Recovery, None
  <1>2. CASE Count(j)
    <2>1. Written(j)
      BY <1>2, ZenonT(60) DEF Count, TypeOK, Task, JobInv, Reading, Phase, Written
    <2> QED BY <1>1, <1>2, <2>1, MoveStep DEF Count, Active, Recovery, None
  <1>3. CASE ReadEnd(j)
    <2>1. Written(j) /\ task[j].read = RowsOf[j]
      BY <1>1, <1>3 DEF ReadEnd, Left, JobInv, Phase
    <2> QED BY <1>1, <1>3, <2>1, MoveStep DEF ReadEnd, Active, Recovery, None
  <1> QED BY <1>2, <1>3

LEMMA BatchStep ==
  ASSUME NEW j \in Jobs, IInv, ReadBatch(j)
  PROVE  IInv'
  <1> USE DEF IInv
  <1>0. Batch(j) \subseteq RowsOf[j] \ task[j].read /\ RowsOf[j] \subseteq Keys
    BY Countable DEF Batch, Left
  <1>1. PICK good \in SUBSET Batch(j) :
          task' = [task EXCEPT ![j].at = "write", ![j].read = @ \cup Batch(j), ![j].inserted = @ \cup good]
    BY DEF ReadBatch
  <1>2. UNCHANGED <<job, table, errorRows, cancelling, lost, kept, cancels, failures, crashes>>
    BY DEF ReadBatch, Data, Ghosts, Bounds
  <1>3. /\ task' \in [Jobs -> Task]
        /\ task'[j].at = "write" /\ task'[j].undoing = task[j].undoing
        /\ task'[j].read = task[j].read \cup Batch(j)
        /\ task'[j].inserted = task[j].inserted \cup good
        /\ \A k \in Jobs : k # j => task'[k] = task[k]
    BY <1>0, <1>1, ZenonT(60) DEF TypeOK, Task, Active
  <1>4. TypeOK'
    BY <1>2, <1>3 DEF TypeOK
  <1>5. \A k \in Jobs : k # j => JobInv(k)'
    BY <1>2, <1>3, Untouched
  <1>6. task[j].at = "read"
    BY DEF ReadBatch
  <1>7. JobInv(j)'
    BY <1>0, <1>2, <1>3, <1>6 DEF JobInv, Reading, Phase, Written, Undone, Whole, Counted, Active, Recovery, None
  <1> QED BY <1>4, <1>5, <1>7

LEMMA WriteStep ==
  ASSUME NEW j \in Jobs, IInv, WriteBatch(j)
  PROVE  IInv'
  <1> USE DEF IInv
  <1>1. /\ task[j] \in Task /\ task[j].at = "write" /\ ~task[j].undoing
        /\ table[j] \subseteq task[j].inserted
        /\ task[j].inserted \subseteq task[j].read /\ task[j].read \subseteq RowsOf[j]
    BY DEF WriteBatch, TypeOK, JobInv, Reading, Phase, Recovery
  <1> DEFINE good == task[j].inserted
             bad  == task[j].read \ task[j].inserted
  <1>2. /\ Cardinality(good) \in Nat /\ Cardinality(bad) \in Nat
        /\ good \subseteq Keys /\ bad \subseteq Keys
    BY <1>1, Countable
  <1>3. /\ table' = [table EXCEPT ![j] = good]
        /\ errorRows' = [errorRows EXCEPT ![j] = bad]
        /\ job' = [job EXCEPT ![j].imported = Cardinality(good), ![j].errors = Cardinality(bad)]
        /\ task' = [task EXCEPT ![j].at = "read"]
        /\ UNCHANGED <<cancelling, lost, kept, cancels, failures, crashes>>
    <2>1. table[j] \cup good = good BY <1>1
    <2> QED BY <2>1 DEF WriteBatch, Goto, Ghosts, Bounds, TypeOK
  <1> HIDE DEF good, bad
  <1>4. TypeOK'
    BY <1>2, <1>3, ZenonT(60) DEF TypeOK, Task, JobRow, Active
  <1>5. /\ table'[j] = good /\ errorRows'[j] = bad
        /\ job'[j].imported = Cardinality(good) /\ job'[j].errors = Cardinality(bad)
        /\ job'[j].status = job[j].status /\ job'[j].rolledBack = job[j].rolledBack
        /\ task'[j].at = "read" /\ task'[j].read = task[j].read
        /\ task'[j].inserted = good /\ task'[j].undoing = FALSE
    BY <1>1, <1>3 DEF TypeOK, Task, JobRow, good
  <1>6. job[j].status \notin {"completed", None} /\ ~job[j].rolledBack
    BY <1>1 DEF TypeOK, JobRow, JobInv, Whole, Undone, Recovery, None
  <1>7. JobInv(j)'
    BY <1>1, <1>5, <1>6 DEF JobInv, Reading, Phase, Written, Undone, Whole, Counted, Active, Recovery, None, good, bad
  <1>8. ASSUME NEW k \in Jobs, k # j PROVE JobInv(k)'
    BY <1>3, <1>8, Untouched DEF TypeOK
  <1> QED BY <1>4, <1>7, <1>8

\* Entering the except branch.
LEMMA RaiseStep ==
  ASSUME NEW j \in Jobs, IInv, Raise(j), task[j].at \in Active,
         UNCHANGED <<job, table, errorRows, cancelling, lost, kept, cancels, crashes>>,
         failures' \in 0..MaxFailures
  PROVE  IInv'
  <1> USE DEF IInv
  <1>1. /\ task' \in [Jobs -> Task]
        /\ task'[j].at = "undo" /\ task'[j].undoing = TRUE
        /\ task'[j].read = task[j].read /\ task'[j].inserted = task[j].inserted
        /\ \A k \in Jobs : k # j => task'[k] = task[k]
    BY DEF Raise, TypeOK, Task, Recovery
  <1>2. TypeOK'
    BY <1>1 DEF TypeOK
  <1>3. \A k \in Jobs : k # j => JobInv(k)'
    BY <1>1, Untouched
  <1>4. task[j].at \notin {"mark", "done", None}
    BY DEF Active, None
  <1>5. JobInv(j)'
    BY <1>1, <1>4 DEF JobInv, Reading, Phase, Written, Undone, Whole, Counted, Active, Recovery, None
  <1> QED BY <1>2, <1>3, <1>5

LEMMA EndStep ==
  ASSUME NEW j \in Jobs, IInv, WriteClash(j) \/ Finish(j) \/ Announce(j) \/ RaiseInTry(j)
  PROVE  IInv'
  <1> USE DEF IInv, Data, Ghosts, Bounds
  <1>1. lost \in SUBSET Jobs /\ failures \in 0..MaxFailures
    BY DEF TypeOK
  <1>2. CASE WriteClash(j)
    BY <1>1, <1>2, RaiseStep DEF WriteClash, Active
  <1>3. CASE RaiseInTry(j)
    <2>1. failures' \in 0..MaxFailures /\ UNCHANGED <<cancels, crashes>>
      BY <1>3, FailType DEF RaiseInTry
    <2> QED BY <1>3, <2>1, RaiseStep DEF RaiseInTry
  <1>4. ASSUME task[j].at \in {"finish", "announce"}
        PROVE  /\ ~job[j].rolledBack /\ ~task[j].undoing /\ job[j].status # None
               /\ Written(j) /\ task[j].read = RowsOf[j]
    BY <1>4 DEF JobInv, Phase, Undone, Active, Recovery, None
  <1>5. CASE Finish(j)
    <2>1. SetStatus(j, "completed") /\ "completed" \in Final
      BY <1>5 DEF Finish, Final
    <2>2. job'[j].status = "completed"
      BY <2>1, SetStatusEffect
    <2> QED BY <1>1, <1>4, <1>5, <2>1, <2>2, MoveStep DEF Finish, Active, Recovery, None
  <1>6. CASE Announce(j)
    BY <1>1, <1>4, <1>6, MoveStep DEF Announce, Active, Recovery, None
  <1> QED BY <1>2, <1>3, <1>5, <1>6

LEMMA RecoveryStep ==
  ASSUME NEW j \in Jobs, IInv, Undo(j) \/ UndoFails(j) \/ Mark(j) \/ MarkFails(j)
  PROVE  IInv'
  <1> USE DEF IInv, Data, Ghosts, Bounds
  <1>1. PICK place \in {"mark", "done"} : Goto(j, place)
    BY DEF Undo, UndoFails, Mark, MarkFails
  <1>2. /\ task' \in [Jobs -> Task] /\ task'[j].at = place /\ task'[j].read = task[j].read
        /\ task'[j].inserted = task[j].inserted /\ task'[j].undoing = task[j].undoing
        /\ \A k \in Jobs : k # j => task'[k] = task[k]
    BY <1>1, GotoEffect DEF Recovery
  <1>3. failures' \in 0..MaxFailures /\ UNCHANGED <<cancels, crashes, errorRows, cancelling>>
    BY FailType DEF Undo, UndoFails, Mark, MarkFails, TypeOK
  <1>4. /\ table' \in [Jobs -> SUBSET Keys] /\ \A k \in Jobs : k # j => table'[k] = table[k]
        /\ table'[j] \subseteq table[j]
    BY DEF Undo, UndoFails, Mark, MarkFails, TypeOK
  <1>5. kept \subseteq kept' /\ kept' \in SUBSET Jobs /\ lost' \in SUBSET Jobs
    BY DEF Undo, UndoFails, Mark, MarkFails, TypeOK
  <1>6. /\ job' \in [Jobs -> JobRow] /\ \A k \in Jobs : k # j => job'[k] = job[k]
        /\ job'[j].imported = job[j].imported /\ job'[j].errors = job[j].errors
    BY DEF Undo, UndoFails, Mark, MarkFails, TypeOK, JobRow, Final
  <1>7. /\ job'[j].status \in {job[j].status, "failed"}
        /\ job'[j].rolledBack => job[j].rolledBack \/ Mark(j)
    BY DEF Undo, UndoFails, Mark, MarkFails, TypeOK, JobRow
  <1>8. /\ task[j].at \in {"undo", "mark"}
        /\ Mark(j) => task[j].at = "mark" /\ place = "done"
        /\ place = "mark" => table'[j] = {} \/ j \in kept'
    <2>1. task[j].at \in {"undo", "mark"} /\ task[j] \in Task
      BY DEF Undo, UndoFails, Mark, MarkFails, TypeOK
    <2>2. Mark(j) => task[j].at = "mark" /\ place = "done"
      BY <1>2 DEF Mark, Goto, TypeOK, Task
    <2>3. Undo(j) => table'[j] = {}
      BY DEF Undo, TypeOK, JobInv, Reading
    <2>4. UndoFails(j) => j \in kept'
      BY DEF UndoFails
    <2>5. MarkFails(j) => place = "done"
      BY <1>2 DEF MarkFails, Goto, TypeOK, Task
    <2> QED BY <2>1, <2>2, <2>3, <2>4, <2>5
  <1>9. TypeOK'
    BY <1>2, <1>3, <1>4, <1>5, <1>6 DEF TypeOK
  <1>10. \A k \in Jobs : k # j => JobInv(k)'
    BY <1>2, <1>3, <1>4, <1>5, <1>6, Untouched
  <1>11. task[j].undoing /\ job[j].status # None /\ ~job[j].rolledBack
    BY <1>8 DEF JobInv, Phase, Undone, Recovery, None
  <1>12. JobInv(j)'
    BY <1>2, <1>3, <1>4, <1>5, <1>6, <1>7, <1>8, <1>11
       DEF JobInv, Reading, Phase, Written, Undone, Whole, Counted, Active, Recovery, None
  <1> QED BY <1>9, <1>10, <1>12

\* A cancellation writes the status and nothing else.
LEMMA CancelStep ==
  ASSUME NEW c \in Callers, IInv, (\E j \in Jobs : CancelRead(c, j)) \/ CancelWrite(c)
  PROVE  IInv'
  <1> USE DEF IInv
  <1>1. CASE \E j \in Jobs : CancelRead(c, j)
    <2>1. TypeOK'
      BY <1>1, BoundsAssumption DEF TypeOK, CancelRead, Data, Ghosts
    <2>2. ASSUME NEW k \in Jobs PROVE JobInv(k)'
      BY <1>1, Untouched DEF CancelRead, Data, Ghosts
    <2> QED BY <2>1, <2>2
  <1>2. CASE CancelWrite(c)
    <2> DEFINE j == cancelling[c]
    <2>1. TypeOK'
      BY <1>2 DEF TypeOK, CancelWrite, SetStatus, Data, Ghosts, Bounds, JobRow, Final
    <2>2. ASSUME NEW k \in Jobs PROVE JobInv(k)'
      <3>1. /\ job'[k].imported = job[k].imported /\ job'[k].errors = job[k].errors
            /\ job'[k].rolledBack = job[k].rolledBack
            /\ job'[k].status \in {job[k].status, "cancelled"}
        BY <1>2 DEF CancelWrite, SetStatus, TypeOK, JobRow
      <3>2. UNCHANGED <<table, errorRows, task, kept>>
        BY <1>2 DEF CancelWrite, Data, Ghosts
      <3> QED BY <3>1, <3>2 DEF JobInv, Reading, Phase, Written, Undone, Whole, Counted, None
    <2> QED BY <2>1, <2>2
  <1> QED BY <1>1, <1>2

LEMMA CrashStep == IInv /\ Crash => IInv'
  <1> SUFFICES ASSUME IInv, Crash PROVE IInv' OBVIOUS
  <1> USE DEF IInv
  <1>1. ASSUME NEW j \in Jobs
        PROVE  /\ task'[j] \in {task[j], [task[j] EXCEPT !.at = "done"]}
               /\ task[j] \in Task
    BY DEF Crash, TypeOK
  <1>2. TypeOK'
    <2>1. task' \in [Jobs -> Task]
      <3>1. DOMAIN task' = Jobs /\ task' = [j \in Jobs |-> task'[j]]
        BY DEF Crash
      <3>2. ASSUME NEW j \in Jobs PROVE task'[j] \in Task
        BY <1>1 DEF Task
      <3> QED BY <3>1, <3>2
    <2> QED BY <2>1, BoundsAssumption DEF TypeOK, Crash, Data
  <1>3. ASSUME NEW j \in Jobs PROVE JobInv(j)'
    <2>1. /\ task'[j].at \in {task[j].at, "done"} /\ task'[j].read = task[j].read
          /\ task'[j].inserted = task[j].inserted /\ task'[j].undoing = task[j].undoing
          /\ task[j].at = None => task'[j].at = None
      BY <1>1 DEF Crash, Task
    <2>2. UNCHANGED <<job, table, errorRows, kept>>
      BY DEF Crash, Data
    <2> QED BY <2>1, <2>2 DEF JobInv, Reading, Phase, Written, Undone, Whole, Counted, Active, Recovery, None
  <1> QED BY <1>2, <1>3

LEMMA StepIInv == IInv /\ [Next]_vars => IInv'
  <1> SUFFICES ASSUME IInv, [Next]_vars PROVE IInv' OBVIOUS
  <1>1. CASE \E j \in Jobs : \/ CreateJob(j) \/ Work(j)
                             \/ RaiseEarly(j) \/ RaiseInTry(j) \/ UndoFails(j) \/ MarkFails(j)
    BY <1>1, CreateStep, EarlyStep, ReadStep, BatchStep, WriteStep, EndStep, RecoveryStep DEF Work
  <1>2. CASE \E c \in Callers : (\E j \in Jobs : CancelRead(c, j)) \/ CancelWrite(c)
    BY <1>2, CancelStep
  <1>3. CASE Crash BY <1>3, CrashStep
  <1>4. CASE UNCHANGED vars
    <2>1. TypeOK'
      BY <1>4 DEF IInv, TypeOK, vars
    <2>2. ASSUME NEW k \in Jobs PROVE JobInv(k)'
      BY <1>4, Untouched DEF IInv, vars
    <2> QED BY <2>1, <2>2 DEF IInv
  <1> QED BY <1>1, <1>2, <1>3, <1>4 DEF Next

-----------------------------------------------------------------------------
LEMMA IInvSafe == IInv => TypeOK /\ RolledBackLeavesNothing /\ CompletedIsWhole /\ CountsMatchTables
  <1> SUFFICES ASSUME IInv PROVE RolledBackLeavesNothing /\ CompletedIsWhole /\ CountsMatchTables
    BY DEF IInv
  <1>1. RolledBackLeavesNothing
    BY DEF IInv, JobInv, Undone, RolledBackLeavesNothing
  <1>2. CountsMatchTables
    BY DEF IInv, JobInv, Counted, CountsMatchTables
  <1>3. ASSUME NEW j \in Jobs, job[j].status = "completed", ~task[j].undoing
        PROVE  /\ table[j] \cup errorRows[j] = RowsOf[j]
               /\ job[j].imported + job[j].errors = Cardinality(RowsOf[j])
    <2>1. /\ table[j] \subseteq RowsOf[j] /\ errorRows[j] \subseteq RowsOf[j]
          /\ table[j] \cup errorRows[j] = RowsOf[j] /\ table[j] \cap errorRows[j] = {}
          /\ job[j].imported = Cardinality(table[j]) /\ job[j].errors = Cardinality(errorRows[j])
      BY <1>3 DEF IInv, JobInv, Reading, Whole, Written, Counted
    <2>2. IsFiniteSet(table[j]) /\ IsFiniteSet(errorRows[j])
      BY <2>1, Countable
    <2>3. Cardinality(RowsOf[j]) =
            Cardinality(table[j]) + Cardinality(errorRows[j]) - Cardinality(table[j] \cap errorRows[j])
      BY <2>1, <2>2, FS_Union
    <2>4. Cardinality(table[j] \cap errorRows[j]) = 0
      BY <2>1, FS_EmptySet
    <2>5. Cardinality(table[j]) \in Nat /\ Cardinality(errorRows[j]) \in Nat
      BY <2>2, FS_CardinalityType
    <2> QED BY <2>1, <2>3, <2>4, <2>5
  <1> QED BY <1>1, <1>2, <1>3 DEF CompletedIsWhole

\* Every state has the types of TypeOK; a job that is marked as rolled back leaves
\* nothing behind; a completed one has a row or an error for every row of its source;
\* the counts are those of the tables.
THEOREM Correct ==
  Spec => [](TypeOK /\ RolledBackLeavesNothing /\ CompletedIsWhole /\ CountsMatchTables)
  BY InitIInv, StepIInv, IInvSafe, PTL DEF Spec

\* A rollback that was recorded has deleted every row of the job, those of batches whose
\* commit was never reported among them.
THEOREM RollbackDeletes == Spec => []RolledBackLeavesNothing
  BY Correct, PTL
=============================================================================
