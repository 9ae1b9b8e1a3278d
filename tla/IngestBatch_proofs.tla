------------------------- MODULE IngestBatch_proofs -------------------------
(***************************************************************************)
(* For any set of files, concurrency and number of errors and crashes:     *)
(* type correctness, the counts of the row, and what the worker, its       *)
(* coroutines and the cancellation may rely on from each other.            *)
(***************************************************************************)
EXTENDS IngestBatch, FiniteSetTheorems, TLAPS

Ended == {"done", "error"}
\* The phases in which the coroutine of a file has not reported it yet.
Open == {"begin", "fetch", "wait", "mark", "marking", "ingest", "report", "reporting", "retry", "retrying"}

\* A file is reported by its own coroutine, at its end.
Unreported ==
    \A f \in Files :
        /\ task[f] \in Open => /\ row.items[f] \notin Ended
                               /\ \A g \in Files : snap[g].items[f] \notin Ended
        /\ worker \in {"none", "created", "start"} => row.items[f] \notin Ended

\* The coroutines live while the worker awaits them, unless a transaction failed.
Lifetimes ==
    /\ worker \in {"none", "created", "start", "dead"} => \A f \in Files : task[f] = "none"
    /\ worker \in {"none", "created", "start"} => \A f, g \in Files : snap[g].items[f] \notin Ended
    /\ errors = 0 => /\ worker # "failing"
                     /\ \A f \in Files : task[f] # "raised"
                     /\ worker \in {"closing", "ended"} => \A f \in Files : task[f] = "over"
    /\ worker \in {"created", "start", "files"} => disk

\* The flag outlives the coroutines; only the cancel request writes "cancelled"; the
\* worker takes the batch off the session's list.
Cancelling ==
    /\ (cancel # "none" /\ errors = 0 /\ worker \in {"created", "start", "files"}) => flag
    /\ cancel # "none" => worker # "none"
    /\ worker = "none" => row.status = "none"
    /\ row.status = "cancelled" => cancel = "done"
    /\ PendingCleared

IInv == TypeOK /\ Unreported /\ Lifetimes /\ Cancelling /\ CountsMatchItems

-----------------------------------------------------------------------------
\* Files the row shows as ended.
Shown(r) == {f \in Files : r.items[f] \in Ended}

LEMMA ShownFinite ==
  ASSUME NEW r
  PROVE  IsFiniteSet(Shown(r)) /\ Cardinality(Shown(r)) \in Nat
  BY FilesAssumption, FS_Subset, FS_CardinalityType DEF Shown

LEMMA NewRowType == NewRow \in Row /\ NewRow.status = "none" /\ \A f \in Files : NewRow.items[f] = "queued"
  BY DEF NewRow, Row

LEMMA TotalType == Total \in Nat
  BY FilesAssumption, FS_CardinalityType DEF Total

LEMMA InitIInv == Init => IInv
  <1> SUFFICES ASSUME Init PROVE IInv OBVIOUS
  <1>1. TypeOK
    <2>1. errors \in 0..MaxDbErrors /\ crashes \in 0..MaxCrashes
      BY BoundsAssumption DEF Init
    <2>2. snap \in [Files -> Row] /\ task \in [Files -> TaskPhases]
      BY NewRowType DEF Init, TaskPhases
    <2> QED BY <2>1, <2>2, NewRowType DEF Init, TypeOK
  <1>2. Unreported /\ Lifetimes /\ Cancelling
    BY NewRowType DEF Init, Unreported, Lifetimes, Cancelling, PendingCleared, Open, Ended
  <1>3. CountsMatchItems
    <2>1. {f \in Files : row.items[f] \in {"done", "error"}} = {}
      BY NewRowType DEF Init
    <2> QED BY <2>1, FS_EmptySet, SMTT(30) DEF Init, NewRow, CountsMatchItems
  <1> QED BY <1>1, <1>2, <1>3 DEF IInv

\* What Updated does to a row.
ItemsWith(r, f, s) == [r.items EXCEPT ![f] = s]
FailedWith(r, s) == IF s = "error" THEN r.failed + 1 ELSE r.failed
LEMMA UpdatedEffect ==
  ASSUME NEW f \in Files, NEW s \in {"running", "error"}
  PROVE  \A r \in Row :
         /\ Updated(r, f, s, s = "error") \in Row
         /\ Updated(r, f, s, s = "error").items = ItemsWith(r, f, s)
         /\ Updated(r, f, s, s = "error").completed = r.completed
         /\ Updated(r, f, s, s = "error").failed = FailedWith(r, s)
         /\ Updated(r, f, s, s = "error").status \in {r.status, "failed", "completed"}
  <1> TAKE r \in Row
  <1> DEFINE failed == FailedWith(r, s)
             last   == r.completed + failed >= Total /\ r.status = "running"
             status1 == IF ~last THEN r.status ELSE IF failed = Total THEN "failed" ELSE "completed"
             items1 == ItemsWith(r, f, s)
  <1>1. failed \in Nat
    BY DEF Row, FailedWith
  <1>2. status1 \in {r.status, "failed", "completed"} /\ r.status \in {"none"} \cup Terminal \cup {"pending", "running"}
    BY DEF Row, Terminal
  <1>3. items1 \in [Files -> {"queued", "running", "done", "error"}]
    BY DEF Row, ItemsWith
  <1>4. Updated(r, f, s, s = "error") = [r EXCEPT !.items = items1, !.failed = failed, !.status = status1]
    BY DEF Updated, Row, ItemsWith, FailedWith
  <1> HIDE DEF failed, status1, items1
  <1>5. /\ Updated(r, f, s, s = "error") \in Row
        /\ Updated(r, f, s, s = "error").items = items1
        /\ Updated(r, f, s, s = "error").completed = r.completed
        /\ Updated(r, f, s, s = "error").failed = failed
        /\ Updated(r, f, s, s = "error").status = status1
    BY <1>1, <1>2, <1>3, <1>4 DEF Row, Terminal
  <1> QED BY <1>2, <1>5 DEF failed, status1, items1

\* What CommitColumns does to the row and the selected rows.
LEMMA CommitEffect ==
  ASSUME TypeOK, NEW f \in Files, NEW s \in {"running", "error"},
         CommitColumns(f, Updated(snap[f], f, s, s = "error"))
  PROVE  /\ row' \in Row /\ snap' \in [Files -> Row]
         /\ row'.items = ItemsWith(snap[f], f, s)
         /\ row'.completed = row.completed
         /\ row = snap[f] => row'.failed = FailedWith(row, s)
         /\ row'.status \in {row.status, "failed", "completed"}
         /\ \A g \in Files : snap'[g] \in {snap[g], NewRow}
  <1> DEFINE new == Updated(snap[f], f, s, s = "error")
  <1>1. snap[f] \in Row /\ row \in Row
    BY DEF TypeOK
  <1>2. /\ new \in Row /\ new.items = ItemsWith(snap[f], f, s)
        /\ new.failed = FailedWith(snap[f], s)
        /\ new.status \in {snap[f].status, "failed", "completed"}
    BY <1>1, UpdatedEffect
  <1> HIDE DEF new
  <1>3. /\ snap' = [snap EXCEPT ![f] = NewRow]
        /\ row' = [row EXCEPT !.items = new.items,
                              !.failed = IF new.failed # snap[f].failed THEN new.failed ELSE @,
                              !.status = IF new.status # snap[f].status THEN new.status ELSE @]
    BY DEF CommitColumns, new
  <1>4. snap' \in [Files -> Row] /\ \A g \in Files : snap'[g] \in {snap[g], NewRow}
    BY <1>3, NewRowType DEF TypeOK
  <1>5. /\ row'.items = new.items /\ row'.completed = row.completed
        /\ row'.failed = IF new.failed # snap[f].failed THEN new.failed ELSE row.failed
        /\ row'.status = IF new.status # snap[f].status THEN new.status ELSE row.status
        /\ row' \in Row
    BY <1>1, <1>2, <1>3 DEF Row
  <1> QED BY <1>2, <1>4, <1>5

-----------------------------------------------------------------------------
(* Steps that leave the row's items and the selected rows alone.           *)

\* The counts are those of the items.
LEMMA CountsKept ==
  ASSUME CountsMatchItems, row'.items = row.items, row'.completed = row.completed,
         row'.failed = row.failed, clashes => clashes'
  PROVE  CountsMatchItems'
  BY DEF CountsMatchItems

LEMMA BatchStep == IInv /\ (CreateBatch \/ ScheduleBatch \/ StartRun) => IInv'
  <1> SUFFICES ASSUME IInv, CreateBatch \/ ScheduleBatch \/ StartRun PROVE IInv' OBVIOUS
  <1> USE DEF IInv, Session, Request, History
  <1>1. /\ row' \in Row /\ row'.items = row.items /\ row'.completed = row.completed
        /\ row'.failed = row.failed /\ row'.status \in {"pending", "running", row.status}
        /\ UNCHANGED <<snap, clashes>>
    BY DEF CreateBatch, ScheduleBatch, StartRun, TypeOK, Row
  <1>2. TypeOK'
    BY <1>1 DEF CreateBatch, ScheduleBatch, StartRun, TypeOK, TaskPhases
  <1>3. CountsMatchItems'
    BY <1>1, CountsKept
  <1>4. CASE CreateBatch
    BY <1>1, <1>2, <1>3, <1>4 DEF CreateBatch, Unreported, Lifetimes, Cancelling, PendingCleared, Open
  <1>5. CASE ScheduleBatch
    BY <1>1, <1>2, <1>3, <1>5 DEF ScheduleBatch, Unreported, Lifetimes, Cancelling, PendingCleared, Open
  <1>6. CASE StartRun
    <2>1. \A f \in Files : task'[f] = "begin"
      BY <1>6 DEF StartRun
    <2> QED BY <1>1, <1>2, <1>3, <1>6, <2>1
            DEF StartRun, Unreported, Lifetimes, Cancelling, PendingCleared, Open
  <1> QED BY <1>4, <1>5, <1>6

LEMMA MainStep == IInv /\ (GatherRaises \/ CleanUpFailed \/ CleanUp \/ RecordComplete \/ MainError) => IInv'
  <1> SUFFICES ASSUME IInv, GatherRaises \/ CleanUpFailed \/ CleanUp \/ RecordComplete \/ MainError
               PROVE  IInv'
    OBVIOUS
  <1> USE DEF IInv, Session, Request, History
  <1>1. /\ row' \in Row /\ row'.items = row.items /\ row'.completed = row.completed
        /\ row'.failed = row.failed /\ row'.status \in {"failed", row.status}
        /\ UNCHANGED <<task, snap, clashes, cancel, crashes, good>>
    BY DEF GatherRaises, CleanUpFailed, CleanUp, RecordComplete, MainError, TypeOK, Row
  <1>2. errors' \in 0..MaxDbErrors
    BY BoundsAssumption DEF GatherRaises, CleanUpFailed, CleanUp, RecordComplete, MainError, TypeOK
  <1>3. TypeOK'
    BY <1>1, <1>2 DEF GatherRaises, CleanUpFailed, CleanUp, RecordComplete, MainError, TypeOK
  <1>4. CountsMatchItems'
    BY <1>1, CountsKept
  <1>5. worker \in {"start", "files", "failing", "closing"} /\ worker' \in {"failing", "closing", "ended"}
    BY DEF GatherRaises, CleanUpFailed, CleanUp, RecordComplete, MainError
  <1>6. Unreported'
    BY <1>1, <1>5 DEF Unreported
  <1>7. Lifetimes'
    <2>1. errors' = 0 => /\ errors = 0 /\ worker \in {"files", "closing"} /\ worker' # "failing"
                         /\ worker = "files" => \A f \in Files : task[f] = "over"
      BY BoundsAssumption
         DEF GatherRaises, CleanUpFailed, CleanUp, RecordComplete, MainError, TypeOK, Lifetimes
    <2> QED BY <1>1, <1>5, <2>1 DEF Lifetimes
  <1>8. Cancelling'
    <2>1. worker' = "ended" /\ cancel' = "none" /\ errors' = 0 => ~pending'
      BY BoundsAssumption
         DEF GatherRaises, CleanUpFailed, CleanUp, RecordComplete, MainError, TypeOK, Lifetimes, Cancelling
    <2> QED BY <1>1, <1>5, <2>1 DEF Cancelling, PendingCleared
  <1> QED BY <1>3, <1>4, <1>6, <1>7, <1>8

LEMMA CancelStep == IInv /\ (CancelMark \/ CancelRead \/ CancelWrite) => IInv'
  <1> SUFFICES ASSUME IInv, CancelMark \/ CancelRead \/ CancelWrite PROVE IInv' OBVIOUS
  <1> USE DEF IInv, Session, Steps, History
  <1>1. /\ row' \in Row /\ row'.items = row.items /\ row'.completed = row.completed
        /\ row'.failed = row.failed /\ row'.status \in {"cancelled", row.status}
        /\ row'.status = "cancelled" => row.status = "cancelled" \/ cancel' = "done"
        /\ UNCHANGED <<worker, task, snap, disk, pending, ingested, good, errors, crashes>>
        /\ clashes => clashes'
        /\ clashes' \in BOOLEAN /\ flag' \in BOOLEAN
        /\ cancel' \in {"marked", "read", "done"}
        /\ flag => flag'
        /\ cancel = "none" => flag' /\ row.status # "none"
        /\ cancel = "done" => FALSE
        /\ row.status = "none" => row'.status = "none" \/ cancel # "none"
    BY DEF CancelMark, CancelRead, CancelWrite, TypeOK, Row
  <1>2. TypeOK'
    BY <1>1 DEF TypeOK
  <1>3. CountsMatchItems'
    BY <1>1, CountsKept
  <1>4. Unreported' /\ Lifetimes'
    BY <1>1 DEF Unreported, Lifetimes
  <1>5. Cancelling'
    BY <1>1 DEF Cancelling, PendingCleared
  <1> QED BY <1>2, <1>3, <1>4, <1>5

LEMMA CrashStep == IInv /\ Crash => IInv'
  <1> SUFFICES ASSUME IInv, Crash PROVE IInv' OBVIOUS
  <1> USE DEF IInv
  <1>1. TypeOK'
    <2>1. crashes' \in 0..MaxCrashes
      BY BoundsAssumption DEF Crash, TypeOK
    <2>2. snap' \in [Files -> Row] /\ task' \in [Files -> TaskPhases]
      BY NewRowType DEF Crash, TaskPhases
    <2> QED BY <2>1, <2>2 DEF Crash, TypeOK
  <1>2. CountsMatchItems'
    BY CountsKept DEF Crash
  <1>3. (\A f \in Files : task'[f] = "none") /\ worker' = "dead" /\ UNCHANGED <<row, errors>>
    BY DEF Crash
  <1>4. Unreported' /\ Lifetimes'
    BY <1>3 DEF Unreported, Lifetimes, Open
  <1>5. Cancelling'
    BY <1>3 DEF Crash, Cancelling, PendingCleared, TypeOK
  <1> QED BY <1>1, <1>2, <1>4, <1>5

-----------------------------------------------------------------------------
(* Steps of a file's coroutine.                                            *)

\* A coroutine that takes a step is awaited by the worker, or an error came between.
LEMMA Awaited ==
  ASSUME IInv, NEW f \in Files, task[f] \in Open
  PROVE  worker \notin {"none", "created", "start", "dead"} /\ (errors = 0 => worker = "files")
  BY DEF IInv, Lifetimes, Open, TypeOK

\* Steps that write nothing but what the coroutine knows.
LEMMA LocalStep ==
  ASSUME IInv, NEW f \in Files,
         TaskBegin(f) \/ TaskFetch(f) \/ TaskAcquire(f) \/ TaskIngest(f) \/ SelectRow(f) \/ TaskError(f)
  PROVE  IInv'
  <1> USE DEF IInv, Session, Request, History
  <1>1. /\ UNCHANGED <<row, worker, disk, flag, cancel, pending, ingested, clashes, crashes>>
        /\ good' \in SUBSET Files
        /\ task[f] \in Open
        /\ \E phase \in Open \cup {"over", "raised"} : Goto(f, phase) /\ (phase = "raised" => errors' > 0)
        /\ snap' = snap \/ (\E r \in {row, NewRow} : snap' = [snap EXCEPT ![f] = r])
        /\ errors' \in 0..MaxDbErrors /\ errors' >= errors
    BY BoundsAssumption DEF TaskBegin, TaskFetch, TaskAcquire, TaskIngest, SelectRow, TaskError, TypeOK, Open
  <1>2. PICK phase \in Open \cup {"over", "raised"} : Goto(f, phase) /\ (phase = "raised" => errors' > 0)
    BY <1>1
  <1>3. /\ task' \in [Files -> TaskPhases] /\ task'[f] = phase
        /\ \A g \in Files : g # f => task'[g] = task[g]
    BY <1>2 DEF Goto, TypeOK, TaskPhases, Open
  <1>4. snap' \in [Files -> Row] /\ \A g \in Files : snap'[g] \in {snap[g], row, NewRow}
    BY <1>1, NewRowType DEF TypeOK
  <1>5. TypeOK'
    BY <1>1, <1>3, <1>4 DEF TypeOK
  <1>6. CountsMatchItems'
    BY <1>1, CountsKept
  <1>7. worker \notin {"none", "created", "start", "dead"} /\ (errors = 0 => worker = "files")
    BY <1>1, Awaited
  <1>8. Unreported'
    <2>1. \A g \in Files : task'[g] \in Open => task[g] \in Open
      BY <1>1, <1>3
    <2> QED BY <1>1, <1>4, <1>7, <2>1, NewRowType DEF Unreported, Ended
  <1>9. errors' = 0 => errors = 0
    BY <1>1 DEF TypeOK
  <1>10. Lifetimes'
    BY <1>1, <1>2, <1>3, <1>7, <1>9 DEF Lifetimes, Open
  <1>11. Cancelling'
    BY <1>1, <1>9 DEF Cancelling, PendingCleared
  <1> QED BY <1>5, <1>6, <1>8, <1>10, <1>11

\* A commit shows its own file as ended, once, and no other that has not reported.
LEMMA CommitStep ==
  ASSUME IInv, NEW f \in Files, CommitRunning(f) \/ CommitReport(f)
  PROVE  IInv'
  <1> USE DEF IInv, Session, Request, History
  <1>1. /\ UNCHANGED <<worker, disk, flag, cancel, pending, ingested, good, errors, crashes>>
        /\ clashes' = (clashes \/ row # snap[f])
        /\ task[f] \in Open
    BY DEF CommitRunning, CommitReport, Open
  <1>2. PICK s \in {"running", "error"} :
            /\ CommitColumns(f, Updated(snap[f], f, s, s = "error"))
            /\ Goto(f, IF s = "error" THEN "over" ELSE "ingest")
    BY DEF CommitRunning, CommitReport
  <1>3. /\ row' \in Row /\ snap' \in [Files -> Row]
        /\ row'.items = ItemsWith(snap[f], f, s)
        /\ row'.completed = row.completed
        /\ row = snap[f] => row'.failed = FailedWith(row, s)
        /\ row'.status \in {row.status, "failed", "completed"}
        /\ \A g \in Files : snap'[g] \in {snap[g], NewRow}
    BY <1>2, CommitEffect
  <1>4. /\ task' \in [Files -> TaskPhases]
        /\ task'[f] = IF s = "error" THEN "over" ELSE "ingest"
        /\ \A g \in Files : g # f => task'[g] = task[g]
    BY <1>2 DEF Goto, TypeOK, TaskPhases
  <1>5. TypeOK'
    BY <1>1, <1>3, <1>4 DEF TypeOK
  <1>6. worker \notin {"none", "created", "start", "dead"} /\ (errors = 0 => worker = "files")
    BY <1>1, Awaited
  <1>7. /\ snap[f] \in Row /\ row \in Row
        /\ \A g \in Files : row'.items[g] = IF g = f THEN s ELSE snap[f].items[g]
    BY <1>3 DEF TypeOK, Row, ItemsWith
  <1>8. Unreported'
    <2>1. ASSUME NEW g \in Files, task'[g] \in Open
          PROVE  task[g] \in Open /\ (g = f => s = "running")
      BY <1>1, <1>4, <2>1 DEF Open
    <2> QED BY <1>1, <1>3, <1>6, <1>7, <2>1, NewRowType DEF Unreported, Ended
  <1>9. Lifetimes'
    BY <1>1, <1>4, <1>6 DEF Lifetimes
  <1>10. Cancelling'
    BY <1>1, <1>3, <1>6 DEF Cancelling, PendingCleared
  <1>11. CountsMatchItems'
    <2> SUFFICES ASSUME ~clashes'
                 PROVE  row'.completed + row'.failed = Cardinality(Shown(row'))
      BY DEF CountsMatchItems, Shown, Ended
    <2>1. ~clashes /\ row = snap[f]
      BY <1>1 DEF TypeOK
    <2>2. /\ row.completed + row.failed = Cardinality(Shown(row))
          /\ row.completed \in Nat /\ row.failed \in Nat
      BY <1>7, <2>1 DEF CountsMatchItems, Shown, Ended, Row
    <2>3. f \notin Shown(row)
      BY <1>1 DEF Unreported, Shown
    <2>4. CASE s = "running"
      <3>1. Shown(row') = Shown(row)
        BY <1>7, <2>1, <2>3, <2>4 DEF Shown, Ended
      <3> QED BY <1>3, <2>1, <2>2, <2>4, <3>1 DEF FailedWith
    <2>5. CASE s = "error"
      <3>1. Shown(row') = Shown(row) \cup {f}
        BY <1>7, <2>1, <2>5 DEF Shown, Ended
      <3>2. Cardinality(Shown(row) \cup {f}) = Cardinality(Shown(row)) + 1
        BY <2>3, ShownFinite, FS_AddElement
      <3> QED BY <1>3, <2>1, <2>2, <2>5, <3>1, <3>2 DEF FailedWith
    <2> QED BY <2>4, <2>5
  <1> QED BY <1>5, <1>8, <1>9, <1>10, <1>11

LEMMA StepIInv == IInv /\ [Next]_vars => IInv'
  <1> SUFFICES ASSUME IInv, [Next]_vars PROVE IInv' OBVIOUS
  <1>1. CASE CreateBatch \/ Main \/ MainError
    BY <1>1, BatchStep, MainStep DEF Main
  <1>2. CASE \E f \in Files : Work(f) \/ TaskError(f)
    BY <1>2, LocalStep, CommitStep DEF Work
  <1>3. CASE CancelMark \/ CancelRead \/ CancelWrite
    BY <1>3, CancelStep
  <1>4. CASE Crash
    BY <1>4, CrashStep
  <1>5. CASE UNCHANGED vars
    BY <1>5 DEF IInv, vars, TypeOK, Unreported, Lifetimes, Cancelling, PendingCleared, CountsMatchItems
  <1> QED BY <1>1, <1>2, <1>3, <1>4, <1>5 DEF Next

-----------------------------------------------------------------------------
\* A file is read by a coroutine that the worker awaits, with the uploads on disk.
LEMMA IInvFiles == IInv => FilesOutliveTheirTasks
  <1> SUFFICES ASSUME IInv, errors = 0, NEW f \in Files, task[f] = "ingest" PROVE disk
    BY DEF FilesOutliveTheirTasks
  <1>1. worker = "files"
    BY Awaited DEF Open
  <1> QED BY <1>1 DEF IInv, Lifetimes

\* Only the semaphore lets a coroutine start its file, and it looks at the flag.
NoNewFile ==
    (cancel # "none" /\ errors = 0) => \A f \in Files : task'[f] = "mark" => task[f] = "mark"

LEMMA StepNoNewFile == IInv /\ [Next]_vars => NoNewFile
  <1> SUFFICES ASSUME IInv, [Next]_vars, cancel # "none", errors = 0,
                      NEW f \in Files, task'[f] = "mark", task[f] # "mark"
               PROVE  FALSE
    BY DEF NoNewFile
  <1>1. TaskAcquire(f) /\ ~flag
    <2>1. task \in [Files -> TaskPhases]
      BY DEF IInv, TypeOK
    <2>2. task' # task
      OBVIOUS
    <2>3. CASE \E g \in Files : Work(g)
      <3>1. PICK g \in Files : Work(g)
        BY <2>3
      <3>2. CASE TaskAcquire(g)
        BY <2>1, <3>2 DEF TaskAcquire, Goto
      <3>3. CASE ~TaskAcquire(g)
        BY <2>1, <3>1, <3>3
           DEF Work, TaskBegin, TaskFetch, TaskIngest, SelectRow, CommitRunning, CommitReport, Goto
      <3> QED BY <3>2, <3>3
    <2>4. CASE \E g \in Files : TaskError(g)
      BY <2>1, <2>4 DEF TaskError, Goto
    <2>5. CASE StartRun \/ Crash
      BY <2>5 DEF StartRun, Crash
    <2> QED BY <2>2, <2>3, <2>4, <2>5 DEF Next, Main, CreateBatch, ScheduleBatch, GatherRaises, CleanUpFailed,
            CleanUp, RecordComplete, MainError, CancelMark, CancelRead, CancelWrite, Steps, vars
  <1>2. task[f] \in Open
    BY <1>1 DEF TaskAcquire, Open
  <1>3. worker = "files"
    BY <1>2, Awaited
  <1> QED BY <1>1, <1>3 DEF IInv, Cancelling

-----------------------------------------------------------------------------
\* Every state has the types of TypeOK, and the counts of the row are the files it
\* shows as finished unless a commit overwrote another one's update.
THEOREM Counts == Spec => [](TypeOK /\ CountsMatchItems)
  BY InitIInv, StepIInv, PTL DEF Spec, IInv

\* Every state has the types of TypeOK.
THEOREM TypesHold == Spec => []TypeOK
  BY Counts, PTL

\* Without failed transactions no file is read after its upload was removed, and the
\* session does not list a batch whose worker has ended.
THEOREM Lifetime == Spec => [](FilesOutliveTheirTasks /\ PendingCleared)
  <1>1. IInv => FilesOutliveTheirTasks /\ PendingCleared
    BY IInvFiles DEF IInv, Cancelling
  <1> QED BY InitIInv, StepIInv, <1>1, PTL DEF Spec

\* Once a cancellation was received, no further file is started.
THEOREM Cancellation == Spec => NothingStartsAfterCancel
  <1>1. IInv /\ [Next]_vars => [NoNewFile]_vars
    BY StepNoNewFile
  <1> QED BY InitIInv, StepIInv, <1>1, PTL DEF Spec, NothingStartsAfterCancel, NoNewFile
=============================================================================
