------------------------- MODULE RowAgreement_proofs -------------------------
(* What the row tells the user about the checkpoint, for any bounds of     *)
(* MigrationPipeline, while requests do not overlap: an ended migration    *)
(* stays ended; row and checkpoint agree at rest, and a decision meets the *)
(* gate it was posted for; a crash leaves a row the user can go on from.   *)
EXTENDS MigrationPipeline_proofs

-----------------------------------------------------------------------------
(* One run at a time.                                                      *)

Alone     == \A s, t \in Slots : run[s].pc # "idle" /\ run[t].pc # "idle" => s = t
Untouched == /\ AtRest /\ ckpt.next = Nowhere /\ ~ckpt.data.complete
             /\ \A n \in RerunTargets : hist[n] = {}
SoloInv   == (overlaps = 0 => Alone) /\ (job.status = "none" => Untouched)

\* The task of slot s takes a step, and no other is there.
Only(s) == /\ run[s].pc # "idle"
           /\ \A t \in Slots \ {s} : run[t].pc = "idle" /\ run'[t] = run[t]

LEMMA EnterFields ==
  ASSUME Typed, NEW s \in Slots, NEW k, NEW p, Enter(s, k, p)
  PROVE  /\ run'[s].pc = p /\ run'[s].at = "ingest_node" /\ run'[s].kind = k
         /\ run'[s].data = Fresh /\ run'[s].val = NoAnswer
         /\ \A t \in Slots \ {s} : run'[t] = run[t]
BY DEF Enter, Idle, Typed, TypeOK

LEMMA SubmitFields ==
  ASSUME Typed, NEW s \in Slots, NEW g \in GateTypes, NEW ok \in BOOLEAN, SubmitDecision(s, g, ok)
  PROVE  /\ run'[s].pc \in {"load", "queued"} /\ run'[s].at = "ingest_node"
         /\ run'[s].kind = "resume" /\ run'[s].data = Fresh /\ run'[s].val.for = g
         /\ \A t \in Slots \ {s} : run'[t] = run[t]
<1>1. PICK ph \in {"load", "queued"}, k \in {0, confirms + 1} :
         run' = [run EXCEPT ![s] = [Idle EXCEPT !.pc = ph, !.kind = "resume",
                                      !.val = [for |-> g, ok |-> ok, id |-> k]]]
  BY DEF SubmitDecision
<1> QED BY <1>1 DEF Idle, Typed, TypeOK

LEMMA RerunFields ==
  ASSUME Typed, NEW s \in Slots, NEW n \in RerunTargets, RerunCheck(s, n)
  PROVE  /\ run'[s].pc = "checked" /\ run'[s].kind = "rerun" /\ run'[s].at = n
         /\ run'[s].data \in hist[n] /\ run'[s].val = NoAnswer
         /\ \A t \in Slots \ {s} : run'[t] = run[t]
<1>1. PICK d \in hist[n] : run' = [run EXCEPT ![s] = [Idle EXCEPT !.pc = "checked", !.kind = "rerun",
                                              !.at = n, !.data = d]]
  BY DEF RerunCheck
<1> QED BY <1>1 DEF Idle, Typed, TypeOK

LEMMA LoadFields ==
  ASSUME Typed, NEW s \in Slots, LoadCheckpoint(s)
  PROVE  /\ run'[s].pc = (CASE ckpt.next = Nowhere -> "raised" [] ckpt.next = End -> "finish"
                            [] OTHER -> "node")
         /\ run'[s].at = (IF ckpt.next \in Nodes THEN ckpt.next ELSE End)
         /\ run'[s].data = ckpt.data /\ run'[s].kind = run[s].kind /\ run'[s].val = run[s].val
         /\ \A t \in Slots \ {s} : run'[t] = run[t]
BY DEF LoadCheckpoint, Typed, TypeOK, Runs

LEMMA CommitFields ==
  ASSUME Typed, NEW s \in Slots, CommitCheckpoint(s)
  PROVE  LET n == Successor(run[s].at, run[s].data)
         IN  /\ run'[s].pc = (IF run[s].at \in StepNodes \/ n = End THEN "finish" ELSE "node")
             /\ run'[s].at = n /\ run'[s].data = run[s].data /\ run'[s].kind = run[s].kind
             /\ run'[s].val = NoAnswer
             /\ \A t \in Slots \ {s} : run'[t] = run[t]
BY DEF CommitCheckpoint, Typed, TypeOK, Runs

\* What a step node computes leaves error_message and the status of the state alone.
LEMMA ResultsKeep ==
  ASSUME NEW n, NEW d \in Data, NEW x \in StepResults(n, d)
  PROVE  x.err = d.err /\ x.complete = d.complete /\ x \in Data
<1>0. x \in Data
  BY ResultsType
<1>1. ASSUME x \in IngestResults(d) \cup OutputResults(d) \cup PreprocessResults(d)
      PROVE  x.err = d.err /\ x.complete = d.complete
  BY <1>1 DEF IngestResults, OutputResults, PreprocessResults, With, Data
<1>2. ASSUME x \in SemanticResults(d) \cup HierarchyResults(d)
      PROVE  x.err = d.err /\ x.complete = d.complete
  BY <1>2 DEF SemanticResults, HierarchyResults, Data
<1>3. ASSUME x \in DeterministicResults(d) PROVE x.err = d.err /\ x.complete = d.complete
  <2>1. PICK o \in BOOLEAN : x \in {[d EXCEPT !.rev = r, !.open = o] : r \in BOOLEAN}
    BY <1>3 DEF DeterministicResults
  <2> QED BY <2>1 DEF Data
<1> QED BY <1>0, <1>1, <1>2, <1>3 DEF StepResults

LEMMA ProgressFields ==
  ASSUME Typed, NEW s \in Slots, StepProgress(s)
  PROVE  /\ run[s].pc = "node" /\ run[s].at \in StepNodes /\ UNCHANGED Elsewhere
         /\ run'[s].pc = "progressed" /\ run'[s].at = run[s].at /\ run'[s].kind = run[s].kind
         /\ run'[s].val = run[s].val
         /\ run'[s].data.err = run[s].data.err /\ run'[s].data.complete = run[s].data.complete
         /\ \A t \in Slots \ {s} : run'[t] = run[t]
<1>1. PICK d \in StepResults(run[s].at, run[s].data) : Yield(s, "progressed", d)
  BY DEF StepProgress
<1>2. d.err = run[s].data.err /\ d.complete = run[s].data.complete
  BY ResultsKeep, RunField DEF Typed, TypeOK
<1>3. run[s].pc = "node" /\ run[s].at \in StepNodes /\ UNCHANGED Elsewhere
  BY DEF StepProgress
<1> QED BY <1>1, <1>2, <1>3, YieldFields

LEMMA FailFields ==
  ASSUME Typed, NEW s \in Slots, StepFail(s)
  PROVE  /\ run[s].pc = "node" /\ run[s].at \in StepNodes
         /\ UNCHANGED <<job, Elsewhere, lost>>
         /\ run'[s].pc = "done" /\ run'[s].at = run[s].at /\ run'[s].kind = run[s].kind
         /\ run'[s].val = run[s].val
         /\ run'[s].data.err /\ run'[s].data.complete = run[s].data.complete
         /\ \A t \in Slots \ {s} : run'[t] = run[t]
<1>0. run[s].data \in Data
  BY RunField DEF Typed, TypeOK
<1>1. PICK d \in {run[s].data} \cup StepResults(run[s].at, run[s].data) :
         Yield(s, "done", [d EXCEPT !.err = TRUE])
  BY DEF StepFail
<1>2. d \in Data /\ d.complete = run[s].data.complete
  BY <1>0, <1>1, ResultsKeep
<1>3. [d EXCEPT !.err = TRUE].err /\ [d EXCEPT !.err = TRUE].complete = d.complete
  BY <1>2 DEF Data
<1>4. run[s].pc = "node" /\ run[s].at \in StepNodes /\ UNCHANGED <<job, Elsewhere, lost>>
  BY DEF StepFail
<1>5. /\ run'[s].pc = "done" /\ run'[s].at = run[s].at /\ run'[s].kind = run[s].kind
      /\ run'[s].val = run[s].val /\ run'[s].data = [d EXCEPT !.err = TRUE]
      /\ \A t \in Slots \ {s} : run'[t] = run[t]
  BY <1>1, YieldFields
<1> QED BY <1>2, <1>3, <1>4, <1>5

\* A task is in some phase, and its step leaves the other slots alone.
LEMMA ProceedFrame ==
  ASSUME Typed, NEW s \in Slots, Proceed(s)
  PROVE  /\ run[s].pc # "idle"
         /\ \A t \in Slots \ {s} : run'[t] = run[t]
         /\ UNCHANGED <<overlaps, crashes>>
<1> USE GotoFields, YieldFields, LeaveMoves DEF Elsewhere, Ghosts
<1>1. CASE Handler(s) \/ Worker(s)
  BY <1>1 DEF Handler, Worker, AdvanceCommit, RerunCommit, CancelCommit, WorkerResume, WorkerRefuse
<1>2. CASE Runner(s)
  <2>1. CASE BeginRun(s)          BY <2>1 DEF BeginRun
  <2>2. CASE LoadCheckpoint(s)    BY <2>2, LoadFields DEF LoadCheckpoint
  <2>3. CASE CommitCheckpoint(s)
    <3>1. run[s].pc = "done" /\ UNCHANGED <<overlaps, crashes>>
      BY <2>3, Zenon DEF CommitCheckpoint
    <3> QED BY <2>3, <3>1, CommitFields
  <2>4. CASE FinishRun(s) \/ FailRun(s)  BY <2>4 DEF FinishRun, FailRun
  <2> QED BY <1>2, <2>1, <2>2, <2>3, <2>4 DEF Runner
<1>3. CASE Step(s)
  BY <1>3, ProgressFields, FailFields DEF Step, StepPause
<1>4. CASE Gate(s)
  <2>0. GateReady(s) => run[s].pc # "idle"
    BY DEF GateReady
  <2>1. CASE GateSkip(s) \/ GateAsk(s) \/ GateInterrupt(s) \/ GateClear(s)
    BY <2>0, <2>1 DEF GateSkip, GateAsk, GateInterrupt, GateClear
  <2>2. CASE PreSemanticAccept(s) \/ PreSemanticRaise(s)
    BY <2>2 DEF PreSemanticAccept, PreSemanticRaise
  <2>3. CASE HumanReviewAccept(s) \/ HumanReviewInvalid(s)
    BY <2>3 DEF HumanReviewAccept, HumanReviewInvalid
  <2>4. CASE HierarchyResolved(s) \/ HierarchyUnresolved(s)
    BY <2>4 DEF HierarchyResolved, HierarchyUnresolved
  <2> QED BY <1>4, <2>1, <2>2, <2>3, <2>4 DEF Gate
<1>5. CASE Write(s)
  <2>1. CASE WriteDdl(s) \/ WriteDdlFail(s) \/ WriteMissingSchema(s) \/ WriteMappings(s)
    BY <2>1 DEF WriteDdl, WriteDdlFail, WriteMissingSchema, WriteMappings
  <2>2. CASE WriteReject(s) \/ WriteApply(s) \/ WriteApplyFail(s) \/ WriteComplete(s)
    BY <2>2 DEF WriteReject, WriteApply, WriteApplyFail, WriteComplete
  <2> QED BY <1>5, <2>1, <2>2 DEF Write
<1> QED BY <1>1, <1>2, <1>3, <1>4, <1>5 DEF Proceed

LEMMA RequestFrame ==
  ASSUME Typed, SoloInv, NEW s \in Slots, Request(s)
  PROVE  /\ Arrive(s)
         /\ run'[s].pc \in {"load", "queued", "checked"}
         /\ \A t \in Slots \ {s} : run'[t] = run[t]
         /\ UNCHANGED <<ckpt, hist, crashes, lost>>
         /\ job.status # "none" => job' = job
         /\ job'.status # "none"
<1> USE EnterFields DEF SystemState
<1>1. CASE StartMigrationWithUpload(s)
  BY <1>1 DEF StartMigrationWithUpload, RunningNoGate
<1>2. ASSUME NEW g \in GateTypes, NEW ok \in BOOLEAN, SubmitDecision(s, g, ok)
      PROVE  /\ Arrive(s) /\ run'[s].pc \in {"load", "queued", "checked"}
             /\ \A t \in Slots \ {s} : run'[t] = run[t]
             /\ UNCHANGED <<ckpt, hist, crashes, lost, job>> /\ job.status # "none"
  BY <1>2, SubmitFields DEF SubmitDecision, Resumable
<1>3. CASE AdvanceCheck(s) \/ CancelCheck(s) \/ RetryMigrationDdl(s)
  BY <1>3 DEF AdvanceCheck, CancelCheck, RetryMigrationDdl
<1>4. ASSUME NEW n \in RerunTargets, RerunCheck(s, n)
      PROVE  /\ Arrive(s) /\ run'[s].pc \in {"load", "queued", "checked"}
             /\ \A t \in Slots \ {s} : run'[t] = run[t]
             /\ UNCHANGED <<ckpt, hist, crashes, lost, job>> /\ job.status # "none"
  BY <1>4, RerunFields DEF RerunCheck, SoloInv, Untouched
<1> QED BY <1>1, <1>2, <1>3, <1>4 DEF Request

LEMMA SoloKept ==
  ASSUME Typed, SoloInv, [Next]_vars
  PROVE  SoloInv' /\ (overlaps' = 0 => overlaps = 0)
<1>0. RowStep /\ overlaps \in Nat /\ (job'.status = "none" => job' = job)
  BY RowSteps DEF RowStep, Typed, TypeOK
<1>1. ASSUME NEW s \in Slots, Request(s) PROVE SoloInv' /\ (overlaps' = 0 => overlaps = 0)
  BY <1>0, <1>1, RequestFrame DEF SoloInv, Untouched, Alone, Arrive
<1>2. ASSUME NEW s \in Slots, Proceed(s) PROVE SoloInv' /\ (overlaps' = 0 => overlaps = 0)
  BY <1>0, <1>2, ProceedFrame DEF SoloInv, Untouched, AtRest, Alone
<1>3. CASE StartMigration
  BY <1>3 DEF StartMigration, RunningNoGate, Elsewhere, SoloInv, Alone
<1>4. CASE Crash
  <2>1. /\ \A s \in Slots : run'[s] = run[s] \/ run'[s].pc = "idle"
        /\ UNCHANGED <<job, overlaps>>
    BY <1>4 DEF Crash, Idle
  <2>2. UNCHANGED <<ckpt, hist>> \/ (ckpt'.next = Nowhere /\ ~ckpt'.data.complete /\ \A n \in RerunTargets : hist'[n] = {})
    BY <1>4 DEF Crash, Fresh
  <2> QED BY <2>1, <2>2 DEF SoloInv, Untouched, AtRest, Alone
<1>5. CASE UNCHANGED vars
  BY <1>5 DEF vars, SoloInv, Untouched, AtRest, Alone
<1> QED BY <1>1, <1>2, <1>3, <1>4, <1>5 DEF Next

\* In an orderly behaviour the slot that proceeds is the only one there is.
LEMMA OnlyOne ==
  ASSUME Typed, SoloInv, overlaps = 0, NEW s \in Slots, Proceed(s)
  PROVE  Only(s) /\ job.status # "none"
BY ProceedFrame DEF SoloInv, Untouched, AtRest, Alone, Only

\* ... and a request finds none.
LEMMA NoneThere ==
  ASSUME Typed, SoloInv, NEW s \in Slots, Request(s), overlaps' = 0
  PROVE  AtRest /\ overlaps = 0
BY RequestFrame DEF Arrive, AtRest, Typed, TypeOK

-----------------------------------------------------------------------------
(* Ended migrations stay so.                                               *)

Ended    == job.status \in {"cancelled", "complete"}
\* Whoever is still at work on an ended migration is a rerun, or the run that completed it.
Finishing(r) ==
    \/ r.kind = "rerun"
    \/ r.pc = "finish" /\ r.data.complete
    \/ r.pc = "done" /\ r.data.complete /\ r.at = "write_node"
EndedInv == overlaps = 0 /\ Ended => \A s \in Slots : run[s].pc = "idle" \/ Finishing(run[s])

\* The five things a step of a task can be to an ended migration.
LEMMA EndedMoves ==
  ASSUME Typed, NEW s \in Slots, Proceed(s)
  PROVE  \/ run'[s].pc = "idle" /\ run[s].pc # "finish" /\ run[s].pc # "done"
         \/ FinishRun(s)
         \/ CommitCheckpoint(s)
         \/ WriteComplete(s)
         \/ ~Ended' /\ run[s].pc \notin {"done", "finish"}
         \/ job' = job /\ run'[s].kind = run[s].kind /\ run[s].pc \notin {"done", "finish"}
<1> USE GotoFields, YieldFields, LeaveMoves, StatusOf DEF Ended, Elsewhere, Ghosts, Store
<1>0. Idle.pc = "idle" /\ job \in Row /\ "failed" \in Statuses /\ "ddl_failed" \in Statuses
  BY DEF Idle, Typed, TypeOK, Statuses
<1>1. CASE Handler(s) \/ Worker(s)
  BY <1>0, <1>1 DEF Handler, Worker, AdvanceCommit, RerunCommit, CancelCommit, WorkerResume, WorkerRefuse
<1>2. CASE BeginRun(s)        BY <1>2 DEF BeginRun
<1>3. CASE LoadCheckpoint(s)  BY <1>3, LoadFields DEF LoadCheckpoint
<1>4. CASE FailRun(s)         BY <1>0, <1>4 DEF FailRun
<1>5. CASE Step(s)
  <2>1. CASE StepProgress(s)  BY <1>0, <2>1, ProgressFields DEF StepProgress
  <2>2. CASE StepPause(s)     BY <2>2 DEF StepPause
  <2>3. CASE StepFail(s)      BY <2>3, FailFields
  <2> QED BY <1>5, <2>1, <2>2, <2>3 DEF Step
<1>6. CASE Gate(s)
  <2>0. GateReady(s) => run[s].pc \in {"node", "ask"}
    BY DEF GateReady
  <2>1. CASE GateSkip(s) \/ GateAsk(s) \/ GateInterrupt(s) \/ GateClear(s)
    BY <1>0, <2>0, <2>1 DEF GateSkip, GateAsk, GateInterrupt, GateClear
  <2>2. CASE PreSemanticAccept(s) \/ PreSemanticRaise(s)
    BY <2>2 DEF PreSemanticAccept, PreSemanticRaise
  <2>3. CASE HumanReviewAccept(s) \/ HumanReviewInvalid(s)
    BY <1>0, <2>3 DEF HumanReviewAccept, HumanReviewInvalid
  <2>4. CASE HierarchyResolved(s) \/ HierarchyUnresolved(s)
    BY <1>0, <2>4 DEF HierarchyResolved, HierarchyUnresolved
  <2> QED BY <1>6, <2>1, <2>2, <2>3, <2>4 DEF Gate
<1>7. CASE Write(s)
  <2>1. CASE WriteDdl(s) \/ WriteDdlFail(s) \/ WriteMissingSchema(s) \/ WriteMappings(s)
    BY <1>0, <2>1 DEF WriteDdl, WriteDdlFail, WriteMissingSchema, WriteMappings
  <2>2. CASE WriteReject(s) \/ WriteApply(s) \/ WriteApplyFail(s)
    BY <2>2 DEF WriteReject, WriteApply, WriteApplyFail
  <2> QED BY <1>7, <2>1, <2>2 DEF Write
<1> QED BY <1>1, <1>2, <1>3, <1>4, <1>5, <1>6, <1>7 DEF Proceed, Runner

LEMMA EndedKept ==
  ASSUME Typed, SoloInv, ColumnsInv, EndedInv, [Next]_vars
  PROVE  EndedInv'
<1>0. SUFFICES ASSUME overlaps' = 0, Ended' PROVE \A s \in Slots : run'[s].pc = "idle" \/ Finishing(run'[s])
  BY DEF EndedInv
<1>1. overlaps = 0 /\ (Ended => \A s \in Slots : run[s].pc = "idle" \/ Finishing(run[s]))
  BY <1>0, SoloKept DEF EndedInv
<1>2. ASSUME NEW s \in Slots, Request(s)
      PROVE  \A t \in Slots : run'[t].pc = "idle" \/ Finishing(run'[t])
  <2>1. AtRest /\ \A t \in Slots \ {s} : run'[t] = run[t]
    BY <1>0, <1>2, NoneThere, RequestFrame
  <2>2. run'[s].kind = "rerun"
    <3> USE <1>0 DEF Ended, SystemState
    <3>1. ~StartMigrationWithUpload(s)
      BY DEF StartMigrationWithUpload, RunningNoGate
    <3>2. ~\E g \in GateTypes, ok \in BOOLEAN : SubmitDecision(s, g, ok)
      BY DEF SubmitDecision, Resumable
    <3>3. ~AdvanceCheck(s) /\ ~CancelCheck(s) /\ ~RetryMigrationDdl(s)
      BY DEF AdvanceCheck, CancelCheck, RetryMigrationDdl
    <3> QED BY <1>2, <3>1, <3>2, <3>3, RerunFields DEF Request
  <2> QED BY <2>1, <2>2 DEF AtRest, Finishing
<1>3. ASSUME NEW s \in Slots, Proceed(s)
      PROVE  \A t \in Slots : run'[t].pc = "idle" \/ Finishing(run'[t])
  <2>1. Only(s)
    BY <1>1, <1>3, OnlyOne
  <2> SUFFICES ASSUME run'[s].pc # "idle" PROVE Finishing(run'[s])
    BY <2>1 DEF Only
  <2>2. CASE FinishRun(s)
    BY <2>2, LeaveMoves DEF FinishRun, Idle
  <2>3. CASE CommitCheckpoint(s)
    <3>1. job' = job /\ run[s].pc = "done"
      BY <2>3, Zenon DEF CommitCheckpoint
    <3>2. run[s].kind = "rerun" \/ (run[s].data.complete /\ run[s].at = "write_node")
      BY <1>0, <1>1, <2>1, <3>1 DEF Only, Ended, Finishing
    <3>3. Successor("write_node", run[s].data) = End
      BY DEF Successor
    <3> QED BY <2>3, <3>2, <3>3, CommitFields DEF Finishing
  <2>4. CASE WriteComplete(s)
    <3>1. run[s].at = "write_node" /\ [run[s].data EXCEPT !.complete = TRUE].complete
      BY <2>4, RunField DEF WriteComplete, ColumnsInv, Typed, TypeOK, Data
    <3>2. run'[s].pc = "done" /\ run'[s].at = run[s].at /\ run'[s].data = [run[s].data EXCEPT !.complete = TRUE]
      BY <2>4, YieldFields DEF WriteComplete
    <3> QED BY <3>1, <3>2 DEF Finishing
  <2>5. CASE job' = job /\ run'[s].kind = run[s].kind /\ run[s].pc \notin {"done", "finish"}
    BY <1>0, <1>1, <2>1, <2>5 DEF Only, Ended, Finishing
  <2> QED BY <1>0, <1>3, <2>2, <2>3, <2>4, <2>5, EndedMoves
<1>4. CASE StartMigration
  BY <1>0, <1>4 DEF StartMigration, RunningNoGate, Ended
<1>5. CASE Crash
  <2>1. job' = job /\ \A s \in Slots : run'[s] = run[s] \/ run'[s].pc = "idle"
    BY <1>5 DEF Crash, Idle
  <2> QED BY <1>0, <1>1, <2>1 DEF Ended
<1>6. CASE UNCHANGED vars
  BY <1>0, <1>1, <1>6 DEF vars, Ended
<1> QED BY <1>2, <1>3, <1>4, <1>5, <1>6 DEF Next

LEMMA EndedStep ==
  ASSUME Typed, SoloInv, EndedInv, [Next]_vars, overlaps = 0, Ended, job'.status # job.status
  PROVE  \E s \in Slots : run[s].kind = "rerun"
<1>1. ASSUME NEW s \in Slots, Request(s) PROVE FALSE
  BY <1>1, RequestFrame DEF Ended
<1>2. ASSUME NEW s \in Slots, Proceed(s) PROVE run[s].kind = "rerun"
  <2>1. run[s].pc # "idle" /\ Finishing(run[s])
    BY <1>2, OnlyOne DEF EndedInv, Only
  <2>2. ~CommitCheckpoint(s)
    BY Zenon DEF CommitCheckpoint
  <2>3. ASSUME run[s].data.complete PROVE ~FinishRun(s)
    BY <2>3 DEF FinishRun, ReportedError
  <2>4. ~(WriteComplete(s) /\ run[s].pc \in {"done", "finish"})
    BY DEF WriteComplete
  <2> QED BY <1>2, <2>1, <2>2, <2>3, <2>4, EndedMoves DEF Finishing, FinishRun
<1>3. ~StartMigration /\ ~Crash /\ vars' # vars
  BY DEF StartMigration, Crash, vars, Ended
<1> QED BY <1>1, <1>2, <1>3 DEF Next

LEMMA SoloInvariant == Spec => [](SoloInv /\ EndedInv)
<1>1. Init => SoloInv /\ EndedInv
  BY DEF Init, SoloInv, EndedInv, Alone, Untouched, AtRest, Idle, Ended, Fresh
<1>2. Typed /\ ColumnsInv /\ SoloInv /\ EndedInv /\ [Next]_vars => SoloInv' /\ EndedInv'
  BY SoloKept, EndedKept
<1> QED BY <1>1, <1>2, TypeCorrect, ColumnsInvariant, PTL DEF Spec

\* With one request at a time a cancelled or completed migration is revived by a rerun only,
\* whatever crashes and whatever updates of the row are lost.
THEOREM EndedStaysEnded == Spec => EndedStays
<1>1. Typed /\ SoloInv /\ EndedInv /\ [Next]_vars
        => [overlaps = 0 /\ job.status \in {"cancelled", "complete"} /\ job'.status # job.status =>
               \E s \in Slots : run[s].kind = "rerun"]_vars
  BY EndedStep DEF Ended
<1> QED BY <1>1, TypeCorrect, SoloInvariant, PTL DEF Spec, EndedStays

-----------------------------------------------------------------------------
(* The row agrees with the checkpoint.                                     *)

ForGate(v, n) == n \in GateNodes /\ v.for = GateOf(n)

\* Between reading the row and writing it, a request still finds what it has read.
CheckedFits(s) ==
    /\ Agreed /\ run[s].val = NoAnswer
    /\ run[s].kind = "advance" => job.status = "step_paused"
    /\ run[s].kind = "rerun" => run[s].at \in StepNodes /\ ~run[s].data.complete

\* A task that has not begun: the row guarantees that its decision is for the gate the
\* graph stands at.
LoadFits(s) ==
    /\ run[s].kind = "start" => job.status = "running" /\ run[s].at = "ingest_node" /\ run[s].data = Fresh
                           /\ run[s].val = NoAnswer
    /\ run[s].kind # "start" => run[s].kind \in {"resume", "advance"} /\ ckpt.next # End
    /\ run[s].val # NoAnswer => ckpt.next = Nowhere \/ ForGate(run[s].val, ckpt.next) \/ ckpt.data.err

\* A node that has returned has shown what it has done, or put an error in the state
\* that the task looks at; the start task looks at nothing.
DoneFits(s) ==
    /\ run[s].at \in StepNodes =>
          \/ job = [status |-> "step_paused", gate |-> run[s].at]
          \/ run[s].data.err /\ (run[s].kind = "start" => job.status = "running")
    /\ run[s].at = "write_node" =>
          \/ run[s].data.complete /\ job.status = "complete"
          \/ run[s].data.err /\ ~run[s].data.complete

\* In the graph: at the node of the latest checkpoint, but for a rerun, which is at a step.
InsideFits(s) ==
    /\ run[s].at \in Nodes
    /\ run[s].kind = "start" => run[s].at = "ingest_node" /\ (run[s].pc # "done" => job.status = "running")
    /\ run[s].kind = "rerun" => run[s].at \in StepNodes
    /\ run[s].kind # "rerun" => ckpt.next = run[s].at
    /\ run[s].val # NoAnswer => ForGate(run[s].val, run[s].at) \/ run[s].data.err
    /\ run[s].data.complete => run[s].pc = "done" /\ run[s].at = "write_node"
    /\ run[s].pc \in {"asked", "answered"} => run[s].at \in GateNodes
    /\ run[s].pc = "asked" => job = [status |-> "awaiting_review", gate |-> GateOf(run[s].at)]
    /\ run[s].pc = "done" => DoneFits(s)

Fits(s) ==
    /\ run[s].pc = "queued" => Agreed
    /\ run[s].pc = "checked" => CheckedFits(s)
    /\ run[s].pc = "load" => LoadFits(s)
    /\ run[s].pc \in Inside => InsideFits(s)
    /\ run[s].pc = "finish" => run[s].val = NoAnswer /\ (ReportedError(run[s]) \/ Agreed)
    /\ run[s].pc = "idle" => run[s].val = NoAnswer

Fitting ==
    /\ AtRest => Agreed
    /\ ckpt.data.complete => ckpt.next = End
    /\ \A n \in RerunTargets : \A d \in hist[n] : ~d.complete
    /\ \A s \in Slots : Fits(s)

\* A crash has taken the checkpoints along: what is sent to the migration fails.
Gone ==
    /\ crashes # 0 /\ ckpt.next = Nowhere /\ job.status # "none"
    /\ \A n \in RerunTargets : hist[n] = {}
    /\ \A s \in Slots :
          /\ run[s].pc \in {"idle", "queued", "checked", "load", "raised"}
          /\ run[s].pc = "load" => run[s].kind \in {"resume", "advance"}
          /\ run[s].pc = "checked" => run[s].kind # "rerun" /\ run[s].val = NoAnswer

InStep  == Orderly /\ (Durable => crashes = 0)
RestInv == InStep => Fitting \/ Gone

-----------------------------------------------------------------------------
\* A step of the only task there is, in the graph or on its way there, that leaves the
\* checkpoints alone.
LEMMA FitMove ==
  ASSUME Fitting, NEW s \in Slots, Only(s), UNCHANGED <<ckpt, hist>>,
         Fits(s)', run'[s].pc = "idle" => Agreed'
  PROVE  Fitting'
<1>1. ASSUME NEW t \in Slots \ {s} PROVE Fits(t)'
  BY <1>1 DEF Only, Fitting, Fits, Inside
<1> QED BY <1>1 DEF Fitting, AtRest

LEMMA OrderlyStore ==
  ASSUME NEW row, Store(row), lost = 0, lost' = 0
  PROVE  job' = row
BY DEF Store

LEMMA FitHandlers ==
  ASSUME Typed, PendingKeyFits, Fitting, NEW s \in Slots, Only(s), Handler(s) \/ Worker(s)
  PROVE  Fitting'
<1> USE GotoFields, LeaveMoves DEF Elsewhere
<1>0. Fits(s)
  BY DEF Fitting
<1>1. CASE AdvanceCommit(s)
  <2>1. ckpt.next # End
    <3>1. ckpt.next = Successor(job.gate, ckpt.data) /\ job.gate \in StepNodes
      BY <1>0, <1>1 DEF AdvanceCommit, Fits, CheckedFits, Agreed, PendingKeyFits
    <3> QED BY <3>1 DEF Successor, StepNodes, AfterSemantic, AfterPreSemantic, End
  <2>2. LoadFits(s)' /\ run'[s].pc = "load"
    BY <1>0, <1>1, <2>1 DEF AdvanceCommit, Fits, CheckedFits, LoadFits
  <2> QED BY <1>1, <2>2, FitMove DEF AdvanceCommit, Fits, Inside
<1>2. CASE RerunCommit(s)
  <2>1. InsideFits(s)' /\ run'[s].pc = "node"
    BY <1>0, <1>2 DEF RerunCommit, Fits, CheckedFits, InsideFits, Nodes
  <2> QED BY <1>2, <2>1, FitMove DEF RerunCommit, Fits, Inside
<1>3. CASE CancelCommit(s)
  <2>1. job'.status = "cancelled"
    BY <1>3, StatusOf DEF CancelCommit, Typed, TypeOK, Statuses
  <2>2. Agreed' /\ Fits(s)'
    BY <1>3, <2>1 DEF CancelCommit, Agreed, Fits, Idle, Inside
  <2> QED BY <1>3, <2>2, FitMove DEF CancelCommit
<1>4. CASE WorkerResume(s)
  <2>1. Fits(s)' /\ run'[s].pc = "raised"
    BY <1>4 DEF WorkerResume, Fits, Inside
  <2> QED BY <1>4, <2>1, FitMove DEF WorkerResume
<1>5. CASE WorkerRefuse(s)
  <2>1. Agreed' /\ Fits(s)'
    BY <1>0, <1>5 DEF WorkerRefuse, Fits, Agreed, Idle, Inside, Stranded
  <2> QED BY <1>5, <2>1, FitMove DEF WorkerRefuse
<1> QED BY <1>1, <1>2, <1>3, <1>4, <1>5 DEF Handler, Worker

LEMMA FitBegin ==
  ASSUME Typed, Fitting, NEW s \in Slots, Only(s), BeginRun(s)
  PROVE  Fitting'
<1>1. /\ run[s].pc = "load" /\ run[s].kind = "start" /\ job' = job
      /\ ckpt' = [next |-> "ingest_node", data |-> Fresh]
      /\ \A n \in RerunTargets : hist'[n] = hist[n] \/ hist'[n] = {Fresh}
  BY DEF BeginRun, Checkpoint
<1>2. /\ run'[s].pc = "node" /\ run'[s].at = run[s].at /\ run'[s].kind = run[s].kind
      /\ run'[s].data = run[s].data /\ run'[s].val = run[s].val
  BY GotoFields DEF BeginRun
<1>3. LoadFits(s) /\ ~Fresh.complete
  BY <1>1 DEF Fitting, Fits, Fresh
<1>4. InsideFits(s)'
  BY <1>1, <1>2, <1>3 DEF LoadFits, InsideFits, Nodes, StepNodes
<1>5. Fits(s)'
  BY <1>2, <1>4 DEF Fits
<1>6. ASSUME NEW t \in Slots \ {s} PROVE Fits(t)'
  BY <1>6 DEF Only, Fitting, Fits, Inside
<1> QED BY <1>1, <1>2, <1>3, <1>5, <1>6 DEF Fitting, AtRest

LEMMA FitLoad ==
  ASSUME Typed, Fitting, NEW s \in Slots, Only(s), LoadCheckpoint(s)
  PROVE  Fitting'
<1>1. run[s].pc = "load" /\ run[s].kind \in {"resume", "advance"} /\ UNCHANGED <<job, ckpt, hist>>
  BY Zenon DEF LoadCheckpoint, Elsewhere
<1>2. LoadFits(s)
  BY <1>1 DEF Fitting, Fits
<1>3. CASE ckpt.next = Nowhere
  <2>1. run'[s].pc = "raised"
    BY <1>3, LoadFields DEF Nowhere, End
  <2> QED BY <1>1, <2>1, FitMove DEF Fits, Inside
<1>4. CASE ckpt.next # Nowhere
  <2>1. ckpt.next \in Nodes /\ ckpt.next # End
    BY <1>1, <1>2, <1>4 DEF LoadFits, Typed, TypeOK
  <2>2. /\ run'[s].pc = "node" /\ run'[s].at = ckpt.next /\ run'[s].data = ckpt.data
        /\ run'[s].kind = run[s].kind /\ run'[s].val = run[s].val
    BY <1>4, <2>1, LoadFields
  <2>3. ~ckpt.data.complete
    BY <2>1 DEF Fitting
  <2>4. InsideFits(s)'
    BY <1>1, <1>2, <1>4, <2>1, <2>2, <2>3 DEF LoadFits, InsideFits
  <2> QED BY <1>1, <2>2, <2>4, FitMove DEF Fits, Inside
<1> QED BY <1>3, <1>4

LEMMA FitCommit ==
  ASSUME Typed, Fitting, NEW s \in Slots, Only(s), CommitCheckpoint(s)
  PROVE  Fitting'
<1> DEFINE n == Successor(run[s].at, run[s].data)
<1>1. /\ run[s].pc = "done" /\ job' = job
      /\ ckpt'.next = n /\ ckpt'.data = run[s].data
      /\ \A m \in RerunTargets : hist'[m] = hist[m] \/ (m = n /\ hist'[m] = {run[s].data})
  BY DEF CommitCheckpoint, Checkpoint
<1>2. /\ run'[s].pc = (IF run[s].at \in StepNodes \/ n = End THEN "finish" ELSE "node")
      /\ run'[s].at = n /\ run'[s].data = run[s].data /\ run'[s].kind = run[s].kind
      /\ run'[s].val = NoAnswer
  BY CommitFields
<1>3. run[s].at \in Nodes /\ InsideFits(s) /\ DoneFits(s)
  BY <1>1 DEF Fitting, Fits, Inside, InsideFits
<1>4. (n = End <=> run[s].at = "write_node") /\ n \in Nodes \cup {End}
  BY <1>3 DEF Successor, AfterPreSemantic, AfterSemantic, Nodes, StepNodes, GateNodes, End
<1>5. run[s].data.complete => n = End
  BY <1>3, <1>4 DEF InsideFits
<1>6. \A m \in RerunTargets : \A d \in hist'[m] : ~d.complete
  BY <1>1, <1>4, <1>5, ConfigAssumption DEF Fitting, StepNodes, End
<1>7. Fits(s)' /\ run'[s].pc # "idle"
  <2>1. CASE run[s].at \in StepNodes
    <3>1. run'[s].pc = "finish" /\ ~run[s].data.complete
      BY <1>2, <1>3, <2>1 DEF InsideFits, StepNodes
    <3>2. CASE job = [status |-> "step_paused", gate |-> run[s].at]
      <4>1. Agreed'
        BY <1>1, <3>2 DEF Agreed
      <4> QED BY <1>2, <3>1, <4>1 DEF Fits, Inside
    <3>3. CASE run[s].data.err /\ run[s].kind # "start"
      BY <1>2, <3>1, <3>3 DEF Fits, Inside, ReportedError
    <3>4. CASE run[s].data.err /\ run[s].kind = "start" /\ job.status = "running"
      <4>1. n = "deterministic_mapper_node"
        BY <1>3, <3>4 DEF InsideFits, Successor
      <4>2. Agreed'
        BY <1>1, <3>4, <4>1 DEF Agreed, Stranded
      <4> QED BY <1>2, <3>1, <4>2 DEF Fits, Inside
    <3> QED BY <1>3, <2>1, <3>2, <3>3, <3>4 DEF DoneFits
  <2>2. CASE run[s].at = "write_node"
    <3>1. run'[s].pc = "finish" /\ n = End
      BY <1>2, <1>4, <2>2
    <3>2. CASE run[s].data.complete /\ job.status = "complete"
      <4>1. Agreed'
        BY <1>1, <3>1, <3>2 DEF Agreed
      <4> QED BY <1>2, <3>1, <4>1 DEF Fits, Inside
    <3>3. CASE run[s].data.err /\ ~run[s].data.complete
      <4>1. run[s].kind # "start"
        BY <1>3, <2>2 DEF InsideFits
      <4> QED BY <1>2, <3>1, <3>3, <4>1 DEF Fits, Inside, ReportedError
    <3> QED BY <1>3, <2>2, <3>2, <3>3 DEF DoneFits
  <2>3. CASE run[s].at \notin StepNodes /\ run[s].at # "write_node"
    <3>1. run'[s].pc = "node" /\ n \in Nodes
      BY <1>2, <1>4, <2>3
    <3>2. run[s].kind # "start" /\ run[s].kind # "rerun" /\ ~run[s].data.complete
      BY <1>3, <2>3 DEF InsideFits, StepNodes
    <3> HIDE DEF n
    <3>3. InsideFits(s)'
      BY <1>1, <1>2, <3>1, <3>2 DEF InsideFits
    <3> QED BY <3>1, <3>3 DEF Fits
  <2> QED BY <2>1, <2>2, <2>3
<1>8. ASSUME NEW t \in Slots \ {s} PROVE Fits(t)'
  BY <1>8 DEF Only, Fitting, Fits, Inside
<1> HIDE DEF n
<1> QED BY <1>1, <1>5, <1>6, <1>7, <1>8 DEF Fitting, AtRest

LEMMA FitEnds ==
  ASSUME Typed, Fitting, NEW s \in Slots, Only(s), lost = 0, lost' = 0, FinishRun(s) \/ FailRun(s)
  PROVE  Fitting'
<1>1. UNCHANGED <<ckpt, hist>> /\ run'[s] = Idle
  BY LeaveMoves DEF FinishRun, FailRun, Elsewhere
<1>2. Fits(s)'
  BY <1>1 DEF Fits, Idle, Inside
<1>3. Agreed'
  <2>1. ASSUME job' = [job EXCEPT !.status = "failed"] PROVE Agreed'
    <3>1. job'.status = "failed"
      BY <2>1, StatusOf DEF Typed, TypeOK, Statuses
    <3> QED BY <3>1 DEF Agreed
  <2>2. CASE FailRun(s)
    BY <2>1, <2>2, OrderlyStore DEF FailRun
  <2>3. CASE FinishRun(s) /\ ReportedError(run[s])
    BY <2>1, <2>3, OrderlyStore DEF FinishRun
  <2>4. CASE FinishRun(s) /\ ~ReportedError(run[s])
    <3>1. job' = job /\ Agreed
      BY <2>4 DEF FinishRun, Fitting, Fits
    <3> QED BY <1>1, <3>1 DEF Agreed, Stranded
  <2> QED BY <2>2, <2>3, <2>4
<1> QED BY <1>1, <1>2, <1>3, FitMove

-----------------------------------------------------------------------------
\* A step in the graph that stays in its node.
LEMMA FitOn ==
  ASSUME Typed, Fitting, NEW s \in Slots, Only(s), UNCHANGED <<ckpt, hist>>,
         run[s].pc \in Inside \ {"done"}, run'[s].pc \in Inside,
         run'[s].at = run[s].at, run'[s].kind = run[s].kind, run'[s].val = run[s].val,
         run[s].data.err => run'[s].data.err,
         run'[s].data.complete => run'[s].pc = "done" /\ run[s].at = "write_node",
         run'[s].pc \in {"asked", "answered"} => run[s].at \in GateNodes,
         run'[s].pc = "asked" => job' = [status |-> "awaiting_review", gate |-> GateOf(run[s].at)],
         run'[s].pc # "done" => run[s].at # "ingest_node" \/ job'.status = "running",
         run'[s].pc = "done" => DoneFits(s)'
  PROVE  Fitting'
<1>1. InsideFits(s)
  BY DEF Fitting, Fits
<1>2. InsideFits(s)'
  BY <1>1 DEF InsideFits, ForGate
<1>3. Fits(s)'
  BY <1>2 DEF Fits, Inside
<1> QED BY <1>3, FitMove DEF Inside

LEMMA FitSteps ==
  ASSUME Typed, Fitting, NEW s \in Slots, Only(s), lost = 0, lost' = 0, Step(s)
  PROVE  Fitting'
<1>0. ASSUME run[s].pc \in Inside \ {"done"} PROVE InsideFits(s) /\ ~run[s].data.complete
  BY <1>0 DEF Fitting, Fits, InsideFits
<1>1. CASE StepProgress(s)
  <2>1. job' = Running(job)
    BY <1>1, OrderlyStore DEF StepProgress
  <2>2. job'.status = "running"
    BY <2>1, StatusOf DEF Running, Typed, TypeOK, Statuses
  <2> QED BY <1>0, <1>1, <2>2, ProgressFields, FitOn DEF Inside, Elsewhere
<1>2. CASE StepPause(s)
  <2>1. run[s].pc = "progressed" /\ run[s].at \in StepNodes /\ UNCHANGED <<ckpt, hist>>
    BY <1>2 DEF StepPause, Typed, PhaseOK, Elsewhere
  <2>2. /\ run'[s].pc = "done" /\ run'[s].at = run[s].at /\ run'[s].kind = run[s].kind
        /\ run'[s].data = run[s].data /\ run'[s].val = run[s].val
    BY <1>2, GotoFields DEF StepPause
  <2>3. job' = [status |-> "step_paused", gate |-> run[s].at]
    BY <1>2, OrderlyStore DEF StepPause
  <2>4. DoneFits(s)'
    BY <2>1, <2>2, <2>3 DEF DoneFits, StepNodes
  <2> QED BY <1>0, <2>1, <2>2, <2>4, FitOn DEF Inside
<1>3. CASE StepFail(s)
  <2>1. /\ run[s].pc = "node" /\ run[s].at \in StepNodes /\ UNCHANGED <<job, ckpt, hist>>
        /\ run'[s].pc = "done" /\ run'[s].at = run[s].at /\ run'[s].kind = run[s].kind
        /\ run'[s].val = run[s].val
        /\ run'[s].data.err /\ run'[s].data.complete = run[s].data.complete
    BY <1>3, FailFields DEF Elsewhere
  <2>2. InsideFits(s) /\ ~run[s].data.complete
    BY <1>0, <2>1 DEF Inside
  <2>3. DoneFits(s)'
    BY <2>1, <2>2 DEF DoneFits, InsideFits, StepNodes
  <2> QED BY <2>1, <2>2, <2>3, FitOn DEF Inside
<1> QED BY <1>1, <1>2, <1>3 DEF Step

LEMMA GatesStop == ASSUME NEW n \in GateNodes PROVE n \notin StepNodes /\ n # "ingest_node" /\ n \in Nodes
BY DEF GateNodes, StepNodes, Nodes

\* A gate node, other than the last, returns, whatever it has made of the decision.
LEMMA FitReturn ==
  ASSUME Typed, Fitting, NEW s \in Slots, Only(s), UNCHANGED <<ckpt, hist>>,
         run[s].pc \in Inside \ {"done"}, run[s].at \in GateNodes \ {"write_node"},
         NEW d \in Data, Yield(s, "done", d), run[s].data.err => d.err,
         d.complete = run[s].data.complete
  PROVE  Fitting'
<1>1. /\ run'[s].pc = "done" /\ run'[s].at = run[s].at /\ run'[s].kind = run[s].kind
      /\ run'[s].data = d /\ run'[s].val = run[s].val
  BY YieldFields
<1>2. ~run[s].data.complete
  BY DEF Fitting, Fits, InsideFits
<1>3. DoneFits(s)'
  BY <1>1, GatesStop DEF DoneFits
<1> QED BY <1>1, <1>2, <1>3, FitOn DEF Inside

LEMMA FitGates ==
  ASSUME Typed, ColumnsInv, Fitting, NEW s \in Slots, Only(s), lost = 0, lost' = 0, Gate(s)
  PROVE  Fitting'
<1> USE DEF Elsewhere
<1>0. /\ run[s].data \in Data
      /\ run[s].pc \in Inside \ {"done"} => InsideFits(s) /\ ~run[s].data.complete
  BY RunField DEF Typed, TypeOK, Fitting, Fits, InsideFits
<1>1. CASE GateSkip(s)
  <2>1. /\ run[s].pc = "node" /\ run[s].at \in GateNodes \ {"write_node"}
        /\ UNCHANGED <<ckpt, hist>> /\ Goto(s, "done")
    BY <1>1 DEF GateSkip, GateNodes
  <2>2. /\ run'[s].pc = "done" /\ run'[s].at = run[s].at /\ run'[s].kind = run[s].kind
        /\ run'[s].data = run[s].data /\ run'[s].val = run[s].val
    BY <2>1, GotoFields
  <2>3. DoneFits(s)'
    BY <2>1, <2>2, GatesStop DEF DoneFits
  <2> QED BY <1>0, <2>1, <2>2, <2>3, FitOn DEF Inside
<1>2. CASE GateAsk(s)
  <2>1. run[s].pc \in {"node", "ask"} /\ run[s].at \in GateNodes
    BY <1>2 DEF GateAsk, GateReady, ColumnsInv, GateNodes
  <2>2. /\ run'[s].pc = "asked" /\ run'[s].at = run[s].at /\ run'[s].kind = run[s].kind
        /\ run'[s].data = run[s].data /\ run'[s].val = run[s].val
    BY <1>2, GotoFields DEF GateAsk
  <2>3. job' = [status |-> "awaiting_review", gate |-> GateOf(run[s].at)] /\ UNCHANGED <<ckpt, hist>>
    BY <1>2, OrderlyStore DEF GateAsk
  <2> QED BY <1>0, <2>1, <2>2, <2>3, GatesStop, FitOn DEF Inside
<1>3. CASE GateInterrupt(s)
  <2>1. /\ run[s].pc = "asked" /\ run[s].val = NoAnswer /\ UNCHANGED <<job, ckpt, hist>>
        /\ Goto(s, "finish")
    BY <1>3 DEF GateInterrupt
  <2>2. run'[s].pc = "finish" /\ run'[s].val = NoAnswer
    BY <2>1, GotoFields
  <2>3. InsideFits(s)
    BY <1>0, <2>1 DEF Inside
  <2>4. run[s].at \in GateNodes /\ ckpt.next = run[s].at
    BY <2>1, <2>3, GatesStop DEF InsideFits
  <2>5. job.status = "awaiting_review" /\ job.gate = GateOf(run[s].at)
    BY <2>1, <2>3 DEF InsideFits
  <2>6. Agreed'
    BY <2>1, <2>4, <2>5 DEF Agreed
  <2> QED BY <2>1, <2>2, <2>6, FitMove DEF Fits, Inside
<1>4. CASE GateClear(s)
  <2>1. /\ run[s].pc = "asked" /\ UNCHANGED <<ckpt, hist>> /\ Goto(s, "answered")
    BY <1>4 DEF GateClear
  <2>2. /\ run'[s].pc = "answered" /\ run'[s].at = run[s].at /\ run'[s].kind = run[s].kind
        /\ run'[s].data = run[s].data /\ run'[s].val = run[s].val
    BY <2>1, GotoFields
  <2>3. run[s].at \in GateNodes
    BY <1>0, <2>1 DEF InsideFits, Inside
  <2> QED BY <1>0, <2>1, <2>2, <2>3, GatesStop, FitOn DEF Inside
<1>5. CASE PreSemanticAccept(s)
  <2>1. PICK c \in BOOLEAN, o \in BOOLEAN : Yield(s, "done", [run[s].data EXCEPT !.custom = c, !.open = o])
    BY <1>0, <1>5 DEF PreSemanticAccept, Data
  <2>2. /\ run[s].pc = "answered" /\ run[s].at \in GateNodes \ {"write_node"} /\ UNCHANGED <<ckpt, hist>>
    BY <1>5 DEF PreSemanticAccept, GateNodes
  <2> DEFINE d == [run[s].data EXCEPT !.custom = c, !.open = o]
  <2>3. d \in Data /\ d.err = run[s].data.err /\ d.complete = run[s].data.complete
    BY <1>0 DEF Data
  <2> HIDE DEF d
  <2>4. Yield(s, "done", d)
    BY <2>1 DEF d
  <2> QED BY <2>2, <2>3, <2>4, FitReturn DEF Inside
<1>6. CASE PreSemanticRaise(s)
  <2>1. UNCHANGED <<ckpt, hist>> /\ run'[s].pc = "raised"
    BY <1>6, GotoFields DEF PreSemanticRaise
  <2> QED BY <2>1, FitMove DEF Fits, Inside
<1>7. CASE HumanReviewAccept(s)
  <2>1. PICK c \in BOOLEAN : Yield(s, "done", [run[s].data EXCEPT !.custom = c])
    BY <1>0, <1>7 DEF HumanReviewAccept, Data
  <2>2. /\ run[s].pc = "answered" /\ run[s].at \in GateNodes \ {"write_node"} /\ UNCHANGED <<ckpt, hist>>
    BY <1>7 DEF HumanReviewAccept, GateNodes
  <2> DEFINE d == [run[s].data EXCEPT !.custom = c]
  <2>3. d \in Data /\ d.err = run[s].data.err /\ d.complete = run[s].data.complete
    BY <1>0 DEF Data
  <2> HIDE DEF d
  <2>4. Yield(s, "done", d)
    BY <2>1 DEF d
  <2> QED BY <2>2, <2>3, <2>4, FitReturn DEF Inside
<1>8. CASE HumanReviewInvalid(s) \/ HierarchyResolved(s) \/ HierarchyUnresolved(s)
  <2>1. /\ run[s].pc = "answered" /\ run[s].at \in GateNodes \ {"write_node"} /\ UNCHANGED <<ckpt, hist>>
    BY <1>8 DEF HumanReviewInvalid, HierarchyResolved, HierarchyUnresolved, GateNodes
  <2>2. \/ \E e \in {run[s].data.err, TRUE} : Yield(s, "done", [run[s].data EXCEPT !.err = e])
        \/ \E c \in BOOLEAN : Yield(s, "done", [run[s].data EXCEPT !.cyc = c])
    BY <1>8 DEF HumanReviewInvalid, HierarchyResolved, HierarchyUnresolved
  <2>3. PICK d \in Data : /\ Yield(s, "done", d) /\ (run[s].data.err => d.err)
                          /\ d.complete = run[s].data.complete
    <3>1. ASSUME NEW e \in {run[s].data.err, TRUE}
          PROVE  LET d == [run[s].data EXCEPT !.err = e]
                 IN  d \in Data /\ (run[s].data.err => d.err) /\ d.complete = run[s].data.complete
      BY <1>0 DEF Data
    <3>2. ASSUME NEW c \in BOOLEAN
          PROVE  LET d == [run[s].data EXCEPT !.cyc = c]
                 IN  d \in Data /\ (run[s].data.err => d.err) /\ d.complete = run[s].data.complete
      BY <1>0 DEF Data
    <3> QED BY <2>2, <3>1, <3>2
  <2> QED BY <2>1, <2>3, FitReturn DEF Inside
<1> QED BY <1>1, <1>2, <1>3, <1>4, <1>5, <1>6, <1>7, <1>8 DEF Gate

LEMMA FitWrites ==
  ASSUME Typed, ColumnsInv, Fitting, NEW s \in Slots, Only(s), lost = 0, lost' = 0, Write(s)
  PROVE  Fitting'
<1> USE DEF Elsewhere
<1>0. /\ run[s].data \in Data
      /\ run[s].pc \in Inside \ {"done"} => InsideFits(s) /\ ~run[s].data.complete
  BY RunField DEF Typed, TypeOK, Fitting, Fits, InsideFits
<1>1. run[s].at = "write_node" /\ run[s].pc \in Inside \ {"done"} /\ UNCHANGED <<ckpt, hist>>
  <2>1. CASE WriteDdl(s) \/ WriteDdlFail(s) \/ WriteMissingSchema(s) \/ WriteMappings(s)
    BY <2>1 DEF WriteDdl, WriteDdlFail, WriteMissingSchema, WriteMappings, ColumnsInv, Inside
  <2>2. CASE WriteReject(s) \/ WriteApply(s) \/ WriteApplyFail(s) \/ WriteComplete(s)
    BY <2>2 DEF WriteReject, WriteApply, WriteApplyFail, WriteComplete, ColumnsInv, Inside
  <2> QED BY <2>1, <2>2 DEF Write
<1>2. CASE WriteDdl(s) \/ WriteMappings(s) \/ WriteApply(s)
  <2>1. /\ run'[s].pc \in {"rows", "ask", "applied"} /\ run'[s].at = run[s].at /\ run'[s].kind = run[s].kind
        /\ run'[s].data = run[s].data /\ run'[s].val = run[s].val
    BY <1>2, GotoFields DEF WriteDdl, WriteMappings, WriteApply
  <2> QED BY <1>0, <1>1, <2>1, FitOn DEF Inside
<1>3. CASE WriteDdlFail(s) \/ WriteMissingSchema(s) \/ WriteReject(s) \/ WriteApplyFail(s)
  <2>1. Yield(s, "done", [run[s].data EXCEPT !.err = TRUE])
    BY <1>3 DEF WriteDdlFail, WriteMissingSchema, WriteReject, WriteApplyFail
  <2>2. /\ run'[s].pc = "done" /\ run'[s].at = run[s].at /\ run'[s].kind = run[s].kind
        /\ run'[s].data = [run[s].data EXCEPT !.err = TRUE] /\ run'[s].val = run[s].val
    BY <2>1, YieldFields
  <2>3. run'[s].data.err /\ ~run'[s].data.complete
    BY <1>0, <1>1, <2>2 DEF Data
  <2>4. DoneFits(s)'
    BY <1>1, <2>2, <2>3 DEF DoneFits, StepNodes
  <2> QED BY <1>1, <2>2, <2>3, <2>4, FitOn DEF Inside
<1>4. CASE WriteComplete(s)
  <2>1. job' = [job EXCEPT !.status = "complete"]
    BY <1>4, OrderlyStore DEF WriteComplete
  <2>2. job'.status = "complete"
    BY <2>1, StatusOf DEF Typed, TypeOK, Statuses
  <2>3. /\ run'[s].pc = "done" /\ run'[s].at = run[s].at /\ run'[s].kind = run[s].kind
        /\ run'[s].data = [run[s].data EXCEPT !.complete = TRUE] /\ run'[s].val = run[s].val
    BY <1>4, YieldFields DEF WriteComplete
  <2>4. run'[s].data.complete /\ run'[s].data.err = run[s].data.err
    BY <1>0, <2>3 DEF Data
  <2>5. DoneFits(s)'
    BY <1>1, <2>2, <2>3, <2>4 DEF DoneFits, StepNodes
  <2> QED BY <1>1, <2>3, <2>4, <2>5, FitOn DEF Inside
<1> QED BY <1>2, <1>3, <1>4 DEF Write

\* A request that finds nothing under way.
LEMMA FitRequests ==
  ASSUME Typed, PendingKeyFits, SoloInv, Fitting, NEW s \in Slots, Request(s), overlaps' = 0
  PROVE  Fitting'
<1>1. AtRest /\ Agreed
  BY NoneThere DEF Fitting
<1>2. /\ UNCHANGED <<ckpt, hist>> /\ run'[s].pc \in {"load", "queued", "checked"}
      /\ \A t \in Slots \ {s} : run'[t] = run[t]
  BY RequestFrame
<1>3. SUFFICES Fits(s)'
  <2>1. ASSUME NEW t \in Slots \ {s} PROVE Fits(t)'
    BY <1>1, <1>2, <2>1 DEF Fitting, Fits, AtRest, Inside
  <2> QED BY <1>2, <1>3, <2>1 DEF Fitting, AtRest
<1>4. job.status # "none" => Agreed'
  BY <1>1, <1>2, RequestFrame DEF Agreed, Stranded
<1>5. CASE StartMigrationWithUpload(s)
  <2>1. job' = RunningNoGate /\ Enter(s, "start", "load")
    BY <1>5 DEF StartMigrationWithUpload
  <2>2. LoadFits(s)' /\ run'[s].pc = "load"
    BY <2>1, EnterFields DEF LoadFits, RunningNoGate
  <2> QED BY <2>2 DEF Fits, Inside
<1>6. ASSUME NEW g \in GateTypes, NEW ok \in BOOLEAN, SubmitDecision(s, g, ok) PROVE Fits(s)'
  <2>1. /\ run'[s].pc \in {"load", "queued"} /\ run'[s].kind = "resume" /\ run'[s].val.for = g
    BY <1>6, SubmitFields
  <2>2. job.status \in {"awaiting_review", "running"} /\ job.gate \in {NoGate, g}
    BY <1>6 DEF SubmitDecision, Resumable, GateMatches
  <2>3. ckpt.next # End /\ (ckpt.next = Nowhere \/ (ckpt.next \in GateNodes /\ g = GateOf(ckpt.next)) \/ ckpt.data.err)
    <3>1. CASE job.status = "awaiting_review"
      <4>1. ckpt.next \in GateNodes /\ job.gate = GateOf(ckpt.next)
        BY <1>1, <3>1 DEF Agreed
      <4>2. GateOf(ckpt.next) # NoGate
        BY GateOfType DEF GateTypes, NoGate
      <4> QED BY <2>2, <4>1, <4>2 DEF GateNodes, End
    <3>2. CASE job.status = "running"
      BY <1>1, <3>2 DEF Agreed, Stranded, End, Nowhere
    <3> QED BY <2>2, <3>1, <3>2
  <2>4. LoadFits(s)'
    BY <1>2, <2>1, <2>3 DEF LoadFits, ForGate
  <2>5. Agreed'
    BY <1>4, <2>2
  <2> QED BY <2>1, <2>4, <2>5 DEF Fits, Inside
<1>7. CASE AdvanceCheck(s)
  <2>1. job.status = "step_paused" /\ job' = job /\ Enter(s, "advance", "checked")
    BY <1>7 DEF AdvanceCheck
  <2>2. run'[s].pc = "checked" /\ CheckedFits(s)'
    BY <1>4, <2>1, EnterFields DEF CheckedFits
  <2> QED BY <2>2 DEF Fits, Inside
<1>8. ASSUME NEW n \in RerunTargets, RerunCheck(s, n) PROVE Fits(s)'
  <2>1. /\ run'[s].pc = "checked" /\ run'[s].kind = "rerun" /\ run'[s].at = n
        /\ run'[s].data \in hist[n] /\ run'[s].val = NoAnswer
    BY <1>8, RerunFields
  <2>2. n \in StepNodes /\ ~run'[s].data.complete /\ job.status # "none"
    BY <2>1, ConfigAssumption DEF Fitting, SoloInv, Untouched
  <2>3. CheckedFits(s)'
    BY <1>4, <2>1, <2>2 DEF CheckedFits
  <2> QED BY <2>1, <2>3 DEF Fits, Inside
<1>9. CASE CancelCheck(s)
  <2>1. job.status # "none" /\ Enter(s, "cancel", "checked")
    BY <1>9 DEF CancelCheck
  <2>2. run'[s].pc = "checked" /\ CheckedFits(s)'
    BY <1>4, <2>1, EnterFields DEF CheckedFits
  <2> QED BY <2>2 DEF Fits, Inside
<1>10. ~RetryMigrationDdl(s)
  BY <1>1 DEF RetryMigrationDdl, Agreed
<1> QED BY <1>5, <1>6, <1>7, <1>8, <1>9, <1>10 DEF Request

LEMMA FitOthers ==
  ASSUME Typed, SoloInv, Fitting, StartMigration \/ UNCHANGED vars
  PROVE  Fitting'
<1>1. ASSUME UNCHANGED <<ckpt, hist, run>>, job' = job \/ (AtRest /\ Agreed') PROVE Fitting'
  <2>1. Agreed => Agreed'
    BY <1>1 DEF Agreed, Stranded
  <2>2. ASSUME NEW t \in Slots PROVE Fits(t)'
    <3>1. CASE job' = job
      BY <1>1, <2>1, <3>1 DEF Fitting, Fits, CheckedFits, LoadFits, InsideFits, DoneFits
    <3>2. CASE AtRest
      BY <1>1, <3>2 DEF AtRest, Fitting, Fits, Inside
    <3> QED BY <1>1, <3>1, <3>2
  <2> QED BY <1>1, <2>1, <2>2 DEF Fitting, AtRest
<1>2. CASE StartMigration
  BY <1>1, <1>2 DEF StartMigration, RunningNoGate, Elsewhere, SoloInv, Untouched, Agreed, Stranded
<1>3. CASE UNCHANGED vars
  BY <1>1, <1>3 DEF vars
<1> QED BY <1>2, <1>3

\* Losing the checkpoints together with the process.
LEMMA CrashGoes ==
  ASSUME Typed, SoloInv, Fitting \/ Gone, Crash, ~Durable
  PROVE  Fitting' \/ Gone'
<1>1. /\ ckpt'.next = Nowhere /\ ~ckpt'.data.complete /\ \A n \in RerunTargets : hist'[n] = {}
      /\ job' = job /\ crashes' # 0
      /\ \A s \in Slots : run'[s] = Idle \/ (run'[s] = run[s] /\ run[s].pc = "queued")
  BY DEF Crash, Fresh, Typed, TypeOK
<1>2. CASE job.status = "none"
  <2>1. \A s \in Slots : run'[s] = Idle
    BY <1>1, <1>2 DEF SoloInv, Untouched, AtRest
  <2>2. Agreed'
    BY <1>1, <1>2 DEF Agreed
  <2>3. \A s \in Slots : Fits(s)'
    BY <2>1 DEF Fits, Idle, Inside
  <2> QED BY <1>1, <2>2, <2>3 DEF Fitting, Nowhere
<1>3. CASE job.status # "none"
  <2>1. \A s \in Slots : run'[s].pc \in {"idle", "queued"}
    BY <1>1 DEF Idle
  <2> QED BY <1>1, <1>3, <2>1 DEF Gone
<1> QED BY <1>2, <1>3

LEMMA GoneKept ==
  ASSUME Typed, SoloInv, Gone, [Next]_vars, ~Crash
  PROVE  Gone'
<1>0. job.status # "none" /\ (job'.status = "none" => job' = job)
  BY RowSteps DEF RowStep, Gone
<1>1. ASSUME NEW s \in Slots, Request(s) PROVE Gone'
  <2>1. /\ UNCHANGED <<ckpt, hist, crashes, job>> /\ run'[s].pc \in {"load", "queued", "checked"}
        /\ \A t \in Slots \ {s} : run'[t] = run[t]
    BY <1>0, <1>1, RequestFrame
  <2>2. /\ run'[s].pc = "load" => run'[s].kind = "resume"
        /\ run'[s].pc = "checked" => run'[s].kind # "rerun" /\ run'[s].val = NoAnswer
    <3>1. ~StartMigrationWithUpload(s)
      BY DEF StartMigrationWithUpload, Gone
    <3>2. ~\E n \in RerunTargets : RerunCheck(s, n)
      BY DEF RerunCheck, Gone
    <3>3. CASE AdvanceCheck(s) \/ CancelCheck(s) \/ RetryMigrationDdl(s)
      BY <3>3, EnterFields DEF AdvanceCheck, CancelCheck, RetryMigrationDdl
    <3> QED BY <1>1, <3>1, <3>2, <3>3, SubmitFields DEF Request
  <2> QED BY <2>1, <2>2 DEF Gone
<1>2. ASSUME NEW s \in Slots, Proceed(s) PROVE Gone'
  <2>0. Idle.pc = "idle"
    BY DEF Idle
  <2>1. run[s].pc \in {"queued", "checked", "load", "raised"}
    BY <1>2, ProceedFrame DEF Gone
  <2>2. UNCHANGED <<ckpt, hist>>
        /\ (run'[s].pc \in {"idle", "raised"} \/ (run'[s].pc = "load" /\ run'[s].kind = "advance"))
    <3>1. CASE Handler(s)
      BY <2>0, <3>1, GotoFields, LeaveMoves
         DEF Handler, AdvanceCommit, RerunCommit, CancelCommit, Gone, Elsewhere
    <3>2. CASE Worker(s)
      BY <2>0, <3>2, GotoFields, LeaveMoves DEF Worker, WorkerResume, WorkerRefuse, Elsewhere
    <3>3. CASE LoadCheckpoint(s)
      <4>1. UNCHANGED <<ckpt, hist>>
        BY <3>3, Zenon DEF LoadCheckpoint, Elsewhere
      <4> QED BY <3>3, <4>1, LoadFields DEF Gone, Nowhere, End
    <3>4. CASE FailRun(s)
      BY <2>0, <3>4, LeaveMoves DEF FailRun, Elsewhere
    <3>5. ~BeginRun(s) /\ ~FinishRun(s)
      BY <2>1 DEF BeginRun, FinishRun, Gone
    <3>6. ~CommitCheckpoint(s)
      BY <2>1, Zenon DEF CommitCheckpoint
    <3>7. ~Step(s)
      BY <2>1, ProgressFields, FailFields DEF Step, StepPause
    <3>8. ~Gate(s)
      BY <2>1 DEF Gate, GateSkip, GateAsk, GateReady, GateInterrupt, GateClear, PreSemanticAccept,
            PreSemanticRaise, HumanReviewAccept, HumanReviewInvalid, HierarchyResolved, HierarchyUnresolved
    <3>9. ~Write(s)
      BY <2>1 DEF Write, WriteDdl, WriteDdlFail, WriteMissingSchema, WriteMappings, WriteReject,
            WriteApply, WriteApplyFail, WriteComplete
    <3> QED BY <1>2, <3>1, <3>2, <3>3, <3>4, <3>5, <3>6, <3>7, <3>8, <3>9 DEF Proceed, Runner
  <2> QED BY <1>0, <1>2, <2>2, ProceedFrame DEF Gone
<1>3. ~StartMigration
  BY <1>0 DEF StartMigration
<1>4. CASE UNCHANGED vars
  BY <1>4 DEF vars, Gone
<1> QED BY <1>1, <1>2, <1>3, <1>4 DEF Next

LEMMA LostGrows ==
  ASSUME Typed, NEW s \in Slots, Proceed(s)
  PROVE  lost' >= lost
<1>0. lost' = lost \/ lost' = lost + 1
  <2> USE DEF Store
  <2>1. CASE Handler(s) \/ Worker(s)
    BY <2>1 DEF Handler, Worker, AdvanceCommit, RerunCommit, CancelCommit, WorkerResume, WorkerRefuse
  <2>2. CASE BeginRun(s) \/ LoadCheckpoint(s) \/ CommitCheckpoint(s)
    <3> lost' = lost
      BY <2>2, Zenon DEF BeginRun, LoadCheckpoint, CommitCheckpoint
    <3> QED OBVIOUS
  <2>3. CASE FinishRun(s) \/ FailRun(s)
    BY <2>3 DEF FinishRun, FailRun
  <2>4. CASE Step(s)
    BY <2>4 DEF Step, StepProgress, StepPause, StepFail
  <2>5. CASE GateSkip(s) \/ GateAsk(s) \/ GateInterrupt(s) \/ GateClear(s)
    BY <2>5 DEF GateSkip, GateAsk, GateInterrupt, GateClear
  <2>6. CASE PreSemanticAccept(s) \/ PreSemanticRaise(s)
    BY <2>6 DEF PreSemanticAccept, PreSemanticRaise
  <2>7. CASE HumanReviewAccept(s) \/ HumanReviewInvalid(s)
    BY <2>7 DEF HumanReviewAccept, HumanReviewInvalid
  <2>8. CASE HierarchyResolved(s) \/ HierarchyUnresolved(s)
    BY <2>8 DEF HierarchyResolved, HierarchyUnresolved
  <2>9. CASE WriteDdl(s) \/ WriteDdlFail(s) \/ WriteMissingSchema(s) \/ WriteMappings(s)
    BY <2>9 DEF WriteDdl, WriteDdlFail, WriteMissingSchema, WriteMappings
  <2>10. CASE WriteReject(s) \/ WriteApply(s) \/ WriteApplyFail(s) \/ WriteComplete(s)
    BY <2>10 DEF WriteReject, WriteApply, WriteApplyFail, WriteComplete, Elsewhere
  <2> QED BY <2>1, <2>2, <2>3, <2>4, <2>5, <2>6, <2>7, <2>8, <2>9, <2>10
          DEF Proceed, Runner, Gate, Write
<1> QED BY <1>0 DEF Typed, TypeOK

LEMMA BoundsGrow ==
  ASSUME Typed, SoloInv, [Next]_vars, Orderly'
  PROVE  Orderly /\ (crashes' = 0 => crashes = 0)
<1>1. overlaps = 0 /\ lost \in Nat /\ crashes \in Nat
  BY SoloKept DEF Orderly, Typed, TypeOK
<1>2. lost' >= lost /\ crashes' >= crashes
  <2>1. ASSUME NEW s \in Slots, Proceed(s) PROVE lost' >= lost /\ crashes' >= crashes
    BY <1>1, <2>1, LostGrows, ProceedFrame
  <2>2. ASSUME NEW s \in Slots, Request(s) PROVE lost' >= lost /\ crashes' >= crashes
    BY <1>1, <2>2, RequestFrame
  <2>3. CASE StartMigration \/ Crash \/ UNCHANGED vars
    BY <1>1, <2>3 DEF StartMigration, Crash, vars, Elsewhere
  <2> QED BY <2>1, <2>2, <2>3 DEF Next
<1> QED BY <1>1, <1>2 DEF Orderly

LEMMA RestKept ==
  ASSUME Typed, PendingKeyFits, ColumnsInv, SoloInv, RestInv, [Next]_vars
  PROVE  RestInv'
<1> SUFFICES ASSUME InStep' PROVE Fitting' \/ Gone'
  BY DEF RestInv
<1>1. overlaps' = 0 /\ lost = 0 /\ lost' = 0 /\ overlaps = 0 /\ (Fitting \/ Gone)
  BY BoundsGrow DEF RestInv, InStep, Orderly
<1>2. CASE Crash
  <2>1. ~Durable
    BY <1>2 DEF Crash, InStep, Typed, TypeOK
  <2> QED BY <1>1, <1>2, <2>1, CrashGoes
<1>3. CASE ~Crash /\ Gone
  BY <1>3, GoneKept
<1>4. CASE ~Crash /\ Fitting
  <2>1. ASSUME NEW s \in Slots, Proceed(s) PROVE Fitting'
    <3>1. Only(s)
      BY <1>1, <2>1, OnlyOne
    <3> QED BY <1>1, <1>4, <2>1, <3>1, FitHandlers, FitBegin, FitLoad, FitCommit, FitEnds, FitSteps,
               FitGates, FitWrites DEF Proceed, Runner
  <2>2. ASSUME NEW s \in Slots, Request(s) PROVE Fitting'
    BY <1>1, <1>4, <2>2, FitRequests
  <2>3. CASE StartMigration \/ UNCHANGED vars
    BY <1>4, <2>3, FitOthers
  <2> QED BY <1>4, <2>1, <2>2, <2>3 DEF Next
<1> QED BY <1>1, <1>2, <1>3, <1>4

LEMMA RestInvariant == Spec => []RestInv
<1>1. Init => RestInv
  BY DEF Init, RestInv, Fitting, Agreed, Fits, Idle, Inside, Fresh
<1>2. Typed /\ PendingKeyFits /\ ColumnsInv /\ SoloInv /\ RestInv /\ [Next]_vars => RestInv'
  BY RestKept
<1> QED BY <1>1, <1>2, TypeCorrect, PendingKeyAlwaysFits, ColumnsInvariant, SoloInvariant, PTL DEF Spec

\* With one request at a time, no crash and no lost update, the row agrees with the checkpoint
\* whenever nothing is under way, for any configuration, reruns included.
THEOREM RowAgreesAtRest == Spec => []RestingAgreement
<1>1. RestInv => RestingAgreement
  BY DEF RestInv, InStep, Fitting, Gone, RestingAgreement
<1> QED BY <1>1, RestInvariant, PTL

\* Unless a crash separates row and checkpoint, a decision is consumed by the gate it was
\* posted for.
THEOREM DecisionsMeetTheirGates == Spec => []DecisionMeetsItsGate
<1>1. Typed /\ RestInv => DecisionMeetsItsGate
  <2>1. ASSUME Typed, Fitting, NEW s \in Slots, run[s].val # NoAnswer,
               run[s].pc \notin {"idle", "queued", "load", "raised"}
        PROVE  (run[s].at \in GateNodes /\ run[s].val.for = GateOf(run[s].at)) \/ run[s].data.err
    <3>1. run[s].pc \in Phases
      BY <2>1 DEF Typed, TypeOK, Runs
    <3>2. run[s].pc \notin {"checked", "finish"}
      BY <2>1 DEF Fitting, Fits, CheckedFits
    <3>3. run[s].pc \in Inside
      BY <2>1, <3>1, <3>2 DEF Phases, Inside
    <3> QED BY <2>1, <3>3 DEF Fitting, Fits, InsideFits, ForGate
  <2>2. Gone => DecisionMeetsItsGate
    BY DEF Gone, DecisionMeetsItsGate
  <2> QED BY <2>1, <2>2 DEF RestInv, InStep, DecisionMeetsItsGate
<1> QED BY <1>1, TypeCorrect, RestInvariant, PTL

-----------------------------------------------------------------------------
(* With crashes.                                                           *)

\* What a gate found when it asked it finds again when it is answered.
Askable ==
    /\ ckpt.next \in {"pre_semantic_review_node", "verify_hierarchy_node"} => ckpt.data.rev
    /\ ckpt.next = "write_node" => "intermediate_schema" \in ckpt.data.have

\* A task may be stopped anywhere: it is at the node of the latest checkpoint, and what the
\* row says in every phase.
Stands(s) ==
    /\ run[s].pc = "load" =>
          /\ Resumable(job)
          /\ run[s].kind # "resume" => job.status = "running"
          /\ run[s].kind = "start" => run[s].at = "ingest_node" /\ run[s].data = Fresh
    /\ run[s].pc \in Inside => ckpt.next = run[s].at
    /\ run[s].pc \in {"node", "rows", "ask"} => run[s].data = ckpt.data /\ Resumable(job)
    /\ run[s].pc = "ask" => "intermediate_schema" \in run[s].data.have
    /\ run[s].pc \in {"progressed", "answered", "applied"} => job.status = "running"
    /\ run[s].pc = "asked" => run[s].at \in GateNodes
    /\ run[s].pc = "answered" => run[s].at \in GateNodes
    /\ run[s].pc = "done" =>
          /\ run[s].at \in GateNodes \ {"write_node"} => job.status = "running"
          /\ run[s].at \in StepNodes =>
                job.status = "running" \/ job = [status |-> "step_paused", gate |-> run[s].at]
          /\ run[s].at = "write_node" => job.status \in {"running", "ddl_failed", "complete"}

Standing ==
    /\ Recoverable
    /\ job.status = "awaiting_review" => Askable
    /\ \A s \in Slots : Stands(s)
CrashInv == Orderly => Standing

\* Rows that promise nothing of the checkpoint, and what was promised already.
LEMMA RowFree ==
  ASSUME Standing, UNCHANGED ckpt,
         job' = job \/ job'.status \in {"running", "failed", "cancelled", "ddl_failed"}
  PROVE  Recoverable' /\ (job'.status = "awaiting_review" => Askable')
BY DEF Standing, Recoverable, Askable

LEMMA StandMove ==
  ASSUME Standing, NEW s \in Slots, Only(s), UNCHANGED ckpt, Stands(s)',
         Recoverable' /\ (job'.status = "awaiting_review" => Askable')
  PROVE  Standing'
<1>1. ASSUME NEW t \in Slots \ {s} PROVE Stands(t)'
  BY <1>1 DEF Only, Stands, Inside
<1> QED BY <1>1 DEF Standing

LEMMA StandFree ==
  ASSUME Standing, NEW s \in Slots, Only(s), UNCHANGED ckpt, Stands(s)',
         job' = job \/ job'.status \in {"running", "failed", "cancelled", "ddl_failed"}
  PROVE  Standing'
BY RowFree, StandMove

LEMMA StandOutside ==
  ASSUME Typed, Placed, Standing, NEW s \in Slots, Only(s), Handler(s) \/ Worker(s)
  PROVE  Standing'
<1> USE GotoFields, LeaveMoves DEF Elsewhere
<1>1. CASE AdvanceCommit(s)
  <2>1. job'.status = "running" /\ run'[s].pc = "load" /\ run'[s].kind = "advance" /\ UNCHANGED ckpt
    BY <1>1 DEF AdvanceCommit, RunningNoGate
  <2>2. Stands(s)'
    BY <2>1 DEF Stands, Resumable, Inside
  <2> QED BY <2>1, <2>2, StandFree
<1>2. ~RerunCommit(s)
  BY DEF RerunCommit, Placed
<1>3. CASE CancelCommit(s)
  <2>1. job'.status = "cancelled" /\ run'[s].pc = "idle" /\ UNCHANGED ckpt
    BY <1>3, StatusOf DEF CancelCommit, Typed, TypeOK, Statuses, Idle
  <2> QED BY <2>1, StandFree DEF Stands, Inside
<1>4. CASE WorkerResume(s)
  <2>1. job'.status = "running" /\ run'[s].pc = "raised" /\ UNCHANGED ckpt
    BY <1>4, StatusOf DEF WorkerResume, Typed, TypeOK, Statuses
  <2> QED BY <2>1, StandFree DEF Stands, Inside
<1>5. CASE WorkerRefuse(s)
  <2>1. job' = job /\ run'[s].pc = "idle" /\ UNCHANGED ckpt
    BY <1>5 DEF WorkerRefuse, Idle
  <2> QED BY <2>1, StandFree DEF Stands, Inside
<1> QED BY <1>1, <1>2, <1>3, <1>4, <1>5 DEF Handler, Worker

LEMMA StandRunner ==
  ASSUME Typed, Placed, Standing, NEW s \in Slots, Only(s), lost = 0, lost' = 0, Runner(s)
  PROVE  Standing'
<1>0. Stands(s)
  BY DEF Standing
<1>1. ASSUME NEW t \in Slots \ {s} PROVE Stands(t)'
  BY <1>1 DEF Only, Stands, Inside
<1>2. CASE BeginRun(s)
  <2>1. /\ run[s].pc = "load" /\ run[s].kind = "start" /\ job' = job
        /\ ckpt' = [next |-> "ingest_node", data |-> Fresh]
    BY <1>2 DEF BeginRun, Checkpoint
  <2>2. /\ run'[s].pc = "node" /\ run'[s].at = run[s].at /\ run'[s].data = run[s].data
    BY <1>2, GotoFields DEF BeginRun
  <2>3. job.status = "running" /\ run[s].at = "ingest_node" /\ run[s].data = Fresh
    BY <1>0, <2>1 DEF Stands
  <2>4. Stands(s)' /\ Recoverable'
    BY <2>1, <2>2, <2>3 DEF Stands, Resumable, Recoverable
  <2> QED BY <1>1, <2>1, <2>3, <2>4 DEF Standing
<1>3. CASE LoadCheckpoint(s)
  <2>1. run[s].pc = "load" /\ UNCHANGED <<job, ckpt>>
    BY <1>3, Zenon DEF LoadCheckpoint, Elsewhere
  <2>2. \/ run'[s].pc \in {"raised", "finish"}
        \/ run'[s].pc = "node" /\ run'[s].at = ckpt.next /\ run'[s].data = ckpt.data
    BY <1>3, LoadFields DEF Typed, TypeOK
  <2>3. Stands(s)'
    BY <1>0, <2>1, <2>2 DEF Stands, Resumable, Inside
  <2> QED BY <2>1, <2>3, StandFree
<1>4. CASE CommitCheckpoint(s)
  <2> DEFINE n == Successor(run[s].at, run[s].data)
  <2>1. run[s].pc = "done" /\ job' = job /\ ckpt'.next = n /\ ckpt'.data = run[s].data
    BY <1>4 DEF CommitCheckpoint, Checkpoint
  <2>2. /\ run'[s].pc = (IF run[s].at \in StepNodes \/ n = End THEN "finish" ELSE "node")
        /\ run'[s].at = n /\ run'[s].data = run[s].data
    BY <1>4, CommitFields
  <2>3. run[s].at \in Nodes
    BY <2>1 DEF Placed, Inside
  <2>4. (n = End <=> run[s].at = "write_node")
    BY <2>3 DEF Successor, AfterPreSemantic, AfterSemantic, Nodes, StepNodes, GateNodes, End
  <2>5. /\ job.status # "awaiting_review"
        /\ job.status = "step_paused" => job.gate = run[s].at
        /\ job.status = "complete" => run[s].at = "write_node"
        /\ run[s].at \notin StepNodes \cup {"write_node"} => job.status = "running"
    BY <1>0, <2>1, <2>3 DEF Stands, Nodes
  <2>6. Recoverable'
    BY <2>1, <2>4, <2>5 DEF Recoverable
  <2> HIDE DEF n
  <2>7. Stands(s)'
    BY <2>1, <2>2, <2>4, <2>5 DEF Stands, Resumable, Inside
  <2> QED BY <1>1, <2>1, <2>5, <2>6, <2>7 DEF Standing
<1>5. CASE FinishRun(s) \/ FailRun(s)
  <2>1. run'[s].pc = "idle" /\ UNCHANGED ckpt
    BY <1>5, LeaveMoves DEF FinishRun, FailRun, Elsewhere, Idle
  <2>2. job' = job \/ job' = [job EXCEPT !.status = "failed"]
    BY <1>5 DEF FinishRun, FailRun, Store
  <2>3. job' = job \/ job'.status = "failed"
    BY <2>2, StatusOf DEF Typed, TypeOK, Statuses
  <2>4. Stands(s)'
    BY <2>1 DEF Stands, Inside
  <2> QED BY <2>1, <2>3, <2>4, StandFree
<1> QED BY <1>2, <1>3, <1>4, <1>5 DEF Runner

LEMMA StandSteps ==
  ASSUME Typed, Placed, Standing, NEW s \in Slots, Only(s), lost = 0, lost' = 0, Step(s)
  PROVE  Standing'
<1>0. Stands(s)
  BY DEF Standing
<1>1. CASE StepProgress(s)
  <2>1. job' = Running(job)
    BY <1>1, OrderlyStore DEF StepProgress
  <2>2. job'.status = "running"
    BY <2>1, StatusOf DEF Typed, TypeOK
  <2>3. /\ run[s].pc = "node" /\ run'[s].pc = "progressed" /\ run'[s].at = run[s].at /\ UNCHANGED ckpt
    BY <1>1, ProgressFields DEF Elsewhere
  <2>4. Stands(s)'
    BY <1>0, <2>2, <2>3 DEF Stands, Inside
  <2> QED BY <2>2, <2>3, <2>4, StandFree
<1>2. CASE StepPause(s)
  <2>1. run[s].pc = "progressed" /\ run[s].at \in StepNodes /\ UNCHANGED ckpt
    BY <1>2 DEF StepPause, Typed, PhaseOK, Elsewhere
  <2>2. run'[s].pc = "done" /\ run'[s].at = run[s].at
    BY <1>2, GotoFields DEF StepPause
  <2>3. job' = [status |-> "step_paused", gate |-> run[s].at]
    BY <1>2, OrderlyStore DEF StepPause
  <2>4. ckpt.next = run[s].at
    BY <1>0, <2>1 DEF Stands, Inside
  <2>5. Stands(s)'
    BY <2>1, <2>2, <2>3, <2>4 DEF Stands, Inside, StepNodes, GateNodes
  <2>6. Recoverable' /\ job'.status # "awaiting_review"
    BY <2>1, <2>3, <2>4 DEF Recoverable
  <2> QED BY <2>1, <2>5, <2>6, StandMove
<1>3. CASE StepFail(s)
  <2>1. /\ run[s].pc = "node" /\ run[s].at \in StepNodes /\ UNCHANGED <<job, ckpt>>
        /\ run'[s].pc = "done" /\ run'[s].at = run[s].at
    BY <1>3, FailFields DEF Elsewhere
  <2>2. job.status = "running"
    BY <1>0, <2>1, GatesStop DEF Stands, Standing, Recoverable, Resumable, Inside
  <2>3. Stands(s)'
    BY <1>0, <2>1, <2>2 DEF Stands, Inside
  <2> QED BY <2>1, <2>3, StandFree
<1> QED BY <1>1, <1>2, <1>3 DEF Step

LEMMA StandGates ==
  ASSUME Typed, Placed, Standing, NEW s \in Slots, Only(s), lost = 0, lost' = 0, Gate(s)
  PROVE  Standing'
<1> USE DEF Elsewhere
<1>0. Stands(s)
  BY DEF Standing
<1>1. CASE GateSkip(s)
  <2>1. /\ run[s].pc = "node" /\ run[s].at \in {"pre_semantic_review_node", "verify_hierarchy_node"}
        /\ ~run[s].data.rev /\ UNCHANGED <<job, ckpt>> /\ run'[s].pc = "done" /\ run'[s].at = run[s].at
    BY <1>1, GotoFields DEF GateSkip
  <2>2. job.status = "running"
    BY <1>0, <2>1 DEF Stands, Standing, Askable, Resumable, Inside
  <2>3. Stands(s)'
    BY <1>0, <2>1, <2>2, GatesStop DEF Stands, Inside, GateNodes
  <2> QED BY <2>1, <2>3, StandFree
<1>2. CASE GateAsk(s)
  <2>1. /\ run[s].pc \in {"node", "ask"} /\ run[s].at \in GateNodes
        /\ run[s].at \in {"pre_semantic_review_node", "verify_hierarchy_node"} => run[s].data.rev
        /\ run[s].at = "write_node" => run[s].pc = "ask"
    BY <1>2 DEF GateAsk, GateReady, Placed, GateNodes
  <2>2. run'[s].pc = "asked" /\ run'[s].at = run[s].at /\ UNCHANGED ckpt
    BY <1>2, GotoFields DEF GateAsk
  <2>3. job' = [status |-> "awaiting_review", gate |-> GateOf(run[s].at)]
    BY <1>2, OrderlyStore DEF GateAsk
  <2>4. ckpt.next = run[s].at /\ ckpt.data = run[s].data
        /\ (run[s].pc = "ask" => "intermediate_schema" \in run[s].data.have)
    BY <1>0, <2>1 DEF Stands, Inside
  <2>5. Askable' /\ Recoverable'
    BY <2>1, <2>2, <2>3, <2>4 DEF Askable, Recoverable
  <2>6. Stands(s)'
    BY <2>1, <2>2, <2>4 DEF Stands, Inside
  <2> QED BY <2>2, <2>5, <2>6, StandMove
<1>3. CASE GateInterrupt(s) \/ PreSemanticRaise(s)
  <2>1. UNCHANGED <<job, ckpt>> /\ run'[s].pc \in {"finish", "raised"}
    BY <1>3, GotoFields DEF GateInterrupt, PreSemanticRaise
  <2> QED BY <2>1, StandFree DEF Stands, Inside
<1>4. CASE GateClear(s)
  <2>1. run[s].pc = "asked" /\ UNCHANGED ckpt /\ run'[s].pc = "answered" /\ run'[s].at = run[s].at
    BY <1>4, GotoFields DEF GateClear
  <2>2. job' = RunningNoGate
    BY <1>4, OrderlyStore DEF GateClear
  <2>3. Stands(s)'
    BY <1>0, <2>1, <2>2 DEF Stands, Inside, RunningNoGate
  <2> QED BY <2>1, <2>2, <2>3, StandFree DEF RunningNoGate
<1>5. CASE \/ PreSemanticAccept(s) \/ HumanReviewAccept(s) \/ HumanReviewInvalid(s)
           \/ HierarchyResolved(s) \/ HierarchyUnresolved(s)
  <2>1. /\ run[s].pc = "answered" /\ run[s].at \in GateNodes \ {"write_node"} /\ UNCHANGED ckpt
        /\ job' = job \/ job' = Running(job)
        /\ \E d : Yield(s, "done", d)
    BY <1>5 DEF PreSemanticAccept, HumanReviewAccept, HumanReviewInvalid, HierarchyResolved,
                HierarchyUnresolved, GateNodes, Store
  <2>2. run'[s].pc = "done" /\ run'[s].at = run[s].at
    BY <2>1, YieldFields
  <2>3. job'.status = "running"
    BY <1>0, <2>1, StatusOf DEF Stands, Typed, TypeOK
  <2>4. Stands(s)'
    BY <1>0, <2>1, <2>2, <2>3, GatesStop DEF Stands, Inside
  <2> QED BY <2>1, <2>3, <2>4, StandFree
<1> QED BY <1>1, <1>2, <1>3, <1>4, <1>5 DEF Gate

LEMMA StandWrites ==
  ASSUME Typed, Placed, Standing, NEW s \in Slots, Only(s), lost = 0, lost' = 0, Write(s)
  PROVE  Standing'
<1> USE DEF Elsewhere
<1>0. /\ Stands(s) /\ run[s].at = "write_node" /\ run[s].pc \in Inside \ {"done"}
      /\ UNCHANGED ckpt /\ ckpt.next = run[s].at /\ "write_node" \in GateNodes \ StepNodes
  <2>1. run[s].at = "write_node" /\ run[s].pc \in Inside \ {"done"} /\ UNCHANGED ckpt
    <3>1. CASE WriteDdl(s) \/ WriteDdlFail(s) \/ WriteMissingSchema(s) \/ WriteMappings(s)
      BY <3>1 DEF WriteDdl, WriteDdlFail, WriteMissingSchema, WriteMappings, Placed, Inside
    <3>2. CASE WriteReject(s) \/ WriteApply(s) \/ WriteApplyFail(s) \/ WriteComplete(s)
      BY <3>2 DEF WriteReject, WriteApply, WriteApplyFail, WriteComplete, Placed, Inside
    <3> QED BY <3>1, <3>2 DEF Write
  <2> QED BY <2>1 DEF Standing, Stands, GateNodes, StepNodes
<1>1. CASE WriteDdl(s) \/ WriteMappings(s)
  <2>1. /\ run[s].pc \in {"node", "rows"} /\ run'[s].pc \in {"rows", "ask"}
        /\ run'[s].at = run[s].at /\ run'[s].data = run[s].data /\ job' = job
        /\ run'[s].pc = "ask" => "intermediate_schema" \in run[s].data.have
    BY <1>1, GotoFields DEF WriteDdl, WriteMappings
  <2>2. Stands(s)'
    BY <1>0, <2>1 DEF Stands, Inside, Resumable
  <2> QED BY <1>0, <2>1, <2>2, StandFree
<1>2. CASE WriteDdlFail(s)
  <2>1. job' = [job EXCEPT !.status = "ddl_failed"]
    BY <1>2, OrderlyStore DEF WriteDdlFail
  <2>2. job'.status = "ddl_failed"
    BY <2>1, StatusOf DEF Typed, TypeOK, Statuses
  <2>3. run'[s].pc = "done" /\ run'[s].at = run[s].at
    BY <1>2, YieldFields DEF WriteDdlFail
  <2>4. Stands(s)'
    BY <1>0, <2>2, <2>3 DEF Stands, Inside
  <2> QED BY <1>0, <2>2, <2>4, StandFree
<1>3. CASE WriteMissingSchema(s) \/ WriteReject(s) \/ WriteApplyFail(s)
  <2>1. run'[s].pc = "done" /\ run'[s].at = run[s].at /\ job' = job
    BY <1>3, YieldFields DEF WriteMissingSchema, WriteReject, WriteApplyFail
  <2>2. job.status = "running"
    <3>1. CASE WriteMissingSchema(s)
      BY <1>0, <3>1 DEF WriteMissingSchema, Stands, Standing, Askable, Resumable
    <3>2. CASE WriteReject(s) \/ WriteApplyFail(s)
      BY <1>0, <3>2 DEF WriteReject, WriteApplyFail, Stands
    <3> QED BY <1>3, <3>1, <3>2
  <2>3. Stands(s)'
    BY <1>0, <2>1, <2>2 DEF Stands, Inside
  <2> QED BY <1>0, <2>1, <2>3, StandFree
<1>4. CASE WriteApply(s)
  <2>1. run[s].pc = "answered" /\ run'[s].pc = "applied" /\ run'[s].at = run[s].at /\ job' = job
    BY <1>4, GotoFields DEF WriteApply
  <2>2. Stands(s)'
    BY <1>0, <2>1 DEF Stands, Inside
  <2> QED BY <1>0, <2>1, <2>2, StandFree
<1>5. CASE WriteComplete(s)
  <2>1. job' = [job EXCEPT !.status = "complete"]
    BY <1>5, OrderlyStore DEF WriteComplete
  <2>2. job'.status = "complete"
    BY <2>1, StatusOf DEF Typed, TypeOK, Statuses
  <2>3. run'[s].pc = "done" /\ run'[s].at = run[s].at
    BY <1>5, YieldFields DEF WriteComplete
  <2>4. Stands(s)' /\ Recoverable'
    BY <1>0, <2>2, <2>3 DEF Stands, Inside, Recoverable
  <2> QED BY <1>0, <2>2, <2>4, StandMove
<1> QED BY <1>1, <1>2, <1>3, <1>4, <1>5 DEF Write

LEMMA StandRequests ==
  ASSUME Typed, SoloInv, Standing, NEW s \in Slots, Request(s), overlaps' = 0
  PROVE  Standing'
<1>1. AtRest
  BY NoneThere
<1>2. /\ UNCHANGED ckpt /\ run'[s].pc \in {"load", "queued", "checked"}
      /\ \A t \in Slots \ {s} : run'[t] = run[t]
  BY RequestFrame
<1>3. ASSUME NEW t \in Slots \ {s} PROVE Stands(t)'
  BY <1>1, <1>2, <1>3 DEF AtRest, Stands, Inside
<1>4. CASE StartMigrationWithUpload(s)
  <2>1. job' = RunningNoGate /\ Enter(s, "start", "load")
    BY <1>4 DEF StartMigrationWithUpload
  <2>2. job'.status = "running"
    BY <2>1 DEF RunningNoGate
  <2>3. Stands(s)'
    BY <2>1, <2>2, EnterFields DEF Stands, Resumable, Inside
  <2>4. Recoverable' /\ job'.status # "awaiting_review"
    BY <2>2 DEF Recoverable
  <2> QED BY <1>3, <2>3, <2>4 DEF Standing
<1>5. CASE job' = job /\ Stands(s)'
  BY <1>2, <1>3, <1>5 DEF Standing, Recoverable, Askable
<1>6. ASSUME NEW g \in GateTypes, NEW ok \in BOOLEAN, SubmitDecision(s, g, ok)
      PROVE  job' = job /\ Stands(s)'
  <2>1. job' = job /\ Resumable(job)
    BY <1>6 DEF SubmitDecision
  <2>2. run'[s].pc \in {"load", "queued"} /\ run'[s].kind = "resume"
    BY <1>6, SubmitFields
  <2> QED BY <2>1, <2>2 DEF Stands, Inside, Resumable
<1>7. CASE AdvanceCheck(s) \/ CancelCheck(s) \/ RetryMigrationDdl(s)
  <2>1. job' = job /\ run'[s].pc \in {"checked", "queued"}
    BY <1>7, EnterFields DEF AdvanceCheck, CancelCheck, RetryMigrationDdl
  <2> QED BY <1>5, <2>1 DEF Stands, Inside
<1>8. ASSUME NEW n \in RerunTargets, RerunCheck(s, n) PROVE job' = job /\ Stands(s)'
  <2>1. job' = job /\ run'[s].pc = "checked"
    BY <1>8, RerunFields DEF RerunCheck
  <2> QED BY <2>1 DEF Stands, Inside
<1> QED BY <1>4, <1>5, <1>6, <1>7, <1>8 DEF Request

LEMMA CrashKept ==
  ASSUME Durable, Typed, Placed, SoloInv, CrashInv, [Next]_vars
  PROVE  CrashInv'
<1> SUFFICES ASSUME Orderly' PROVE Standing'
  BY DEF CrashInv
<1>1. Orderly /\ overlaps = 0 /\ overlaps' = 0 /\ lost = 0 /\ lost' = 0 /\ Standing
  BY BoundsGrow DEF CrashInv, Orderly
<1>2. ASSUME NEW s \in Slots, Proceed(s) PROVE Standing'
  <2>1. Only(s)
    BY <1>1, <1>2, OnlyOne
  <2> QED BY <1>1, <1>2, <2>1, StandOutside, StandRunner, StandSteps, StandGates, StandWrites DEF Proceed
<1>3. ASSUME NEW s \in Slots, Request(s) PROVE Standing'
  BY <1>1, <1>3, StandRequests
<1>4. CASE StartMigration
  <2>1. AtRest /\ run' = run /\ job'.status = "running"
    BY <1>4 DEF StartMigration, RunningNoGate, SoloInv, Untouched
  <2>2. \A t \in Slots : Stands(t)'
    BY <2>1 DEF Stands, AtRest, Inside
  <2> QED BY <2>1, <2>2 DEF Standing, Recoverable
<1>5. CASE Crash
  <2>1. UNCHANGED <<job, ckpt>> /\ \A t \in Slots : run'[t].pc \in {"idle", "queued"}
    BY <1>5 DEF Crash, Idle
  <2>2. \A t \in Slots : Stands(t)'
    BY <2>1 DEF Stands, Inside
  <2> QED BY <1>1, <2>1, <2>2 DEF Standing, Recoverable, Askable
<1>6. CASE UNCHANGED vars
  BY <1>1, <1>6 DEF vars, Standing, Stands, Recoverable, Askable, Resumable
<1> QED BY <1>2, <1>3, <1>4, <1>5, <1>6 DEF Next

\* With a durable checkpointer and no reruns, a crash at any point, any number of them,
\* leaves a row the user can go on from: the step shown is executed again or is behind, and
\* the gate shown is the one the graph stands at.
THEOREM CrashesAreRecoverable ==
  ASSUME Durable, RerunTargets = {}
  PROVE  Spec => []RecoverableRest
<1>1. Init => CrashInv
  BY DEF Init, CrashInv, Standing, Recoverable, Stands, Idle, Inside
<1>2. Typed /\ Placed /\ SoloInv /\ CrashInv /\ [Next]_vars => CrashInv'
  BY CrashKept
<1>3. CrashInv => RecoverableRest
  BY DEF CrashInv, Standing, RecoverableRest
<1>4. SerialInv => Placed
  BY DEF SerialInv
<1> QED BY <1>1, <1>2, <1>3, <1>4, TypeCorrect, SerialInvariant, SoloInvariant, PTL DEF Spec
=============================================================================
