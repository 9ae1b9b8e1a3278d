----------------------- MODULE MigrationPipeline_proofs -----------------------
(***************************************************************************)
(* For any slots, bounds and configuration of MigrationPipeline: type      *)
(* correctness, what gate 3 promises (the pending key, the confirmations   *)
(* and what is done on them, ConfirmedHandover), and that without overlaps *)
(* and crashes the records are handed over once.                           *)
(***************************************************************************)
EXTENDS MigrationPipeline, TLAPS

-----------------------------------------------------------------------------
(* What the operators of the specification return.                         *)

LEMMA SuccessorType ==
  ASSUME NEW n \in Nodes, NEW d \in Data
  PROVE  Successor(n, d) \in Nodes \cup {End}
BY DEF Successor, AfterPreSemantic, AfterSemantic, Nodes, StepNodes, GateNodes

LEMMA SuccessorOfEnd == ASSUME NEW d PROVE Successor(End, d) = End
BY DEF Successor, End

LEMMA GateOfType == ASSUME NEW n PROVE GateOf(n) \in GateTypes
BY DEF GateOf, GateTypes

LEMMA DeterministicResultsType ==
  ASSUME NEW d \in Data
  PROVE  DeterministicResults(d) \subseteq Data
<1> SUFFICES ASSUME NEW x \in DeterministicResults(d) PROVE x \in Data
  OBVIOUS
<1>1. PICK o \in BOOLEAN : x \in {[d EXCEPT !.rev = r, !.open = o] : r \in BOOLEAN}
  BY DEF DeterministicResults
<1> QED BY <1>1 DEF Data

LEMMA ResultsType ==
  ASSUME NEW n, NEW d \in Data
  PROVE  StepResults(n, d) \subseteq Data
<1>1. IngestResults(d) \subseteq Data
  BY DEF IngestResults, With, Data, Artifacts
<1>2. SemanticResults(d) \subseteq Data
  BY DEF SemanticResults, Data
<1>3. PreprocessResults(d) \subseteq Data
  BY DEF PreprocessResults, With, Data, Artifacts
<1>4. HierarchyResults(d) \subseteq Data
  BY DEF HierarchyResults, Data
<1>5. OutputResults(d) \subseteq Data
  BY DEF OutputResults, With, Data, Artifacts
<1> QED
  BY <1>1, <1>2, <1>3, <1>4, <1>5, DeterministicResultsType DEF StepResults

\* TypeOK is not inductive: write_step_pause stores the name of the node the run is
\* at, so a run between its two updates has to be at a step node.
PhaseOK == \A s \in Slots : run[s].pc = "progressed" => run[s].at \in StepNodes
RunsOK  == run \in [Slots -> Runs] /\ PhaseOK
Typed   == TypeOK /\ PhaseOK

LEMMA IdleType == Idle \in Runs /\ NoAnswer \in Answer /\ Fresh \in Data
BY BoundsAssumption
   DEF Idle, Runs, Phases, Kinds, Nodes, StepNodes, Fresh, Data, NoAnswer, Answer

LEMMA GotoType ==
  ASSUME RunsOK, NEW s \in Slots, NEW p \in Phases, p = "progressed" => run[s].at \in StepNodes,
         Goto(s, p)
  PROVE  RunsOK'
BY DEF Goto, Runs, RunsOK, PhaseOK

LEMMA YieldType ==
  ASSUME RunsOK, NEW s \in Slots, NEW p \in Phases, NEW d \in Data,
         p = "progressed" => run[s].at \in StepNodes, Yield(s, p, d)
  PROVE  RunsOK'
BY DEF Yield, Runs, RunsOK, PhaseOK

LEMMA LeaveType ==
  ASSUME RunsOK, NEW s \in Slots, Leave(s)
  PROVE  RunsOK'
BY IdleType DEF Leave, Idle, RunsOK, PhaseOK

LEMMA EnterType ==
  ASSUME RunsOK, NEW s \in Slots, NEW k \in Kinds, NEW p \in Phases \ {"progressed"},
         Enter(s, k, p)
  PROVE  RunsOK'
BY IdleType DEF Enter, Runs, Idle, RunsOK, PhaseOK

LEMMA StoreType ==
  ASSUME job \in Row, lost \in 0..MaxLostWrites, NEW row \in Row, Store(row)
  PROVE  job' \in Row /\ lost' \in 0..MaxLostWrites
BY BoundsAssumption DEF Store

LEMMA RowType ==
  ASSUME job \in Row
  PROVE  /\ RunningNoGate \in Row
         /\ Running(job) \in Row
         /\ \A x \in Statuses : [job EXCEPT !.status = x] \in Row
         /\ \A n \in StepNodes : [status |-> "step_paused", gate |-> n] \in Row
         /\ \A n : [status |-> "awaiting_review", gate |-> GateOf(n)] \in Row
BY GateOfType DEF RunningNoGate, Running, Row, Statuses

LEMMA CheckpointType ==
  ASSUME hist \in [RerunTargets -> SUBSET Data],
         NEW n \in Nodes \cup {End}, NEW d \in Data, Checkpoint(n, d)
  PROVE  /\ ckpt' \in [next : Nodes \cup {Nowhere, End}, data : Data]
         /\ hist' \in [RerunTargets -> SUBSET Data]
BY DEF Checkpoint

LEMMA ArriveType ==
  ASSUME overlaps \in 0..MaxOverlaps, NEW s \in Slots, Arrive(s)
  PROVE  overlaps' \in 0..MaxOverlaps
BY BoundsAssumption DEF Arrive

-----------------------------------------------------------------------------
(* Type correctness, one lemma per part of Next.                           *)

LEMMA RequestTypes ==
  ASSUME Typed, NEW s \in Slots, Request(s)
  PROVE  Typed'
<1> USE BoundsAssumption, ConfigAssumption, RowType, ArriveType DEF Typed, TypeOK, RunsOK, SystemState
<1> DEFINE p == {"queued", "checked", "load"}
<1>1. p \subseteq Phases \ {"progressed"} /\ {"start", "resume", "advance", "rerun", "cancel", "retry"} \subseteq Kinds
  BY DEF Phases, Kinds
<1>2. CASE StartMigrationWithUpload(s)
  BY <1>1, <1>2, EnterType DEF StartMigrationWithUpload
<1>3. ASSUME NEW g \in GateTypes, NEW ok \in BOOLEAN, SubmitDecision(s, g, ok)
      PROVE  Typed'
  <2>1. PICK k \in 0..MaxConfirms, ph \in Phases \ {"progressed"} :
           run' = [run EXCEPT ![s] = [Idle EXCEPT !.pc = ph, !.kind = "resume",
                                        !.val = [for |-> g, ok |-> ok, id |-> k]]]
    BY <1>1, <1>3 DEF SubmitDecision
  <2>2. confirms' \in 0..MaxConfirms
    BY <1>3 DEF SubmitDecision
  <2>3. [for |-> g, ok |-> ok, id |-> k] \in Answer
    BY DEF Answer
  <2>4. RunsOK'
    BY <2>1, <2>3, <1>1, IdleType DEF Runs, PhaseOK
  <2> QED BY <1>3, <2>2, <2>4 DEF SubmitDecision
<1>4. CASE AdvanceCheck(s)
  BY <1>1, <1>4, EnterType DEF AdvanceCheck
<1>5. ASSUME NEW n \in RerunTargets, RerunCheck(s, n)
      PROVE  Typed'
  <2>1. PICK d \in Data :
           run' = [run EXCEPT ![s] = [Idle EXCEPT !.pc = "checked", !.kind = "rerun",
                                        !.at = n, !.data = d]]
    BY <1>5 DEF RerunCheck
  <2>2. RunsOK'
    BY <1>1, <2>1, IdleType DEF Runs, Nodes, PhaseOK
  <2> QED BY <1>5, <2>2 DEF RerunCheck
<1>6. CASE CancelCheck(s)
  BY <1>1, <1>6, EnterType DEF CancelCheck
<1>7. CASE RetryMigrationDdl(s)
  BY <1>1, <1>7, EnterType DEF RetryMigrationDdl
<1> QED BY <1>2, <1>3, <1>4, <1>5, <1>6, <1>7 DEF Request

LEMMA HandlerTypes ==
  ASSUME Typed, NEW s \in Slots, Handler(s) \/ Worker(s)
  PROVE  Typed'
<1> USE RowType DEF Typed, TypeOK, RunsOK, Elsewhere
<1>1. {"load", "node", "raised"} \subseteq Phases /\ "cancelled" \in Statuses
  BY DEF Phases, Statuses
<1>2. CASE AdvanceCommit(s)  BY <1>1, <1>2, GotoType DEF AdvanceCommit
<1>3. CASE RerunCommit(s)    BY <1>1, <1>3, GotoType DEF RerunCommit
<1>4. CASE CancelCommit(s)   BY <1>1, <1>4, LeaveType DEF CancelCommit
<1>5. CASE WorkerResume(s)   BY <1>1, <1>5, GotoType DEF WorkerResume
<1>6. CASE WorkerRefuse(s)   BY <1>6, LeaveType DEF WorkerRefuse
<1> QED BY <1>2, <1>3, <1>4, <1>5, <1>6 DEF Handler, Worker

LEMMA RunField ==
  ASSUME run \in [Slots -> Runs], NEW s \in Slots
  PROVE  /\ run[s].at \in Nodes \cup {End}
         /\ run[s].data \in Data
         /\ run[s].val \in Answer
BY DEF Runs, PhaseOK

LEMMA RunnerTypes ==
  ASSUME Typed, NEW s \in Slots, Runner(s)
  PROVE  Typed'
<1> USE RowType, RunField, IdleType DEF Typed, TypeOK, RunsOK, Elsewhere, Ghosts
<1>1. {"node", "finish", "raised"} \subseteq Phases /\ "failed" \in Statuses
  BY DEF Phases, Statuses
<1>2. CASE BeginRun(s)
  <2>1. "ingest_node" \in Nodes
    BY DEF Nodes, StepNodes
  <2> QED BY <1>1, <1>2, <2>1, GotoType, CheckpointType DEF BeginRun
<1>3. CASE LoadCheckpoint(s)
  <2>1. ckpt.data \in Data
    OBVIOUS
  <2>2. PICK ph \in Phases \ {"progressed"}, n \in Nodes \cup {End} :
           run' = [run EXCEPT ![s].pc = ph, ![s].at = n, ![s].data = ckpt.data]
    BY <1>1, <1>3, Zenon DEF LoadCheckpoint
  <2>3. RunsOK'
    BY <2>1, <2>2 DEF Runs, PhaseOK
  <2> QED BY <1>3, <2>3 DEF LoadCheckpoint
<1>4. CASE CommitCheckpoint(s)
  <2> DEFINE n == Successor(run[s].at, run[s].data)
  <2>1. n \in Nodes \cup {End}
    BY SuccessorType, SuccessorOfEnd
  <2>2. Checkpoint(n, run[s].data)
    BY <1>4 DEF CommitCheckpoint
  <2> DEFINE ph == IF run[s].at \in StepNodes \/ n = End THEN "finish" ELSE "node"
  <2>3. ph \in Phases \ {"progressed"}
        /\ run' = [run EXCEPT ![s].pc = ph, ![s].at = n, ![s].val = NoAnswer]
    BY <1>1, <1>4 DEF CommitCheckpoint
  <2>4. RunsOK'
    <3> HIDE DEF ph, n
    <3> QED BY <2>1, <2>3 DEF Runs, PhaseOK
  <2> QED BY <1>4, <2>1, <2>2, <2>4, CheckpointType DEF CommitCheckpoint
<1>5. CASE FinishRun(s)  BY <1>1, <1>5, LeaveType, StoreType DEF FinishRun
<1>6. CASE FailRun(s)    BY <1>1, <1>6, LeaveType, StoreType DEF FailRun
<1> QED BY <1>2, <1>3, <1>4, <1>5, <1>6 DEF Runner

LEMMA StepTypes ==
  ASSUME Typed, NEW s \in Slots, Step(s)
  PROVE  Typed'
<1> USE RowType, RunField DEF Typed, TypeOK, RunsOK, Elsewhere
<1>1. {"progressed", "done"} \subseteq Phases
  BY DEF Phases
<1>2. CASE StepProgress(s)
  BY <1>1, <1>2, YieldType, StoreType, ResultsType DEF StepProgress
<1>3. CASE StepPause(s)
  <2>1. run[s].at \in StepNodes
    BY <1>3 DEF StepPause, PhaseOK
  <2>2. job' \in Row /\ lost' \in 0..MaxLostWrites
    BY <1>3, <2>1, StoreType DEF StepPause
  <2>3. RunsOK'
    BY <1>1, <1>3, GotoType DEF StepPause
  <2> QED BY <1>3, <2>2, <2>3 DEF StepPause
<1>4. CASE StepFail(s)
  <2>1. PICK d \in Data : Yield(s, "done", [d EXCEPT !.err = TRUE])
    BY <1>4, ResultsType DEF StepFail
  <2>2. [d EXCEPT !.err = TRUE] \in Data
    BY DEF Data
  <2> QED BY <1>1, <1>4, <2>1, <2>2, YieldType DEF StepFail
<1> QED BY <1>2, <1>3, <1>4 DEF Step

LEMMA FieldsOfData ==
  ASSUME NEW d \in Data, NEW b \in BOOLEAN, NEW c \in BOOLEAN
  PROVE  /\ [d EXCEPT !.err = b] \in Data
         /\ [d EXCEPT !.cyc = b] \in Data
         /\ [d EXCEPT !.custom = b] \in Data
         /\ [d EXCEPT !.complete = b] \in Data
         /\ [d EXCEPT !.custom = b, !.open = c] \in Data
         /\ d.custom \in BOOLEAN /\ d.err \in BOOLEAN
BY DEF Data

LEMMA GateTypesOK ==
  ASSUME Typed, NEW s \in Slots, Gate(s)
  PROVE  Typed'
<1> USE RowType, RunField, FieldsOfData DEF Typed, TypeOK, RunsOK, Elsewhere
<1>1. {"done", "asked", "answered", "finish", "raised"} \subseteq Phases
  BY DEF Phases
<1>2. CASE GateSkip(s)          BY <1>1, <1>2, GotoType DEF GateSkip
<1>3. CASE GateAsk(s)           BY <1>1, <1>3, GotoType, StoreType DEF GateAsk
<1>4. CASE GateInterrupt(s)     BY <1>1, <1>4, GotoType DEF GateInterrupt
<1>5. CASE GateClear(s)         BY <1>1, <1>5, GotoType, StoreType DEF GateClear
<1>6. CASE PreSemanticAccept(s) BY <1>1, <1>6, YieldType, ZenonT(60) DEF PreSemanticAccept
<1>7. CASE PreSemanticRaise(s)  BY <1>1, <1>7, GotoType DEF PreSemanticRaise
<1>8. CASE HumanReviewAccept(s) BY <1>1, <1>8, YieldType, StoreType DEF HumanReviewAccept
<1>9. CASE HumanReviewInvalid(s)  BY <1>1, <1>9, YieldType DEF HumanReviewInvalid
<1>10. CASE HierarchyResolved(s)  BY <1>1, <1>10, YieldType, StoreType DEF HierarchyResolved
<1>11. CASE HierarchyUnresolved(s) BY <1>1, <1>11, YieldType DEF HierarchyUnresolved
<1> QED
  BY <1>2, <1>3, <1>4, <1>5, <1>6, <1>7, <1>8, <1>9, <1>10, <1>11 DEF Gate

LEMMA WriteTypes ==
  ASSUME Typed, NEW s \in Slots, Write(s)
  PROVE  Typed'
<1> USE RowType, RunField, FieldsOfData DEF Typed, TypeOK, RunsOK, Elsewhere
<1>1. {"rows", "ask", "applied", "done"} \subseteq Phases
      /\ {"ddl_failed", "complete"} \subseteq Statuses
  BY DEF Phases, Statuses
<1>2. CASE WriteDdl(s)            BY <1>1, <1>2, GotoType DEF WriteDdl
<1>3. CASE WriteDdlFail(s)        BY <1>1, <1>3, YieldType, StoreType DEF WriteDdlFail
<1>4. CASE WriteMissingSchema(s)  BY <1>1, <1>4, YieldType DEF WriteMissingSchema
<1>5. CASE WriteMappings(s)
  <2>1. rows \in 0..2 /\ rows' \in {rows, IF rows < 2 THEN rows + 1 ELSE rows}
    BY <1>5 DEF WriteMappings
  <2>2. rows' \in 0..2
    <3> HIDE RowType, RunField, FieldsOfData DEF Typed, TypeOK, RunsOK, Elsewhere
    <3> QED BY <2>1
  <2>3. RunsOK'
    BY <1>1, <1>5, GotoType DEF WriteMappings
  <2> QED BY <1>5, <2>2, <2>3 DEF WriteMappings
<1>6. CASE WriteReject(s)         BY <1>1, <1>6, YieldType DEF WriteReject
<1>7. CASE WriteApply(s)
  <2>1. run[s].val.id \in 0..MaxConfirms
    BY DEF Answer
  <2>2. /\ applies \in [0..MaxConfirms -> Nat]
        /\ applies' = [applies EXCEPT ![run[s].val.id] = applies[run[s].val.id] + 1]
        /\ UNCHANGED <<job, ckpt, hist, confirms, ddl, rows, overlaps, crashes, lost>>
    BY <1>7 DEF WriteApply
  <2>3. applies' \in [0..MaxConfirms -> Nat]
    <3> HIDE RowType, RunField, FieldsOfData DEF Typed, TypeOK, RunsOK, Elsewhere
    <3> QED BY <2>1, <2>2
  <2>4. RunsOK'
    BY <1>1, <1>7, GotoType DEF WriteApply
  <2> QED BY <2>2, <2>3, <2>4
<1>8. CASE WriteApplyFail(s)      BY <1>1, <1>8, YieldType DEF WriteApplyFail
<1>9. CASE WriteComplete(s)       BY <1>1, <1>9, YieldType, StoreType DEF WriteComplete
<1> QED BY <1>2, <1>3, <1>4, <1>5, <1>6, <1>7, <1>8, <1>9 DEF Write

\* Every variable stays in its type.
THEOREM TypeCorrect == Spec => []Typed
<1>1. Init => Typed
  <2> SUFFICES ASSUME Init PROVE Typed
    OBVIOUS
  <2>1. job \in Row
    BY DEF Init, Row, Statuses
  <2>2. RunsOK
    BY IdleType DEF Init, RunsOK, PhaseOK, Idle
  <2>3. /\ ckpt \in [next : Nodes \cup {Nowhere, End}, data : Data]
        /\ hist \in [RerunTargets -> SUBSET Data]
    BY IdleType DEF Init
  <2>4. /\ confirms \in 0..MaxConfirms
        /\ applies \in [0..MaxConfirms -> Nat]
    BY BoundsAssumption DEF Init
  <2>5. ddl = FALSE /\ rows = 0 /\ overlaps = 0 /\ crashes = 0 /\ lost = 0
    BY DEF Init
  <2>6. /\ rows \in 0..2
        /\ overlaps \in 0..MaxOverlaps
        /\ crashes \in 0..MaxCrashes
        /\ lost \in 0..MaxLostWrites
    BY <2>5, BoundsAssumption
  <2> QED
    BY <2>1, <2>2, <2>3, <2>4, <2>5, <2>6 DEF Typed, TypeOK, RunsOK
<1>2. Typed /\ [Next]_vars => Typed'
  <2> SUFFICES ASSUME Typed, [Next]_vars PROVE Typed'
    OBVIOUS
  <2>1. CASE StartMigration
    BY <2>1, RowType DEF StartMigration, Typed, TypeOK, PhaseOK, Elsewhere
  <2>2. ASSUME NEW s \in Slots, Request(s) \/ Proceed(s) PROVE Typed'
    BY <2>2, RequestTypes, HandlerTypes, RunnerTypes, StepTypes, GateTypesOK, WriteTypes
       DEF Proceed
  <2>3. CASE Crash
    <3>1. RunsOK'
      BY <2>3, IdleType DEF Crash, Typed, TypeOK, RunsOK, PhaseOK, Idle
    <3> QED BY <2>3, <3>1, IdleType, BoundsAssumption DEF Crash, Typed, TypeOK, RunsOK
  <2>4. CASE UNCHANGED vars
    BY <2>4 DEF vars, Typed, TypeOK, PhaseOK
  <2> QED BY <2>1, <2>2, <2>3, <2>4 DEF Next
<1> QED BY <1>1, <1>2, PTL DEF Spec

\* TypeOK, without its strengthening.
THEOREM TypesHold == Spec => []TypeOK
<1>1. Typed => TypeOK
  BY DEF Typed
<1> QED BY <1>1, TypeCorrect, PTL

-----------------------------------------------------------------------------
(* The migration_jobs row.                                                 *)

\* What a step can make of the row.
RowStep ==
    \/ job' = job
    \/ job'.status \in {"running", "failed", "cancelled", "ddl_failed"}
    \/ job'.status = "awaiting_review" /\ job'.gate \in GateTypes
    \/ job'.status = "step_paused" /\ job'.gate \in StepNodes
    \/ job'.status = "complete" /\ \E s \in Slots : run[s].pc = "applied"

LEMMA StatusOf ==
  ASSUME job \in Row
  PROVE  /\ RunningNoGate.status = "running"
         /\ Running(job).status = "running"
         /\ \A x \in Statuses : [job EXCEPT !.status = x].status = x
BY DEF RunningNoGate, Running, Row

LEMMA RowSteps ==
  ASSUME Typed, [Next]_vars
  PROVE  RowStep
<1> USE StatusOf, GateOfType DEF Typed, TypeOK, RowStep, Store, Elsewhere, SystemState
<1>0. {"failed", "cancelled", "ddl_failed", "complete"} \subseteq Statuses
  BY DEF Statuses
<1>1. CASE StartMigration \/ Crash \/ UNCHANGED vars
  BY <1>1 DEF StartMigration, Crash, vars
<1>2. ASSUME NEW s \in Slots, Request(s) PROVE RowStep
  BY <1>2 DEF Request, StartMigrationWithUpload, SubmitDecision, AdvanceCheck, RerunCheck,
     CancelCheck, RetryMigrationDdl
<1>3. ASSUME NEW s \in Slots, Handler(s) \/ Worker(s) PROVE RowStep
  BY <1>0, <1>3 DEF Handler, Worker, AdvanceCommit, RerunCommit, CancelCommit, WorkerResume,
     WorkerRefuse
<1>4. ASSUME NEW s \in Slots, Runner(s) PROVE RowStep
  <2>1. CASE FinishRun(s) \/ FailRun(s)
    BY <1>0, <2>1 DEF FinishRun, FailRun
  <2>2. CASE BeginRun(s) \/ LoadCheckpoint(s) \/ CommitCheckpoint(s)
    <3> job' = job
      BY <2>2, Zenon DEF BeginRun, LoadCheckpoint, CommitCheckpoint
    <3> QED OBVIOUS
  <2> QED BY <1>4, <2>1, <2>2 DEF Runner
<1>5. ASSUME NEW s \in Slots, Step(s) PROVE RowStep
  <2>1. CASE StepPause(s)
    <3>1. run[s].at \in StepNodes
      BY <2>1 DEF StepPause, PhaseOK
    <3> QED BY <2>1, <3>1 DEF StepPause
  <2> QED BY <1>5, <2>1 DEF Step, StepProgress, StepFail
<1>6. ASSUME NEW s \in Slots, Gate(s) PROVE RowStep
  <2>1. CASE GateSkip(s) \/ GateAsk(s) \/ GateInterrupt(s) \/ GateClear(s)
    BY <2>1 DEF GateSkip, GateAsk, GateInterrupt, GateClear
  <2>2. CASE PreSemanticAccept(s) \/ PreSemanticRaise(s)
    BY <2>2 DEF PreSemanticAccept, PreSemanticRaise
  <2>3. CASE HumanReviewAccept(s) \/ HumanReviewInvalid(s)
    BY <2>3 DEF HumanReviewAccept, HumanReviewInvalid
  <2>4. CASE HierarchyResolved(s) \/ HierarchyUnresolved(s)
    BY <2>4 DEF HierarchyResolved, HierarchyUnresolved
  <2> QED BY <1>6, <2>1, <2>2, <2>3, <2>4 DEF Gate
<1>7. ASSUME NEW s \in Slots, Write(s) PROVE RowStep
  BY <1>0, <1>7, ZenonT(60) DEF Write, WriteDdl, WriteDdlFail, WriteMissingSchema, WriteMappings,
     WriteReject, WriteApply, WriteApplyFail, WriteComplete
<1> QED BY <1>1, <1>2, <1>3, <1>4, <1>5, <1>6, <1>7 DEF Next, Proceed

\* An open gate or a paused step always names itself in pending_gate_type.
THEOREM PendingKeyAlwaysFits == Spec => []PendingKeyFits
<1>1. Init => PendingKeyFits
  BY DEF Init, PendingKeyFits
<1>2. Typed /\ PendingKeyFits /\ [Next]_vars => PendingKeyFits'
  BY RowSteps DEF RowStep, PendingKeyFits
<1> QED BY <1>1, <1>2, TypeCorrect, PTL DEF Spec

-----------------------------------------------------------------------------
(* The confirmation a run carries.                                         *)

\* ConfirmationSpentOnce is not inductive.  A hand-over is counted against the
\* confirmation its run carries, so: a run that has not handed over yet carries a
\* confirmation not spent yet, and no two runs carry the same one.
Spent(r) == r.pc \in {"applied", "done"}
CarriedOK ==
    /\ \A s \in Slots :
          /\ run[s].val.id <= confirms
          /\ Confirmed(run[s].val) => run[s].val.id # 0
          /\ ~Spent(run[s]) /\ run[s].val.id # 0 => applies[run[s].val.id] = 0
          /\ run[s].pc = "applied" => run[s].val.id # 0 /\ applies[run[s].val.id] > 0
    /\ \A s, t \in Slots : s # t /\ run[s].val.id # 0 => run[s].val.id # run[t].val.id
HandoverInv == CarriedOK /\ ConfirmationSpentOnce /\ CompleteMeansApplied

\* A step that neither confirms nor hands over: a slot drops its decision, or keeps it
\* and does not go back before its hand-over.
QuietSlot(t) ==
    \/ run'[t].val = NoAnswer /\ run'[t].pc # "applied"
    \/ /\ run'[t].val = run[t].val
       /\ Spent(run[t]) => Spent(run'[t])
       /\ run'[t].pc = "applied" => run[t].pc = "applied"
Quiet == UNCHANGED <<confirms, applies>> /\ \A t \in Slots : QuietSlot(t)

LEMMA QuietGoto ==
  ASSUME Typed, NEW s \in Slots, NEW p \in Phases \ {"applied"}, Goto(s, p),
         Spent(run[s]) => p = "done", UNCHANGED <<confirms, applies>>
  PROVE  Quiet
BY DEF Goto, Quiet, QuietSlot, Spent, Typed, TypeOK, Runs

LEMMA QuietYield ==
  ASSUME Typed, NEW s \in Slots, NEW p \in Phases \ {"applied"}, NEW d, Yield(s, p, d),
         Spent(run[s]) => p = "done", UNCHANGED <<confirms, applies>>
  PROVE  Quiet
BY DEF Yield, Quiet, QuietSlot, Spent, Typed, TypeOK, Runs

\* A slot freed or newly taken carries no decision.
LEMMA QuietReset ==
  ASSUME Typed, NEW s \in Slots, NEW r, r.val = NoAnswer, r.pc # "applied",
         run' = [run EXCEPT ![s] = r], UNCHANGED <<confirms, applies>>
  PROVE  Quiet
BY DEF Quiet, QuietSlot, Typed, TypeOK

LEMMA QuietSteps ==
  ASSUME Typed, NEW s \in Slots,
         \/ Handler(s) \/ Worker(s) \/ Runner(s) \/ Step(s) \/ Gate(s)
         \/ Write(s) /\ ~WriteApply(s)
  PROVE  Quiet
<1> USE QuietGoto, QuietYield DEF Elsewhere, Ghosts
<1>0. /\ {"load", "node", "raised", "finish", "progressed", "done", "asked", "answered",
           "rows", "ask"} \subseteq Phases \ {"applied"}
      /\ NoAnswer = Idle.val /\ Idle.pc # "applied"
  BY DEF Phases, Idle
<1>1. ASSUME Leave(s), UNCHANGED <<confirms, applies>> PROVE Quiet
  BY <1>0, <1>1, QuietReset DEF Leave
<1>2. CASE Handler(s) \/ Worker(s)
  BY <1>0, <1>1, <1>2 DEF Handler, Worker, AdvanceCommit, RerunCommit, CancelCommit,
     WorkerResume, WorkerRefuse, Spent
<1>3. CASE Runner(s)
  <2>1. CASE BeginRun(s)       BY <1>0, <2>1 DEF BeginRun, Spent
  <2>2. CASE LoadCheckpoint(s)
    <3>1. /\ run[s].pc = "load" /\ UNCHANGED <<confirms, applies>>
          /\ run'[s].val = run[s].val /\ run'[s].pc \in {"raised", "finish", "node"}
          /\ \A t \in Slots \ {s} : run'[t] = run[t]
      BY <2>2 DEF LoadCheckpoint, Typed, TypeOK, Runs
    <3> QED BY <3>1 DEF Quiet, QuietSlot, Spent
  <2>3. CASE CommitCheckpoint(s)
    <3>1. /\ UNCHANGED <<confirms, applies>>
          /\ run'[s].val = NoAnswer /\ run'[s].pc \in {"finish", "node"}
          /\ \A t \in Slots \ {s} : run'[t] = run[t]
      BY <2>3 DEF CommitCheckpoint, Typed, TypeOK, Runs
    <3> QED BY <3>1 DEF Quiet, QuietSlot, Spent
  <2>4. CASE FinishRun(s)      BY <1>1, <2>4 DEF FinishRun
  <2>5. CASE FailRun(s)        BY <1>1, <2>5 DEF FailRun
  <2> QED BY <1>3, <2>1, <2>2, <2>3, <2>4, <2>5 DEF Runner
<1>4. CASE Step(s)
  BY <1>0, <1>4 DEF Step, StepProgress, StepPause, StepFail, Spent
<1>5. CASE Gate(s)
  <2>1. GateReady(s) => ~Spent(run[s])
    BY DEF GateReady, Spent
  <2>2. CASE GateSkip(s) \/ GateAsk(s) \/ GateInterrupt(s) \/ GateClear(s)
    BY <1>0, <2>1, <2>2 DEF GateSkip, GateAsk, GateInterrupt, GateClear, Spent
  <2>3. CASE PreSemanticAccept(s) \/ PreSemanticRaise(s)
    BY <1>0, <2>3 DEF PreSemanticAccept, PreSemanticRaise, Spent
  <2>4. CASE HumanReviewAccept(s) \/ HumanReviewInvalid(s)
    BY <1>0, <2>4 DEF HumanReviewAccept, HumanReviewInvalid
  <2>5. CASE HierarchyResolved(s) \/ HierarchyUnresolved(s)
    BY <1>0, <2>5 DEF HierarchyResolved, HierarchyUnresolved
  <2> QED BY <1>5, <2>2, <2>3, <2>4, <2>5 DEF Gate
<1>6. CASE Write(s) /\ ~WriteApply(s)
  <2>1. CASE WriteDdl(s) \/ WriteDdlFail(s)
    BY <1>0, <2>1 DEF WriteDdl, WriteDdlFail, Spent
  <2>2. CASE WriteMissingSchema(s) \/ WriteMappings(s)
    BY <1>0, <2>2 DEF WriteMissingSchema, WriteMappings, Spent
  <2>3. CASE WriteReject(s) \/ WriteApplyFail(s) \/ WriteComplete(s)
    BY <1>0, <2>3 DEF WriteReject, WriteApplyFail, WriteComplete
  <2> QED BY <1>6, <2>1, <2>2, <2>3 DEF Write
<1> QED BY <1>2, <1>3, <1>4, <1>5, <1>6

LEMMA QuietRequests ==
  ASSUME Typed, NEW s \in Slots, Request(s),
         ~\E g \in GateTypes, ok \in BOOLEAN : SubmitDecision(s, g, ok)
  PROVE  Quiet
<1> USE QuietReset DEF Enter, Idle, SystemState
<1>1. CASE StartMigrationWithUpload(s)  BY <1>1 DEF StartMigrationWithUpload
<1>2. CASE AdvanceCheck(s)              BY <1>2 DEF AdvanceCheck
<1>3. ASSUME NEW n \in RerunTargets, RerunCheck(s, n) PROVE Quiet
  <2>1. PICK d : run' = [run EXCEPT ![s] = [Idle EXCEPT !.pc = "checked", !.kind = "rerun",
                                              !.at = n, !.data = d]]
    BY <1>3 DEF RerunCheck
  <2> QED BY <1>3, <2>1 DEF RerunCheck
<1>4. CASE CancelCheck(s)               BY <1>4 DEF CancelCheck
<1>5. CASE RetryMigrationDdl(s)         BY <1>5 DEF RetryMigrationDdl
<1> QED BY <1>1, <1>2, <1>3, <1>4, <1>5 DEF Request

LEMMA QuietOthers ==
  ASSUME Typed, StartMigration \/ Crash \/ UNCHANGED vars
  PROVE  Quiet
BY DEF StartMigration, Crash, vars, Elsewhere, Quiet, QuietSlot, Idle, Spent

-----------------------------------------------------------------------------
(* The inductive invariant.                                                *)

LEMMA QuietKeeps ==
  ASSUME Typed, HandoverInv, RowStep, Quiet
  PROVE  HandoverInv'
<1> USE DEF Typed, TypeOK, HandoverInv, Quiet
<1>1. CarriedOK'
  <2>1. NoAnswer.id = 0 /\ ~Confirmed(NoAnswer)
    BY DEF NoAnswer, Confirmed
  <2> QED BY <2>1 DEF CarriedOK, QuietSlot, Spent, Confirmed
<1>2. ConfirmationSpentOnce'
  BY DEF ConfirmationSpentOnce
<1>3. CompleteMeansApplied'
  <2>1. ASSUME NEW s \in Slots, run[s].pc = "applied"
        PROVE  \E k \in 1..MaxConfirms : applies[k] > 0
    <3>1. run[s].val.id \in 0..MaxConfirms
      BY RunField DEF Answer
    <3>2. run[s].val.id # 0 /\ applies[run[s].val.id] > 0
      BY <2>1 DEF CarriedOK
    <3>3. run[s].val.id \in 1..MaxConfirms
      BY <3>1, <3>2
    <3> QED BY <3>2, <3>3
  <2> QED BY <2>1 DEF CompleteMeansApplied, RowStep
<1> QED BY <1>1, <1>2, <1>3

\* A confirmation gets a number no run carries and nothing was handed over on.
LEMMA ConfirmKeeps ==
  ASSUME Typed, HandoverInv, NEW s \in Slots, NEW g \in GateTypes, NEW ok \in BOOLEAN,
         SubmitDecision(s, g, ok)
  PROVE  HandoverInv'
<1>1. PICK k \in 0..MaxConfirms :
        /\ k \in {0, confirms + 1}
        /\ confirms' = IF k = 0 THEN confirms ELSE k
        /\ \E ph \in {"load", "queued"} :
              run' = [run EXCEPT ![s] = [Idle EXCEPT !.pc = ph, !.kind = "resume",
                                           !.val = [for |-> g, ok |-> ok, id |-> k]]]
  BY DEF SubmitDecision
<1>2. /\ run'[s].val.id = k /\ run'[s].pc \in {"load", "queued"}
      /\ \A t \in Slots \ {s} : run'[t] = run[t]
  BY <1>1 DEF Typed, TypeOK, Runs, Idle
<1>3. /\ k \in Nat /\ confirms \in Nat /\ MaxConfirms \in Nat
      /\ k # 0 => k = confirms + 1
      /\ UNCHANGED <<job, applies>>
  BY <1>1, BoundsAssumption DEF SubmitDecision, Typed, TypeOK
<1>4. k # 0 => applies[k] = 0
  <2> SUFFICES ASSUME k # 0 PROVE applies[k] = 0
    OBVIOUS
  <2>1. k \in 1..MaxConfirms /\ ~(k <= confirms) /\ applies[k] \in Nat
    BY <1>1, <1>3 DEF Typed, TypeOK
  <2> QED BY <2>1 DEF HandoverInv, ConfirmationSpentOnce
<1>5. ConfirmationSpentOnce' /\ CompleteMeansApplied'
  BY <1>1, <1>3 DEF HandoverInv, ConfirmationSpentOnce, CompleteMeansApplied, Typed, TypeOK
<1>6. \A t \in Slots : run[t].val.id \in Nat
  BY RunField DEF Typed, TypeOK, Answer
<1>7. CarriedOK'
  BY <1>1, <1>2, <1>3, <1>4, <1>6 DEF HandoverInv, CarriedOK, Spent, Confirmed
<1> QED BY <1>5, <1>7 DEF HandoverInv

LEMMA ApplyKeeps ==
  ASSUME Typed, HandoverInv, NEW s \in Slots, WriteApply(s)
  PROVE  HandoverInv'
<1> DEFINE k == run[s].val.id
<1>1. k \in 0..MaxConfirms /\ \A t \in Slots : run[t].val.id \in 0..MaxConfirms
  BY RunField DEF Typed, TypeOK, Answer
<1>2. /\ k # 0 /\ k <= confirms /\ applies[k] = 0
      /\ \A t \in Slots \ {s} : run[t].val.id # k
  BY DEF WriteApply, HandoverInv, CarriedOK, Spent
<1>3. /\ UNCHANGED <<job, confirms>>
      /\ applies' = [applies EXCEPT ![k] = applies[k] + 1]
      /\ run'[s].pc = "applied" /\ run'[s].val = run[s].val
      /\ \A t \in Slots \ {s} : run'[t] = run[t]
  BY DEF WriteApply, Goto, Typed, TypeOK, Runs
<1>4. applies'[k] = 1 /\ \A j \in (0..MaxConfirms) \ {k} : applies'[j] = applies[j]
  BY <1>1, <1>2, <1>3 DEF Typed, TypeOK
<1> HIDE DEF k
<1>5. ConfirmationSpentOnce' /\ CompleteMeansApplied'
  BY <1>1, <1>2, <1>3, <1>4 DEF HandoverInv, ConfirmationSpentOnce, CompleteMeansApplied
<1>6. CarriedOK'
  BY <1>1, <1>2, <1>3, <1>4 DEF k, HandoverInv, CarriedOK, Spent, Confirmed
<1> QED BY <1>5, <1>6 DEF HandoverInv

LEMMA HandoverKept == Typed /\ HandoverInv /\ [Next]_vars => HandoverInv'
<1> SUFFICES ASSUME Typed, HandoverInv, [Next]_vars PROVE HandoverInv'
  OBVIOUS
<1>1. RowStep
  BY RowSteps
<1>2. ASSUME NEW s \in Slots, Request(s) PROVE HandoverInv'
  <2>1. CASE \E g \in GateTypes, ok \in BOOLEAN : SubmitDecision(s, g, ok)
    BY <2>1, ConfirmKeeps
  <2>2. CASE ~\E g \in GateTypes, ok \in BOOLEAN : SubmitDecision(s, g, ok)
    BY <1>1, <1>2, <2>2, QuietRequests, QuietKeeps
  <2> QED BY <2>1, <2>2
<1>3. ASSUME NEW s \in Slots, Proceed(s) PROVE HandoverInv'
  <2>1. CASE WriteApply(s)
    BY <2>1, ApplyKeeps
  <2>2. CASE ~WriteApply(s)
    BY <1>1, <1>3, <2>2, QuietSteps, QuietKeeps DEF Proceed
  <2> QED BY <2>1, <2>2
<1>4. CASE StartMigration \/ Crash \/ UNCHANGED vars
  BY <1>1, <1>4, QuietOthers, QuietKeeps
<1> QED BY <1>2, <1>3, <1>4 DEF Next

THEOREM HandoverInvariant == Spec => []HandoverInv
<1>1. Init => HandoverInv
  BY BoundsAssumption DEF Init, HandoverInv, CarriedOK, ConfirmationSpentOnce,
     CompleteMeansApplied, Idle, NoAnswer, Confirmed
<1> QED BY <1>1, HandoverKept, TypeCorrect, PTL DEF Spec

\* Records are handed over on a confirmation, and once per confirmation.
THEOREM SpentOnce == Spec => []ConfirmationSpentOnce
<1>1. HandoverInv => ConfirmationSpentOnce
  BY DEF HandoverInv
<1> QED BY <1>1, HandoverInvariant, PTL

\* A migration shown as complete was handed over.
THEOREM CompleteWasApplied == Spec => []CompleteMeansApplied
<1>1. HandoverInv => CompleteMeansApplied
  BY DEF HandoverInv
<1> QED BY <1>1, HandoverInvariant, PTL

-----------------------------------------------------------------------------
(* The pipeline implements ConfirmedHandover: accepting a confirmation is  *)
(* Grant, write_node's hand-over is HandOver, and every other step leaves  *)
(* the grants alone and at most changes whether the row says complete.     *)

LEMMA GrantStep ==
  ASSUME Typed, NEW s \in Slots, NEW g \in GateTypes, NEW ok \in BOOLEAN,
         SubmitDecision(s, g, ok)
  PROVE  Gate3!Grant \/ UNCHANGED <<confirms, applies, job>>
<1>1. confirms \in Nat /\ UNCHANGED <<applies, job>>
  BY DEF SubmitDecision, Typed, TypeOK
<1>2. PICK k \in 0..MaxConfirms :
         k \in {0, confirms + 1} /\ confirms' = IF k = 0 THEN confirms ELSE k
  BY DEF SubmitDecision
<1>3. CASE k = 0
  BY <1>1, <1>2, <1>3
<1>4. CASE k # 0
  <2>1. confirms < MaxConfirms /\ confirms' = confirms + 1
    BY <1>1, <1>2, <1>4, BoundsAssumption
  <2> QED BY <1>1, <2>1 DEF Gate3!Grant
<1> QED BY <1>3, <1>4

LEMMA HandOverStep ==
  ASSUME Typed, HandoverInv, NEW s \in Slots, WriteApply(s)
  PROVE  Gate3!HandOver
<1> DEFINE k == run[s].val.id
<1>1. k \in 0..MaxConfirms
  BY RunField DEF Typed, TypeOK, Answer
<1>2. k # 0 /\ k <= confirms /\ applies[k] = 0
  BY DEF WriteApply, HandoverInv, CarriedOK, Spent
<1>3. applies' = [applies EXCEPT ![k] = applies[k] + 1] /\ UNCHANGED <<confirms, job>>
  BY DEF WriteApply
<1> HIDE DEF k
<1>4. k \in 1..confirms
  BY <1>1, <1>2 DEF Typed, TypeOK
<1>5. applies' = [applies EXCEPT ![k] = 1]
  BY <1>2, <1>3
<1> QED BY <1>2, <1>3, <1>4, <1>5 DEF Gate3!HandOver

LEMMA ShowStep ==
  ASSUME Typed, HandoverInv, HandoverInv', RowStep, Quiet
  PROVE  \/ Gate3!Show \/ Gate3!Withdraw
         \/ UNCHANGED <<confirms, applies, job.status = "complete">>
<1>1. UNCHANGED <<confirms, applies>>
  BY DEF Quiet
<1>2. CASE job.status # "complete" /\ job'.status = "complete"
  <2>1. PICK k \in 1..MaxConfirms : applies[k] > 0
    BY <1>1, <1>2 DEF HandoverInv, CompleteMeansApplied
  <2>2. applies[k] \in Nat /\ confirms \in Nat /\ applies[k] <= (IF k <= confirms THEN 1 ELSE 0)
    BY DEF HandoverInv, ConfirmationSpentOnce, Typed, TypeOK
  <2>3. k \in 1..confirms /\ applies[k] = 1
    BY <2>1, <2>2
  <2> QED BY <1>1, <1>2, <2>3 DEF Gate3!Show
<1>3. CASE job.status = "complete" /\ job'.status # "complete"
  BY <1>1, <1>3 DEF Gate3!Withdraw
<1> QED BY <1>1, <1>2, <1>3

LEMMA StepImplements ==
  ASSUME Typed, HandoverInv, [Next]_vars
  PROVE  [Gate3!Next]_<<confirms, applies, job.status = "complete">>
<1>1. RowStep /\ HandoverInv'
  BY RowSteps, HandoverKept
<1>2. ASSUME Quiet PROVE [Gate3!Next]_<<confirms, applies, job.status = "complete">>
  BY <1>1, <1>2, ShowStep DEF Gate3!Next
<1>3. ASSUME NEW s \in Slots, Request(s)
      PROVE  [Gate3!Next]_<<confirms, applies, job.status = "complete">>
  <2>1. CASE \E g \in GateTypes, ok \in BOOLEAN : SubmitDecision(s, g, ok)
    BY <2>1, GrantStep DEF Gate3!Next
  <2>2. CASE ~\E g \in GateTypes, ok \in BOOLEAN : SubmitDecision(s, g, ok)
    BY <1>2, <1>3, <2>2, QuietRequests
  <2> QED BY <2>1, <2>2
<1>4. ASSUME NEW s \in Slots, Proceed(s)
      PROVE  [Gate3!Next]_<<confirms, applies, job.status = "complete">>
  <2>1. CASE WriteApply(s)
    BY <2>1, HandOverStep DEF Gate3!Next
  <2>2. CASE ~WriteApply(s)
    BY <1>2, <1>4, <2>2, QuietSteps DEF Proceed
  <2> QED BY <2>1, <2>2
<1>5. CASE StartMigration \/ Crash \/ UNCHANGED vars
  BY <1>2, <1>5, QuietOthers
<1> QED BY <1>3, <1>4, <1>5 DEF Next

\* Every behaviour of the pipeline is one of ConfirmedHandover.
THEOREM ImplementsHandover == Spec => HandoverAsConfirmed
<1>1. Init => Gate3!Init
  BY DEF Init, Gate3!Init
<1>2. Typed /\ HandoverInv /\ [Next]_vars
         => [Gate3!Next]_<<confirms, applies, job.status = "complete">>
  BY StepImplements
<1> QED BY <1>1, <1>2, TypeCorrect, HandoverInvariant, PTL DEF Spec, HandoverAsConfirmed, Gate3!Spec

-----------------------------------------------------------------------------
(* Custom columns.                                                         *)

\* From the DDL phase to the hand-over a run stays at write_node and keeps its state.
PastDdl(r) ==
    \/ r.pc = "rows"
    \/ r.at = "write_node" /\ r.pc \in {"ask", "asked", "answered", "applied"}
ColumnsInv ==
    \A s \in Slots :
       /\ PastDdl(run[s]) /\ run[s].data.custom => ddl
       /\ run[s].pc \in {"rows", "ask", "applied"} => run[s].at = "write_node"

\* What a step may do to a slot without endangering ColumnsInv.
ColumnsSlot(t) ==
    \/ run'[t] = run[t]
    \/ ~PastDdl(run'[t]) /\ run'[t].pc \notin {"rows", "ask", "applied"}
    \/ /\ run'[t].data = run[t].data /\ run'[t].at = run[t].at
       /\ PastDdl(run'[t]) => PastDdl(run[t])
       /\ run'[t].pc \in {"rows", "ask", "applied"} => run[t].at = "write_node"
ColumnsStep == (ddl => ddl') /\ \A t \in Slots : ColumnsSlot(t)

LEMMA ColumnsStepKeeps == ASSUME ColumnsInv, ColumnsStep PROVE ColumnsInv'
BY DEF ColumnsInv, ColumnsStep, ColumnsSlot, PastDdl

\* A slot that leaves the gate or step it stands at, or takes or drops its work.
LEMMA ColumnsOther ==
  ASSUME Typed, UNCHANGED ddl, NEW s \in Slots, NEW r,
         run' = [run EXCEPT ![s] = r],
         r.pc \notin {"rows", "ask", "asked", "answered", "applied"}
  PROVE  ColumnsStep
BY DEF ColumnsStep, ColumnsSlot, PastDdl, Typed, TypeOK

LEMMA ColumnsGoto ==
  ASSUME Typed, UNCHANGED ddl, NEW s \in Slots, NEW p, Goto(s, p),
         \/ p \notin {"rows", "ask", "asked", "answered", "applied"}
         \/ /\ p \in {"ask", "asked", "answered", "applied"}
            /\ run[s].at = "write_node" => PastDdl(run[s])
            /\ p \in {"ask", "applied"} => run[s].at = "write_node"
  PROVE  ColumnsStep
BY DEF Goto, ColumnsStep, ColumnsSlot, PastDdl, Typed, TypeOK, Runs

LEMMA ColumnsYield ==
  ASSUME Typed, UNCHANGED ddl, NEW s \in Slots, NEW d, NEW p \in {"done", "progressed"},
         Yield(s, p, d)
  PROVE  ColumnsStep
BY DEF Yield, ColumnsStep, ColumnsSlot, PastDdl, Typed, TypeOK, Runs

LEMMA ColumnsRequests ==
  ASSUME Typed, NEW s \in Slots, Request(s)
  PROVE  ColumnsStep
<1> USE ColumnsOther DEF Enter, Idle, SystemState
<1>1. CASE StartMigrationWithUpload(s)  BY <1>1 DEF StartMigrationWithUpload
<1>2. ASSUME NEW g \in GateTypes, NEW ok \in BOOLEAN, SubmitDecision(s, g, ok)
      PROVE  ColumnsStep
  <2>1. PICK ph \in {"load", "queued"}, k \in {0, confirms + 1} :
           run' = [run EXCEPT ![s] = [Idle EXCEPT !.pc = ph, !.kind = "resume",
                                        !.val = [for |-> g, ok |-> ok, id |-> k]]]
    BY <1>2 DEF SubmitDecision
  <2>2. UNCHANGED ddl
    BY <1>2 DEF SubmitDecision
  <2> QED BY <2>1, <2>2
<1>3. CASE AdvanceCheck(s)              BY <1>3 DEF AdvanceCheck
<1>4. ASSUME NEW n \in RerunTargets, RerunCheck(s, n) PROVE ColumnsStep
  <2>1. PICK d : run' = [run EXCEPT ![s] = [Idle EXCEPT !.pc = "checked", !.kind = "rerun",
                                              !.at = n, !.data = d]]
    BY <1>4 DEF RerunCheck
  <2> QED BY <1>4, <2>1 DEF RerunCheck
<1>5. CASE CancelCheck(s)               BY <1>5 DEF CancelCheck
<1>6. CASE RetryMigrationDdl(s)         BY <1>6 DEF RetryMigrationDdl
<1> QED BY <1>1, <1>2, <1>3, <1>4, <1>5, <1>6 DEF Request

LEMMA ColumnsProceed ==
  ASSUME Typed, ColumnsInv, NEW s \in Slots, Proceed(s), ~WriteDdl(s)
  PROVE  ColumnsStep
<1> USE ColumnsGoto, ColumnsYield DEF Elsewhere, Ghosts
<1>1. ASSUME Leave(s), UNCHANGED ddl PROVE ColumnsStep
  BY <1>1, ColumnsOther DEF Leave, Idle
<1>2. CASE Handler(s) \/ Worker(s)
  BY <1>1, <1>2 DEF Handler, Worker, AdvanceCommit, RerunCommit, CancelCommit, WorkerResume,
     WorkerRefuse
<1>3. CASE Runner(s)
  <2>1. CASE BeginRun(s)       BY <2>1 DEF BeginRun
  <2>2. CASE LoadCheckpoint(s)
    <3>1. /\ run'[s].pc \in {"raised", "finish", "node"} /\ UNCHANGED ddl
          /\ \A t \in Slots \ {s} : run'[t] = run[t]
      BY <2>2 DEF LoadCheckpoint, Typed, TypeOK, Runs
    <3> QED BY <3>1 DEF ColumnsStep, ColumnsSlot, PastDdl
  <2>3. CASE CommitCheckpoint(s)
    <3>1. /\ run'[s].pc \in {"finish", "node"} /\ UNCHANGED ddl
          /\ \A t \in Slots \ {s} : run'[t] = run[t]
      BY <2>3 DEF CommitCheckpoint, Typed, TypeOK, Runs
    <3> QED BY <3>1 DEF ColumnsStep, ColumnsSlot, PastDdl
  <2>4. CASE FinishRun(s)      BY <1>1, <2>4 DEF FinishRun
  <2>5. CASE FailRun(s)        BY <1>1, <2>5 DEF FailRun
  <2> QED BY <1>3, <2>1, <2>2, <2>3, <2>4, <2>5 DEF Runner
<1>4. CASE Step(s)
  BY <1>4 DEF Step, StepProgress, StepPause, StepFail
<1>5. CASE Gate(s)
  <2>1. CASE GateAsk(s)
    <3>1. run[s].pc = "ask" \/ run[s].at # "write_node"
      BY <2>1 DEF GateAsk, GateReady
    <3> QED BY <2>1, <3>1 DEF GateAsk, PastDdl
  <2>2. CASE GateSkip(s) \/ GateInterrupt(s) \/ GateClear(s)
    BY <2>2 DEF GateSkip, GateInterrupt, GateClear, PastDdl
  <2>3. CASE PreSemanticAccept(s) \/ PreSemanticRaise(s)
    BY <2>3 DEF PreSemanticAccept, PreSemanticRaise
  <2>4. CASE HumanReviewAccept(s) \/ HumanReviewInvalid(s)
    BY <2>4 DEF HumanReviewAccept, HumanReviewInvalid
  <2>5. CASE HierarchyResolved(s) \/ HierarchyUnresolved(s)
    BY <2>5 DEF HierarchyResolved, HierarchyUnresolved
  <2> QED BY <1>5, <2>1, <2>2, <2>3, <2>4, <2>5 DEF Gate
<1>6. CASE Write(s)
  <2>1. CASE WriteDdlFail(s) \/ WriteMissingSchema(s)
    BY <2>1 DEF WriteDdlFail, WriteMissingSchema
  <2>2. CASE WriteMappings(s)
    BY <2>2 DEF WriteMappings, ColumnsInv, PastDdl
  <2>3. CASE WriteReject(s) \/ WriteApplyFail(s) \/ WriteComplete(s)
    BY <2>3 DEF WriteReject, WriteApplyFail, WriteComplete
  <2>4. CASE WriteApply(s)
    BY <2>4 DEF WriteApply, PastDdl
  <2> QED BY <1>6, <2>1, <2>2, <2>3, <2>4 DEF Write
<1> QED BY <1>2, <1>3, <1>4, <1>5, <1>6 DEF Proceed

LEMMA ColumnsDdl ==
  ASSUME Typed, ColumnsInv, NEW s \in Slots, WriteDdl(s)
  PROVE  ColumnsInv'
<1>1. /\ run[s].at = "write_node"
      /\ run'[s].pc = "rows" /\ run'[s].at = run[s].at /\ run'[s].data = run[s].data
      /\ \A t \in Slots \ {s} : run'[t] = run[t]
  BY DEF WriteDdl, Goto, Typed, TypeOK, Runs
<1>2. (ddl => ddl') /\ (run[s].data.custom => ddl')
  BY Zenon DEF WriteDdl
<1> QED BY <1>1, <1>2 DEF ColumnsInv, PastDdl

LEMMA ColumnsInvariant == Spec => []ColumnsInv
<1>1. Init => ColumnsInv
  BY DEF Init, ColumnsInv, PastDdl, Idle
<1>2. Typed /\ ColumnsInv /\ [Next]_vars => ColumnsInv'
  <2> SUFFICES ASSUME Typed, ColumnsInv, [Next]_vars PROVE ColumnsInv'
    OBVIOUS
  <2>1. ASSUME NEW s \in Slots, Request(s) PROVE ColumnsInv'
    BY <2>1, ColumnsRequests, ColumnsStepKeeps
  <2>2. ASSUME NEW s \in Slots, Proceed(s) PROVE ColumnsInv'
    BY <2>2, ColumnsProceed, ColumnsStepKeeps, ColumnsDdl
  <2>3. CASE StartMigration \/ Crash \/ UNCHANGED vars
    <3>1. ColumnsStep
      BY <2>3 DEF StartMigration, Crash, vars, Elsewhere, ColumnsStep, ColumnsSlot, PastDdl,
         Idle
    <3> QED BY <3>1, ColumnsStepKeeps
  <2> QED BY <2>1, <2>2, <2>3 DEF Next
<1> QED BY <1>1, <1>2, TypeCorrect, PTL DEF Spec

\* Records are handed over only when the custom columns they may fill exist.
THEOREM ColumnsFirst == Spec => []ColumnsBeforeRecords
<1>1. ColumnsInv => ColumnsBeforeRecords
  BY DEF ColumnsInv, ColumnsBeforeRecords, PastDdl
<1> QED BY <1>1, ColumnsInvariant, PTL

-----------------------------------------------------------------------------
(* One hand-over per migration without reruns, while requests do not       *)
(* overlap and nothing crashes: what the row shows, and whether updates of *)
(* it are lost, does not matter.                                           *)

Unspent == \A k \in 1..MaxConfirms : applies[k] = 0
Inside  == {"node", "progressed", "rows", "ask", "asked", "answered", "applied", "done"}
Late(s) == run[s].pc \in {"applied", "done"} /\ run[s].at = "write_node"

\* One busy slot; a finished graph is not entered again; a hand-over belongs to a run at
\* its last node, or to a graph that is finished.
Single ==
    /\ \A s, t \in Slots : run[s].pc # "idle" /\ run[t].pc # "idle" => s = t
    /\ job.status = "none" => Unspent /\ AtRest
    /\ Unspent \/ ckpt.next = End \/ \E s \in Slots : Late(s)
    /\ ckpt.next = End => \A s \in Slots : run[s].pc \notin Inside
    /\ \A s \in Slots : run[s].pc = "load" /\ run[s].kind = "start" => Unspent
    /\ \A j, k \in 1..MaxConfirms : applies[j] > 0 /\ applies[k] > 0 => j = k

\* Where a run in the graph stands; that no run is a rerun.
Placed == \A s \in Slots :
    /\ run[s].pc \in Inside => run[s].at \in Nodes
    /\ run[s].pc = "load" /\ run[s].kind = "start" => run[s].at \in Nodes
    /\ run[s].pc \in {"rows", "ask", "applied"} => run[s].at = "write_node"
    /\ run[s].kind # "rerun"

SerialInv == Placed /\ (crashes = 0 /\ overlaps = 0 => Single)

-----------------------------------------------------------------------------
\* A run goes on in its node, or leaves the graph by an interrupt or an exception.
InsideMove(s) ==
    /\ run[s].pc \in Inside \ {"done"}
    /\ run'[s].at = run[s].at /\ run'[s].kind = run[s].kind
    /\ run'[s].pc \in Inside \cup {"finish", "raised"}
    /\ run[s].pc = "applied" => run'[s].pc = "done"
    /\ run'[s].pc \in {"rows", "ask", "applied"} => run[s].at = "write_node"
    /\ \A t \in Slots \ {s} : run'[t] = run[t]
    /\ UNCHANGED <<ckpt, applies, overlaps, crashes>>

\* A task moves on outside the graph, enters it at a checkpoint, or ends.
OutsideMove(s) ==
    /\ run[s].pc \notin Inside \cup {"idle"}
    /\ \/ run'[s].pc \in {"idle", "load", "raised", "finish"}
       \/ run'[s].pc = "node" /\ run'[s].at \in Nodes /\ ckpt.next # End
    /\ run'[s].kind # "rerun" /\ (run'[s].pc = "load" => run'[s].kind # "start")
    /\ \A t \in Slots \ {s} : run'[t] = run[t]
    /\ UNCHANGED <<ckpt, applies, overlaps, crashes>>

\* A request takes an idle slot.
RequestMove(s) ==
    /\ Arrive(s)
    /\ run'[s].pc \in {"queued", "checked", "load"} /\ run'[s].kind # "rerun"
    /\ run'[s].at \in Nodes
    /\ run'[s].kind = "start" => job.status = "none"
    /\ job.status = "none" => job'.status # "none"
    /\ \A t \in Slots \ {s} : run'[t] = run[t]
    /\ UNCHANGED <<ckpt, applies, crashes>>

LEMMA InsideKeeps ==
  ASSUME Typed, SerialInv, RowStep, NEW s \in Slots, InsideMove(s)
  PROVE  SerialInv'
<1>1. Placed'
  BY DEF SerialInv, Placed, InsideMove, Inside
<1>2. ASSUME crashes = 0, overlaps = 0, Single PROVE Single'
  <2>1. \A t \in Slots : t # s => run[t].pc = "idle" /\ run'[t].pc = "idle"
    BY <1>2 DEF Single, InsideMove, Inside
  <2>2. job.status # "none" /\ job'.status # "none" /\ ckpt.next # End
    BY <1>2 DEF Single, AtRest, RowStep, InsideMove, Inside
  <2>3. Unspent \/ Late(s)
    BY <1>2, <2>1, <2>2 DEF Single, Late
  <2>4. Unspent \/ Late(s)'
    BY <2>3 DEF Late, InsideMove
  <2> QED BY <1>2, <2>1, <2>2, <2>4 DEF Single, Unspent, InsideMove, Inside
<1> QED BY <1>1, <1>2 DEF SerialInv, InsideMove

LEMMA OutsideKeeps ==
  ASSUME Typed, SerialInv, RowStep, NEW s \in Slots, OutsideMove(s)
  PROVE  SerialInv'
<1>1. Placed'
  BY DEF SerialInv, Placed, OutsideMove, Inside
<1>2. ASSUME crashes = 0, overlaps = 0, Single PROVE Single'
  <2>1. \A t \in Slots : t # s => run[t].pc = "idle" /\ run'[t].pc = "idle"
    BY <1>2 DEF Single, OutsideMove
  <2>2. job.status # "none" /\ job'.status # "none"
    BY <1>2 DEF Single, AtRest, RowStep, OutsideMove
  <2>3. Unspent \/ ckpt.next = End
    BY <1>2, <2>1 DEF Single, Late, OutsideMove, Inside
  <2> QED BY <1>2, <2>1, <2>2, <2>3 DEF Single, Unspent, OutsideMove, Inside
<1> QED BY <1>1, <1>2 DEF SerialInv, OutsideMove

LEMMA RequestKeeps ==
  ASSUME Typed, SerialInv, RowStep, NEW s \in Slots, RequestMove(s)
  PROVE  SerialInv'
<1>1. Placed'
  BY DEF SerialInv, Placed, RequestMove, Inside
<1>2. ASSUME crashes' = 0, overlaps' = 0 PROVE Single'
  <2>1. crashes = 0 /\ overlaps = 0 /\ \A t \in Slots : run[t].pc = "idle"
    BY <1>2 DEF RequestMove, Arrive, Typed, TypeOK
  <2>2. Single
    BY <2>1 DEF SerialInv
  <2>3. Unspent \/ ckpt.next = End
    BY <2>1, <2>2 DEF Single, Late
  <2>4. job'.status # "none"
    BY DEF RequestMove, RowStep
  <2> QED BY <2>1, <2>2, <2>3, <2>4 DEF Single, Unspent, RequestMove, Inside
<1> QED BY <1>1, <1>2 DEF SerialInv

-----------------------------------------------------------------------------
(* Which move every action is.                                             *)

LEMMA GotoFields ==
  ASSUME Typed, NEW s \in Slots, NEW p, Goto(s, p)
  PROVE  /\ run'[s].pc = p /\ run'[s].at = run[s].at /\ run'[s].kind = run[s].kind
         /\ run'[s].data = run[s].data /\ run'[s].val = run[s].val
         /\ \A t \in Slots \ {s} : run'[t] = run[t]
BY DEF Goto, Typed, TypeOK, Runs

LEMMA YieldFields ==
  ASSUME Typed, NEW s \in Slots, NEW p, NEW d, Yield(s, p, d)
  PROVE  /\ run'[s].pc = p /\ run'[s].at = run[s].at /\ run'[s].kind = run[s].kind
         /\ run'[s].data = d /\ run'[s].val = run[s].val
         /\ \A t \in Slots \ {s} : run'[t] = run[t]
BY DEF Yield, Typed, TypeOK, Runs

LEMMA LeaveMoves ==
  ASSUME Typed, NEW s \in Slots, Leave(s)
  PROVE  run'[s] = Idle /\ \A t \in Slots \ {s} : run'[t] = run[t]
BY DEF Leave, Typed, TypeOK

LEMMA Requests ==
  ASSUME Typed, RowStep, RerunTargets = {}, NEW s \in Slots, Request(s)
  PROVE  RequestMove(s)
<1> USE DEF RequestMove, SystemState
<1>0. ASSUME NEW k, NEW p, Enter(s, k, p)
      PROVE  /\ run'[s].pc = p /\ run'[s].kind = k /\ run'[s].at \in Nodes
             /\ \A t \in Slots \ {s} : run'[t] = run[t]
  BY <1>0 DEF Enter, Idle, Typed, TypeOK, Nodes, StepNodes
<1>1. CASE StartMigrationWithUpload(s)
  BY <1>0, <1>1 DEF StartMigrationWithUpload, RunningNoGate
<1>2. ASSUME NEW g \in GateTypes, NEW ok \in BOOLEAN, SubmitDecision(s, g, ok)
      PROVE  RequestMove(s)
  <2>1. PICK ph \in {"load", "queued"}, k \in {0, confirms + 1} :
           run' = [run EXCEPT ![s] = [Idle EXCEPT !.pc = ph, !.kind = "resume",
                                        !.val = [for |-> g, ok |-> ok, id |-> k]]]
    BY <1>2 DEF SubmitDecision
  <2>2. /\ run'[s].pc = ph /\ run'[s].kind = "resume" /\ run'[s].at \in Nodes
        /\ \A t \in Slots \ {s} : run'[t] = run[t]
    BY <2>1 DEF Idle, Typed, TypeOK, Nodes, StepNodes
  <2> QED BY <1>2, <2>2 DEF SubmitDecision, Resumable
<1>3. CASE AdvanceCheck(s)
  BY <1>0, <1>3 DEF AdvanceCheck
<1>4. CASE CancelCheck(s)
  BY <1>0, <1>4 DEF CancelCheck
<1>5. CASE RetryMigrationDdl(s)
  BY <1>0, <1>5 DEF RetryMigrationDdl
<1> QED BY <1>1, <1>2, <1>3, <1>4, <1>5 DEF Request

LEMMA Outside ==
  ASSUME Typed, SerialInv, NEW s \in Slots,
         \/ Handler(s) \/ Worker(s) \/ LoadCheckpoint(s) \/ FinishRun(s) \/ FailRun(s)
  PROVE  OutsideMove(s)
<1> USE GotoFields, LeaveMoves DEF OutsideMove, Elsewhere, Inside
<1>0. Idle.pc = "idle" /\ Idle.kind = "none" /\ run[s].kind # "rerun"
  BY DEF Idle, SerialInv, Placed
<1>1. CASE Handler(s) \/ Worker(s)
  BY <1>0, <1>1 DEF Handler, Worker, AdvanceCommit, RerunCommit, CancelCommit, WorkerResume,
     WorkerRefuse
<1>2. CASE LoadCheckpoint(s)
  <2>1. /\ run[s].pc = "load" /\ run'[s].kind = run[s].kind
        /\ run'[s].pc \in {"raised", "finish", "node"}
        /\ run'[s].pc = "node" => run'[s].at \in Nodes /\ ckpt.next # End
        /\ \A t \in Slots \ {s} : run'[t] = run[t]
    BY <1>2 DEF LoadCheckpoint, Typed, TypeOK, Runs, Nowhere, End
  <2> QED BY <1>0, <1>2, <2>1 DEF LoadCheckpoint
<1>3. CASE FinishRun(s) \/ FailRun(s)
  BY <1>0, <1>3 DEF FinishRun, FailRun
<1> QED BY <1>1, <1>2, <1>3

LEMMA InGraph ==
  ASSUME Typed, SerialInv, NEW s \in Slots,
         Step(s) \/ Gate(s) \/ (Write(s) /\ ~WriteApply(s))
  PROVE  InsideMove(s)
<1> USE GotoFields, YieldFields DEF InsideMove, Elsewhere, Inside
<1>1. CASE Step(s)
  <2>1. CASE StepProgress(s)
    <3>1. PICK d : Yield(s, "progressed", d)
      BY <2>1 DEF StepProgress
    <3> QED BY <2>1, <3>1 DEF StepProgress
  <2>2. CASE StepPause(s)
    BY <2>2 DEF StepPause
  <2>3. CASE StepFail(s)
    <3>1. PICK d : Yield(s, "done", d)
      BY <2>3 DEF StepFail
    <3> QED BY <2>3, <3>1 DEF StepFail
  <2> QED BY <1>1, <2>1, <2>2, <2>3 DEF Step
<1>2. CASE Gate(s)
  <2>0. CASE GateAsk(s)
    <3>1. run[s].pc \in {"ask", "node"}
      BY <2>0 DEF GateAsk, GateReady
    <3> QED BY <2>0, <3>1 DEF GateAsk
  <2>1. CASE GateSkip(s)
    BY <2>1 DEF GateSkip
  <2>5. CASE GateInterrupt(s) \/ GateClear(s)
    BY <2>5 DEF GateInterrupt, GateClear
  <2>2. CASE PreSemanticAccept(s)
    <3>1. PICK d : Yield(s, "done", d)
      BY <2>2 DEF PreSemanticAccept
    <3> QED BY <2>2, <3>1 DEF PreSemanticAccept
  <2>6. CASE PreSemanticRaise(s)
    BY <2>6 DEF PreSemanticRaise
  <2>3. CASE HumanReviewAccept(s) \/ HumanReviewInvalid(s)
    BY <2>3 DEF HumanReviewAccept, HumanReviewInvalid
  <2>4. CASE HierarchyResolved(s) \/ HierarchyUnresolved(s)
    BY <2>4 DEF HierarchyResolved, HierarchyUnresolved
  <2> QED BY <1>2, <2>0, <2>1, <2>2, <2>3, <2>4, <2>5, <2>6 DEF Gate
<1>3. CASE Write(s) /\ ~WriteApply(s)
  <2>1. CASE WriteDdl(s) \/ WriteDdlFail(s)
    BY <2>1 DEF WriteDdl, WriteDdlFail
  <2>2. CASE WriteMissingSchema(s) \/ WriteMappings(s)
    BY <2>2 DEF WriteMissingSchema, WriteMappings, SerialInv, Placed
  <2>3. CASE WriteReject(s) \/ WriteApplyFail(s) \/ WriteComplete(s)
    BY <2>3 DEF WriteReject, WriteApplyFail, WriteComplete
  <2> QED BY <1>3, <2>1, <2>2, <2>3 DEF Write
<1> QED BY <1>1, <1>2, <1>3

-----------------------------------------------------------------------------
(* The three steps the invariant is about.                                 *)

LEMMA BeginKeeps ==
  ASSUME Typed, SerialInv, RowStep, NEW s \in Slots, BeginRun(s)
  PROVE  SerialInv'
<1>1. /\ run[s].pc = "load" /\ run[s].kind = "start"
      /\ run'[s].pc = "node" /\ run'[s].kind = "start"
      /\ \A t \in Slots \ {s} : run'[t] = run[t]
      /\ ckpt'.next = "ingest_node" /\ UNCHANGED <<job, applies, overlaps, crashes>>
  BY GotoFields DEF BeginRun, Checkpoint, Ghosts
<1>2. run'[s].at \in Nodes
  <2>1. run'[s].at = run[s].at
    BY GotoFields DEF BeginRun
  <2> QED BY <1>1, <2>1 DEF SerialInv, Placed
<1>3. Placed'
  BY <1>1, <1>2 DEF SerialInv, Placed, Inside
<1>4. ASSUME crashes = 0, overlaps = 0, Single PROVE Single'
  <2>1. \A t \in Slots : t # s => run[t].pc = "idle" /\ run'[t].pc = "idle"
    BY <1>1, <1>4 DEF Single
  <2>2. job.status # "none" /\ Unspent /\ ckpt'.next # End
    BY <1>1, <1>4 DEF Single, AtRest, End
  <2> QED BY <1>1, <1>4, <2>1, <2>2 DEF Single, Unspent, Inside
<1> QED BY <1>1, <1>3, <1>4 DEF SerialInv

\* The hand-over is made before write_node returns, END is saved after it.
LEMMA CommitKeeps ==
  ASSUME Typed, SerialInv, RowStep, NEW s \in Slots, CommitCheckpoint(s)
  PROVE  SerialInv'
<1> DEFINE n == Successor(run[s].at, run[s].data)
<1>1. run[s].at \in Nodes /\ run[s].data \in Data /\ run[s].pc = "done" /\ run[s].kind # "rerun"
  BY RunField DEF SerialInv, Placed, Inside, CommitCheckpoint, Typed, TypeOK
<1>2. n \in Nodes \cup {End} /\ (n = End <=> run[s].at = "write_node")
  BY <1>1 DEF Successor, AfterPreSemantic, AfterSemantic, Nodes, StepNodes, GateNodes, End
<1>3. /\ run'[s].at = n /\ run'[s].kind = run[s].kind /\ run'[s].pc \in {"finish", "node"}
      /\ n = End => run'[s].pc = "finish"
      /\ \A t \in Slots \ {s} : run'[t] = run[t]
  BY DEF CommitCheckpoint, Typed, TypeOK, Runs
<1>4. ckpt'.next = n /\ UNCHANGED <<job, applies, overlaps, crashes>>
  BY DEF CommitCheckpoint, Checkpoint, Ghosts
<1> HIDE DEF n
<1>5. Placed'
  BY <1>1, <1>2, <1>3 DEF SerialInv, Placed, Inside
<1>6. ASSUME crashes = 0, overlaps = 0, Single PROVE Single'
  <2>1. \A t \in Slots : t # s => run[t].pc = "idle" /\ run'[t].pc = "idle"
    BY <1>1, <1>3, <1>6 DEF Single
  <2>2. ckpt.next # End /\ job.status # "none"
    BY <1>1, <1>6 DEF Single, AtRest, Inside
  <2>3. Unspent \/ run[s].at = "write_node"
    BY <1>6, <2>1, <2>2 DEF Single, Late
  <2> QED BY <1>2, <1>3, <1>4, <1>6, <2>1, <2>2, <2>3 DEF Single, Unspent, Inside
<1> QED BY <1>4, <1>5, <1>6 DEF SerialInv

LEMMA SpendKeeps ==
  ASSUME Typed, SerialInv, RowStep, NEW s \in Slots, WriteApply(s)
  PROVE  SerialInv'
<1> DEFINE k == run[s].val.id
<1>1. /\ run[s].pc = "answered" /\ run[s].at = "write_node" /\ run[s].kind # "rerun"
      /\ run'[s].pc = "applied" /\ run'[s].at = "write_node" /\ run'[s].kind = run[s].kind
      /\ \A t \in Slots \ {s} : run'[t] = run[t]
  BY GotoFields DEF WriteApply, SerialInv, Placed
<1>2. applies' = [applies EXCEPT ![k] = @ + 1] /\ UNCHANGED <<job, ckpt, overlaps, crashes>>
  BY DEF WriteApply
<1>3. Placed'
  BY <1>1 DEF SerialInv, Placed, Inside, Nodes, GateNodes
<1>4. ASSUME crashes = 0, overlaps = 0, Single PROVE Single'
  <2>1. \A t \in Slots : t # s => run[t].pc = "idle" /\ run'[t].pc = "idle"
    BY <1>1, <1>4 DEF Single
  <2>2. ckpt.next # End /\ job.status # "none"
    BY <1>1, <1>4 DEF Single, AtRest, Inside
  <2>3. Unspent
    BY <1>1, <1>4, <2>1, <2>2 DEF Single, Late
  <2>4. \A j \in 1..MaxConfirms : applies'[j] > 0 => j = k
    BY <1>2, <2>3 DEF Unspent, Typed, TypeOK
  <2>5. Late(s)'
    BY <1>1 DEF Late
  <2> HIDE DEF k
  <2> QED BY <1>1, <1>2, <1>4, <2>1, <2>2, <2>4, <2>5 DEF Single, Inside
<1> QED BY <1>2, <1>3, <1>4 DEF SerialInv

LEMMA OthersKeep ==
  ASSUME Typed, SerialInv, RowStep, StartMigration \/ Crash \/ UNCHANGED vars
  PROVE  SerialInv'
<1>1. CASE StartMigration
  BY <1>1 DEF StartMigration, Elsewhere, RunningNoGate, SerialInv, Placed, Single, AtRest,
     Unspent, Late
<1>2. CASE Crash
  <2>1. crashes' # 0
    BY <1>2, BoundsAssumption DEF Crash, Typed, TypeOK
  <2>2. \A s \in Slots : run'[s] = run[s] \/ run'[s] = Idle
    BY <1>2 DEF Crash
  <2> QED BY <2>1, <2>2 DEF SerialInv, Placed, Idle, Inside
<1>3. CASE UNCHANGED vars
  BY <1>3 DEF vars, SerialInv, Placed, Single, AtRest, Unspent, Late
<1> QED BY <1>1, <1>2, <1>3

LEMMA SerialKept ==
  ASSUME RerunTargets = {}, Typed, SerialInv, [Next]_vars
  PROVE  SerialInv'
<1>1. RowStep
  BY RowSteps
<1>2. ASSUME NEW s \in Slots, Request(s) PROVE SerialInv'
  BY <1>1, <1>2, Requests, RequestKeeps
<1>3. ASSUME NEW s \in Slots, Proceed(s) PROVE SerialInv'
  <2>1. CASE Handler(s) \/ Worker(s) \/ LoadCheckpoint(s) \/ FinishRun(s) \/ FailRun(s)
    BY <1>1, <2>1, Outside, OutsideKeeps
  <2>2. CASE Step(s) \/ Gate(s) \/ (Write(s) /\ ~WriteApply(s))
    BY <1>1, <2>2, InGraph, InsideKeeps
  <2>3. CASE BeginRun(s)          BY <1>1, <2>3, BeginKeeps
  <2>4. CASE CommitCheckpoint(s)  BY <1>1, <2>4, CommitKeeps
  <2>5. CASE WriteApply(s)        BY <1>1, <2>5, SpendKeeps
  <2> QED BY <1>3, <2>1, <2>2, <2>3, <2>4, <2>5 DEF Proceed, Runner
<1>4. CASE StartMigration \/ Crash \/ UNCHANGED vars
  BY <1>1, <1>4, OthersKeep
<1> QED BY <1>2, <1>3, <1>4 DEF Next

LEMMA SerialInvariant ==
  ASSUME RerunTargets = {}
  PROVE  Spec => []SerialInv
<1>1. Init => SerialInv
  BY DEF Init, SerialInv, Placed, Single, AtRest, Unspent, Late, Idle, Inside, Nowhere, End
<1>2. Typed /\ SerialInv /\ [Next]_vars => SerialInv'
  BY SerialKept
<1> QED BY <1>1, <1>2, TypeCorrect, PTL DEF Spec

\* Without reruns, crashes and overlapping requests a migration is handed over at most
\* once, however many confirmations were accepted and row updates lost.
THEOREM HandedOnce ==
  ASSUME RerunTargets = {}
  PROVE  Spec => []HandedOverOnce
<1>1. SerialInv => HandedOverOnce
  BY DEF SerialInv, Single, HandedOverOnce
<1> QED BY <1>1, SerialInvariant, PTL
=============================================================================
