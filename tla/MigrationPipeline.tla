-------------------------- MODULE MigrationPipeline --------------------------
(***************************************************************************)
(* One CMMS migration of svc-ai-schema-mapper: the row of migration_jobs   *)
(* the frontend polls, the LangGraph checkpoint the pipeline resumes from, *)
(* and the asyncio tasks ("runs") that HTTP handlers start to drive the    *)
(* graph.  The row and the checkpoint are written separately, by different *)
(* code, with no lock: what can go wrong lies between the two.             *)
(***************************************************************************)
EXTENDS Naturals, FiniteSets

CONSTANTS
    Slots,            \* handlers and background tasks that may be under way at once
    RerunTargets,     \* step nodes POST /rerun-from is used on
    MaxConfirms,      \* bound: Gate 3 confirmations accepted
    MaxOverlaps,      \* bound: requests made while another is still being served
    MaxCrashes,       \* bound: crashes of the service process
    MaxLostWrites,    \* bound: row updates whose database error is swallowed
    Durable,          \* TRUE: PostgresSaver; FALSE: the MemorySaver fallback
    QueueConfigured   \* TRUE: redis_url is set, gate decisions go through ARQ

StepNodes == {"ingest_node", "deterministic_mapper_node", "semantic_mapper_node",
              "preprocess_node", "hierarchy_node", "output_generator_node"}
GateNodes == {"pre_semantic_review_node", "human_review_node",
              "verify_hierarchy_node", "write_node"}
Nodes     == StepNodes \cup GateNodes
GateTypes == {"pre_semantic", "field_mapping", "hierarchy", "write"}

ASSUME BoundsAssumption ==
    /\ MaxConfirms \in Nat
    /\ MaxOverlaps \in Nat
    /\ MaxCrashes \in Nat
    /\ MaxLostWrites \in Nat
ASSUME ConfigAssumption ==
    /\ RerunTargets \subseteq StepNodes
    /\ Durable \in BOOLEAN
    /\ QueueConfigured \in BOOLEAN

Nowhere == "none"      \* no checkpoint of this thread
End     == "__end__"   \* langgraph END
NoGate  == "null"      \* pending_gate_type IS NULL

NodeName(n) == n                                                          \* fault: node, not gate type
GateOf(n) == CASE n = "pre_semantic_review_node" -> "pre_semantic"
               [] n = "human_review_node"        -> "field_mapping"
               [] n = "verify_hierarchy_node"    -> "hierarchy"
               [] OTHER                          -> "write"

Artifacts == {"parsed_tables", "cleaned_tables", "intermediate_schema"}

-----------------------------------------------------------------------------
VARIABLES
    job,       \* the migration_jobs row: status, pending_gate_type
    ckpt,      \* latest checkpoint: node about to run, graph state
    hist,      \* hist[n]: graph state of the latest checkpoint about to run n, if any
    run,       \* run[s]: where the handler or task in slot s stands
    confirms,  \* Gate 3 confirmations accepted so far (each gets a number)
    applies,   \* applies[k]: hand-overs made on the strength of confirmation k
    ddl,       \* the custom-field DDL transaction has committed
    rows,      \* times the field mappings were inserted, up to 2
    overlaps, crashes, lost   \* bounded: see MaxOverlaps, MaxCrashes, MaxLostWrites

vars == <<job, ckpt, hist, run, confirms, applies, ddl, rows, overlaps, crashes, lost>>

Statuses == {"none", "running", "step_paused", "awaiting_review", "ddl_failed",
             "failed", "cancelled", "complete"}
Row == [status : Statuses, gate : StepNodes \cup GateTypes \cup {NoGate}]

\* What of MigrationState the code's control reads: what has been produced; whether
\* error_message is set; whether the next gate has something to review; whether
\* fields are left for the next mapping stage (unresolved after Node 2, flagged or
\* below 0.80 after Node 3); whether confirmed_hierarchies has a cycle; whether
\* custom columns were asked for; whether state["status"] is "complete".
Data == [have : SUBSET Artifacts, err : BOOLEAN, rev : BOOLEAN, open : BOOLEAN,
         cyc : BOOLEAN, custom : BOOLEAN, complete : BOOLEAN]
Fresh == [have |-> {}, err |-> FALSE, rev |-> FALSE, open |-> FALSE,
          cyc |-> FALSE, custom |-> FALSE, complete |-> FALSE]

\* The conditional edges, _should_skip_semantic_mapper and _route_after_semantic.
AfterPreSemantic(d) == IF d.open THEN "semantic_mapper_node" ELSE "preprocess_node"
AfterSemantic(d)    == IF d.open THEN "human_review_node" ELSE "preprocess_node"

\* The edges of the compiled graph.
Successor(n, d) ==
    CASE n = "ingest_node"               -> "deterministic_mapper_node"
      [] n = "deterministic_mapper_node" -> "pre_semantic_review_node"
      [] n = "pre_semantic_review_node"  -> AfterPreSemantic(d)
      [] n = "semantic_mapper_node"      -> AfterSemantic(d)
      [] n = "human_review_node"         -> "preprocess_node"
      [] n = "preprocess_node"           -> "hierarchy_node"
      [] n = "hierarchy_node"            -> "verify_hierarchy_node"
      [] n = "verify_hierarchy_node"     -> "output_generator_node"
      [] n = "output_generator_node"     -> "write_node"
      [] OTHER                           -> End

\* A decision: the gate it was posted for, whether that gate can act on it (for
\* "write": confirmed), and its number when its body holds a confirmation.
Answer   == [for : GateTypes \cup {NoGate}, ok : BOOLEAN, id : 0..MaxConfirms]
NoAnswer == [for |-> NoGate, ok |-> FALSE, id |-> 0]

Phases == {"idle", "queued", "checked", "load", "node", "progressed", "rows",
           "ask", "asked", "answered", "applied", "done", "finish", "raised"}
Kinds  == {"none", "start", "resume", "advance", "rerun", "cancel", "retry"}
Runs   == [pc : Phases, kind : Kinds, at : Nodes \cup {End}, data : Data, val : Answer]
Idle   == [pc |-> "idle", kind |-> "none", at |-> "ingest_node", data |-> Fresh, val |-> NoAnswer]

Init ==
    /\ job = [status |-> "none", gate |-> NoGate]
    /\ ckpt = [next |-> Nowhere, data |-> Fresh]
    /\ hist = [n \in RerunTargets |-> {}]
    /\ run = [s \in Slots |-> Idle]
    /\ confirms = 0
    /\ applies = [k \in 0..MaxConfirms |-> 0]
    /\ ddl = FALSE
    /\ rows = 0
    /\ overlaps = 0
    /\ crashes = 0
    /\ lost = 0

-----------------------------------------------------------------------------
(* Shorthands.                                                             *)

\* Everything but the row and the slot.
Elsewhere == <<ckpt, hist, confirms, applies, ddl, rows, overlaps, crashes>>
SystemState == <<ckpt, hist, confirms, applies, ddl, rows, crashes>>
Ghosts    == <<confirms, applies, ddl, rows, overlaps, crashes>>

\* Every node-side update of the row is an unconditional UPDATE ... WHERE id,
\* and its database error is logged and swallowed.
Store(row) == \/ job' = row /\ UNCHANGED lost
              \/ /\ lost < MaxLostWrites
                 /\ lost' = lost + 1
                 /\ UNCHANGED job

\* A request is taken by a free slot; whether others are being served is not
\* looked at by any handler, only bounded here.
Arrive(s) ==
    /\ run[s].pc = "idle"
    /\ IF \A t \in Slots : run[t].pc = "idle"
       THEN UNCHANGED overlaps
       ELSE overlaps < MaxOverlaps /\ overlaps' = overlaps + 1

Enter(s, kind, phase) == run' = [run EXCEPT ![s] = [Idle EXCEPT !.pc = phase, !.kind = kind]]
Goto(s, phase)        == run' = [run EXCEPT ![s].pc = phase]
Yield(s, phase, d)    == run' = [run EXCEPT ![s].pc = phase, ![s].data = d]
Leave(s)              == run' = [run EXCEPT ![s] = Idle]

Running(row)     == [row EXCEPT !.status = "running"]
RunningNoGate    == [status |-> "running", gate |-> NoGate]

-----------------------------------------------------------------------------
(* HTTP handlers (app.py).                                                 *)

\* POST /api/migration/start-with-upload: the row is committed, then the graph is
\* run in a background task.
StartMigrationWithUpload(s) ==
    /\ Arrive(s)
    /\ job.status = "none"
    /\ job' = RunningNoGate
    /\ Enter(s, "start", "load")
    /\ UNCHANGED <<SystemState, lost>>

\* POST /api/migration/start (JSON): the row is committed and nothing is enqueued.
StartMigration ==
    /\ job.status = "none"
    /\ job' = RunningNoGate
    /\ UNCHANGED <<Elsewhere, run, lost>>

\* The status and pending-gate guards of the gate endpoints; a row without a
\* pending gate accepts a decision for any.
ResumableUnlessFailed(row) == row.status \notin {"none", "failed"}        \* fault: wider guard
Resumable(row)             == row.status \in {"awaiting_review", "running"}

AnyGateMatches(row, g) == TRUE                                            \* fault: no 409 guard
GateMatches(row, g)    == row.gate \in {NoGate, g}

\* The four POST /gate/... endpoints: guards on status and pending gate, then
\* the decision goes to ARQ, or to an inline task without redis or when
\* enqueueing fails.  The row is not written.  The body goes on as it came: it may hold
\* a confirmation whichever gate it was posted for.
SubmitDecision(s, g, ok) ==
    /\ Arrive(s)
    /\ Resumable(job)
    /\ GateMatches(job, g)
    /\ \E k \in {0, confirms + 1} \cap (0..MaxConfirms) :
          /\ g = "write" => ok = (k # 0)
          /\ confirms' = IF k = 0 THEN confirms ELSE k
          /\ \E phase \in {"load"} \cup (IF QueueConfigured THEN {"queued"} ELSE {}) :
                run' = [run EXCEPT ![s] = [Idle EXCEPT !.pc = phase, !.kind = "resume",
                                             !.val = [for |-> g, ok |-> ok, id |-> k]]]
    /\ UNCHANGED <<job, ckpt, hist, applies, ddl, rows, crashes, lost>>

\* POST /advance: the status is read ...
AdvanceCheck(s) ==
    /\ Arrive(s)
    /\ job.status = "step_paused"
    /\ Enter(s, "advance", "checked")
    /\ UNCHANGED <<job, SystemState, lost>>

\* ... then the row is overwritten and a task resumes the graph.
AdvanceCommit(s) ==
    /\ run[s].pc = "checked" /\ run[s].kind = "advance"
    /\ job' = RunningNoGate
    /\ Goto(s, "load")
    /\ UNCHANGED <<Elsewhere, lost>>

\* POST /rerun-from/{n}: whatever the status, the latest checkpoint about to run
\* the node is looked up ...
RerunCheck(s, n) ==
    /\ Arrive(s)
    /\ \E d \in hist[n] :
          run' = [run EXCEPT ![s] = [Idle EXCEPT !.pc = "checked", !.kind = "rerun",
                                       !.at = n, !.data = d]]
    /\ UNCHANGED <<job, SystemState, lost>>

\* ... the row is reset, and a task replays the graph from that checkpoint.
RerunCommit(s) ==
    /\ run[s].pc = "checked" /\ run[s].kind = "rerun"
    /\ job' = RunningNoGate
    /\ Goto(s, "node")
    /\ UNCHANGED <<Elsewhere, lost>>

\* DELETE /api/migration/{id}: the status is read, then "cancelled" is written;
\* the pending gate and any task under way are left alone.
CancelCheck(s) ==
    /\ Arrive(s)
    /\ job.status \notin {"none", "complete", "cancelled", "failed"}
    /\ Enter(s, "cancel", "checked")
    /\ UNCHANGED <<job, SystemState, lost>>

CancelCommit(s) ==
    /\ run[s].pc = "checked" /\ run[s].kind = "cancel"
    /\ job' = [job EXCEPT !.status = "cancelled"]
    /\ Leave(s)
    /\ UNCHANGED <<Elsewhere, lost>>

\* POST /retry-ddl: hands {"gate_type": "ddl_retry"} to resume_migration, through
\* ARQ or as a task.
RetryMigrationDdl(s) ==
    /\ Arrive(s)
    /\ job.status = "ddl_failed"
    /\ Enter(s, "retry", "queued")
    /\ UNCHANGED <<job, SystemState, lost>>

-----------------------------------------------------------------------------
(* worker.py resume_migration: a status guard, status := running, and then *)
(* get_migration_graph() is called without await, so ainvoke is looked up  *)
(* on a coroutine and _run_graph records the exception.                    *)

WorkerResume(s) ==
    /\ run[s].pc = "queued"
    /\ Resumable(job)
    /\ job' = Running(job)
    /\ Goto(s, "raised")
    /\ UNCHANGED <<Elsewhere, lost>>

WorkerRefuse(s) ==
    /\ run[s].pc = "queued"
    /\ ~Resumable(job)
    /\ Leave(s)
    /\ UNCHANGED <<job, Elsewhere, lost>>

-----------------------------------------------------------------------------
(* The graph runner: ainvoke and the checkpointer.                         *)

\* Checkpoint "about to run n, with state d": the latest one, and the one a later
\* rerun from n will find.
Checkpoint(n, d) ==
    /\ ckpt' = [next |-> n, data |-> d]
    /\ hist' = [m \in RerunTargets |-> IF m = n THEN {d} ELSE hist[m]]

\* ainvoke(initial_state): the input checkpoint.
BeginRun(s) ==
    /\ run[s].pc = "load" /\ run[s].kind = "start"
    /\ Checkpoint("ingest_node", Fresh)
    /\ Goto(s, "node")
    /\ UNCHANGED <<job, Ghosts, lost>>

\* ainvoke(None) or ainvoke(Command(resume=...)): the latest checkpoint is read
\* once, and the run carries its own copy from here on.  No checkpoint: it
\* raises.  A finished thread: it returns the final state.
LoadCheckpoint(s) ==
    /\ run[s].pc = "load" /\ run[s].kind \in {"resume", "advance"}
    /\ run' = [run EXCEPT ![s].pc = CASE ckpt.next = Nowhere -> "raised"
                                      [] ckpt.next = End     -> "finish"
                                      [] OTHER               -> "node",
                          ![s].at = IF ckpt.next \in Nodes THEN ckpt.next ELSE End,
                          ![s].data = ckpt.data]
    /\ UNCHANGED <<job, Elsewhere, lost>>

\* A node returned: its successor's checkpoint is written.  The decision that came
\* with the run was visible to the first node only.  interrupt_after ends the
\* run after a step node; END ends it too.
LoseFinalCheckpoint(s) ==                                                 \* fault: END is not saved
    /\ run[s].pc = "done"
    /\ LET n == Successor(run[s].at, run[s].data) IN
          /\ IF n = End THEN UNCHANGED <<ckpt, hist>> ELSE Checkpoint(n, run[s].data)
          /\ run' = [run EXCEPT ![s].pc = IF run[s].at \in StepNodes \/ n = End
                                          THEN "finish" ELSE "node",
                                ![s].at = n, ![s].val = NoAnswer]
    /\ UNCHANGED <<job, Ghosts, lost>>
CommitCheckpoint(s) ==
    /\ run[s].pc = "done"
    /\ LET n == Successor(run[s].at, run[s].data) IN
          /\ Checkpoint(n, run[s].data)
          /\ run' = [run EXCEPT ![s].pc = IF run[s].at \in StepNodes \/ n = End
                                          THEN "finish" ELSE "node",
                                ![s].at = n,
                                ![s].val = NoAnswer]
    /\ UNCHANGED <<job, Ghosts, lost>>

\* ainvoke returned.  _inline_resume, _inline_advance and _inline_rerun look at
\* error_message and status in the result; _run_inline (start) looks at nothing.
NoReportedError(r) == FALSE                                               \* fault: never looked at
ReportedError(r)   == r.data.err /\ ~r.data.complete /\ r.kind # "start"

FinishRun(s) ==
    /\ run[s].pc = "finish"
    /\ IF ReportedError(run[s])
       THEN Store([job EXCEPT !.status = "failed"])
       ELSE UNCHANGED <<job, lost>>
    /\ Leave(s)
    /\ UNCHANGED Elsewhere

\* ainvoke raised: every caller writes "failed".
RaiseUnrecorded(s) ==                                                     \* fault: except branch logs only
    /\ run[s].pc = "raised"
    /\ Leave(s)
    /\ UNCHANGED <<job, Elsewhere, lost>>
FailRun(s) ==
    /\ run[s].pc = "raised"
    /\ Store([job EXCEPT !.status = "failed"])
    /\ Leave(s)
    /\ UNCHANGED Elsewhere

-----------------------------------------------------------------------------
(* Step nodes: compute, update_node_progress, write_step_pause, return.    *)

\* What each step node may leave in the state when it succeeds ...
With(d, a) == [d EXCEPT !.have = @ \cup {a}]
IngestResults(d)        == {With(d, "parsed_tables")}
DeterministicResults(d) == UNION {{[d EXCEPT !.rev = r, !.open = o] : r \in BOOLEAN} : o \in BOOLEAN}
SemanticResults(d)      == {[d EXCEPT !.open = o] : o \in BOOLEAN}
\* (rev and open are not read again before hierarchy_node sets rev: dropped here)
PreprocessResults(d)    == {[With(d, "cleaned_tables") EXCEPT !.rev = FALSE, !.open = FALSE]}
HierarchyResults(d)     == {[d EXCEPT !.rev = r, !.cyc = FALSE] : r \in BOOLEAN}
                             \cup {[d EXCEPT !.rev = TRUE, !.cyc = TRUE]}
OutputResults(d)        == {With(d, "intermediate_schema")}

StepResults(n, d) ==
    CASE n = "ingest_node"               -> IngestResults(d)
      [] n = "deterministic_mapper_node" -> DeterministicResults(d)
      [] n = "semantic_mapper_node"      -> SemanticResults(d)
      [] n = "preprocess_node"           -> PreprocessResults(d)
      [] n = "hierarchy_node"            -> HierarchyResults(d)
      [] OTHER                           -> OutputResults(d)

\* ... and what it must find there to get past its first check.
Needs(n) ==
    CASE n \in {"deterministic_mapper_node", "preprocess_node"} -> {"parsed_tables"}
      [] n \in {"hierarchy_node", "output_generator_node"}      -> {"cleaned_tables"}
      [] OTHER                                                  -> {}

StepProgress(s) ==
    /\ run[s].pc = "node" /\ run[s].at \in StepNodes
    /\ Needs(run[s].at) \subseteq run[s].data.have
    /\ \E d \in StepResults(run[s].at, run[s].data) : Yield(s, "progressed", d)
    /\ Store(Running(job))
    /\ UNCHANGED Elsewhere

PauseWithoutKey(s) ==                                                     \* fault: pending key not set
    /\ run[s].pc = "progressed"
    /\ Store([job EXCEPT !.status = "step_paused"])
    /\ Goto(s, "done")
    /\ UNCHANGED Elsewhere
ReturnWithoutPause(s) ==                                                  \* fault: no write_step_pause
    /\ run[s].pc = "progressed"
    /\ Goto(s, "done")
    /\ UNCHANGED <<job, Elsewhere, lost>>
StepPause(s) ==
    /\ run[s].pc = "progressed"
    /\ Store([status |-> "step_paused", gate |-> run[s].at])
    /\ Goto(s, "done")
    /\ UNCHANGED Elsewhere

\* The except branch and the error returns: error_message is set in the state and the
\* row is not written.  The node may have updated the state before it failed.
StepFail(s) ==
    /\ run[s].pc = "node" /\ run[s].at \in StepNodes
    /\ \/ Yield(s, "done", [run[s].data EXCEPT !.err = TRUE])
       \/ /\ Needs(run[s].at) \subseteq run[s].data.have
          /\ \E d \in StepResults(run[s].at, run[s].data) : Yield(s, "done", [d EXCEPT !.err = TRUE])
    /\ UNCHANGED <<job, Elsewhere, lost>>

-----------------------------------------------------------------------------
(* Gate nodes: write_gate_payload, interrupt(), and on re-execution with a *)
(* decision clear_gate_payload and the gate's own processing.              *)

\* The pre-semantic gate with nothing to review, the hierarchy gate with nothing
\* to verify: the node returns without touching the row.
GateSkip(s) ==
    /\ run[s].pc = "node"
    /\ run[s].at \in {"pre_semantic_review_node", "verify_hierarchy_node"}
    /\ ~run[s].data.rev
    /\ Goto(s, "done")
    /\ UNCHANGED <<job, Elsewhere, lost>>

GateReady(s) ==
    \/ run[s].pc = "ask"
    \/ run[s].pc = "node" /\ run[s].at = "human_review_node"
    \/ /\ run[s].pc = "node"
       /\ run[s].at \in {"pre_semantic_review_node", "verify_hierarchy_node"}
       /\ run[s].data.rev

GateAsk(s) ==
    /\ GateReady(s)
    /\ Store([status |-> "awaiting_review", gate |-> GateOf(run[s].at)])
    /\ Goto(s, "asked")
    /\ UNCHANGED Elsewhere

\* interrupt() without a decision ends the run; ainvoke returns the state of the
\* last checkpoint.
GateInterrupt(s) ==
    /\ run[s].pc = "asked"
    /\ run[s].val = NoAnswer
    /\ Goto(s, "finish")
    /\ UNCHANGED <<job, Elsewhere, lost>>

AnswerWithoutClear(s) ==                                                  \* fault: no clear_gate_payload
    /\ run[s].pc = "asked"
    /\ run[s].val # NoAnswer
    /\ Goto(s, "answered")
    /\ UNCHANGED <<job, Elsewhere, lost>>
GateClear(s) ==
    /\ run[s].pc = "asked"
    /\ run[s].val # NoAnswer
    /\ Store(RunningNoGate)
    /\ Goto(s, "answered")
    /\ UNCHANGED Elsewhere

\* A decision posted for another gate has the wrong shape: the code may or may
\* not notice.
CanAccept(v, g) == v.for # g \/ v.ok
CanRefuse(v, g) == v.for # g \/ ~v.ok

\* pre_semantic_review_node: processing is outside any try, so a malformed
\* decision raises out of the graph.
PreSemanticAccept(s) ==
    /\ run[s].pc = "answered" /\ run[s].at = "pre_semantic_review_node"
    /\ CanAccept(run[s].val, "pre_semantic")
    /\ \E c \in {run[s].data.custom, TRUE}, o \in BOOLEAN :
          Yield(s, "done", [run[s].data EXCEPT !.custom = c, !.open = o])
    /\ UNCHANGED <<job, Elsewhere, lost>>

PreSemanticRaise(s) ==
    /\ run[s].pc = "answered" /\ run[s].at = "pre_semantic_review_node"
    /\ CanRefuse(run[s].val, "pre_semantic")
    /\ Goto(s, "raised")
    /\ UNCHANGED <<job, Elsewhere, lost>>

HumanReviewAccept(s) ==
    /\ run[s].pc = "answered" /\ run[s].at = "human_review_node"
    /\ CanAccept(run[s].val, "field_mapping")
    /\ \E c \in {run[s].data.custom, TRUE} : Yield(s, "done", [run[s].data EXCEPT !.custom = c])
    /\ Store(Running(job))
    /\ UNCHANGED Elsewhere

\* EL-M.4: returns with error_message set (or, for an override without target,
\* silently); the edge to preprocess_node is taken all the same.
HumanReviewInvalid(s) ==
    /\ run[s].pc = "answered" /\ run[s].at = "human_review_node"
    /\ CanRefuse(run[s].val, "field_mapping")
    /\ \E e \in {run[s].data.err, TRUE} : Yield(s, "done", [run[s].data EXCEPT !.err = e])
    /\ UNCHANGED <<job, Elsewhere, lost>>

HierarchyResolved(s) ==
    /\ run[s].pc = "answered" /\ run[s].at = "verify_hierarchy_node"
    /\ CanAccept(run[s].val, "hierarchy")
    /\ Yield(s, "done", [run[s].data EXCEPT !.cyc = FALSE])
    /\ Store(Running(job))
    /\ UNCHANGED Elsewhere

\* EL-M.7: cycles remain in what the customer confirmed, or a decision that cannot
\* be processed ends in the except branch; either way the node returns.
HierarchyUnresolved(s) ==
    /\ run[s].pc = "answered" /\ run[s].at = "verify_hierarchy_node"
    /\ CanRefuse(run[s].val, "hierarchy")
    /\ \/ /\ run[s].val.for = "hierarchy" \/ run[s].data.cyc
          /\ Yield(s, "done", [run[s].data EXCEPT !.cyc = TRUE])
       \/ Yield(s, "done", [run[s].data EXCEPT !.err = TRUE])
    /\ UNCHANGED <<job, Elsewhere, lost>>

-----------------------------------------------------------------------------
(* write_node: all of it is executed again when the gate is answered.      *)

WriteDdl(s) ==
    /\ run[s].pc = "node" /\ run[s].at = "write_node"
    /\ ddl' = (ddl \/ run[s].data.custom)
    /\ Goto(s, "rows")
    /\ UNCHANGED <<job, ckpt, hist, confirms, applies, rows, overlaps, crashes, lost>>

DdlFailContinues(s) ==                                                    \* fault: missing return
    /\ run[s].pc = "node" /\ run[s].at = "write_node"
    /\ run[s].data.custom
    /\ Store([job EXCEPT !.status = "ddl_failed"])
    /\ Yield(s, "rows", [run[s].data EXCEPT !.err = TRUE])
    /\ UNCHANGED Elsewhere
WriteDdlFail(s) ==
    /\ run[s].pc = "node" /\ run[s].at = "write_node"
    /\ run[s].data.custom
    /\ Store([job EXCEPT !.status = "ddl_failed"])
    /\ Yield(s, "done", [run[s].data EXCEPT !.err = TRUE])
    /\ UNCHANGED Elsewhere

\* intermediate_schema is missing after an output generator that failed.
WriteMissingSchema(s) ==
    /\ run[s].pc = "rows"
    /\ "intermediate_schema" \notin run[s].data.have
    /\ Yield(s, "done", [run[s].data EXCEPT !.err = TRUE])
    /\ UNCHANGED <<job, Elsewhere, lost>>

\* migration_field_mappings: plain INSERTs, a database error is not fatal.
WriteMappings(s) ==
    /\ run[s].pc = "rows"
    /\ "intermediate_schema" \in run[s].data.have
    /\ rows' \in {rows, IF rows < 2 THEN rows + 1 ELSE rows}
    /\ Goto(s, "ask")
    /\ UNCHANGED <<job, ckpt, hist, confirms, applies, ddl, overlaps, crashes, lost>>

\* { confirmed: true } (or action "confirm") in the body, whatever gate it was posted
\* for; the default action is "reject".
ConfirmByDefault(v) == v.id # 0 \/ v.for # "write"                       \* fault: default "confirm"
Confirmed(v)        == v.id # 0

WriteReject(s) ==
    /\ run[s].pc = "answered" /\ run[s].at = "write_node"
    /\ ~Confirmed(run[s].val)
    /\ Yield(s, "done", [run[s].data EXCEPT !.err = TRUE])
    /\ UNCHANGED <<job, Elsewhere, lost>>

\* The SQL artifact, the schema-aligned inserts or the POST to svc-ingestion.
ApplyAndRetry(s) ==                                                       \* fault: POST sent again
    /\ run[s].pc = "answered" /\ run[s].at = "write_node"
    /\ Confirmed(run[s].val)
    /\ \E times \in 1..2 : applies' = [applies EXCEPT ![run[s].val.id] = @ + times]
    /\ Goto(s, "applied")
    /\ UNCHANGED <<job, ckpt, hist, confirms, ddl, rows, overlaps, crashes, lost>>
WriteApply(s) ==
    /\ run[s].pc = "answered" /\ run[s].at = "write_node"
    /\ Confirmed(run[s].val)
    /\ applies' = [applies EXCEPT ![run[s].val.id] = @ + 1]
    /\ Goto(s, "applied")
    /\ UNCHANGED <<job, ckpt, hist, confirms, ddl, rows, overlaps, crashes, lost>>

CompleteAfterFailedApply(s) ==                                            \* fault: missing return
    /\ run[s].pc = "answered" /\ run[s].at = "write_node"
    /\ Confirmed(run[s].val)
    /\ Goto(s, "applied")
    /\ UNCHANGED <<job, Elsewhere, lost>>
WriteApplyFail(s) ==
    /\ run[s].pc = "answered" /\ run[s].at = "write_node"
    /\ Confirmed(run[s].val)
    /\ Yield(s, "done", [run[s].data EXCEPT !.err = TRUE])
    /\ UNCHANGED <<job, Elsewhere, lost>>

WriteComplete(s) ==
    /\ run[s].pc = "applied"
    /\ Store([job EXCEPT !.status = "complete"])
    /\ Yield(s, "done", [run[s].data EXCEPT !.complete = TRUE])
    /\ UNCHANGED Elsewhere

-----------------------------------------------------------------------------
\* The service process dies with its tasks; requests queued in redis survive, and
\* so does the checkpoint when it is in PostgreSQL.  Nothing at start-up looks
\* for migrations left "running".
Crash ==
    /\ crashes < MaxCrashes
    /\ crashes' = crashes + 1
    /\ run' = [s \in Slots |-> IF run[s].pc = "queued" /\ QueueConfigured THEN run[s] ELSE Idle]
    /\ IF Durable THEN UNCHANGED <<ckpt, hist>>
       ELSE /\ ckpt' = [next |-> Nowhere, data |-> Fresh]
            /\ hist' = [n \in RerunTargets |-> {}]
    /\ UNCHANGED <<job, confirms, applies, ddl, rows, overlaps, lost>>

Request(s) ==
    \/ StartMigrationWithUpload(s)
    \/ \E g \in GateTypes, ok \in BOOLEAN : SubmitDecision(s, g, ok)
    \/ AdvanceCheck(s)
    \/ \E n \in RerunTargets : RerunCheck(s, n)
    \/ CancelCheck(s)
    \/ RetryMigrationDdl(s)

Handler(s) == AdvanceCommit(s) \/ RerunCommit(s) \/ CancelCommit(s)
Worker(s)  == WorkerResume(s) \/ WorkerRefuse(s)
Runner(s)  == \/ BeginRun(s) \/ LoadCheckpoint(s) \/ CommitCheckpoint(s)
              \/ FinishRun(s) \/ FailRun(s)
Step(s)    == StepProgress(s) \/ StepPause(s) \/ StepFail(s)
Gate(s)    == \/ GateSkip(s) \/ GateAsk(s) \/ GateInterrupt(s) \/ GateClear(s)
              \/ PreSemanticAccept(s) \/ PreSemanticRaise(s)
              \/ HumanReviewAccept(s) \/ HumanReviewInvalid(s)
              \/ HierarchyResolved(s) \/ HierarchyUnresolved(s)
Write(s)   == \/ WriteDdl(s) \/ WriteDdlFail(s) \/ WriteMissingSchema(s) \/ WriteMappings(s)
              \/ WriteReject(s) \/ WriteApply(s) \/ WriteApplyFail(s) \/ WriteComplete(s)

\* What the event loop and the worker carry on with by themselves.
Proceed(s) == Handler(s) \/ Worker(s) \/ Runner(s) \/ Step(s) \/ Gate(s) \/ Write(s)

Next == \/ StartMigration
        \/ \E s \in Slots : Request(s) \/ Proceed(s)
        \/ Crash

Spec == Init /\ [][Next]_vars

\* asyncio and ARQ keep running a task that can run; users owe nothing.
FairSpec == Spec /\ \A s \in Slots : WF_vars(Proceed(s))
-----------------------------------------------------------------------------
(* Properties that hold of every interleaving, crash and lost row update.  *)

\* Types of all variables.
TypeOK ==
    /\ job \in Row
    /\ ckpt \in [next : Nodes \cup {Nowhere, End}, data : Data]
    /\ hist \in [RerunTargets -> SUBSET Data]
    /\ run \in [Slots -> Runs]
    /\ confirms \in 0..MaxConfirms
    /\ applies \in [0..MaxConfirms -> Nat]
    /\ ddl \in BOOLEAN
    /\ rows \in 0..2
    /\ overlaps \in 0..MaxOverlaps
    /\ crashes \in 0..MaxCrashes
    /\ lost \in 0..MaxLostWrites

\* Gate 3 guards the hand-over (write_node): records reach the target database
\* only on a confirmation that was accepted for Gate 3, and one confirmation is
\* good for one hand-over, however often the node is executed again.
ConfirmationSpentOnce ==
    /\ applies[0] = 0
    /\ \A k \in 1..MaxConfirms : applies[k] <= (IF k <= confirms THEN 1 ELSE 0)

\* A migration is shown as complete only after a hand-over was made for it.
CompleteMeansApplied ==
    job.status = "complete" => \E k \in 1..MaxConfirms : applies[k] > 0

\* Records are handed over only when the custom columns they may fill exist: a run that
\* has handed over for a migration with custom columns has its DDL committed, by itself
\* or by an earlier execution of write_node.
ColumnsBeforeRecords ==
    \A s \in Slots : run[s].pc = "applied" /\ run[s].data.custom => ddl

\* The gate endpoints trust the row to say which gate is open: whenever the row
\* asks for a review or a step click, the pending key says for which one.
PendingKeyFits ==
    /\ job.status = "awaiting_review" => job.gate \in GateTypes
    /\ job.status = "step_paused" => job.gate \in StepNodes

\* Gate 3 as the customer sees it: see ConfirmedHandover.
Gate3 == INSTANCE ConfirmedHandover
            WITH MaxGrants <- MaxConfirms, granted <- confirms, handed <- applies,
                 shown <- (job.status = "complete")

\* The pipeline, with its interleavings, crashes and lost updates, implements it.
HandoverAsConfirmed == Gate3!Spec

-----------------------------------------------------------------------------
(* What the row tells the user about the checkpoint, with nothing under    *)
(* way.                                                                    *)

AtRest == \A s \in Slots : run[s].pc = "idle"

\* A "running" row nobody is running: the JSON start, a checkpoint that was in memory
\* when the process restarted, and a start whose ingest_node returned an error.
Stranded ==
    \/ ckpt.next = Nowhere
    \/ ckpt.next = "deterministic_mapper_node" /\ ckpt.data.err

\* One request at a time, and every row update reaches the database.
Orderly == overlaps = 0 /\ lost = 0

\* The row agrees with the checkpoint.
Agreed ==
    /\ job.status = "step_paused" => ckpt.next = Successor(job.gate, ckpt.data)
    /\ job.status = "awaiting_review" => ckpt.next \in GateNodes /\ job.gate = GateOf(ckpt.next)
    /\ job.status = "complete" => ckpt.next = End /\ ckpt.data.complete
    /\ job.status = "running" => Stranded
    /\ job.status # "ddl_failed"

\* With one request at a time, no crash and no lost update, the row agrees with the
\* checkpoint whenever nothing is under way: the step shown is the one just
\* executed, the gate shown is the one the graph is interrupted at, and
\* "complete" is a finished graph.
RestingAgreement == AtRest /\ Orderly /\ crashes = 0 => Agreed

\* With crashes, one request at a time and no update lost, a step may have been shown whose
\* checkpoint was never written, a gate is still the one the graph stands at, and a
\* complete migration may have to re-enter write_node.
Recoverable ==
    /\ job.status = "step_paused" => ckpt.next \in {job.gate, Successor(job.gate, ckpt.data)}
    /\ job.status = "awaiting_review" => ckpt.next \in GateNodes /\ job.gate = GateOf(ckpt.next)
    /\ job.status = "complete" => ckpt.next \in {"write_node", End}
RecoverableRest == AtRest /\ Orderly => Recoverable

\* A decision resumes the graph at the gate it was posted for; it is never consumed
\* by another gate and never moves the graph past a step the user has not advanced.
\* So with one request at a time and no lost update, unless a crash leaves a "running"
\* row and a checkpoint that is not at a gate.
DecisionMeetsItsGate ==
    Orderly /\ (Durable => crashes = 0) => \A s \in Slots :
       run[s].val # NoAnswer /\ run[s].pc \notin {"idle", "queued", "load", "raised"} =>
          \/ run[s].at \in GateNodes /\ run[s].val.for = GateOf(run[s].at)
          \/ run[s].data.err    \* the start run's ingest_node had failed

\* A cancelled or completed migration stays so until the user reruns it: with one request
\* at a time no decision, advance or retry revives it.
EndedStays ==
    [][overlaps = 0 /\ job.status \in {"cancelled", "complete"} /\ job'.status # job.status =>
          \E s \in Slots : run[s].kind = "rerun"]_vars

\* Without reruns, crashes and overlapping requests, at most one confirmation ends in a
\* hand-over to the target database, whatever the row says: the finished checkpoint
\* keeps write_node from running again.
HandedOverOnce ==
    crashes = 0 /\ overlaps = 0 => \A j, k \in 1..MaxConfirms : applies[j] > 0 /\ applies[k] > 0 => j = k

\* A migration shown as "running" comes to rest where the user can act on it, unless it
\* is one of the stranded ones.
RunningIsAttended == job.status = "running" ~> job.status # "running" \/ (AtRest /\ Stranded)

Unresumable(r) == r.pc = "load" /\ r.kind \in {"resume", "advance"} /\ ckpt.next = Nowhere

\* A decision or an advance on a migration whose checkpoint is gone (the MemorySaver
\* fallback after a restart, the JSON start) does not hang: the row says "failed".
LostThreadIsReported ==
    \A s \in Slots : (Unresumable(run[s]) /\ crashes = MaxCrashes) ~> (job.status = "failed")

-----------------------------------------------------------------------------
\* write_node.py:324-326: the mappings are persisted "once, after everything is
\* confirmed".  write_node executes its body again when Gate 3 is answered.
MappingsWrittenOnce == rows <= 1
==============================================================================
