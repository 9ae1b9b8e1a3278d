---------------------------- MODULE SchemaMapping ----------------------------
(***************************************************************************)
(* One schema-mapping job of svc-ai-schema-mapper: the columns of a        *)
(* foreign CMMS are matched to the canonical schema in two tiers, reviewed *)
(* at gates, and a copy of the canonical schema is created for them.  As   *)
(* in MigrationPipeline a row of schema_mapping_jobs and a LangGraph       *)
(* checkpoint are written separately; here the graph state also says where *)
(* every external column has been put.  The checkpointer is PostgreSQL.    *)
(***************************************************************************)
EXTENDS Naturals, FiniteSets

CONSTANTS
    Slots,          \* handlers and background tasks that may be under way at once
    Columns,        \* columns of the external schema, each a field of a table
    FirstNamed,     \* the first column, in the order of the tables, that has a column's name
    MaxOverlaps,    \* bound: requests made while another is still being served
    MaxFaults       \* bound: nodes that fail, crashes, and row updates that are lost, together

ASSUME NamesAssumption ==
    /\ FirstNamed \in [Columns -> Columns]
    /\ \A c \in Columns : FirstNamed[FirstNamed[c]] = FirstNamed[c]

ASSUME BoundsAssumption ==
    /\ MaxOverlaps \in Nat
    /\ MaxFaults \in Nat

\* _STEP_NODES: the graph is compiled with interrupt_after these.
StepNodes == {"canonical_schema_node", "schema_ingest_node", "schema_deterministic_node",
              "schema_semantic_node", "schema_hierarchy_node", "schema_output_node"}
\* The gates that wait for a decision, and what they are called in the row.
GateNodes == {"schema_pre_semantic_node", "schema_human_review_node",
              "schema_artifacts_review_node"}
Nodes == StepNodes \cup GateNodes \cup
         {"schema_preprocess_node", "schema_verify_hierarchy_node", "schema_write_node"}
\* The step keys of the row, named after their nodes: step_0_canonical ... step_7_output,
\* step_2_5_preprocess and step_6_verify_hierarchy.
StepKeys  == StepNodes \cup {"schema_preprocess_node", "schema_verify_hierarchy_node"}
GateTypes == {"pre_semantic", "field_mapping", "hierarchy", "artifacts_review"}

\* B has a column of the same name for every column of A.
Carries(A, B) == \A c \in A : \E k \in B : FirstNamed[k] = FirstNamed[c]

Nowhere == "none"
End     == "__end__"
NoGate  == "null"

NodeName(n) == n                                           \* fault: node, not gate type
GateOf(n) == CASE n = "schema_pre_semantic_node" -> "pre_semantic"
               [] n = "schema_human_review_node" -> "field_mapping"
               [] OTHER                          -> "artifacts_review"

-----------------------------------------------------------------------------
VARIABLES
    job,      \* the schema_mapping_jobs row: status, pending_gate_type
    ckpt,     \* latest checkpoint: node about to run, graph state
    run,      \* run[s]: where the handler or task in slot s stands
    copies,   \* times the canonical tables were copied into the new schema, up to 2
    overlaps, \* requests made while another was being served
    failures, crashes, lost   \* nodes that failed, crashes, lost row updates

vars == <<job, ckpt, run, copies, overlaps, failures, crashes, lost>>

Statuses == {"none", "ingest", "running", "step_paused", "awaiting_review",
             "ddl_failed", "error", "cancelled", "complete"}
Row == [status : Statuses, gate : StepKeys \cup GateTypes \cup {NoGate}]

\* SchemaMappingState: whether external_tables is set; the columns in tier1_mappings,
\* those of them the pre-semantic gate shows, unmapped_after_t1 (open, and, appended to
\* it without their source_table, the ones that gate sent back), the three tier-2
\* lists, extra_fields_config; whether unstructured or low-confidence columns are
\* left for the field-mapping gate; error_message is set; status is "complete".  What
\* nothing reads any more is cleared when a gate is passed and after the last node.  And what the users
\* asked for: new columns; columns taken out of tier 1 at the field-mapping gate, by a
\* rejection, or by an answer that neither places nor rejects them; whether the
\* hierarchy and the artifacts were decided on.
Data == [tables : BOOLEAN, t1 : SUBSET Columns, shown : SUBSET Columns,
         open : SUBSET Columns, sent : SUBSET Columns,
         auto : SUBSET Columns, flagged : SUBSET Columns,
         unmappable : SUBSET Columns, extra : SUBSET Columns, text : BOOLEAN,
         err : BOOLEAN, complete : BOOLEAN,
         asked : SUBSET Columns, rejected : SUBSET Columns, unplaced : SUBSET Columns,
         hierarchy : BOOLEAN, reviewed : BOOLEAN]
Fresh == [tables |-> FALSE, t1 |-> {}, shown |-> {}, open |-> {}, sent |-> {},
          auto |-> {}, flagged |-> {}, unmappable |-> {}, extra |-> {}, text |-> FALSE,
          err |-> FALSE, complete |-> FALSE, asked |-> {}, rejected |-> {}, unplaced |-> {},
          hierarchy |-> FALSE, reviewed |-> FALSE]

\* _should_skip_semantic_mapper.
AfterPreprocess(d) == IF d.open = {} THEN "schema_human_review_node"
                                     ELSE "schema_semantic_node"

\* The edges of the compiled graph.
Successor(n, d) ==
    CASE n = "canonical_schema_node"        -> "schema_ingest_node"
      [] n = "schema_ingest_node"           -> "schema_deterministic_node"
      [] n = "schema_deterministic_node"    -> "schema_pre_semantic_node"
      [] n = "schema_pre_semantic_node"     -> "schema_preprocess_node"
      [] n = "schema_preprocess_node"       -> AfterPreprocess(d)
      [] n = "schema_semantic_node"         -> "schema_human_review_node"
      [] n = "schema_human_review_node"     -> "schema_hierarchy_node"
      [] n = "schema_hierarchy_node"        -> "schema_verify_hierarchy_node"
      [] n = "schema_verify_hierarchy_node" -> "schema_output_node"
      [] n = "schema_output_node"           -> "schema_artifacts_review_node"
      [] n = "schema_artifacts_review_node" -> "schema_write_node"
      [] OTHER                              -> End

Phases == {"idle", "checked", "load", "node", "asked", "written", "done",
           "finish", "raised", "queued"}
Kinds  == {"none", "start", "resume", "advance", "kick", "cancel", "retry"}
\* val: the gate a decision was posted for, if the task carries one.
Runs   == [pc : Phases, kind : Kinds, at : Nodes \cup {End}, data : Data,
           val : GateTypes \cup {NoGate}]
Idle   == [pc |-> "idle", kind |-> "none", at |-> End, data |-> Fresh, val |-> NoGate]

Init ==
    /\ job = [status |-> "none", gate |-> NoGate]
    /\ ckpt = [next |-> Nowhere, data |-> Fresh]
    /\ run = [s \in Slots |-> Idle]
    /\ copies = 0
    /\ overlaps = 0
    /\ failures = 0
    /\ crashes = 0
    /\ lost = 0

-----------------------------------------------------------------------------
(* Shorthands.                                                             *)

Bounded == <<overlaps, failures, crashes>>
World   == <<ckpt, copies, failures, crashes>>

Budget == failures + crashes + lost < MaxFaults
Fails  == Budget /\ failures' = failures + 1

\* The row writers of schema_db_writer log and swallow database errors.
Store(row) == \/ job' = row /\ UNCHANGED lost
              \/ /\ Budget
                 /\ lost' = lost + 1
                 /\ UNCHANGED job

\* No handler looks at what others are doing; how many overlap is only bounded here.
Arrive(s) ==
    /\ run[s].pc = "idle"
    /\ IF \A t \in Slots : run[t].pc = "idle"
       THEN UNCHANGED overlaps
       ELSE overlaps < MaxOverlaps /\ overlaps' = overlaps + 1

Enter(s, kind, phase, val) ==
    run' = [run EXCEPT ![s] = [Idle EXCEPT !.pc = phase, !.kind = kind, !.val = val]]
Goto(s, phase)     == run' = [run EXCEPT ![s].pc = phase]
Yield(s, phase, d) == run' = [run EXCEPT ![s].pc = phase, ![s].data = d]
Leave(s)           == run' = [run EXCEPT ![s] = Idle]

RunningNoGate == [status |-> "running", gate |-> NoGate]

-----------------------------------------------------------------------------
(* HTTP handlers (app.py): a status is read, then the row is overwritten   *)
(* and a task is created.                                                  *)

\* POST /api/schema-mapping: the row is inserted and the graph run in a task.
StartSchemaMapping(s) ==
    /\ Arrive(s)
    /\ job.status = "none"
    /\ job' = [status |-> "ingest", gate |-> NoGate]
    /\ Enter(s, "start", "load", NoGate)
    /\ UNCHANGED <<World, lost>>

\* POST /advance; _GATE_STEP_KEYS: past the hierarchy pause the task resumes with the
\* decisions in the body.
AdvanceAsGate(s) ==                                        \* fault: every pause resumed as a gate
    /\ Arrive(s)
    /\ job.status = "step_paused"
    /\ Enter(s, "advance", "checked", "hierarchy")
    /\ UNCHANGED <<job, World, lost>>
AdvanceCheck(s) ==
    /\ Arrive(s)
    /\ job.status = "step_paused"
    /\ Enter(s, "advance", "checked",
             IF job.gate = "schema_verify_hierarchy_node" THEN "hierarchy" ELSE NoGate)
    /\ UNCHANGED <<job, World, lost>>

\* POST /gate/...: awaiting_review or running, and the pending gate, when there is one,
\* is this one.
GateCheck(s, g) ==
    /\ Arrive(s)
    /\ job.status \in {"awaiting_review", "running"}
    /\ job.gate \in {NoGate, g}
    /\ Enter(s, "resume", "checked", g)
    /\ UNCHANGED <<job, World, lost>>

\* POST /kick.
KickCheck(s) ==
    /\ Arrive(s)
    /\ job.status \in {"ingest", "running"}
    /\ Enter(s, "kick", "checked", NoGate)
    /\ UNCHANGED <<job, World, lost>>

\* DELETE /api/schema-mapping/{id}: neither the pending gate nor a task is touched.
CancelCheck(s) ==
    /\ Arrive(s)
    /\ job.status \notin {"none", "complete", "cancelled", "error"}
    /\ Enter(s, "cancel", "checked", NoGate)
    /\ UNCHANGED <<job, World, lost>>

Dispatch(s) ==
    /\ run[s].pc = "checked" /\ run[s].kind \in {"advance", "resume", "kick"}
    /\ job' = IF run[s].kind = "kick" THEN [job EXCEPT !.status = "running"] ELSE RunningNoGate
    /\ Goto(s, "load")
    /\ UNCHANGED <<World, overlaps, lost>>

CancelCommit(s) ==
    /\ run[s].pc = "checked" /\ run[s].kind = "cancel"
    /\ job' = [job EXCEPT !.status = "cancelled"]
    /\ Leave(s)
    /\ UNCHANGED <<World, overlaps, lost>>

\* POST /retry-ddl: resume_schema_mapping is started on a row that is ddl_failed ...
RetryDdl(s) ==
    /\ Arrive(s)
    /\ job.status = "ddl_failed"
    /\ Enter(s, "retry", "queued", NoGate)
    /\ UNCHANGED <<job, World, lost>>

\* ... and refuses every status but three.  Otherwise it compiles a graph of its own,
\* without a checkpoint of this job, whose ainvoke raises.
ResumeSchemaMapping(s) ==
    /\ run[s].pc = "queued"
    /\ IF job.status \in {"awaiting_review", "running", "step_paused"}
       THEN job' = [job EXCEPT !.status = "running"] /\ Goto(s, "raised")
       ELSE UNCHANGED job /\ Leave(s)
    /\ UNCHANGED <<World, overlaps, lost>>

-----------------------------------------------------------------------------
(* The graph runner.                                                       *)

BeginRun(s) ==
    /\ run[s].pc = "load" /\ run[s].kind = "start"
    /\ ckpt' = [next |-> "canonical_schema_node", data |-> Fresh]
    /\ run' = [run EXCEPT ![s].pc = "node", ![s].at = "canonical_schema_node"]
    /\ UNCHANGED <<job, copies, Bounded, lost>>

LoadCheckpoint(s) ==
    /\ run[s].pc = "load" /\ run[s].kind # "start"
    /\ run' = [run EXCEPT ![s].pc = CASE ckpt.next = Nowhere -> "raised"
                                      [] ckpt.next = End     -> "finish"
                                      [] OTHER               -> "node",
                          ![s].at = IF ckpt.next \in Nodes THEN ckpt.next ELSE End,
                          ![s].data = ckpt.data]
    /\ UNCHANGED <<job, World, overlaps, lost>>

\* A node returned: its successor's checkpoint is written; a decision was visible to
\* the first node only.  interrupt_after and END stop the run.
LoseFinalCheckpoint(s) ==                                  \* fault: END is not saved
    /\ run[s].pc = "done"
    /\ LET n == Successor(run[s].at, run[s].data)
       IN  /\ IF n = End THEN UNCHANGED ckpt ELSE ckpt' = [next |-> n, data |-> run[s].data]
           /\ run' = [run EXCEPT ![s].at = n, ![s].val = NoGate,
                        ![s].pc = IF run[s].at \in StepNodes \/ n = End
                                  THEN "finish" ELSE "node"]
    /\ UNCHANGED <<job, copies, Bounded, lost>>
CommitCheckpoint(s) ==
    /\ run[s].pc = "done"
    /\ LET n == Successor(run[s].at, run[s].data)
       IN  /\ ckpt' = [next |-> n, data |-> run[s].data]
           /\ run' = [run EXCEPT ![s].at = n, ![s].val = NoGate,
                        ![s].pc = IF run[s].at \in StepNodes \/ n = End
                                  THEN "finish" ELSE "node"]
    /\ UNCHANGED <<job, copies, Bounded, lost>>

\* ainvoke returned.  Only the advance task looks at the state it returns.
FinishAnyRun(s) ==                                         \* fault: error not looked at
    /\ run[s].pc = "finish"
    /\ Leave(s)
    /\ UNCHANGED <<job, World, overlaps, lost>>
FinishRun(s) ==
    /\ run[s].pc = "finish"
    /\ job' = IF run[s].kind = "advance" /\ run[s].data.err /\ ~run[s].data.complete
              THEN [job EXCEPT !.status = "error"] ELSE job
    /\ Leave(s)
    /\ UNCHANGED <<World, overlaps, lost>>

\* ainvoke raised: every task records it.
FailSilently(s) ==                                         \* fault: the exception is not recorded
    /\ run[s].pc = "raised"
    /\ Leave(s)
    /\ UNCHANGED <<job, World, overlaps, lost>>
FailRun(s) ==
    /\ run[s].pc = "raised"
    /\ job' = [job EXCEPT !.status = "error"]
    /\ Leave(s)
    /\ UNCHANGED <<World, overlaps, lost>>

-----------------------------------------------------------------------------
(* The step nodes: what a success makes of the state, the step pause, and  *)
(* the paths that return without one.                                      *)

At(s, n) == run[s].pc = "node" /\ run[s].at = n

StepPause(s, d) ==
    /\ Store([status |-> "step_paused", gate |-> run[s].at])
    /\ Yield(s, "done", d)
    /\ UNCHANGED <<World, overlaps>>

Quietly(s, d) ==
    /\ Yield(s, "done", d)
    /\ UNCHANGED <<job, World, overlaps, lost>>

CanonicalSchema(s) ==
    /\ At(s, "canonical_schema_node")
    /\ StepPause(s, run[s].data)

SchemaIngest(s) ==
    /\ At(s, "schema_ingest_node")
    /\ \E text \in BOOLEAN : StepPause(s, [run[s].data EXCEPT !.tables = TRUE, !.text = text])

\* Every column is matched by one of the tier-1 strategies or left unmapped.
Deterministic(s) ==
    /\ At(s, "schema_deterministic_node")
    /\ run[s].data.tables
    /\ \E matched \in SUBSET Columns : \E shown \in SUBSET matched :
          StepPause(s, [run[s].data EXCEPT !.t1 = matched, !.shown = shown,
                                           !.open = Columns \ matched])

\* Without tables nodes 2 and 5 return before they have written anything.
NoTables(s) ==
    /\ At(s, "schema_deterministic_node") \/ At(s, "schema_hierarchy_node")
    /\ ~run[s].data.tables
    /\ Quietly(s, run[s].data)

\* Node 2.5 files a column that lacks its table under the first table with a column
\* of that name, and writes a step pause although the graph does not pause after it.
Preprocess(s) ==
    /\ At(s, "schema_preprocess_node")
    /\ LET d == run[s].data IN
       IF d.open \cup d.sent = {} THEN Quietly(s, d)
       ELSE StepPause(s, [d EXCEPT !.open = @ \cup {FirstNamed[c] : c \in d.sent}, !.sent = {}])

\* Node 3 keys the columns by name, description and type: of namesakes whose
\* descriptions are equal one survives.  What is kept is divided by the best
\* similarity: 0.85 and more, 0.65 and more, the rest.
Keepable(open) == {kept \in SUBSET open : Carries(open, kept)}
Semantic(s) ==
    /\ At(s, "schema_semantic_node")
    /\ \E kept \in Keepable(run[s].data.open) : \E auto, flagged \in SUBSET kept :
          /\ auto \cap flagged = {}
          /\ StepPause(s, [run[s].data EXCEPT !.auto = auto, !.flagged = flagged,
                                  !.unmappable = kept \ (auto \cup flagged)])

\* The embedding call failed: everything is unmappable, and no step pause is written.
EmbeddingFails(s) ==
    /\ At(s, "schema_semantic_node")
    /\ Fails
    /\ Yield(s, "done", [run[s].data EXCEPT !.unmappable = run[s].data.open])
    /\ UNCHANGED <<job, ckpt, copies, overlaps, crashes, lost>>

Hierarchy(s) ==
    /\ At(s, "schema_hierarchy_node")
    /\ run[s].data.tables
    /\ StepPause(s, run[s].data)

Output(s) ==
    /\ At(s, "schema_output_node")
    /\ StepPause(s, [run[s].data EXCEPT !.complete = TRUE])

\* The except branches: error_message is set and the row is not written.
StepFail(s) ==
    /\ run[s].pc = "node" /\ run[s].at \in StepNodes
    /\ run[s].at \in {"schema_deterministic_node", "schema_hierarchy_node"} => run[s].data.tables
    /\ Fails
    /\ Yield(s, "done", [run[s].data EXCEPT !.err = TRUE])
    /\ UNCHANGED <<job, ckpt, copies, overlaps, crashes, lost>>

-----------------------------------------------------------------------------
(* The gates.                                                              *)

\* Whether the gate has anything to show.
Shows(n, d) == CASE n = "schema_pre_semantic_node" -> d.shown # {}
                 [] n = "schema_human_review_node" -> d.unmappable # {} \/ d.text
                 [] OTHER                          -> TRUE

GateSkip(s) ==
    /\ run[s].pc = "node" /\ run[s].at \in GateNodes
    /\ ~Shows(run[s].at, run[s].data)
    /\ Quietly(s, run[s].data)

GateAsk(s) ==
    /\ run[s].pc = "node" /\ run[s].at \in GateNodes
    /\ Shows(run[s].at, run[s].data)
    /\ Store([status |-> "awaiting_review", gate |-> GateOf(run[s].at)])
    /\ Goto(s, "asked")
    /\ UNCHANGED <<World, overlaps>>

GateInterrupt(s) ==
    /\ run[s].pc = "asked" /\ run[s].val = NoGate
    /\ Goto(s, "finish")
    /\ UNCHANGED <<job, World, overlaps, lost>>

\* The gate is answered: the payload is cleared and the decision processed.
Answered(s, n) == run[s].pc = "asked" /\ run[s].at = n /\ run[s].val # NoGate
KeepGateOpen(s, d) ==                                      \* fault: no schema_clear_gate_payload
    Yield(s, "done", d) /\ UNCHANGED <<job, World, overlaps, lost>>
Resolve(s, d)  == Store(RunningNoGate) /\ Yield(s, "done", d) /\ UNCHANGED <<World, overlaps>>

\* Node 2a: shown columns go back to semantic matching, as stubs that do not name their
\* table; new columns are created and leave the semantic queue, but for such stubs; a
\* decision that is not a list of these approves everything.
PreSemanticDecide(s) ==
    /\ Answered(s, "schema_pre_semantic_node")
    /\ LET d == run[s].data IN
       \E back \in SUBSET d.shown, new \in SUBSET Columns :
          /\ run[s].val # "pre_semantic" => back = {} /\ new = {}
          /\ Resolve(s, [d EXCEPT !.shown = {}, !.t1 = (@ \ back) \cup new,
                                  !.open = @ \ new, !.sent = back,
                                  !.extra = @ \cup new, !.asked = @ \cup new])

\* Node 4: every column named by a decision leaves tier 1; accepted and overridden
\* ones come back, the DDL decisions and treat_as_unstructured go to
\* extra_fields_config, the latter out of tier 2 as well.  Named, neither placed nor
\* rejected, and out of tier 1 all the same: keep_mapping, an accept or override without
\* a target, a custom column that is not fully described, any other action.
RebuildExtraFields(s) ==                                   \* fault: the DDL plan starts anew
    /\ Answered(s, "schema_human_review_node")
    /\ LET d == run[s].data IN
       \E named \in SUBSET Columns : \E back, stored \in SUBSET named :
       \E rejected \in SUBSET ((named \cap d.t1) \ (back \cup stored)) :
          Resolve(s, [d EXCEPT !.t1 = (@ \ named) \cup back, !.extra = stored, !.text = FALSE,
                               !.rejected = @ \cup rejected,
                               !.unplaced = @ \cup ((named \cap d.t1) \ (back \cup stored \cup rejected))])
HumanReviewDecide(s) ==
    /\ Answered(s, "schema_human_review_node")
    /\ LET d == run[s].data IN
       \E named \in SUBSET Columns : \E back, stored \in SUBSET named :
       \E text \in SUBSET stored, rejected \in SUBSET ((named \cap d.t1) \ (back \cup stored)) :
          /\ run[s].val # "field_mapping" => back = {} /\ stored = {} /\ rejected = {}
          /\ Resolve(s, [d EXCEPT !.t1 = (@ \ named) \cup back, !.extra = @ \cup stored,
                                  !.auto = @ \ text, !.open = {}, !.text = FALSE,
                                  !.rejected = @ \cup rejected,
                                  !.unplaced = @ \cup ((named \cap d.t1) \ (back \cup stored \cup rejected))])

\* Both are processed outside any try.
DecisionRaises(s) ==
    /\ Answered(s, "schema_pre_semantic_node") \/ Answered(s, "schema_human_review_node")
    /\ Store(RunningNoGate)
    /\ Goto(s, "raised")
    /\ UNCHANGED <<World, overlaps>>

\* Node 7.5: whatever was posted, the schema gets a name.
ArtifactsDecide(s) ==
    /\ Answered(s, "schema_artifacts_review_node")
    /\ Resolve(s, [run[s].data EXCEPT !.reviewed = @ \/ run[s].val = "artifacts_review"])

\* Node 6: a step pause, then interrupt().  Without a decision its GraphInterrupt is
\* caught by the node's own except Exception, and the node returns an error; with
\* one the foreign keys are confirmed, unless it is not a mapping.
VerifyHierarchy(s) ==
    /\ At(s, "schema_verify_hierarchy_node")
    /\ \/ /\ run[s].val # NoGate
          /\ StepPause(s, [run[s].data EXCEPT !.hierarchy = TRUE])
       \/ StepPause(s, [run[s].data EXCEPT !.err = TRUE, !.complete = FALSE])

-----------------------------------------------------------------------------
(* schema_write_node, the last.                                            *)

Cleared(d) == [Fresh EXCEPT !.tables = d.tables, !.err = d.err,
                            !.hierarchy = d.hierarchy, !.reviewed = d.reviewed]

\* Phase 1, one transaction: schema, tables, data, custom columns.
WriteSchema(s) ==
    /\ At(s, "schema_write_node")
    /\ copies' = IF copies < 2 THEN copies + 1 ELSE copies
    /\ Goto(s, "written")
    /\ UNCHANGED <<job, ckpt, Bounded, lost>>

\* It is rolled back; the row is updated in the same session, which may fail as well.
WriteSchemaFail(s) ==
    /\ At(s, "schema_write_node")
    /\ Fails
    /\ job' \in {job, [job EXCEPT !.status = "ddl_failed"]}
    /\ Yield(s, "done", [Cleared(run[s].data) EXCEPT !.err = TRUE])
    /\ UNCHANGED <<ckpt, copies, overlaps, crashes, lost>>

\* Phase 2: the audit records, the registry, and the end of the job.
WriteAudit(s) ==
    /\ run[s].pc = "written"
    /\ Store([job EXCEPT !.status = "complete"])
    /\ Yield(s, "done", [Cleared(run[s].data) EXCEPT !.complete = TRUE])
    /\ UNCHANGED <<World, overlaps>>

WriteAuditFail(s) ==
    /\ run[s].pc = "written"
    /\ Fails
    /\ Yield(s, "done", [Cleared(run[s].data) EXCEPT !.err = TRUE])
    /\ UNCHANGED <<job, ckpt, copies, overlaps, crashes, lost>>

-----------------------------------------------------------------------------
\* The process dies with its tasks, but for a retry that is queued in redis.  Without
\* a task nothing modelled is lost.
Crash ==
    /\ \E s \in Slots : run[s].pc \notin {"idle", "queued"}
    /\ Budget
    /\ crashes' = crashes + 1
    /\ run' = [s \in Slots |-> IF run[s].pc = "queued" THEN run[s] ELSE Idle]
    /\ UNCHANGED <<job, ckpt, copies, overlaps, failures, lost>>

Request(s) == \/ StartSchemaMapping(s) \/ AdvanceCheck(s) \/ KickCheck(s)
              \/ CancelCheck(s) \/ RetryDdl(s) \/ \E g \in GateTypes : GateCheck(s, g)
Handler(s) == Dispatch(s) \/ CancelCommit(s) \/ ResumeSchemaMapping(s)
Runner(s)  == \/ BeginRun(s) \/ LoadCheckpoint(s) \/ CommitCheckpoint(s)
              \/ FinishRun(s) \/ FailRun(s)
Step(s)    == \/ CanonicalSchema(s) \/ SchemaIngest(s) \/ Deterministic(s) \/ NoTables(s)
              \/ Preprocess(s) \/ Semantic(s) \/ EmbeddingFails(s) \/ Hierarchy(s)
              \/ Output(s) \/ StepFail(s)
Gate(s)    == \/ GateSkip(s) \/ GateAsk(s) \/ GateInterrupt(s) \/ PreSemanticDecide(s)
              \/ HumanReviewDecide(s) \/ DecisionRaises(s) \/ ArtifactsDecide(s)
              \/ VerifyHierarchy(s)
Write(s)   == WriteSchema(s) \/ WriteSchemaFail(s) \/ WriteAudit(s) \/ WriteAuditFail(s)

\* What the event loop carries on with by itself.
Proceed(s) == Handler(s) \/ Runner(s) \/ Step(s) \/ Gate(s) \/ Write(s)

Next == (\E s \in Slots : Request(s) \/ Proceed(s)) \/ Crash

Spec == Init /\ [][Next]_vars

\* asyncio keeps running a task that can run; users owe nothing.
FairSpec == Spec /\ \A s \in Slots : WF_vars(Proceed(s))

-----------------------------------------------------------------------------
(* Properties.                                                             *)

\* Types of all variables.
TypeOK ==
    /\ job \in Row
    /\ ckpt \in [next : Nodes \cup {Nowhere, End}, data : Data]
    /\ run \in [Slots -> Runs]
    /\ copies \in 0..2
    /\ overlaps \in 0..MaxOverlaps
    /\ failures \in Nat /\ crashes \in Nat /\ lost \in Nat
    /\ failures + crashes + lost <= MaxFaults

AtRest == \A s \in Slots : run[s].pc = "idle"
Calm   == overlaps = 0 /\ crashes = 0 /\ lost = 0

\* Where a column can be found when the schema is written: in a list of mappings or in
\* the DDL plan.
Placed(d) == d.t1 \cup d.auto \cup d.flagged \cup d.unmappable \cup d.extra
\* The columns an answer at the field-mapping gate took out of tier 1 for good.
TakenOut(d) == d.rejected \cup d.unplaced

\* Only the user's answers take a field out of the mapping: when a schema is written,
\* every field name of the external schema still has a column in a list of mappings or
\* in the DDL plan, or one named by an answer at the field-mapping gate.  With
\* one request at a time, no crash and no lost update, a node that failed before
\* the output stops the job, because the advance that every later step needs looks at
\* the error.  The code does lose two kinds of columns, and this does not hide
\* it: a column whose namesake in another table survives it (Preprocess, Keepable), and one
\* the user asked to keep: keep_mapping is an answer that takes its column out.
OnlyAnswersDiscard ==
    Calm => \A s \in Slots : run[s].pc = "written" /\ run[s].data.tables =>
               Carries(Columns, Placed(run[s].data) \cup TakenOut(run[s].data))

\* New columns asked for at the first gate are still in the DDL plan when the schema is
\* written, whatever the second gate adds and however the runs interleave.
NewColumnsKept ==
    \A s \in Slots : run[s].pc = "written" => run[s].data.asked \subseteq run[s].data.extra

\* The schema is created after the customer has seen the artifacts and named it: with
\* one request at a time, no crash and no lost update, only a decision posted for
\* the artifacts gate lets a run past it, unless two nodes have failed.
WrittenAsReviewed ==
    Calm /\ failures < 2 => \A s \in Slots : run[s].pc = "written" => run[s].data.reviewed

\* The canonical data is copied into the new schema once: its INSERTs would double or
\* conflict, and the finished checkpoint is what stops another run.
CopiedOnce == overlaps = 0 /\ crashes = 0 => copies <= 1

\* A row left "ingest" or "running" that no task works on: a node failed or returned
\* without a step pause, and nothing but POST /kick moves the job.
Stalled ==
    \/ ckpt.data.err
    \/ ~ckpt.data.tables
    \/ ckpt.next = "schema_human_review_node" /\ ckpt.data.unmappable = ckpt.data.open

\* With one request at a time, no crash and no lost update, the row agrees with the
\* checkpoint whenever nothing is under way: a gate shown is the one the graph is
\* interrupted at; a step shown is the one just executed, except for the two pauses the
\* graph does not make, which show when the node after them has failed; "complete"
\* is a finished graph; "running" is a job that stalled.
RestingAgreement ==
    AtRest /\ Calm =>
      /\ job.status = "awaiting_review" => ckpt.next \in GateNodes /\ job.gate = GateOf(ckpt.next)
      /\ job.status = "step_paused" =>
            LET n == Successor(job.gate, ckpt.data)
            IN  IF job.gate \in StepNodes THEN ckpt.next = n
                ELSE ckpt.next = Successor(n, ckpt.data) /\ failures > 0
      /\ job.status = "complete" => ckpt.next = End /\ ckpt.data.complete /\ copies > 0
      /\ job.status \in {"ingest", "running"} => Stalled

\* A job shown as working comes to rest where the user can act on it, or has stalled.
WorkIsShown ==
    job.status \in {"ingest", "running"} ~>
       \/ job.status \notin {"ingest", "running"}
       \/ AtRest /\ (Stalled \/ ~Calm)

\* schema_verify_hierarchy_node.py:32-34: the gate "pauses execution via interrupt()
\* until the user submits decisions".  The interrupt is caught by the node itself.
HierarchyWaits ==
    \A s \in Slots : run[s].pc = "node" /\ run[s].at = "schema_output_node" => run[s].data.hierarchy
==============================================================================
