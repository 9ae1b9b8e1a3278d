-------------------------- MODULE SchemaRow_proofs ---------------------------
(***************************************************************************)
(* What a schema-mapping job shows its user, for any set of columns and    *)
(* any number of failing nodes: with one request at a time, no crash and   *)
(* no lost update, the row agrees with the checkpoint whenever nothing is  *)
(* under way, and until two nodes have failed no schema is written that    *)
(* was not reviewed.                                                       *)
(***************************************************************************)
EXTENDS SchemaMapping_proofs

Working     == job.status \in {"ingest", "running"}
PausedAt(n) == job = [status |-> "step_paused", gate |-> n]

\* What the row says of the checkpoint when a user may act on it.
Tells ==
    /\ job.status = "awaiting_review" => ckpt.next \in GateNodes /\ job.gate = GateOf(ckpt.next)
    /\ job.status = "step_paused" =>
          LET n == Successor(job.gate, ckpt.data)
          IN  /\ job.gate \in StepKeys
              /\ IF job.gate \in StepNodes THEN ckpt.next = n
                 ELSE ckpt.next = Successor(n, ckpt.data) /\ failures > 0
    /\ job.status = "complete" => ckpt.next = End /\ ckpt.data.complete /\ copies > 0
    /\ Working => Stalled

\* The row on the way into node n: the two pauses the graph does not make are shown on.
OnWay(n, d) ==
    \/ Working
    \/ n = "schema_semantic_node" /\ PausedAt("schema_preprocess_node") /\ d.open # {}
    \/ n = "schema_output_node" /\ PausedAt("schema_verify_hierarchy_node")

\* The row when node n has made d of the state.
Behind(n, d) ==
    /\ n \in StepNodes =>
          \/ PausedAt(n)
          \/ Working /\ (d.err \/ ~d.tables \/ (n = "schema_semantic_node" /\ d.unmappable = d.open))
          \/ OnWay(n, d) /\ ~Working /\ failures > 0
    /\ n = "schema_preprocess_node" => IF d.open = {} THEN Working ELSE PausedAt(n)
    /\ n = "schema_verify_hierarchy_node" => PausedAt(n)
    /\ n \in GateNodes => Working
    /\ n = "schema_write_node" =>
          \/ Working /\ d.err
          \/ job.status = "ddl_failed"
          \/ job.status = "complete" /\ d.complete /\ copies > 0

\* What the row says while a task stands at r.
Shown(r) ==
    /\ r.pc \in {"checked", "queued", "finish"} => Tells
    /\ r.pc = "checked" /\ r.kind = "advance" => job.status = "step_paused"
    /\ r.pc = "checked" /\ r.kind \in {"resume", "kick"} => Working \/ job.status = "awaiting_review"
    /\ r.pc = "queued" => job.status = "ddl_failed"
    /\ r.pc = "load" => Working /\ (r.kind # "start" /\ ckpt.next = End => Stalled)
    /\ r.pc = "node" => OnWay(r.at, r.data)
    /\ r.pc = "asked" => job = [status |-> "awaiting_review", gate |-> GateOf(r.at)]
    /\ r.pc = "written" => Working /\ copies > 0
    /\ r.pc = "done" => Behind(r.at, r.data)

RowTells == (AtRest => Tells) /\ \A s \in Slots : Shown(run[s])

-----------------------------------------------------------------------------
(* The decision on the artifacts.                                          *)

Artifacts == "schema_artifacts_review_node"
Ahead == EarlyNodes \cup MatchNodes \cup Reviewing \cup {"schema_verify_hierarchy_node"}

\* What it takes to stand in front of node n with d: an error or a missing table has
\* cost a node, and behind the artifacts gate there is a decision.
Costs(n, d) ==
    /\ n \in Ahead /\ d.err => failures > 0
    /\ n \in Ahead \ {"canonical_schema_node", "schema_ingest_node"} /\ ~d.tables => failures > 0
    /\ n \in Ahead \cup {"schema_output_node"} => ~d.complete
    /\ n = "schema_write_node" => d.reviewed

\* The row at the artifacts gate: it takes an advance, or a decision for this gate.
Waits ==
    ckpt.next = Artifacts =>
        ~Working /\ ~(job.status = "step_paused" /\ job.gate = "schema_verify_hierarchy_node")

\* What a task at r may bring to the gates behind the hierarchy; no run but an advance
\* gets there, as long as no node has failed.
Heeds(r) ==
    /\ r.kind = "advance" /\ r.pc # "idle" => r.val = NoGate
    /\ r.pc \in {"checked", "queued"} => Waits
    /\ r.pc \in {"checked", "load"} /\ ckpt.next = Artifacts => r.val \in {NoGate, "artifacts_review"}
    /\ r.pc = "load" /\ ckpt.next = "schema_verify_hierarchy_node" =>
          r.kind \in {"advance", "start"} \/ failures > 0
    /\ r.pc \in Inside =>
          /\ r.at \in {"schema_verify_hierarchy_node", "schema_output_node"} =>
                r.kind = "advance" \/ failures > 0
          /\ r.at = Artifacts => r.val \in {NoGate, "artifacts_review"}
    /\ r.pc = "done" =>
          /\ Costs(Successor(r.at, r.data), r.data)
          /\ r.at = "schema_verify_hierarchy_node" /\ r.kind = "advance" => r.data.err
          /\ r.at = "schema_output_node" => PausedAt(r.at) \/ (r.kind = "advance" /\ Doomed(r.data))
    /\ r.pc = "finish" => Waits \/ (r.kind = "advance" /\ Doomed(ckpt.data))

Reviewed ==
    failures < 2 =>
        /\ Costs(ckpt.next, ckpt.data)
        /\ AtRest => Waits
        /\ ckpt.next = "schema_output_node" => \E s \in Slots : run[s].pc \in {"node", "done"}
        /\ \A s \in Slots : Heeds(run[s])

AInv == Calm => RowTells /\ Reviewed

LEMMA InitAInv == Init => AInv
  <1> SUFFICES ASSUME Init PROVE RowTells /\ Reviewed
    BY DEF AInv
  <1>1. Tells /\ Waits
    BY DEF Init, Tells, Waits, Working, Nowhere, Artifacts
  <1>2. Shown(Idle) /\ Heeds(Idle)
    BY DEF Shown, Heeds, Idle, Inside
  <1>3. Costs(ckpt.next, ckpt.data) /\ ckpt.next # "schema_output_node"
    BY DEF Init, Costs, Nowhere, Fresh, Ahead, EarlyNodes, MatchNodes, Reviewing
  <1>4. \A s \in Slots : run[s] = Idle
    BY DEF Init
  <1> QED BY <1>1, <1>2, <1>3, <1>4 DEF RowTells, Reviewed

-----------------------------------------------------------------------------
\* A busy slot moves on; the others are idle.
LEMMA Onward ==
  ASSUME NEW s \in Slots, Sole(s), NEW r \in Runs, Moved(s, r), r.pc # "idle", Shown(r)',
         failures' < 2 =>
            /\ Heeds(r)' /\ Costs(ckpt.next, ckpt.data)'
            /\ ckpt'.next = "schema_output_node" => r.pc \in {"node", "done"}
  PROVE  RowTells' /\ Reviewed'
  <1>1. run'[s] = r /\ \A t \in Slots : t # s => run'[t] = run[t] /\ run[t].pc = "idle"
    BY DEF Moved, Sole
  <1>2. \A t \in Slots : run'[t] = r \/ run'[t].pc = "idle"
    BY <1>1
  <1>3. \A t \in Slots : Shown(run[t])' /\ (failures' < 2 => Heeds(run[t])')
    BY <1>2 DEF Shown, Heeds, Inside
  <1>4. ~AtRest'
    BY <1>1 DEF AtRest
  <1> QED BY <1>1, <1>3, <1>4 DEF RowTells, Reviewed

\* The only busy slot becomes idle.
LEMMA ToRest ==
  ASSUME NEW s \in Slots, Sole(s), Moved(s, Idle), Tells',
         failures' < 2 => Waits' /\ Costs(ckpt.next, ckpt.data)' /\ ckpt'.next # "schema_output_node"
  PROVE  RowTells' /\ Reviewed'
  <1>1. \A t \in Slots : run'[t].pc = "idle"
    BY DEF Moved, Sole, Idle
  <1>2. \A t \in Slots : Shown(run[t])' /\ Heeds(run[t])'
    BY <1>1 DEF Shown, Heeds, Inside
  <1> QED BY <1>1, <1>2 DEF RowTells, Reviewed

\* What both say of a busy slot.
LEMMA BusySlot ==
  ASSUME Guarded, RowTells, Reviewed, NEW s \in Slots, Sole(s), run[s].pc # "idle"
  PROVE  /\ Shown(run[s]) /\ Synced(s)
         /\ failures < 2 =>
              /\ Heeds(run[s]) /\ Costs(ckpt.next, ckpt.data)
              /\ ckpt.next = "schema_output_node" => run[s].pc \in {"node", "done"}
  BY DEF Guarded, RowTells, Reviewed, Sole

\* A request comes to a job at rest, and is one that the row as it is shown admits.
LEMMA RequestTells ==
  ASSUME IInv, Calm, Calm', Guarded, RowTells, Reviewed, NEW s \in Slots, Request(s)
  PROVE  RowTells' /\ Reviewed'
  <1> DEFINE Admits(kind, phase, val) ==
               /\ kind \in {"advance", "resume", "kick", "cancel", "retry"} /\ UNCHANGED job
               /\ phase = IF kind = "retry" THEN "queued" ELSE "checked"
               /\ kind = "retry" => job.status = "ddl_failed"
               /\ kind = "advance" => /\ job.status = "step_paused"
                                      /\ val = IF job.gate = "schema_verify_hierarchy_node"
                                               THEN "hierarchy" ELSE NoGate
               /\ kind = "resume" => /\ job.status \in {"awaiting_review", "running"}
                                     /\ job.gate \in {NoGate, val}
               /\ kind = "kick" => Working
               /\ kind \notin {"advance", "resume"} => val = NoGate
             Starts(kind, phase, val) ==
               kind = "start" /\ phase = "load" /\ val = NoGate /\ Working'
  <1>1. PICK kind \in Kinds, phase \in {"checked", "load", "queued"}, val \in GateTypes \cup {NoGate} :
            /\ Arrive(s) /\ Enter(s, kind, phase, val) /\ UNCHANGED <<World, lost>>
            /\ Admits(kind, phase, val) \/ Starts(kind, phase, val)
    <2>1. CASE StartSchemaMapping(s)
      BY <2>1 DEF StartSchemaMapping, Kinds, Working
    <2>2. CASE AdvanceCheck(s)
      <3>1. /\ UNCHANGED job /\ job.status = "step_paused" /\ Arrive(s) /\ UNCHANGED <<World, lost>>
            /\ Enter(s, "advance", "checked",
                     IF job.gate = "schema_verify_hierarchy_node" THEN "hierarchy" ELSE NoGate)
        BY <2>2 DEF AdvanceCheck
      <3> QED BY <3>1 DEF Kinds, GateTypes
    <2>3. CASE KickCheck(s)
      BY <2>3 DEF KickCheck, Kinds, Working
    <2>4. CASE CancelCheck(s)
      BY <2>4 DEF CancelCheck, Kinds
    <2>5. CASE RetryDdl(s)
      BY <2>5 DEF RetryDdl, Kinds
    <2>6. CASE \E g \in GateTypes : GateCheck(s, g)
      <3>1. PICK g \in GateTypes : GateCheck(s, g)
        BY <2>6
      <3> QED BY <3>1 DEF GateCheck, Kinds
    <2> QED BY <2>1, <2>2, <2>3, <2>4, <2>5, <2>6 DEF Request
  <1>2. PICK r \in Runs : /\ r.pc = phase /\ r.kind = kind /\ r.val = val
                          /\ run' = [run EXCEPT ![s] = r]
    <2>1. [Idle EXCEPT !.pc = phase, !.kind = kind, !.val = val] \in Runs
      BY IdleType DEF Idle, Runs, Phases
    <2> QED BY <1>1, <2>1 DEF Enter, Idle
  <1>3. Moved(s, r) /\ TypeOK
    BY <1>2, MoveEffect DEF IInv
  <1>4. AtRest /\ Sole(s)
    BY <1>1 DEF Arrive, Calm, AtRest, Sole, IInv, TypeOK
  <1>5. Tells /\ UNCHANGED <<ckpt, copies, failures>>
    BY <1>1, <1>4 DEF RowTells, World
  <1>6. failures < 2 => /\ Waits /\ Costs(ckpt.next, ckpt.data)' /\ ckpt'.next # "schema_output_node"
    BY <1>4, <1>5 DEF Reviewed, Costs, AtRest
  <1>7. Shown(r)'
    <2>1. CASE Admits(kind, phase, val)
      BY <1>2, <1>5, <2>1 DEF Shown, Tells, Working, Stalled
    <2>2. CASE Starts(kind, phase, val)
      BY <1>2, <2>2 DEF Shown
    <2> QED BY <1>1, <2>1, <2>2
  <1>8. failures' < 2 => Heeds(r)'
    <2> SUFFICES ASSUME failures < 2 PROVE Heeds(r)'
      BY <1>5
    <2>1. CASE Admits(kind, phase, val)
      <3>1. Waits' /\ Waits
        BY <1>5, <1>6, <2>1 DEF Waits, Working
      <3>2. kind = "advance" => val = NoGate
        <4> SUFFICES ASSUME kind = "advance", job.gate = "schema_verify_hierarchy_node" PROVE FALSE
          BY <2>1
        <4>1. ckpt.next = Artifacts
          BY <1>5, <2>1 DEF Tells, Successor, StepNodes, Artifacts
        <4> QED BY <2>1, <3>1, <4>1 DEF Waits
      <3>3. ckpt.next = Artifacts => val \in {NoGate, "artifacts_review"}
        <4> SUFFICES ASSUME kind = "resume", ckpt.next = Artifacts PROVE val = "artifacts_review"
          BY <2>1, <3>2
        <4>1. job.status = "awaiting_review" /\ job.gate \in {NoGate, val}
          BY <2>1, <3>1 DEF Waits, Working
        <4>2. job.gate = "artifacts_review"
          BY <1>5, <4>1 DEF Tells, GateOf, Artifacts
        <4> QED BY <4>1, <4>2 DEF NoGate
      <3> QED BY <1>2, <1>5, <2>1, <3>1, <3>2, <3>3 DEF Heeds, Inside
    <2>2. CASE Starts(kind, phase, val)
      BY <1>2, <2>2 DEF Heeds, Inside
    <2> QED BY <1>1, <2>1, <2>2
  <1>9. r.pc # "idle"
    BY <1>2
  <1> QED BY <1>3, <1>4, <1>5, <1>6, <1>7, <1>8, <1>9, Onward

\* What the task of a request is given to work on.
LEMMA DispatchTells ==
  ASSUME IInv, Calm, Calm', Guarded, RowTells, Reviewed, NEW s \in Slots, Dispatch(s)
  PROVE  RowTells' /\ Reviewed'
  <1>0. /\ TypeOK /\ job \in Row /\ run[s].pc = "checked" /\ Sole(s)
        /\ run[s].kind \in {"advance", "resume", "kick"} /\ UNCHANGED <<ckpt, copies, failures>>
    BY SlotFacts, SoleBusy DEF Dispatch, World
  <1>1. PICK r \in Runs : /\ Moved(s, r)
                          /\ r.pc = "load" /\ r.kind = run[s].kind /\ r.val = run[s].val
    BY <1>0, GotoEffect DEF Dispatch, Phases
  <1>2. Working'
    BY <1>0 DEF Dispatch, RunningNoGate, Working, Row
  <1>3. /\ Shown(run[s])
        /\ failures < 2 => /\ Heeds(run[s]) /\ Costs(ckpt.next, ckpt.data)
                           /\ ckpt.next # "schema_output_node"
    BY <1>0, BusySlot
  <1>4. Tells /\ IF run[s].kind = "advance" THEN job.status = "step_paused"
                                            ELSE Working \/ job.status = "awaiting_review"
    BY <1>0, <1>3 DEF Shown
  <1>5. ckpt.next = End => Stalled
    <2>1. job.status = "step_paused" => ckpt.next # End
      <3> SUFFICES ASSUME job.status = "step_paused" PROVE ckpt.next # End
        OBVIOUS
      <3>1. CASE job.gate \in StepNodes
        BY <1>4, <3>1 DEF Tells, Successor, StepNodes, AfterPreprocess, End
      <3>2. CASE job.gate \in {"schema_preprocess_node", "schema_verify_hierarchy_node"}
        BY <1>4, <3>2 DEF Tells, Successor, StepNodes, AfterPreprocess, End
      <3> QED BY <1>4, <3>1, <3>2 DEF Tells, StepKeys
    <2>2. job.status = "awaiting_review" => ckpt.next # End
      BY <1>4 DEF Tells, GateNodes, End
    <2> QED BY <1>4, <2>1, <2>2 DEF Tells
  <1>6. Shown(r)'
    BY <1>0, <1>1, <1>2, <1>5 DEF Shown, Stalled
  <1>7. failures < 2 /\ ckpt.next = "schema_verify_hierarchy_node" =>
           run[s].kind = "advance" \/ failures > 0
    <2> SUFFICES ASSUME failures < 2, ckpt.next = "schema_verify_hierarchy_node",
                        run[s].kind # "advance"
                 PROVE  failures > 0
      OBVIOUS
    <2>1. Working
      BY <1>4 DEF Tells, GateNodes
    <2>2. ckpt.data.err \/ ~ckpt.data.tables
      BY <1>4, <2>1 DEF Tells, Stalled
    <2> QED BY <1>3, <2>2 DEF Costs, Ahead
  <1>8. failures' < 2 => Heeds(r)' /\ Costs(ckpt.next, ckpt.data)' /\ ckpt'.next # "schema_output_node"
    BY <1>0, <1>1, <1>3, <1>7 DEF Heeds, Costs, Inside
  <1> QED BY <1>0, <1>1, <1>6, <1>8, Onward

\* A task ends: it leaves the row as it told of the checkpoint, or writes one that needs
\* no telling.
LEMMA EndTells ==
  ASSUME IInv, Calm, Calm', Guarded, RowTells, Reviewed, NEW s \in Slots,
         \/ FinishRun(s) \/ FailRun(s) \/ CancelCommit(s)
         \/ ResumeSchemaMapping(s)
  PROVE  RowTells' /\ Reviewed'
  <1>0. /\ TypeOK /\ job \in Row /\ run[s].pc \in {"finish", "raised", "checked", "queued"} /\ Sole(s)
        /\ UNCHANGED <<ckpt, copies, failures>>
    BY SlotFacts, SoleBusy DEF FinishRun, FailRun, CancelCommit, ResumeSchemaMapping, World
  <1>1. /\ Shown(run[s]) /\ Synced(s)
        /\ failures < 2 => /\ Heeds(run[s]) /\ Costs(ckpt.next, ckpt.data)
                           /\ ckpt.next # "schema_output_node"
    BY <1>0, BusySlot
  <1>2. run[s].pc = "queued" => job.status = "ddl_failed"
    BY <1>1 DEF Shown
  <1>3. Moved(s, Idle)
    <2>1. Leave(s)
      BY <1>2 DEF FinishRun, FailRun, CancelCommit, ResumeSchemaMapping
    <2> QED BY <1>0, <2>1, LeaveEffect
  <1>4. \/ job'.status \in {"error", "cancelled"}
        \/ /\ job' = job /\ run[s].pc \in {"finish", "queued"}
           /\ run[s].pc = "finish" => ~(run[s].kind = "advance" /\ Doomed(run[s].data))
    BY <1>0, <1>2 DEF FinishRun, FailRun, CancelCommit, ResumeSchemaMapping, Row, Doomed
  <1>5. Tells'
    <2>1. CASE job'.status \in {"error", "cancelled"}
      BY <2>1 DEF Tells, Working
    <2>2. CASE job' = job /\ run[s].pc \in {"finish", "queued"}
      BY <1>0, <1>1, <2>2 DEF Shown, Tells, Working, Stalled
    <2> QED BY <1>4, <2>1, <2>2
  <1>6. failures < 2 => Waits'
    <2>1. CASE job'.status \in {"error", "cancelled"}
      BY <2>1 DEF Waits, Working
    <2>2. CASE /\ job' = job /\ run[s].pc \in {"finish", "queued"}
               /\ run[s].pc = "finish" => ~(run[s].kind = "advance" /\ Doomed(run[s].data))
      <3>1. run[s].pc = "finish" => run[s].data = ckpt.data
        BY <1>1 DEF Synced
      <3>2. failures < 2 => Waits
        BY <1>1, <2>2, <3>1 DEF Heeds
      <3> QED BY <1>0, <2>2, <3>2 DEF Waits, Working
    <2> QED BY <1>4, <2>1, <2>2
  <1>7. failures < 2 => Costs(ckpt.next, ckpt.data)' /\ ckpt'.next # "schema_output_node"
    BY <1>0, <1>1 DEF Costs
  <1> QED BY <1>0, <1>3, <1>5, <1>6, <1>7, ToRest

-----------------------------------------------------------------------------
\* The runner.
LEMMA BeginTells ==
  ASSUME IInv, Calm, Calm', Guarded, RowTells, Reviewed, NEW s \in Slots, BeginRun(s)
  PROVE  RowTells' /\ Reviewed'
  <1> DEFINE c == "canonical_schema_node"
  <1>0. /\ TypeOK /\ run[s] \in Runs /\ run[s].pc = "load" /\ run[s].kind = "start" /\ Sole(s)
        /\ ckpt' = [next |-> c, data |-> Fresh] /\ run[s].data = Fresh /\ UNCHANGED <<job, failures>>
    BY SlotFacts, SoleBusy DEF BeginRun, Bounded, Guarded, Synced
  <1>1. PICK r \in Runs : /\ r.pc = "node" /\ r.at = c /\ r.kind = "start" /\ r.data = Fresh
                          /\ run' = [run EXCEPT ![s] = r]
    <2> DEFINE q == [run[s] EXCEPT !.pc = "node", !.at = c]
    <2>1. q \in Runs /\ q.pc = "node" /\ q.at = c /\ q.kind = "start" /\ q.data = Fresh
      BY <1>0 DEF Runs, Phases, Nodes, StepNodes
    <2>2. run' = [run EXCEPT ![s] = q]
      BY <1>0 DEF BeginRun, TypeOK
    <2> QED BY <2>1, <2>2
  <1>2. Moved(s, r)
    BY <1>0, <1>1, MoveEffect
  <1>3. Shown(r)'
    BY <1>0, <1>1, BusySlot DEF Shown, OnWay, Working
  <1>4. Heeds(r)' /\ Costs(ckpt.next, ckpt.data)' /\ ckpt'.next # "schema_output_node"
    BY <1>0, <1>1 DEF Heeds, Costs, Inside, Fresh, Artifacts, EarlyNodes, MatchNodes, Reviewing
  <1> QED BY <1>0, <1>1, <1>2, <1>3, <1>4, Onward

LEMMA LoadTells ==
  ASSUME IInv, Calm, Calm', Guarded, RowTells, Reviewed, NEW s \in Slots, LoadCheckpoint(s)
  PROVE  RowTells' /\ Reviewed'
  <1>0. /\ TypeOK /\ run[s] \in Runs /\ ckpt.data \in Data /\ run[s].pc = "load" /\ Sole(s)
        /\ run[s].kind # "start" /\ UNCHANGED <<job, ckpt, copies, failures>>
    BY SlotFacts, SoleBusy DEF LoadCheckpoint, World, TypeOK
  <1>1. PICK pc \in {"raised", "finish", "node"}, at \in Nodes \cup {End} :
            /\ pc = "finish" => ckpt.next = End
            /\ pc = "node" => at = ckpt.next
            /\ run' = [run EXCEPT ![s].pc = pc, ![s].at = at, ![s].data = ckpt.data]
    <2> DEFINE p == CASE ckpt.next = Nowhere -> "raised"
                      [] ckpt.next = End     -> "finish"
                      [] OTHER               -> "node"
               a == IF ckpt.next \in Nodes THEN ckpt.next ELSE End
    <2>1. /\ p \in {"raised", "finish", "node"} /\ a \in Nodes \cup {End}
          /\ p = "finish" => ckpt.next = End
          /\ p = "node" => a = ckpt.next
      BY <1>0 DEF TypeOK, Nowhere, End
    <2>2. run' = [run EXCEPT ![s].pc = p, ![s].at = a, ![s].data = ckpt.data]
      BY DEF LoadCheckpoint
    <2> HIDE DEF p, a
    <2> QED BY <2>1, <2>2
  <1>2. PICK r \in Runs : /\ r.pc = pc /\ r.at = at /\ r.kind = run[s].kind /\ r.val = run[s].val
                          /\ r.data = ckpt.data /\ run' = [run EXCEPT ![s] = r]
    <2> DEFINE q == [run[s] EXCEPT !.pc = pc, !.at = at, !.data = ckpt.data]
    <2>1. /\ q \in Runs /\ q.pc = pc /\ q.at = at /\ q.kind = run[s].kind /\ q.val = run[s].val
          /\ q.data = ckpt.data
      BY <1>0 DEF Runs, Phases
    <2>2. run' = [run EXCEPT ![s] = q]
      BY <1>0, <1>1 DEF TypeOK
    <2> QED BY <2>1, <2>2
  <1>3. Moved(s, r)
    BY <1>0, <1>2, MoveEffect
  <1>4. /\ Shown(run[s])
        /\ failures < 2 => /\ Heeds(run[s]) /\ Costs(ckpt.next, ckpt.data)
                           /\ ckpt.next # "schema_output_node"
    BY <1>0, BusySlot
  <1>5. Working /\ (ckpt.next = End => Stalled)
    BY <1>0, <1>4 DEF Shown
  <1>6. pc = "finish" => Tells'
    <2>1. job.status \notin {"awaiting_review", "step_paused", "complete"}
      BY <1>5 DEF Working
    <2> QED BY <1>0, <1>1, <1>5, <2>1 DEF Tells, Stalled
  <1>7. Shown(r)'
    BY <1>0, <1>1, <1>2, <1>5, <1>6 DEF Shown, OnWay, Working
  <1>8. failures' < 2 => Heeds(r)' /\ Costs(ckpt.next, ckpt.data)' /\ ckpt'.next # "schema_output_node"
    <2> SUFFICES ASSUME failures < 2
                 PROVE  Heeds(r)' /\ Costs(ckpt.next, ckpt.data)' /\ ckpt'.next # "schema_output_node"
      BY <1>0
    <2>1. Costs(ckpt.next, ckpt.data)' /\ ckpt'.next # "schema_output_node"
      BY <1>0, <1>4 DEF Costs
    <2>2. /\ run[s].kind = "advance" => run[s].val = NoGate
          /\ ckpt.next = Artifacts => run[s].val \in {NoGate, "artifacts_review"}
          /\ ckpt.next = "schema_verify_hierarchy_node" => run[s].kind = "advance" \/ failures > 0
      BY <1>0, <1>4 DEF Heeds
    <2>3. pc = "finish" => Waits'
      BY <1>0, <1>1 DEF Waits, Artifacts, End
    <2>4. pc = "node" => at = ckpt.next /\ at # "schema_output_node"
      BY <1>1, <1>4
    <2> QED BY <1>0, <1>2, <2>1, <2>2, <2>3, <2>4 DEF Heeds, Inside
  <1>9. pc # "idle"
    OBVIOUS
  <1> QED BY <1>0, <1>2, <1>3, <1>7, <1>8, <1>9, Onward

\* A node's checkpoint is saved: the row that was behind the node tells of it.
LEMMA CommitTells ==
  ASSUME IInv, Calm, Calm', Guarded, RowTells, Reviewed, NEW s \in Slots, CommitCheckpoint(s)
  PROVE  RowTells' /\ Reviewed'
  <1>0. /\ TypeOK /\ run[s] \in Runs /\ run[s].data \in Data /\ run[s].pc = "done" /\ Sole(s)
        /\ run[s].at \in Nodes /\ failures \in Nat /\ UNCHANGED <<job, copies, failures>>
    BY SlotFacts, SoleBusy DEF CommitCheckpoint, Bounded, IInv, KInv, Inside
  <1>1. PICK a \in Nodes, d \in Data : run[s].at = a /\ run[s].data = d
    BY <1>0
  <1>2. PICK n \in Nodes \cup {End} : n = Successor(a, d)
    BY SuccessorType
  <1>3. PICK pc \in {"finish", "node"} : pc = IF a \in StepNodes \/ n = End THEN "finish" ELSE "node"
    OBVIOUS
  <1>4. /\ ckpt' = [next |-> n, data |-> d]
        /\ run' = [run EXCEPT ![s].at = n, ![s].val = NoGate, ![s].pc = pc]
    BY <1>1, <1>2, <1>3 DEF CommitCheckpoint
  <1>5. PICK r \in Runs : /\ r.pc = pc /\ r.at = n /\ r.kind = run[s].kind /\ r.val = NoGate
                          /\ r.data = d /\ run' = [run EXCEPT ![s] = r]
    <2> DEFINE q == [run[s] EXCEPT !.at = n, !.val = NoGate, !.pc = pc]
    <2>1. /\ q \in Runs /\ q.pc = pc /\ q.at = n /\ q.kind = run[s].kind /\ q.val = NoGate
          /\ q.data = d
      BY <1>0, <1>1 DEF Runs, Phases
    <2>2. run' = [run EXCEPT ![s] = q]
      BY <1>0, <1>4 DEF TypeOK
    <2> QED BY <2>1, <2>2
  <1>6. Moved(s, r)
    BY <1>0, <1>5, MoveEffect
  <1>7. Behind(a, d) /\ (failures < 2 => Heeds(run[s]))
    BY <1>0, <1>1, BusySlot DEF Shown
  <1>8. a \in StepNodes \cup GateNodes \/ a \in {"schema_preprocess_node", "schema_verify_hierarchy_node",
                                                 "schema_write_node"}
    BY DEF Nodes
  <1>9. pc = "finish" => Tells'
    <2> SUFFICES ASSUME pc = "finish" PROVE Tells'
      OBVIOUS
    <2>1. CASE a \in StepNodes
      <3>1. CASE PausedAt(a)
        BY <1>0, <1>2, <1>4, <2>1, <3>1 DEF PausedAt, Tells, Working, StepKeys
      <3>2. CASE Working /\ (d.err \/ ~d.tables \/ (a = "schema_semantic_node" /\ d.unmappable = d.open))
        <4>1. Stalled'
          BY <1>2, <1>4, <3>2 DEF Stalled, Successor
        <4> QED BY <1>0, <3>2, <4>1 DEF Tells, Working
      <3>3. CASE OnWay(a, d) /\ ~Working /\ failures > 0
        <4>1. \/ a = "schema_semantic_node" /\ PausedAt("schema_preprocess_node") /\ d.open # {}
              \/ a = "schema_output_node" /\ PausedAt("schema_verify_hierarchy_node")
          BY <3>3 DEF OnWay
        <4>2. PICK g \in {"schema_preprocess_node", "schema_verify_hierarchy_node"} :
                 PausedAt(g) /\ Successor(g, d) = a
          BY <4>1 DEF Successor, AfterPreprocess
        <4>3. g \in StepKeys \ StepNodes
          BY DEF StepKeys, StepNodes
        <4> QED BY <1>0, <1>2, <1>4, <3>3, <4>2, <4>3 DEF PausedAt, Tells, Working
      <3> QED BY <1>7, <2>1, <3>1, <3>2, <3>3 DEF Behind
    <2>2. CASE a \notin StepNodes
      <3>1. n = End /\ a = "schema_write_node"
        BY <1>2, <1>3, <2>2, SuccessorType
      <3> QED BY <1>0, <1>4, <1>7, <3>1 DEF Behind, Tells, Working, Stalled
    <2> QED BY <2>1, <2>2
  <1>10. pc = "node" => OnWay(n, d)'
    <2> SUFFICES ASSUME pc = "node" PROVE OnWay(n, d)'
      OBVIOUS
    <2>1. a \notin StepNodes /\ a # "schema_write_node"
      BY <1>2, <1>3, SuccessorType
    <2>2. CASE a \in GateNodes
      BY <1>0, <1>7, <2>2 DEF Behind, OnWay, Working
    <2>3. CASE a = "schema_preprocess_node"
      BY <1>0, <1>2, <1>7, <2>3 DEF Behind, OnWay, Working, PausedAt, Successor, AfterPreprocess
    <2>4. CASE a = "schema_verify_hierarchy_node"
      BY <1>0, <1>2, <1>7, <2>4 DEF Behind, OnWay, Working, PausedAt, Successor
    <2> QED BY <1>8, <2>1, <2>2, <2>3, <2>4
  <1>11. Shown(r)'
    BY <1>5, <1>9, <1>10 DEF Shown
  <1>12. failures' < 2 => /\ Heeds(r)' /\ Costs(ckpt.next, ckpt.data)'
                          /\ ckpt'.next = "schema_output_node" => r.pc \in {"node", "done"}
    <2> SUFFICES ASSUME failures < 2
                 PROVE  /\ Heeds(r)' /\ Costs(ckpt.next, ckpt.data)'
                        /\ ckpt'.next = "schema_output_node" => pc = "node"
      BY <1>0, <1>5
    <2>1. /\ Costs(n, d)
          /\ a = "schema_verify_hierarchy_node" => run[s].kind = "advance" \/ failures > 0
          /\ a = "schema_output_node" => PausedAt(a) \/ (run[s].kind = "advance" /\ Doomed(d))
      BY <1>0, <1>1, <1>2, <1>7 DEF Heeds, Inside
    <2>2. /\ n = "schema_output_node" => a = "schema_verify_hierarchy_node"
          /\ n = "schema_verify_hierarchy_node" => a = "schema_hierarchy_node"
          /\ n = Artifacts => a = "schema_output_node"
      BY <1>2 DEF Successor, AfterPreprocess, Nodes, StepNodes, GateNodes, End, Artifacts
    <2>3. n \notin {"schema_verify_hierarchy_node", Artifacts} \/ pc = "finish"
      BY <1>3, <2>2 DEF StepNodes
    <2>4. n = "schema_output_node" => pc = "node"
      BY <1>3, <2>2 DEF StepNodes, End
    <2>5. Costs(ckpt.next, ckpt.data)'
      BY <1>0, <1>4, <2>1 DEF Costs
    <2>6. Waits' \/ (run[s].kind = "advance" /\ Doomed(d))
      BY <1>0, <1>4, <2>1, <2>2 DEF Waits, PausedAt, Working
    <2>7. Heeds(r)'
      BY <1>0, <1>4, <1>5, <2>1, <2>2, <2>3, <2>6 DEF Heeds, Inside
    <2> QED BY <1>4, <2>4, <2>5, <2>7
  <1>13. r.pc # "idle"
    BY <1>5
  <1> QED BY <1>0, <1>6, <1>11, <1>12, <1>13, Onward

-----------------------------------------------------------------------------
\* A node that adds no error and loses no table without a failure passes on what it took.
LEMMA CostsOn ==
  ASSUME NEW a \in Nodes, NEW d \in Data, NEW e \in Data, Costs(a, d),
         failures \in Nat, failures' \in {failures, failures + 1},
         e.err => d.err \/ failures' > 0 \/ a = "schema_verify_hierarchy_node",
         ~e.tables => failures' > 0 \/ (~d.tables /\ a # "schema_ingest_node"),
         e.complete => d.complete \/ a \notin Ahead,
         a = Artifacts => e.reviewed
  PROVE  Costs(Successor(a, e), e)'
  <1> DEFINE n == Successor(a, e)
  <1>1. /\ n \in Ahead => a \in Ahead /\ a # "schema_verify_hierarchy_node"
        /\ n \notin {"canonical_schema_node", "schema_ingest_node"} =>
              a \notin {"canonical_schema_node"}
        /\ n = "schema_output_node" => a = "schema_verify_hierarchy_node"
        /\ n = "schema_write_node" => a = Artifacts
        /\ n # "canonical_schema_node"
    BY DEF Successor, AfterPreprocess, Nodes, StepNodes, GateNodes, Ahead, EarlyNodes, MatchNodes, Reviewing,
       Artifacts, End
  <1>2. n \in Ahead /\ e.err => failures' > 0
    BY <1>1 DEF Costs
  <1>3. n \in Ahead \ {"canonical_schema_node", "schema_ingest_node"} /\ ~e.tables => failures' > 0
    BY <1>1 DEF Costs
  <1>4. n \in Ahead \cup {"schema_output_node"} => ~e.complete
    BY <1>1 DEF Costs, Ahead
  <1> HIDE DEF n
  <1>5. Costs(n, e)'
    BY <1>1, <1>2, <1>3, <1>4 DEF Costs
  <1> QED BY <1>5 DEF n

\* A node has returned.
LEMMA DoneTells ==
  ASSUME IInv, Calm, Guarded, RowTells, Reviewed, NEW s \in Slots,
         run[s].pc \in {"node", "asked", "written"},
         NEW a \in Nodes, a = run[s].at, NEW e \in Data, Yield(s, "done", e), UNCHANGED ckpt,
         failures' \in {failures, failures + 1}, Behind(a, e)',
         failures' < 2 =>
            /\ Costs(Successor(a, e), e)'
            /\ a = "schema_verify_hierarchy_node" /\ run[s].kind = "advance" => e.err
            /\ a = "schema_output_node" => PausedAt(a)' \/ (run[s].kind = "advance" /\ Doomed(e))
  PROVE  RowTells' /\ Reviewed'
  <1>0. TypeOK /\ Sole(s) /\ failures \in Nat
    BY SlotFacts, SoleBusy
  <1>1. PICK r \in Runs : /\ Moved(s, r) /\ r.pc = "done" /\ r.at = a /\ r.data = e
                          /\ r.kind = run[s].kind /\ r.val = run[s].val
    BY <1>0, YieldEffect DEF Phases
  <1>2. Shown(r)'
    BY <1>1 DEF Shown
  <1>3. failures < 2 => Heeds(run[s]) /\ Costs(ckpt.next, ckpt.data)
    BY <1>0, BusySlot
  <1>4. failures' < 2 => Heeds(r)' /\ Costs(ckpt.next, ckpt.data)'
    <2> SUFFICES ASSUME failures' < 2 PROVE Heeds(r)' /\ Costs(ckpt.next, ckpt.data)'
      OBVIOUS
    <2>1. failures < 2 /\ (failures > 0 => failures' > 0)
      BY <1>0
    <2>2. Costs(ckpt.next, ckpt.data)'
      BY <1>3, <2>1 DEF Costs
    <2>3. /\ r.kind = "advance" => r.val = NoGate
          /\ a \in {"schema_verify_hierarchy_node", "schema_output_node"} =>
                r.kind = "advance" \/ failures' > 0
          /\ a = Artifacts => r.val \in {NoGate, "artifacts_review"}
      BY <1>1, <1>3, <2>1 DEF Heeds, Inside
    <2>4. Heeds(r)'
      BY <1>1, <2>3 DEF Heeds, Inside
    <2> QED BY <2>2, <2>4
  <1> QED BY <1>0, <1>1, <1>2, <1>4, Onward

\* What is known of a run in front of, or inside, node a with d.
LEMMA InNode ==
  ASSUME IInv, Calm, Guarded, RowTells, Reviewed, NEW s \in Slots,
         run[s].pc \in {"node", "asked", "written"}
  PROVE  /\ TypeOK /\ Sole(s) /\ failures \in Nat /\ Shown(run[s])
         /\ run[s].at \in Nodes /\ run[s].data \in Data
         /\ run[s].at = ckpt.next /\ run[s].data = ckpt.data
         /\ failures < 2 => Heeds(run[s]) /\ Costs(run[s].at, run[s].data)
  <1>1. TypeOK /\ Sole(s) /\ failures \in Nat /\ run[s].data \in Data /\ run[s].at \in Nodes
    BY SlotFacts, SoleBusy DEF IInv, KInv, Inside
  <1> QED BY <1>1, Inward, BusySlot

\* A step node writes its pause, keeps the row, or fails.
LEMMA StepTells ==
  ASSUME IInv, Calm, Calm', Guarded, RowTells, Reviewed, NEW s \in Slots, Step(s)
  PROVE  RowTells' /\ Reviewed'
  <1>0. run[s].pc = "node" /\ UNCHANGED <<ckpt, copies>>
    BY DEF Step, CanonicalSchema, SchemaIngest, Deterministic, NoTables, Preprocess, Semantic,
       EmbeddingFails, Hierarchy, Output, StepFail, At, StepPause, Quietly, World
  <1>1. PICK a \in Nodes, d \in Data, k \in Kinds : run[s].at = a /\ run[s].data = d /\ run[s].kind = k
    BY <1>0, InNode, SlotFacts DEF Runs
  <1>2. /\ TypeOK /\ Sole(s) /\ failures \in Nat /\ OnWay(a, d)
        /\ failures < 2 => Costs(a, d) /\ Heeds(run[s])
    BY <1>0, <1>1, InNode DEF Shown
  <1>3. ASSUME NEW e \in Data, StepPause(s, e)
        PROVE  Yield(s, "done", e) /\ PausedAt(a)' /\ UNCHANGED failures
    <2>1. job' = [status |-> "step_paused", gate |-> run[s].at]
      BY <1>2, <1>3, StoreCalm DEF StepPause
    <2> QED BY <1>1, <1>3, <2>1 DEF StepPause, World, PausedAt
  <1>4. ASSUME NEW e \in Data, StepPause(s, e), a \in StepNodes,
               a # "schema_verify_hierarchy_node", e.err = d.err,
               ~e.tables => ~d.tables /\ a # "schema_ingest_node",
               e.complete => d.complete \/ a \notin Ahead
        PROVE  RowTells' /\ Reviewed'
    <2>1. Yield(s, "done", e) /\ PausedAt(a)' /\ UNCHANGED failures
      BY <1>3, <1>4
    <2>2. Behind(a, e)'
      BY <1>4, <2>1 DEF Behind, StepNodes, GateNodes
    <2>3. a # Artifacts
      BY <1>4 DEF StepNodes, Artifacts
    <2>4. failures' < 2 => Costs(Successor(a, e), e)'
      BY <1>2, <1>4, <2>1, <2>3, CostsOn
    <2> QED BY <1>0, <1>1, <1>4, <2>1, <2>2, <2>4, DoneTells
  <1>5. CASE CanonicalSchema(s)
    BY <1>1, <1>4, <1>5 DEF CanonicalSchema, At, StepNodes
  <1>6. CASE SchemaIngest(s)
    <2>1. PICK text \in BOOLEAN : StepPause(s, [d EXCEPT !.tables = TRUE, !.text = text])
      BY <1>1, <1>6 DEF SchemaIngest
    <2>2. PICK e \in Data : /\ e = [d EXCEPT !.tables = TRUE, !.text = text]
                            /\ e.tables /\ e.err = d.err /\ e.complete = d.complete
      <3> DEFINE q == [d EXCEPT !.tables = TRUE, !.text = text]
      <3>1. /\ q \in Data
            /\ q.tables /\ q.err = d.err /\ q.complete = d.complete
        BY DEF Data
      <3> HIDE DEF q
      <3> QED BY <3>1 DEF q
    <2> QED BY <1>1, <1>4, <1>6, <2>1, <2>2 DEF SchemaIngest, At, StepNodes
  <1>7. CASE Deterministic(s)
    <2>1. PICK matched \in SUBSET Columns : \E shown \in SUBSET matched :
             StepPause(s, [d EXCEPT !.t1 = matched, !.shown = shown, !.open = Columns \ matched])
      BY <1>1, <1>7 DEF Deterministic
    <2>2. PICK shown \in SUBSET matched :
             StepPause(s, [d EXCEPT !.t1 = matched, !.shown = shown, !.open = Columns \ matched])
      BY <2>1
    <2>3. PICK e \in Data : /\ e = [d EXCEPT !.t1 = matched, !.shown = shown, !.open = Columns \ matched]
                            /\ e.tables = d.tables /\ e.err = d.err /\ e.complete = d.complete
      <3> DEFINE q == [d EXCEPT !.t1 = matched, !.shown = shown, !.open = Columns \ matched]
      <3>1. /\ q \in Data
            /\ q.tables = d.tables /\ q.err = d.err /\ q.complete = d.complete
        BY DEF Data
      <3> HIDE DEF q
      <3> QED BY <3>1 DEF q
    <2>4. a = "schema_deterministic_node"
      BY <1>1, <1>7 DEF Deterministic, At
    <2> QED BY <1>4, <2>2, <2>3, <2>4 DEF StepNodes
  <1>8. CASE NoTables(s)
    <2>1. /\ a \in {"schema_deterministic_node", "schema_hierarchy_node"}
          /\ ~d.tables /\ Yield(s, "done", d) /\ UNCHANGED <<job, failures>>
      BY <1>1, <1>8 DEF NoTables, At, Quietly, World
    <2>2. Behind(a, d)'
      BY <1>0, <1>2, <2>1 DEF Behind, OnWay, Working, GateNodes
    <2>3. failures' < 2 => Costs(Successor(a, d), d)'
      BY <1>2, <2>1, CostsOn DEF Artifacts
    <2> QED BY <1>0, <1>1, <2>1, <2>2, <2>3, DoneTells
  <1>9. CASE Preprocess(s)
    <2>1. PICK filed \in SUBSET Columns :
             filed = {FirstNamed[c] : c \in d.sent} /\ (d.sent = {} <=> filed = {})
      <3> DEFINE q == {FirstNamed[c] : c \in d.sent}
      <3>1. q \in SUBSET Columns /\ (d.sent = {} <=> q = {})
        BY NamesAssumption DEF Data
      <3> HIDE DEF q
      <3> QED BY <3>1 DEF q
    <2>2. PICK e \in Data : /\ e = IF d.open \cup d.sent = {} THEN d
                                   ELSE [d EXCEPT !.open = @ \cup filed, !.sent = {}]
                            /\ e.tables = d.tables /\ e.err = d.err /\ e.complete = d.complete
                            /\ e.open = {} <=> d.open \cup d.sent = {}
      <3> DEFINE q == [d EXCEPT !.open = @ \cup filed, !.sent = {}]
      <3>1. /\ q \in Data /\ q.open = d.open \cup filed
            /\ q.tables = d.tables /\ q.err = d.err /\ q.complete = d.complete
        BY DEF Data
      <3> HIDE DEF q
      <3> QED BY <2>1, <3>1 DEF q
    <2>3. a = "schema_preprocess_node" /\ IF e.open = {} THEN Quietly(s, e) ELSE StepPause(s, e)
      BY <1>1, <1>9, <2>1, <2>2 DEF Preprocess, At
    <2>4. /\ Yield(s, "done", e) /\ UNCHANGED failures
          /\ IF e.open = {} THEN job' = job ELSE PausedAt(a)'
      BY <1>3, <2>3 DEF Quietly, World
    <2>5. Behind(a, e)'
      BY <1>0, <1>2, <2>3, <2>4 DEF Behind, OnWay, Working, GateNodes, StepNodes
    <2>6. failures' < 2 => Costs(Successor(a, e), e)'
      BY <1>2, <2>2, <2>3, <2>4, CostsOn DEF Artifacts
    <2> QED BY <1>0, <1>1, <2>3, <2>4, <2>5, <2>6, DoneTells
  <1>10. CASE Semantic(s)
    <2>1. PICK kept \in Keepable(d.open) : \E auto, flagged \in SUBSET kept :
             StepPause(s, [d EXCEPT !.auto = auto, !.flagged = flagged,
                                    !.unmappable = kept \ (auto \cup flagged)])
      BY <1>1, <1>10 DEF Semantic
    <2>4. PICK auto \in SUBSET kept, flagged \in SUBSET kept :
             StepPause(s, [d EXCEPT !.auto = auto, !.flagged = flagged,
                                    !.unmappable = kept \ (auto \cup flagged)])
      BY <2>1
    <2>5. kept \in SUBSET Columns
      BY DEF Data, Keepable
    <2>2. PICK e \in Data : /\ e = [d EXCEPT !.auto = auto, !.flagged = flagged,
                                             !.unmappable = kept \ (auto \cup flagged)]
                            /\ e.tables = d.tables /\ e.err = d.err /\ e.complete = d.complete
      <3> DEFINE q == [d EXCEPT !.auto = auto, !.flagged = flagged,
                      !.unmappable = kept \ (auto \cup flagged)]
      <3>1. /\ q \in Data
            /\ q.tables = d.tables /\ q.err = d.err /\ q.complete = d.complete
        BY <2>5 DEF Data
      <3> HIDE DEF q
      <3> QED BY <3>1 DEF q
    <2>3. a = "schema_semantic_node"
      BY <1>1, <1>10 DEF Semantic, At
    <2> QED BY <1>4, <2>2, <2>3, <2>4 DEF StepNodes
  <1>11. CASE Hierarchy(s)
    BY <1>1, <1>4, <1>11 DEF Hierarchy, At, StepNodes
  <1>12. CASE Output(s)
    <2>1. PICK e \in Data : /\ e = [d EXCEPT !.complete = TRUE]
                            /\ e.tables = d.tables /\ e.err = d.err
      <3> DEFINE q == [d EXCEPT !.complete = TRUE]
      <3>1. /\ q \in Data
            /\ q.tables = d.tables /\ q.err = d.err
        BY DEF Data
      <3> HIDE DEF q
      <3> QED BY <3>1 DEF q
    <2>2. a = "schema_output_node" /\ a \notin Ahead
      BY <1>1, <1>12 DEF Output, At, Ahead, EarlyNodes, MatchNodes, Reviewing
    <2> QED BY <1>1, <1>4, <1>12, <2>1, <2>2 DEF Output, StepNodes
  \* A failure costs a node; two of them, and nothing is promised about the artifacts.
  <1>13. ASSUME NEW e \in Data, Yield(s, "done", e), Fails, UNCHANGED job, a \in StepNodes,
                e.tables = d.tables, e.complete = d.complete,
                \/ e.err /\ e.open = d.open
                \/ a = "schema_semantic_node" /\ e.unmappable = e.open /\ e.open = d.open /\ e.err = d.err
         PROVE  RowTells' /\ Reviewed'
    <2>1. failures' = failures + 1 /\ failures' > 0 /\ (failures' < 2 => failures < 2 /\ ~(failures > 0))
      BY <1>2, <1>13 DEF Fails
    <2>2. Behind(a, e)'
      <3>1. a \notin GateNodes \cup {"schema_preprocess_node", "schema_verify_hierarchy_node", "schema_write_node"}
        BY <1>13 DEF StepNodes, GateNodes
      <3>2. OnWay(a, e)' /\ job' = job /\ e.open = d.open
        BY <1>2, <1>13 DEF OnWay, Working, PausedAt
      <3> QED BY <1>2, <1>13, <2>1, <3>1, <3>2 DEF Behind, Working
    <2>3. a # Artifacts
      BY <1>13 DEF StepNodes, Artifacts
    <2>4. failures' < 2 => Costs(Successor(a, e), e)'
      BY <1>2, <1>13, <2>1, <2>3, CostsOn
    <2>5. failures' < 2 /\ a = "schema_output_node" => k = "advance" /\ Doomed(e)
      <3> SUFFICES ASSUME failures' < 2, a = "schema_output_node" PROVE k = "advance" /\ Doomed(e)
        OBVIOUS
      <3>1. k = "advance"
        BY <1>0, <1>1, <1>2, <2>1 DEF Heeds, Inside
      <3>2. ~d.complete
        BY <1>2, <2>1 DEF Costs
      <3> QED BY <1>13, <3>1, <3>2 DEF Doomed
    <2>6. a # "schema_verify_hierarchy_node"
      BY <1>13 DEF StepNodes
    <2> QED BY <1>0, <1>1, <1>13, <2>1, <2>2, <2>4, <2>5, <2>6, DoneTells
  <1>14. CASE EmbeddingFails(s)
    <2>1. PICK e \in Data : /\ e = [d EXCEPT !.unmappable = d.open]
                            /\ e.tables = d.tables /\ e.err = d.err /\ e.complete = d.complete
                            /\ e.open = d.open /\ e.unmappable = d.open
      <3> DEFINE q == [d EXCEPT !.unmappable = d.open]
      <3>1. /\ q \in Data
            /\ q.tables = d.tables /\ q.err = d.err /\ q.complete = d.complete
            /\ q.open = d.open /\ q.unmappable = d.open
        BY DEF Data
      <3> HIDE DEF q
      <3> QED BY <3>1 DEF q
    <2> QED BY <1>1, <1>13, <1>14, <2>1 DEF EmbeddingFails, At, StepNodes
  <1>15. CASE StepFail(s)
    <2>1. PICK e \in Data : /\ e = [d EXCEPT !.err = TRUE]
                            /\ e.tables = d.tables /\ e.err /\ e.complete = d.complete /\ e.open = d.open
      <3> DEFINE q == [d EXCEPT !.err = TRUE]
      <3>1. /\ q \in Data
            /\ q.tables = d.tables /\ q.err /\ q.complete = d.complete /\ q.open = d.open
        BY DEF Data
      <3> HIDE DEF q
      <3> QED BY <3>1 DEF q
    <2> QED BY <1>1, <1>13, <1>15, <2>1 DEF StepFail
  <1> QED BY <1>5, <1>6, <1>7, <1>8, <1>9, <1>10, <1>11, <1>12, <1>14, <1>15 DEF Step

\* A gate skips, asks, interrupts, takes its decision or raises on it.
LEMMA GateTells ==
  ASSUME IInv, Calm, Calm', Guarded, RowTells, Reviewed, NEW s \in Slots, Gate(s)
  PROVE  RowTells' /\ Reviewed'
  <1>0. run[s].pc \in {"node", "asked"} /\ UNCHANGED <<ckpt, copies, failures>>
    BY DEF Gate, GateSkip, GateAsk, GateInterrupt, PreSemanticDecide, HumanReviewDecide,
       DecisionRaises, ArtifactsDecide, VerifyHierarchy, Answered, At, StepPause, Quietly, Resolve, World
  <1>1. PICK a \in Nodes, d \in Data : run[s].at = a /\ run[s].data = d
    BY <1>0, InNode
  <1>2. /\ TypeOK /\ Sole(s) /\ failures \in Nat /\ Shown(run[s]) /\ ckpt.next = a
        /\ failures < 2 => Costs(a, d) /\ Heeds(run[s])
        /\ run[s].pc = "asked" => a \in GateNodes
    BY <1>0, <1>1, InNode, Inward
  <1>3. a \in GateNodes => a \notin StepNodes \cup {"schema_preprocess_node", "schema_verify_hierarchy_node",
                                                    "schema_output_node", "schema_write_node"}
    BY DEF GateNodes, StepNodes
  \* The node goes on with the row "running".
  <1>4. ASSUME NEW e \in Data, Yield(s, "done", e), Working', a \in GateNodes,
               e.err = d.err, e.tables = d.tables, e.complete = d.complete, a = Artifacts => e.reviewed \/ failures >= 2
        PROVE  RowTells' /\ Reviewed'
    <2>1. Behind(a, e)'
      BY <1>3, <1>4 DEF Behind
    <2>2. failures' < 2 => Costs(Successor(a, e), e)'
      <3> SUFFICES ASSUME failures < 2 PROVE Costs(Successor(a, e), e)'
        BY <1>0
      <3>1. a # "schema_ingest_node"
        BY <1>3, <1>4 DEF StepNodes
      <3>2. Costs(a, d) /\ (a = Artifacts => e.reviewed) /\ failures' = failures
        BY <1>0, <1>2, <1>4
      <3> QED BY <1>2, <1>4, <3>1, <3>2, CostsOn
    <2> QED BY <1>0, <1>1, <1>3, <1>4, <2>1, <2>2, DoneTells
  <1>5. ASSUME NEW e \in Data, Resolve(s, e) PROVE Yield(s, "done", e) /\ Working'
    BY <1>2, <1>5, StoreCalm DEF Resolve, Working, RunningNoGate
  <1>6. CASE GateSkip(s)
    <2>1. Yield(s, "done", d) /\ a \in GateNodes /\ a # Artifacts /\ job' = job
      BY <1>1, <1>6 DEF GateSkip, Quietly, Shows, Artifacts
    <2>2. Working
      BY <1>1, <1>2, <1>6, <2>1, <1>3 DEF GateSkip, Shown, OnWay, StepNodes
    <2> QED BY <1>4, <2>1, <2>2 DEF Working
  <1>7. CASE GateAsk(s)
    <2>1. PICK r \in Runs : /\ Moved(s, r) /\ r.pc = "asked" /\ r.at = a
                            /\ r.kind = run[s].kind /\ r.val = run[s].val
      BY <1>1, <1>2, <1>7, GotoEffect DEF GateAsk, Phases
    <2>2. job' = [status |-> "awaiting_review", gate |-> GateOf(a)] /\ a \in GateNodes
      BY <1>1, <1>2, <1>7, StoreCalm DEF GateAsk
    <2>3. Shown(r)'
      BY <2>1, <2>2 DEF Shown
    <2>4. failures' < 2 => /\ Heeds(r)' /\ Costs(ckpt.next, ckpt.data)'
                           /\ ckpt'.next # "schema_output_node"
      <3>1. ckpt.next = a /\ ckpt.data = d
        BY <1>0, <1>1, InNode
      <3>2. failures' < 2 => Costs(ckpt.next, ckpt.data)'
        BY <1>0, <1>2, <3>1 DEF Costs
      <3> QED BY <1>0, <1>1, <1>2, <1>3, <2>1, <2>2, <3>2 DEF Heeds, Inside
    <2> QED BY <1>2, <2>1, <2>3, <2>4, Onward
  <1>8. CASE GateInterrupt(s)
    <2>1. PICK r \in Runs : Moved(s, r) /\ r.pc = "finish" /\ r.kind = run[s].kind /\ r.val = run[s].val
      BY <1>2, <1>8, GotoEffect DEF GateInterrupt, Phases
    <2>2. /\ job' = job /\ job = [status |-> "awaiting_review", gate |-> GateOf(a)] /\ a \in GateNodes
          /\ run[s].pc = "asked"
      BY <1>1, <1>2, <1>8 DEF GateInterrupt, Shown
    <2>3. Tells' /\ Waits'
      BY <1>0, <1>2, <2>2 DEF Tells, Waits, Working
    <2>4. Shown(r)'
      BY <2>1, <2>3 DEF Shown
    <2>5. failures' < 2 => /\ Heeds(r)' /\ Costs(ckpt.next, ckpt.data)'
                           /\ ckpt'.next # "schema_output_node"
      <3>1. ckpt.next = a /\ ckpt.data = d
        BY <1>0, <1>1, InNode
      <3>2. failures' < 2 => Costs(ckpt.next, ckpt.data)'
        BY <1>0, <1>2, <3>1 DEF Costs
      <3> QED BY <1>0, <1>2, <1>3, <2>1, <2>2, <2>3, <3>2 DEF Heeds, Inside
    <2> QED BY <1>2, <2>1, <2>4, <2>5, Onward
  <1>9. CASE PreSemanticDecide(s)
    <2>1. PICK back \in SUBSET d.shown, new \in SUBSET Columns :
            Resolve(s, [d EXCEPT !.shown = {}, !.t1 = (@ \ back) \cup new,
                                 !.open = @ \ new, !.sent = back, !.extra = @ \cup new,
                                 !.asked = @ \cup new])
      BY <1>1, <1>9 DEF PreSemanticDecide
    <2>2. PICK e \in Data : /\ e = [d EXCEPT !.shown = {}, !.t1 = (@ \ back) \cup new,
                                             !.open = @ \ new, !.sent = back, !.extra = @ \cup new,
                                             !.asked = @ \cup new]
                            /\ e.tables = d.tables /\ e.complete = d.complete /\ e.err = d.err
      <3> DEFINE q == [d EXCEPT !.shown = {}, !.t1 = (@ \ back) \cup new,
                      !.open = @ \ new, !.sent = back, !.extra = @ \cup new,
                      !.asked = @ \cup new]
      <3>1. /\ q \in Data
            /\ q.tables = d.tables /\ q.complete = d.complete /\ q.err = d.err
        BY DEF Data
      <3> HIDE DEF q
      <3> QED BY <3>1 DEF q
    <2>3. a \in GateNodes /\ a # Artifacts
      BY <1>1, <1>9 DEF PreSemanticDecide, Answered, GateNodes, Artifacts
    <2> QED BY <1>4, <1>5, <2>1, <2>2, <2>3
  <1>10. CASE HumanReviewDecide(s)
    <2> DEFINE f == run[s].data
               E(named, back, stored, text, rejected) ==
                 [f EXCEPT !.t1 = (@ \ named) \cup back, !.extra = @ \cup stored,
                           !.auto = @ \ text, !.open = {}, !.text = FALSE,
                           !.rejected = @ \cup rejected,
                           !.unplaced = @ \cup ((named \cap f.t1) \ (back \cup stored \cup rejected))]
    <2>1. PICK named \in SUBSET Columns : \E back, stored \in SUBSET named :
            \E text \in SUBSET stored, rejected \in SUBSET ((named \cap f.t1) \ (back \cup stored)) :
            Resolve(s, E(named, back, stored, text, rejected))
      BY <1>10 DEF HumanReviewDecide
    <2>2. PICK back \in SUBSET named, stored \in SUBSET named :
            \E text \in SUBSET stored, rejected \in SUBSET ((named \cap f.t1) \ (back \cup stored)) :
            Resolve(s, E(named, back, stored, text, rejected))
      BY <2>1
    <2>3. PICK text \in SUBSET stored, rejected \in SUBSET ((named \cap f.t1) \ (back \cup stored)) :
            Resolve(s, E(named, back, stored, text, rejected))
      BY <2>2
    <2>4. PICK e \in Data : /\ e = E(named, back, stored, text, rejected)
                            /\ e.tables = d.tables /\ e.complete = d.complete /\ e.err = d.err
      <3> DEFINE q == E(named, back, stored, text, rejected)
      <3>1. q \in Data /\ q.tables = d.tables /\ q.complete = d.complete /\ q.err = d.err
        BY <1>1 DEF Data
      <3> HIDE DEF q, E
      <3> QED BY <3>1 DEF q
    <2>5. a \in GateNodes /\ a # Artifacts
      BY <1>1, <1>10 DEF HumanReviewDecide, Answered, GateNodes, Artifacts
    <2> HIDE DEF E
    <2> QED BY <1>4, <1>5, <2>3, <2>4, <2>5
  <1>11. CASE DecisionRaises(s)
    <2>1. PICK r \in Runs : /\ Moved(s, r) /\ r.pc = "raised" /\ r.kind = run[s].kind /\ r.val = run[s].val
      BY <1>2, <1>11, GotoEffect DEF DecisionRaises, Phases
    <2>2. Shown(r)'
      BY <2>1 DEF Shown
    <2>3. failures' < 2 => /\ Heeds(r)' /\ Costs(ckpt.next, ckpt.data)'
                           /\ ckpt'.next # "schema_output_node"
      <3>1. ckpt.next = a /\ ckpt.data = d /\ a \in GateNodes
        BY <1>0, <1>1, <1>2, <1>11, InNode DEF DecisionRaises, Answered
      <3>2. failures' < 2 => Costs(ckpt.next, ckpt.data)'
        BY <1>0, <1>2, <3>1 DEF Costs
      <3>3. run[s].pc = "asked"
        BY <1>11 DEF DecisionRaises, Answered
      <3> QED BY <1>0, <1>2, <1>3, <2>1, <3>1, <3>2, <3>3 DEF Heeds, Inside
    <2> QED BY <1>2, <2>1, <2>2, <2>3, Onward
  \* Only a decision for this gate, or none, gets here.
  <1>12. CASE ArtifactsDecide(s)
    <2>1. PICK e \in Data : /\ e = [d EXCEPT !.reviewed = @ \/ run[s].val = "artifacts_review"]
                            /\ e.tables = d.tables /\ e.complete = d.complete /\ e.err = d.err
                            /\ run[s].val = "artifacts_review" => e.reviewed
      <3>1. PICK b \in BOOLEAN : b = (d.reviewed \/ run[s].val = "artifacts_review")
        OBVIOUS
      <3> DEFINE q == [d EXCEPT !.reviewed = b]
      <3>2. /\ q \in Data /\ q.reviewed = b
            /\ q.tables = d.tables /\ q.complete = d.complete /\ q.err = d.err
        BY DEF Data
      <3> HIDE DEF q
      <3> QED BY <3>1, <3>2 DEF q
    <2>2. a = Artifacts /\ run[s].val # NoGate /\ run[s].pc = "asked" /\ Resolve(s, e)
      BY <1>1, <1>12, <2>1 DEF ArtifactsDecide, Answered, Artifacts
    <2>3. failures < 2 => e.reviewed
      BY <1>1, <1>2, <2>1, <2>2 DEF Heeds, Inside
    <2>4. a \in GateNodes /\ (e.reviewed \/ failures >= 2)
      BY <1>2, <2>2, <2>3
    <2> QED BY <1>4, <1>5, <2>1, <2>2, <2>4
  <1>13. CASE VerifyHierarchy(s)
    <2>1. a = "schema_verify_hierarchy_node" /\ run[s].pc = "node"
      BY <1>1, <1>13 DEF VerifyHierarchy, At
    <2>2. PICK e \in Data : /\ StepPause(s, e) /\ e.tables = d.tables
                            /\ e.complete => d.complete
                            /\ e.err \/ run[s].val # NoGate
      <3>1. CASE run[s].val # NoGate /\ StepPause(s, [d EXCEPT !.hierarchy = TRUE])
        <4> DEFINE q == [d EXCEPT !.hierarchy = TRUE]
        <4>1. q \in Data /\ q.tables = d.tables /\ q.complete = d.complete
          BY DEF Data
        <4> HIDE DEF q
        <4> QED BY <3>1, <4>1 DEF q
      <3>2. CASE StepPause(s, [d EXCEPT !.err = TRUE, !.complete = FALSE])
        <4> DEFINE q == [d EXCEPT !.err = TRUE, !.complete = FALSE]
        <4>1. q \in Data /\ q.tables = d.tables /\ ~q.complete /\ q.err
          BY DEF Data
        <4> HIDE DEF q
        <4> QED BY <3>2, <4>1 DEF q
      <3> QED BY <1>1, <1>13, <3>1, <3>2 DEF VerifyHierarchy
    <2>3. Yield(s, "done", e) /\ PausedAt(a)'
      BY <1>1, <1>2, <2>2, StoreCalm DEF StepPause, PausedAt
    <2>4. Behind(a, e)'
      BY <2>1, <2>3 DEF Behind, StepNodes, GateNodes
    <2>5. failures' < 2 => /\ Costs(Successor(a, e), e)'
                           /\ run[s].kind = "advance" => e.err
      <3> SUFFICES ASSUME failures < 2
                   PROVE  Costs(Successor(a, e), e)' /\ (run[s].kind = "advance" => e.err)
        BY <1>0
      <3>1. ~e.tables => failures' > 0 \/ (~d.tables /\ a # "schema_ingest_node")
        BY <2>1, <2>2
      <3>2. Costs(Successor(a, e), e)'
        BY <1>0, <1>2, <2>1, <2>2, <3>1, CostsOn DEF Artifacts
      <3>3. run[s].kind = "advance" => run[s].val = NoGate
        BY <1>2, <2>1 DEF Heeds
      <3> QED BY <2>2, <3>2, <3>3
    <2> QED BY <1>0, <1>1, <2>1, <2>3, <2>4, <2>5, DoneTells
  <1> QED BY <1>6, <1>7, <1>8, <1>9, <1>10, <1>11, <1>12, <1>13 DEF Gate

\* The schema is written, or is not.
LEMMA WriteTells ==
  ASSUME IInv, Calm, Calm', Guarded, RowTells, Reviewed, NEW s \in Slots, Write(s)
  PROVE  RowTells' /\ Reviewed'
  <1> DEFINE w == "schema_write_node"
  <1>0. /\ run[s].pc \in {"node", "written"} /\ run[s].at = w /\ UNCHANGED ckpt
    <2>1. /\ run[s].pc \in {"node", "written"} /\ UNCHANGED ckpt
          /\ run[s].pc = "node" => run[s].at = w
      BY DEF Write, WriteSchema, WriteSchemaFail, WriteAudit, WriteAuditFail, At, World
    <2> QED BY <2>1, InNode, Inward
  <1>1. PICK d \in Data : run[s].data = d
    BY <1>0, InNode
  <1>2. /\ TypeOK /\ Sole(s) /\ failures \in Nat /\ w \in Nodes /\ w \notin StepNodes \cup GateNodes
        /\ ckpt.next = w /\ ckpt.data = d /\ job \in Row
        /\ failures < 2 => Costs(w, d) /\ Heeds(run[s])
    BY <1>0, <1>1, InNode, SlotFacts DEF StepNodes, GateNodes
  <1>3. Working /\ (run[s].pc = "written" => copies > 0)
    BY <1>0, InNode DEF Shown, OnWay
  <1>4. ASSUME NEW e \in Data, Yield(s, "done", e), failures' \in {failures, failures + 1},
               \/ Working' /\ e.err
               \/ job'.status = "ddl_failed"
               \/ job'.status = "complete" /\ e.complete /\ copies' > 0
        PROVE  RowTells' /\ Reviewed'
    <2>1. Behind(w, e)'
      BY <1>2, <1>4 DEF Behind
    <2>2. Costs(Successor(w, e), e)'
      <3>1. Successor(w, e) = End
        BY DEF Successor
      <3> QED BY <3>1 DEF Costs, Ahead, EarlyNodes, MatchNodes, Reviewing, End
    <2> QED BY <1>0, <1>2, <1>4, <2>1, <2>2, DoneTells
  <1>5. CASE WriteSchema(s)
    <2>1. PICK r \in Runs : /\ Moved(s, r) /\ r.pc = "written" /\ r.at = w
                            /\ r.kind = run[s].kind /\ r.val = run[s].val
      BY <1>0, <1>2, <1>5, GotoEffect DEF WriteSchema, Phases
    <2>2. copies' > 0 /\ UNCHANGED <<job, failures>>
      BY <1>2, <1>5 DEF WriteSchema, TypeOK, Bounded
    <2>3. Shown(r)'
      BY <1>3, <2>1, <2>2 DEF Shown, Working
    <2>4. failures' < 2 => /\ Heeds(r)' /\ Costs(ckpt.next, ckpt.data)'
                           /\ ckpt'.next # "schema_output_node"
      <3>1. failures' < 2 => Costs(ckpt.next, ckpt.data)'
        BY <1>0, <1>2, <2>2 DEF Costs
      <3>2. failures' < 2 => Heeds(r)'
        BY <1>0, <1>2, <2>1, <2>2 DEF Heeds, Inside, Artifacts
      <3> QED BY <1>0, <1>2, <3>1, <3>2
    <2> QED BY <1>2, <2>1, <2>3, <2>4, Onward
  <1>6. CASE WriteSchemaFail(s) \/ WriteAuditFail(s)
    <2>1. PICK e \in Data : /\ e = [Cleared(d) EXCEPT !.err = TRUE]
                            /\ e.err
      <3> DEFINE q == [Cleared(d) EXCEPT !.err = TRUE]
      <3>1. /\ q \in Data
            /\ q.err
        BY DEF Data, Cleared, Fresh
      <3> HIDE DEF q
      <3> QED BY <3>1 DEF q
    <2>2. Yield(s, "done", e) /\ failures' = failures + 1
      BY <1>1, <1>6, <2>1 DEF WriteSchemaFail, WriteAuditFail, Fails
    <2>3. Working' \/ job'.status = "ddl_failed"
      BY <1>2, <1>3, <1>6 DEF WriteSchemaFail, WriteAuditFail, Working, Row
    <2> QED BY <1>4, <2>1, <2>2, <2>3
  <1>7. CASE WriteAudit(s)
    <2>1. PICK e \in Data : /\ e = [Cleared(d) EXCEPT !.complete = TRUE]
                            /\ e.complete
      <3> DEFINE q == [Cleared(d) EXCEPT !.complete = TRUE]
      <3>1. /\ q \in Data
            /\ q.complete
        BY DEF Data, Cleared, Fresh
      <3> HIDE DEF q
      <3> QED BY <3>1 DEF q
    <2>2. Yield(s, "done", e) /\ UNCHANGED <<failures, copies>> /\ copies > 0
      BY <1>1, <1>3, <1>7, <2>1 DEF WriteAudit, World
    <2>3. job' = [job EXCEPT !.status = "complete"]
      BY <1>2, <1>7, StoreCalm DEF WriteAudit
    <2>4. job'.status = "complete"
      BY <1>2, <2>3 DEF Row
    <2> QED BY <1>4, <2>1, <2>2, <2>4
  <1> QED BY <1>5, <1>6, <1>7 DEF Write

-----------------------------------------------------------------------------
LEMMA NextAInv == IInv /\ LInv /\ AInv /\ [Next]_vars => AInv'
  <1> SUFFICES ASSUME IInv, LInv, AInv, [Next]_vars, Calm' PROVE RowTells' /\ Reviewed'
    BY DEF AInv
  <1>0. Calm /\ Guarded /\ RowTells /\ Reviewed /\ ~Crash
    BY CalmBack DEF LInv, AInv, IInv
  <1>1. ASSUME NEW s \in Slots, Request(s) PROVE RowTells' /\ Reviewed'
    BY <1>0, <1>1, RequestTells
  <1>2. ASSUME NEW s \in Slots, Handler(s) \/ Runner(s) PROVE RowTells' /\ Reviewed'
    BY <1>0, <1>2, DispatchTells, EndTells, BeginTells, LoadTells, CommitTells DEF Handler, Runner
  <1>3. ASSUME NEW s \in Slots, Step(s) \/ Gate(s) \/ Write(s) PROVE RowTells' /\ Reviewed'
    BY <1>0, <1>3, StepTells, GateTells, WriteTells
  <1>4. CASE UNCHANGED vars
    <2>1. UNCHANGED <<job, ckpt, run, copies, failures>>
      BY <1>4 DEF vars
    <2>2. (RowTells' <=> RowTells) /\ (Reviewed' <=> Reviewed)
      BY <2>1 DEF RowTells, Reviewed, AtRest, Tells, Shown, Heeds, Costs, Waits, Working, Stalled, OnWay, Behind,
         PausedAt
    <2> QED BY <1>0, <2>2
  <1> QED BY <1>0, <1>1, <1>2, <1>3, <1>4 DEF Next, Proceed

\* For any set of columns and any number of failing nodes: with one request at a time, no
\* crash and no lost update, the row of a job at rest agrees with its checkpoint.
THEOREM RowAgrees == Spec => []RestingAgreement
  <1>1. AInv => RestingAgreement
    BY DEF AInv, RowTells, Tells, RestingAgreement, Working
  <1> QED BY InitIInv, NextStep, InitLInv, NextLInv, InitAInv, NextAInv, <1>1, PTL DEF Spec

\* For any set of columns: with one request at a time, no crash, no lost update and at most
\* one failed node, a schema is written after a decision on its artifacts only.
THEOREM ArtifactsReviewed == Spec => []WrittenAsReviewed
  <1>1. IInv /\ LInv /\ AInv => WrittenAsReviewed
    <2> SUFFICES ASSUME IInv, LInv, AInv, Calm, failures < 2, NEW s \in Slots, run[s].pc = "written"
                 PROVE  run[s].data.reviewed
      BY DEF WrittenAsReviewed
    <2>1. Guarded /\ RowTells /\ Reviewed
      BY DEF LInv, AInv
    <2>2. Costs(run[s].at, run[s].data) /\ run[s].at = "schema_write_node"
      BY <2>1, InNode, Inward
    <2> QED BY <2>2 DEF Costs
  <1> QED BY InitIInv, NextStep, InitLInv, NextLInv, InitAInv, NextAInv, <1>1, PTL DEF Spec
==============================================================================
