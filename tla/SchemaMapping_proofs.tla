------------------------ MODULE SchemaMapping_proofs ------------------------
(***************************************************************************)
(* For any set of columns, of slots, and any number of overlapping         *)
(* requests and faults: type correctness, that the new columns asked for   *)
(* survive into the DDL plan, that without overlaps and crashes the        *)
(* canonical data is copied once, and that in calm only the users' answers *)
(* take a field name out of the mapping.                                   *)
(***************************************************************************)
EXTENDS SchemaMapping, TLAPS

\* No node takes a new column out of the DDL plan again.
Kept(d) == d.asked \subseteq d.extra

Inside   == {"node", "asked", "written", "done"}
Late(s)  == run[s].pc \in {"written", "done"} /\ run[s].at = "schema_write_node"

\* One request at a time: a single slot is busy, a finished graph is not entered again,
\* and a copy has been made by a run at its last node or by a graph that is finished.
Single ==
    /\ \A s, t \in Slots : run[s].pc # "idle" /\ run[t].pc # "idle" => s = t
    /\ job.status = "none" => copies = 0 /\ AtRest
    /\ copies > 0 => ckpt.next = End \/ \E s \in Slots : Late(s)
    /\ ckpt.next = End => \A s \in Slots : run[s].pc \notin Inside
    /\ \A s \in Slots : run[s].pc = "load" /\ run[s].kind = "start" => copies = 0
    /\ copies <= 1

KInv ==
    /\ Kept(ckpt.data)
    /\ \A s \in Slots : Kept(run[s].data) /\ (run[s].pc \in Inside => run[s].at \in Nodes)
SInv == overlaps = 0 /\ crashes = 0 => Single
IInv == TypeOK /\ KInv /\ SInv

-----------------------------------------------------------------------------
\* The record slot s becomes; the other slots stay as they are.
Moved(s, r) ==
    /\ run' \in [Slots -> Runs]
    /\ run'[s] = r
    /\ \A t \in Slots : t # s => run'[t] = run[t]

LEMMA IdleType == Fresh \in Data /\ Idle \in Runs /\ Kept(Fresh)
  BY DEF Fresh, Data, Idle, Runs, Phases, Kinds, Kept

LEMMA InitIInv == Init => IInv
  <1> SUFFICES ASSUME Init PROVE IInv OBVIOUS
  <1>1. TypeOK
    BY IdleType, BoundsAssumption DEF Init, TypeOK, Row, Statuses
  <1>2. KInv
    BY IdleType DEF Init, KInv, Idle, Inside
  <1>3. SInv
    BY DEF Init, SInv, Single, AtRest, Idle, Nowhere, End, Inside
  <1> QED BY <1>1, <1>2, <1>3 DEF IInv

LEMMA SuccessorType ==
  ASSUME NEW n \in Nodes, NEW d
  PROVE  /\ Successor(n, d) \in Nodes \cup {End}
         /\ Successor(n, d) = End <=> n = "schema_write_node"
  BY DEF Successor, AfterPreprocess, Nodes, StepNodes, GateNodes, End

LEMMA MoveEffect ==
  ASSUME TypeOK, NEW s \in Slots, NEW r \in Runs, run' = [run EXCEPT ![s] = r]
  PROVE  Moved(s, r)
  BY DEF TypeOK, Moved

\* What the shorthands make of a slot.
LEMMA GotoEffect ==
  ASSUME TypeOK, NEW s \in Slots, NEW phase \in Phases, Goto(s, phase)
  PROVE  \E r \in Runs : /\ Moved(s, r)
                         /\ r = [run[s] EXCEPT !.pc = phase]
                         /\ r.pc = phase /\ r.at = run[s].at /\ r.data = run[s].data
                         /\ r.kind = run[s].kind /\ r.val = run[s].val
  <1> DEFINE r == [run[s] EXCEPT !.pc = phase]
  <1>1. r \in Runs /\ r.pc = phase /\ r.at = run[s].at /\ r.data = run[s].data
        /\ r.kind = run[s].kind /\ r.val = run[s].val
    BY DEF TypeOK, Runs
  <1>2. run' = [run EXCEPT ![s] = r]
    BY DEF Goto
  <1>3. Moved(s, r)
    BY <1>1, <1>2, MoveEffect
  <1> QED BY <1>1, <1>3

LEMMA YieldEffect ==
  ASSUME TypeOK, NEW s \in Slots, NEW phase \in Phases, NEW d \in Data, Yield(s, phase, d)
  PROVE  \E r \in Runs : /\ Moved(s, r)
                         /\ r.pc = phase /\ r.at = run[s].at /\ r.data = d
                         /\ r.kind = run[s].kind /\ r.val = run[s].val
  <1> DEFINE r == [run[s] EXCEPT !.pc = phase, !.data = d]
  <1>1. r \in Runs /\ r.pc = phase /\ r.at = run[s].at /\ r.data = d
        /\ r.kind = run[s].kind /\ r.val = run[s].val
    BY DEF TypeOK, Runs
  <1>2. run' = [run EXCEPT ![s] = r]
    BY <1>1 DEF Yield, TypeOK
  <1>3. Moved(s, r)
    BY <1>1, <1>2, MoveEffect
  <1> QED BY <1>1, <1>3

LEMMA LeaveEffect ==
  ASSUME TypeOK, NEW s \in Slots, Leave(s)
  PROVE  Moved(s, Idle)
  BY MoveEffect, IdleType DEF Leave

LEMMA StoreEffect ==
  ASSUME TypeOK, NEW row \in Row, Store(row)
  PROVE  /\ job' \in {job, row} /\ job' \in Row
         /\ lost' \in Nat /\ failures + crashes + lost' <= MaxFaults
  BY BoundsAssumption DEF TypeOK, Store, Budget

LEMMA FailsEffect ==
  ASSUME TypeOK, Fails
  PROVE  failures' \in Nat /\ failures' + crashes + lost <= MaxFaults
  BY BoundsAssumption DEF TypeOK, Fails, Budget

-----------------------------------------------------------------------------
\* Between two checkpoints a run leaves everything alone but its own state and the row.
LEMMA InsideStep ==
  ASSUME IInv, NEW s \in Slots, run[s].pc \in {"node", "asked", "written"},
         NEW r \in Runs, Moved(s, r), Kept(r.data), r.at = run[s].at,
         r.pc \in {"asked", "done", "finish", "raised"},
         run[s].pc = "written" => r.pc = "done",
         job' \in Row, job' = job \/ job'.status # "none",
         UNCHANGED <<ckpt, copies, overlaps, crashes>>,
         failures' \in Nat, lost' \in Nat, failures' + crashes + lost' <= MaxFaults
  PROVE  IInv'
  <1>1. TypeOK'
    BY DEF IInv, TypeOK, Moved
  <1>2. KInv'
    BY DEF IInv, KInv, Moved, Inside
  <1>3. SInv'
    <2> SUFFICES ASSUME overlaps = 0, crashes = 0, Single PROVE Single'
      BY DEF IInv, SInv
    <2>1. \A t \in Slots : t # s => run[t].pc = "idle" /\ run'[t].pc = "idle"
      BY DEF Single, Moved
    <2>2. run'[s].pc = r.pc /\ run'[s].at = run[s].at
      BY DEF Moved
    <2>3. job.status # "none" /\ job'.status # "none"
      BY DEF Single, AtRest
    <2>4. ckpt.next # End
      BY DEF Single, Inside
    <2>5. copies > 0 => Late(s)
      BY <2>1, <2>4 DEF Single, Late
    <2>6. copies > 0 => Late(s)'
      <3> SUFFICES ASSUME copies > 0 PROVE Late(s)' OBVIOUS
      <3>1. run[s].pc = "written" /\ run[s].at = "schema_write_node"
        BY <2>5 DEF Late
      <3> QED BY <2>2, <3>1 DEF Late
    <2> QED BY <2>1, <2>2, <2>3, <2>4, <2>6 DEF Single
  <1> QED BY <1>1, <1>2, <1>3 DEF IInv

\* Outside the graph a task moves on, reads the checkpoint, or ends.
LEMMA OutsideStep ==
  ASSUME IInv, NEW s \in Slots, run[s].pc \notin Inside \cup {"idle"},
         NEW r \in Runs, Moved(s, r), Kept(r.data),
         \/ r.pc \in {"idle", "load", "raised", "finish"}
         \/ r.pc = "node" /\ r.at \in Nodes /\ ckpt.next # End,
         r.pc = "load" => r.kind # "start",
         job' \in Row, job' = job \/ job'.status # "none",
         UNCHANGED <<ckpt, copies, overlaps, failures, crashes, lost>>
  PROVE  IInv'
  <1>1. TypeOK'
    BY DEF IInv, TypeOK, Moved
  <1>2. KInv'
    BY DEF IInv, KInv, Moved, Inside
  <1>3. SInv'
    <2> SUFFICES ASSUME overlaps = 0, crashes = 0, Single PROVE Single'
      BY DEF IInv, SInv
    <2>1. \A t \in Slots : t # s => run[t].pc = "idle" /\ run'[t].pc = "idle"
      BY DEF Single, Moved
    <2>2. run'[s] = r
      BY DEF Moved
    <2>3. job.status # "none" /\ job'.status # "none"
      BY DEF Single, AtRest
    <2>4. copies > 0 => ckpt.next = End
      BY <2>1 DEF Single, Late, Inside
    <2> QED BY <2>1, <2>2, <2>3, <2>4 DEF Single, Inside
  <1> QED BY <1>1, <1>2, <1>3 DEF IInv

\* A request enters an idle slot.
Entered(s, kind, phase, val) ==
    /\ Arrive(s) /\ Enter(s, kind, phase, val)
    /\ \/ UNCHANGED job /\ job.status # "none" /\ kind # "start"
       \/ job.status = "none" /\ job'.status # "none" /\ job' \in Row
    /\ UNCHANGED <<World, lost>>

LEMMA RequestStep ==
  ASSUME IInv, NEW s \in Slots, Request(s)
  PROVE  IInv'
  <1>1. \E kind \in Kinds, phase \in {"checked", "load", "queued"},
           val \in GateTypes \cup {NoGate} : Entered(s, kind, phase, val)
    <2>1. CASE StartSchemaMapping(s)
      <3>1. Entered(s, "start", "load", NoGate)
        BY <2>1 DEF StartSchemaMapping, Entered, Row, Statuses
      <3> QED BY <3>1 DEF Kinds
    <2>2. CASE AdvanceCheck(s)
      <3> DEFINE v == IF job.gate = "schema_verify_hierarchy_node" THEN "hierarchy" ELSE NoGate
      <3>1. v \in GateTypes \cup {NoGate}
        BY DEF GateTypes
      <3>2. Entered(s, "advance", "checked", v)
        BY <2>2 DEF AdvanceCheck, Entered
      <3> QED BY <3>1, <3>2 DEF Kinds
    <2>3. CASE KickCheck(s)
      <3>1. Entered(s, "kick", "checked", NoGate)
        BY <2>3 DEF KickCheck, Entered
      <3> QED BY <3>1 DEF Kinds
    <2>4. CASE CancelCheck(s)
      <3>1. Entered(s, "cancel", "checked", NoGate)
        BY <2>4 DEF CancelCheck, Entered
      <3> QED BY <3>1 DEF Kinds
    <2>5. CASE RetryDdl(s)
      <3>1. Entered(s, "retry", "queued", NoGate)
        BY <2>5 DEF RetryDdl, Entered
      <3> QED BY <3>1 DEF Kinds
    <2>6. CASE \E g \in GateTypes : GateCheck(s, g)
      <3>1. PICK g \in GateTypes : GateCheck(s, g)
        BY <2>6
      <3>2. Entered(s, "resume", "checked", g)
        BY <3>1 DEF GateCheck, Entered
      <3> QED BY <3>2 DEF Kinds
    <2> QED BY <2>1, <2>2, <2>3, <2>4, <2>5, <2>6 DEF Request
  <1>0. PICK kind \in Kinds, phase \in {"checked", "load", "queued"},
             val \in GateTypes \cup {NoGate} : Entered(s, kind, phase, val)
    BY <1>1
  <1> DEFINE r == [Idle EXCEPT !.pc = phase, !.kind = kind, !.val = val]
  <1>2. r \in Runs /\ r.pc = phase /\ r.kind = kind /\ r.data = Fresh
    BY IdleType DEF Idle, Runs, Phases
  <1>3. Moved(s, r)
    BY <1>0, <1>2, MoveEffect DEF Entered, IInv, Enter
  <1>4. TypeOK'
    <2>1. overlaps' \in 0..MaxOverlaps
      BY <1>0, BoundsAssumption DEF Entered, Arrive, IInv, TypeOK
    <2>2. job' \in Row
      BY <1>0 DEF Entered, IInv, TypeOK
    <2> QED BY <1>0, <1>3, <2>1, <2>2 DEF Entered, World, IInv, TypeOK, Moved
  <1>5. KInv'
    BY <1>0, <1>2, <1>3, IdleType DEF Entered, World, IInv, KInv, Moved, Inside
  <1>6. SInv'
    <2> SUFFICES ASSUME overlaps' = 0, crashes' = 0 PROVE Single'
      BY DEF SInv
    <2>1. overlaps = 0 /\ crashes = 0 /\ \A t \in Slots : run[t].pc = "idle"
      BY <1>0 DEF Entered, Arrive, World, IInv, TypeOK
    <2>2. Single
      BY <2>1 DEF IInv, SInv
    <2>3. run'[s].pc = phase /\ run'[s].kind = kind /\ \A t \in Slots : t # s => run'[t] = run[t]
      BY <1>2, <1>3 DEF Moved
    <2>4. job'.status # "none" /\ copies' = copies /\ ckpt' = ckpt
      BY <1>0 DEF Entered, World
    <2>5. copies > 0 => ckpt.next = End
      BY <2>1, <2>2 DEF Single, Late
    <2>6. kind = "start" => copies = 0
      BY <1>0, <2>2 DEF Entered, Single
    <2> QED BY <1>0, <2>1, <2>2, <2>3, <2>4, <2>5, <2>6 DEF Entered, Single, Inside
  <1> QED BY <1>4, <1>5, <1>6 DEF IInv

LEMMA HandlerStep ==
  ASSUME IInv, NEW s \in Slots, Handler(s)
  PROVE  IInv'
  <1>0. TypeOK /\ KInv /\ run[s] \in Runs /\ Kept(run[s].data) /\ job \in Row
    BY DEF IInv, TypeOK, KInv
  <1>1. CASE Dispatch(s)
    <2>1. PICK r \in Runs : Moved(s, r) /\ r.pc = "load" /\ r.data = run[s].data /\ r.kind = run[s].kind
      BY <1>0, <1>1, GotoEffect DEF Dispatch, Phases
    <2>2. job' \in Row /\ job'.status # "none"
      BY <1>0, <1>1 DEF Dispatch, RunningNoGate, Row, Statuses
    <2> QED BY <1>0, <1>1, <2>1, <2>2, OutsideStep DEF Dispatch, World, Inside
  <1>2. CASE CancelCommit(s)
    <2>1. Moved(s, Idle)
      BY <1>0, <1>2, LeaveEffect DEF CancelCommit
    <2>2. job' \in Row /\ job'.status # "none"
      BY <1>0, <1>2 DEF CancelCommit, Row, Statuses
    <2> QED BY <1>0, <1>2, <2>1, <2>2, OutsideStep, IdleType DEF CancelCommit, World, Inside, Idle
  <1>3. CASE ResumeSchemaMapping(s)
    <2>1. CASE job' = [job EXCEPT !.status = "running"] /\ Goto(s, "raised")
      <3>1. PICK r \in Runs : Moved(s, r) /\ r.pc = "raised" /\ r.data = run[s].data
        BY <1>0, <2>1, GotoEffect DEF Phases
      <3>2. job' \in Row /\ job'.status # "none"
        BY <1>0, <2>1 DEF Row, Statuses
      <3> QED BY <1>0, <1>3, <3>1, <3>2, OutsideStep DEF ResumeSchemaMapping, World, Inside
    <2>2. CASE UNCHANGED job /\ Leave(s)
      <3>1. Moved(s, Idle)
        BY <1>0, <2>2, LeaveEffect
      <3> QED BY <1>0, <1>3, <2>2, <3>1, OutsideStep, IdleType
              DEF ResumeSchemaMapping, World, Inside, Idle
    <2> QED BY <1>3, <2>1, <2>2 DEF ResumeSchemaMapping
  <1> QED BY <1>1, <1>2, <1>3 DEF Handler

\* The first checkpoint of a job: nothing has been copied.
LEMMA BeginStep ==
  ASSUME IInv, NEW s \in Slots, BeginRun(s)
  PROVE  IInv'
  <1> DEFINE r == [run[s] EXCEPT !.pc = "node", !.at = "canonical_schema_node"]
  <1>0. TypeOK /\ KInv /\ run[s] \in Runs /\ Kept(run[s].data)
    BY DEF IInv, TypeOK, KInv
  <1>1. r \in Runs /\ r.pc = "node" /\ r.data = run[s].data /\ r.at = "canonical_schema_node"
    BY <1>0 DEF Runs, Phases, Nodes, StepNodes
  <1>2. Moved(s, r)
    <2>1. run' = [run EXCEPT ![s] = r]
      BY <1>0 DEF BeginRun, TypeOK
    <2> QED BY <1>0, <1>1, <2>1, MoveEffect
  <1>3. ckpt' = [next |-> "canonical_schema_node", data |-> Fresh] /\ ckpt'.next # End
    BY DEF BeginRun, End
  <1>4. UNCHANGED <<job, copies, overlaps, failures, crashes, lost>>
    BY DEF BeginRun, Bounded
  <1>5. TypeOK'
    BY <1>0, <1>2, <1>3, <1>4, IdleType DEF TypeOK, Moved, Nodes, StepNodes
  <1>6. KInv'
    BY <1>0, <1>1, <1>2, <1>3, IdleType DEF KInv, Moved, Inside, Nodes, StepNodes
  <1>7. SInv'
    <2> SUFFICES ASSUME overlaps = 0, crashes = 0, Single PROVE Single'
      BY <1>4 DEF IInv, SInv
    <2>1. \A t \in Slots : t # s => run[t].pc = "idle" /\ run'[t].pc = "idle"
      BY <1>2 DEF Single, Moved, BeginRun
    <2>2. copies = 0 /\ job.status # "none"
      BY DEF Single, AtRest, BeginRun
    <2>3. run'[s].pc = "node"
      BY <1>1, <1>2 DEF Moved
    <2> QED BY <1>3, <1>4, <2>1, <2>2, <2>3 DEF Single, Inside
  <1> QED BY <1>5, <1>6, <1>7 DEF IInv

LEMMA LoadStep ==
  ASSUME IInv, NEW s \in Slots, LoadCheckpoint(s)
  PROVE  IInv'
  <1> DEFINE pc == CASE ckpt.next = Nowhere -> "raised"
                     [] ckpt.next = End     -> "finish"
                     [] OTHER               -> "node"
             at == IF ckpt.next \in Nodes THEN ckpt.next ELSE End
             r  == [run[s] EXCEPT !.pc = pc, !.at = at, !.data = ckpt.data]
  <1>0. TypeOK /\ KInv /\ run[s] \in Runs /\ Kept(ckpt.data) /\ ckpt.data \in Data /\ job \in Row
    BY DEF IInv, TypeOK, KInv
  <1>1. /\ pc \in {"raised", "finish", "node"} /\ at \in Nodes \cup {End}
        /\ pc = "node" => at \in Nodes /\ ckpt.next # End
    BY <1>0 DEF TypeOK, Nowhere, End
  <1>2. r \in Runs /\ r.pc = pc /\ r.at = at /\ r.data = ckpt.data
    BY <1>0, <1>1 DEF Runs, Phases
  <1>3. Moved(s, r)
    <2>0. run' = [run EXCEPT ![s].pc = pc, ![s].at = at, ![s].data = ckpt.data]
      BY DEF LoadCheckpoint
    <2> HIDE DEF pc, at
    <2>1. run' = [run EXCEPT ![s] = r]
      BY <1>0, <2>0 DEF TypeOK
    <2> QED BY <1>0, <1>2, <2>1, MoveEffect
  <1> QED BY <1>0, <1>1, <1>2, <1>3, OutsideStep DEF LoadCheckpoint, World, Inside

\* The copy is made before the last node returns, and END is saved after it.
LEMMA CommitStep ==
  ASSUME IInv, NEW s \in Slots, CommitCheckpoint(s)
  PROVE  IInv'
  <1> DEFINE n  == Successor(run[s].at, run[s].data)
             pc == IF run[s].at \in StepNodes \/ n = End THEN "finish" ELSE "node"
             r  == [run[s] EXCEPT !.at = n, !.val = NoGate, !.pc = pc]
  <1>0. TypeOK /\ KInv /\ run[s] \in Runs /\ Kept(run[s].data) /\ run[s].data \in Data
    BY DEF IInv, TypeOK, KInv, Runs
  <1>9. run[s].at \in Nodes
    BY DEF IInv, KInv, CommitCheckpoint, Inside
  <1>1. /\ n \in Nodes \cup {End} /\ (n = End <=> run[s].at = "schema_write_node")
        /\ pc \in {"finish", "node"} /\ (pc = "node" => n # End)
    BY <1>9, SuccessorType
  <1>2. r \in Runs /\ r.pc = pc /\ r.at = n /\ r.data = run[s].data
    BY <1>0, <1>1 DEF Runs, Phases
  <1>3. Moved(s, r)
    <2>1. run' = [run EXCEPT ![s] = r]
      BY <1>0 DEF CommitCheckpoint, TypeOK
    <2> QED BY <1>0, <1>2, <2>1, MoveEffect
  <1>4. ckpt' = [next |-> n, data |-> run[s].data] /\ ckpt'.next = n /\ ckpt'.data = run[s].data
    BY DEF CommitCheckpoint
  <1>5. UNCHANGED <<job, copies, overlaps, failures, crashes, lost>>
    BY DEF CommitCheckpoint, Bounded
  <1>6. TypeOK'
    BY <1>0, <1>1, <1>3, <1>4, <1>5 DEF TypeOK, Moved
  <1>7. KInv'
    BY <1>0, <1>1, <1>2, <1>3, <1>4 DEF KInv, Moved, Inside
  <1>8. SInv'
    <2> SUFFICES ASSUME overlaps = 0, crashes = 0, Single PROVE Single'
      BY <1>5 DEF IInv, SInv
    <2>1. \A t \in Slots : t # s => run[t].pc = "idle" /\ run'[t].pc = "idle"
      BY <1>3 DEF Single, Moved, CommitCheckpoint
    <2>2. ckpt.next # End /\ job.status # "none"
      BY DEF Single, AtRest, Inside, CommitCheckpoint
    <2>3. copies > 0 => run[s].at = "schema_write_node"
      BY <2>1, <2>2 DEF Single, Late
    <2>4. run'[s].pc = pc
      BY <1>2, <1>3 DEF Moved
    <2> QED BY <1>1, <1>4, <1>5, <2>1, <2>2, <2>3, <2>4 DEF Single, Inside
  <1> QED BY <1>6, <1>7, <1>8 DEF IInv

LEMMA EndStep ==
  ASSUME IInv, NEW s \in Slots, FinishRun(s) \/ FailRun(s)
  PROVE  IInv'
  <1>0. TypeOK /\ job \in Row /\ Moved(s, Idle)
    BY LeaveEffect DEF IInv, TypeOK, FinishRun, FailRun
  <1>1. job' \in Row /\ (job' = job \/ job'.status # "none")
    BY <1>0 DEF FinishRun, FailRun, Row, Statuses
  <1>2. UNCHANGED <<ckpt, copies, overlaps, failures, crashes, lost>>
    BY DEF FinishRun, FailRun, World
  <1>3. run[s].pc \notin Inside \cup {"idle"}
    BY DEF FinishRun, FailRun, Inside
  <1> QED BY <1>0, <1>1, <1>2, <1>3, OutsideStep, IdleType DEF Idle

-----------------------------------------------------------------------------
\* A node or a gate that goes on with the state d, with or without a row update.
LEMMA YieldStep ==
  ASSUME IInv, NEW s \in Slots, run[s].pc \in {"node", "asked"}, NEW d \in Data, Kept(d),
         \/ StepPause(s, d) /\ run[s].at \in StepKeys
         \/ Quietly(s, d)
         \/ Resolve(s, d)
  PROVE  IInv'
  <1>0. TypeOK /\ "done" \in Phases
    BY DEF IInv, Phases
  <1>1. PICK r \in Runs : Moved(s, r) /\ r.pc = "done" /\ r.at = run[s].at /\ r.data = d
    BY <1>0, YieldEffect DEF StepPause, Quietly, Resolve
  <1>2. /\ job' \in Row /\ (job' = job \/ job'.status # "none")
        /\ lost' \in Nat /\ failures + crashes + lost' <= MaxFaults
    <2>1. CASE StepPause(s, d) /\ run[s].at \in StepKeys
      <3> DEFINE row == [status |-> "step_paused", gate |-> run[s].at]
      <3>1. row \in Row /\ row.status # "none" /\ Store(row)
        BY <2>1 DEF StepPause, Row, Statuses
      <3> QED BY <1>0, <3>1, StoreEffect
    <2>2. CASE Quietly(s, d)
      BY <1>0, <2>2 DEF Quietly, TypeOK
    <2>3. CASE Resolve(s, d)
      <3>1. RunningNoGate \in Row /\ RunningNoGate.status # "none"
        BY DEF RunningNoGate, Row, Statuses
      <3> QED BY <1>0, <2>3, <3>1, StoreEffect DEF Resolve
    <2> QED BY <2>1, <2>2, <2>3
  <1>3. UNCHANGED <<ckpt, copies, overlaps, failures, crashes>> /\ failures \in Nat
    BY <1>0 DEF StepPause, Quietly, Resolve, World, TypeOK
  <1> QED BY <1>1, <1>2, <1>3, InsideStep

\* A node that fails goes on with the state d.
LEMMA FailedStep ==
  ASSUME IInv, NEW s \in Slots, run[s].pc \in {"node", "written"}, NEW d \in Data, Kept(d),
         Fails, Yield(s, "done", d), job' \in Row, job' = job \/ job'.status # "none",
         UNCHANGED <<ckpt, copies, overlaps, crashes, lost>>
  PROVE  IInv'
  <1>0. TypeOK /\ "done" \in Phases
    BY DEF IInv, Phases
  <1>1. PICK r \in Runs : Moved(s, r) /\ r.pc = "done" /\ r.at = run[s].at /\ r.data = d
    BY <1>0, YieldEffect
  <1>2. failures' \in Nat /\ failures' + crashes + lost <= MaxFaults /\ lost \in Nat
    BY <1>0, FailsEffect DEF TypeOK
  <1> QED BY <1>1, <1>2, InsideStep

\* What a slot of the invariant holds.
LEMMA SlotFacts ==
  ASSUME IInv, NEW s \in Slots
  PROVE  /\ run[s] \in Runs /\ run[s].data \in Data /\ Kept(run[s].data)
         /\ job \in Row /\ TypeOK /\ failures \in Nat /\ lost \in Nat
         /\ failures + crashes + lost <= MaxFaults
  BY DEF IInv, TypeOK, KInv, Runs

LEMMA StepStep ==
  ASSUME IInv, NEW s \in Slots, Step(s)
  PROVE  IInv'
  <1> DEFINE d == run[s].data
  <1>0. d \in Data /\ Kept(d) /\ job \in Row
    BY SlotFacts
  <1>k. StepNodes \subseteq StepKeys /\ "schema_preprocess_node" \in StepKeys
    BY DEF StepKeys
  <1>1. CASE CanonicalSchema(s)
    BY <1>0, <1>1, <1>k, YieldStep DEF CanonicalSchema, At, StepNodes
  <1>2. CASE SchemaIngest(s)
    <2>1. PICK text \in BOOLEAN : StepPause(s, [d EXCEPT !.tables = TRUE, !.text = text])
      BY <1>2 DEF SchemaIngest
    <2> DEFINE e == [d EXCEPT !.tables = TRUE, !.text = text]
    <2>2. e \in Data /\ Kept(e)
      BY <1>0 DEF Data, Kept
    <2>3. StepPause(s, e) /\ run[s].pc = "node" /\ run[s].at \in StepKeys
      BY <1>2, <1>k, <2>1 DEF SchemaIngest, At, StepNodes
    <2> HIDE DEF e
    <2> QED BY <2>2, <2>3, YieldStep
  <1>3. CASE Deterministic(s)
    <2>1. PICK matched \in SUBSET Columns : \E shown \in SUBSET matched :
             StepPause(s, [d EXCEPT !.t1 = matched, !.shown = shown, !.open = Columns \ matched])
      BY <1>3 DEF Deterministic
    <2>2. PICK shown \in SUBSET matched :
             StepPause(s, [d EXCEPT !.t1 = matched, !.shown = shown, !.open = Columns \ matched])
      BY <2>1
    <2> DEFINE e == [d EXCEPT !.t1 = matched, !.shown = shown, !.open = Columns \ matched]
    <2>3. e \in Data /\ Kept(e)
      BY <1>0 DEF Data, Kept
    <2>4. StepPause(s, e) /\ run[s].pc = "node" /\ run[s].at \in StepKeys
      BY <1>3, <1>k, <2>2 DEF Deterministic, At, StepNodes
    <2> HIDE DEF e
    <2> QED BY <2>3, <2>4, YieldStep
  <1>4. CASE NoTables(s)
    BY <1>0, <1>4, YieldStep DEF NoTables, At
  <1>5. CASE Preprocess(s)
    <2> DEFINE filed == {FirstNamed[c] : c \in d.sent}
               e == [d EXCEPT !.open = @ \cup filed, !.sent = {}]
    <2>1. e \in Data /\ Kept(e)
      <3>1. filed \in SUBSET Columns
        BY <1>0, NamesAssumption DEF Data
      <3> HIDE DEF filed
      <3> QED BY <1>0, <3>1 DEF Data, Kept
    <2>2. /\ Quietly(s, d) \/ StepPause(s, e)
          /\ run[s].pc = "node" /\ run[s].at \in StepKeys
      BY <1>5, <1>k DEF Preprocess, At
    <2> HIDE DEF e
    <2> QED BY <1>0, <2>1, <2>2, YieldStep
  <1>6. CASE Semantic(s)
    <2>1. PICK kept \in Keepable(d.open) : \E auto, flagged \in SUBSET kept :
             StepPause(s, [d EXCEPT !.auto = auto, !.flagged = flagged,
                                    !.unmappable = kept \ (auto \cup flagged)])
      BY <1>6 DEF Semantic
    <2>4. PICK auto \in SUBSET kept, flagged \in SUBSET kept :
             StepPause(s, [d EXCEPT !.auto = auto, !.flagged = flagged,
                                    !.unmappable = kept \ (auto \cup flagged)])
      BY <2>1
    <2> DEFINE e == [d EXCEPT !.auto = auto, !.flagged = flagged,
                              !.unmappable = kept \ (auto \cup flagged)]
    <2>2. e \in Data /\ Kept(e)
      <3>1. kept \in SUBSET Columns
        BY <1>0 DEF Data, Keepable
      <3> QED BY <1>0, <3>1 DEF Data, Kept
    <2>3. StepPause(s, e) /\ run[s].pc = "node" /\ run[s].at \in StepKeys
      BY <1>6, <1>k, <2>4 DEF Semantic, At, StepNodes
    <2> HIDE DEF e
    <2> QED BY <2>2, <2>3, YieldStep
  <1>7. CASE EmbeddingFails(s)
    <2> DEFINE e == [d EXCEPT !.unmappable = d.open]
    <2>1. e \in Data /\ Kept(e)
      BY <1>0 DEF Data, Kept
    <2>2. Fails /\ Yield(s, "done", e) /\ run[s].pc = "node"
          /\ UNCHANGED <<job, ckpt, copies, overlaps, crashes, lost>>
      BY <1>7 DEF EmbeddingFails, At
    <2> HIDE DEF e
    <2> QED BY <1>0, <2>1, <2>2, FailedStep
  <1>8. CASE Hierarchy(s)
    BY <1>0, <1>8, <1>k, YieldStep DEF Hierarchy, At, StepNodes
  <1>9. CASE Output(s)
    <2> DEFINE e == [d EXCEPT !.complete = TRUE]
    <2>1. e \in Data /\ Kept(e)
      BY <1>0 DEF Data, Kept
    <2>2. StepPause(s, e) /\ run[s].pc = "node" /\ run[s].at \in StepKeys
      BY <1>9, <1>k DEF Output, At, StepNodes
    <2> HIDE DEF e
    <2> QED BY <2>1, <2>2, YieldStep
  <1>10. CASE StepFail(s)
    <2> DEFINE e == [d EXCEPT !.err = TRUE]
    <2>1. e \in Data /\ Kept(e)
      BY <1>0 DEF Data, Kept
    <2>2. Fails /\ Yield(s, "done", e) /\ run[s].pc = "node"
          /\ UNCHANGED <<job, ckpt, copies, overlaps, crashes, lost>>
      BY <1>10 DEF StepFail
    <2> HIDE DEF e
    <2> QED BY <1>0, <2>1, <2>2, FailedStep
  <1> QED BY <1>1, <1>2, <1>3, <1>4, <1>5, <1>6, <1>7, <1>8, <1>9, <1>10 DEF Step

LEMMA GateStep ==
  ASSUME IInv, NEW s \in Slots, Gate(s)
  PROVE  IInv'
  <1> DEFINE d == run[s].data
  <1>0. d \in Data /\ Kept(d) /\ job \in Row /\ TypeOK
    BY SlotFacts
  <1>1. CASE GateSkip(s)
    BY <1>0, <1>1, YieldStep DEF GateSkip
  <1>2. CASE GateAsk(s)
    <2> DEFINE row == [status |-> "awaiting_review", gate |-> GateOf(run[s].at)]
    <2>1. row \in Row /\ row.status # "none"
      BY DEF Row, Statuses, GateOf, GateTypes
    <2>2. PICK r \in Runs : Moved(s, r) /\ r.pc = "asked" /\ r.at = run[s].at /\ r.data = d
      BY <1>0, <1>2, GotoEffect DEF GateAsk, Phases
    <2>3. /\ job' \in {job, row} /\ job' \in Row
          /\ lost' \in Nat /\ failures + crashes + lost' <= MaxFaults
      BY <1>0, <1>2, <2>1, StoreEffect DEF GateAsk
    <2> HIDE DEF row
    <2> QED BY <1>0, <1>2, <2>1, <2>2, <2>3, SlotFacts, InsideStep DEF GateAsk, World
  <1>3. CASE GateInterrupt(s)
    <2>1. PICK r \in Runs : Moved(s, r) /\ r.pc = "finish" /\ r.at = run[s].at /\ r.data = d
      BY <1>0, <1>3, GotoEffect DEF GateInterrupt, Phases
    <2> QED BY <1>0, <1>3, <2>1, SlotFacts, InsideStep DEF GateInterrupt, World
  <1>4. CASE PreSemanticDecide(s)
    <2>1. PICK back \in SUBSET d.shown, new \in SUBSET Columns :
            Resolve(s, [d EXCEPT !.shown = {}, !.t1 = (@ \ back) \cup new,
                                 !.open = @ \ new, !.sent = back, !.extra = @ \cup new,
                                 !.asked = @ \cup new])
      BY <1>4 DEF PreSemanticDecide
    <2> DEFINE e == [d EXCEPT !.shown = {}, !.t1 = (@ \ back) \cup new,
                              !.open = @ \ new, !.sent = back, !.extra = @ \cup new,
                              !.asked = @ \cup new]
    <2>2. e \in Data /\ Kept(e)
      BY <1>0 DEF Data, Kept
    <2>3. Resolve(s, e) /\ run[s].pc = "asked"
      BY <1>4, <2>1 DEF PreSemanticDecide, Answered
    <2> HIDE DEF e
    <2> QED BY <2>2, <2>3, YieldStep
  <1>5. CASE HumanReviewDecide(s)
    <2> DEFINE Answer(named, back, stored, text, rejected) ==
                 [d EXCEPT !.t1 = (@ \ named) \cup back, !.extra = @ \cup stored,
                           !.auto = @ \ text, !.open = {}, !.text = FALSE,
                           !.rejected = @ \cup rejected,
                           !.unplaced = @ \cup ((named \cap d.t1) \ (back \cup stored \cup rejected))]
    <2>1. PICK named \in SUBSET Columns : \E back, stored \in SUBSET named :
            \E text \in SUBSET stored, rejected \in SUBSET ((named \cap d.t1) \ (back \cup stored)) :
            Resolve(s, Answer(named, back, stored, text, rejected))
      BY <1>5 DEF HumanReviewDecide
    <2>2. PICK back \in SUBSET named, stored \in SUBSET named :
            \E text \in SUBSET stored, rejected \in SUBSET ((named \cap d.t1) \ (back \cup stored)) :
            Resolve(s, Answer(named, back, stored, text, rejected))
      BY <2>1
    <2>3. PICK text \in SUBSET stored, rejected \in SUBSET ((named \cap d.t1) \ (back \cup stored)) :
            Resolve(s, Answer(named, back, stored, text, rejected))
      BY <2>2
    <2> DEFINE e == Answer(named, back, stored, text, rejected)
    <2>4. e \in Data /\ Kept(e)
      BY <1>0 DEF Data, Kept
    <2>5. Resolve(s, e) /\ run[s].pc = "asked"
      BY <1>5, <2>3 DEF HumanReviewDecide, Answered
    <2> HIDE DEF e
    <2> QED BY <2>4, <2>5, YieldStep
  <1>6. CASE DecisionRaises(s)
    <2>1. RunningNoGate \in Row /\ RunningNoGate.status # "none"
      BY DEF RunningNoGate, Row, Statuses
    <2>2. PICK r \in Runs : Moved(s, r) /\ r.pc = "raised" /\ r.at = run[s].at /\ r.data = d
      BY <1>0, <1>6, GotoEffect DEF DecisionRaises, Phases
    <2>3. /\ job' \in {job, RunningNoGate} /\ job' \in Row
          /\ lost' \in Nat /\ failures + crashes + lost' <= MaxFaults
      BY <1>0, <1>6, <2>1, StoreEffect DEF DecisionRaises
    <2> QED BY <1>0, <1>6, <2>1, <2>2, <2>3, SlotFacts, InsideStep
            DEF DecisionRaises, Answered, World
  <1>7. CASE ArtifactsDecide(s)
    <2> DEFINE b == d.reviewed \/ run[s].val = "artifacts_review"
               e == [d EXCEPT !.reviewed = b]
    <2>1. e \in Data /\ Kept(e)
      BY <1>0 DEF Data, Kept
    <2>2. Resolve(s, e) /\ run[s].pc = "asked"
      BY <1>7 DEF ArtifactsDecide, Answered
    <2> HIDE DEF e
    <2> QED BY <2>1, <2>2, YieldStep
  <1>8. CASE VerifyHierarchy(s)
    <2>0. run[s].pc = "node" /\ run[s].at \in StepKeys
      BY <1>8 DEF VerifyHierarchy, At, StepKeys
    <2> DEFINE e == [d EXCEPT !.hierarchy = TRUE]
               f == [d EXCEPT !.err = TRUE, !.complete = FALSE]
    <2>1. e \in Data /\ Kept(e) /\ f \in Data /\ Kept(f)
      BY <1>0 DEF Data, Kept
    <2>2. StepPause(s, e) \/ StepPause(s, f)
      BY <1>8 DEF VerifyHierarchy
    <2> HIDE DEF e, f
    <2> QED BY <2>0, <2>1, <2>2, YieldStep
  <1> QED BY <1>1, <1>2, <1>3, <1>4, <1>5, <1>6, <1>7, <1>8 DEF Gate

\* The copy: no run has made one before, for the finished graph would have stopped
\* this one.
LEMMA CopyStep ==
  ASSUME IInv, NEW s \in Slots, WriteSchema(s)
  PROVE  IInv'
  <1>0. TypeOK /\ KInv
    BY DEF IInv
  <1>1. PICK r \in Runs : Moved(s, r) /\ r.pc = "written" /\ r.at = run[s].at /\ r.data = run[s].data
    BY <1>0, GotoEffect DEF WriteSchema, Phases
  <1>2. UNCHANGED <<job, ckpt, overlaps, failures, crashes, lost>>
    BY DEF WriteSchema, Bounded
  <1>3. TypeOK'
    BY <1>0, <1>1, <1>2 DEF TypeOK, Moved, WriteSchema
  <1>4. KInv'
    BY <1>0, <1>1, <1>2 DEF KInv, Moved, Inside, WriteSchema, At
  <1>5. SInv'
    <2> SUFFICES ASSUME overlaps = 0, crashes = 0, Single PROVE Single'
      BY <1>2 DEF IInv, SInv
    <2>1. run[s].pc = "node" /\ run[s].at = "schema_write_node"
      BY DEF WriteSchema, At
    <2>2. \A t \in Slots : t # s => run[t].pc = "idle" /\ run'[t].pc = "idle"
      BY <1>1, <2>1 DEF Single, Moved
    <2>3. ckpt.next # End /\ job.status # "none"
      BY <2>1 DEF Single, AtRest, Inside
    <2>4. copies = 0
      BY <1>0, <2>1, <2>2, <2>3 DEF Single, Late, TypeOK
    <2>5. run'[s].pc = "written" /\ run'[s].at = "schema_write_node"
      BY <1>1, <2>1 DEF Moved
    <2>6. copies' = 1 /\ Late(s)'
      BY <2>4, <2>5 DEF WriteSchema, Late
    <2> QED BY <1>2, <2>2, <2>3, <2>5, <2>6 DEF Single, Inside
  <1> QED BY <1>3, <1>4, <1>5 DEF IInv

LEMMA WriteStep ==
  ASSUME IInv, NEW s \in Slots, Write(s)
  PROVE  IInv'
  <1> DEFINE d == run[s].data
             e == [Cleared(d) EXCEPT !.err = TRUE]
  <1>0. d \in Data /\ Kept(d) /\ job \in Row /\ TypeOK
    BY SlotFacts
  <1>1. e \in Data /\ Kept(e)
    BY <1>0 DEF Data, Kept, Cleared, Fresh
  <1>2. CASE WriteSchema(s)
    BY <1>2, CopyStep
  <1>3. CASE WriteSchemaFail(s)
    <2>1. Fails /\ Yield(s, "done", e) /\ run[s].pc = "node"
          /\ UNCHANGED <<ckpt, copies, overlaps, crashes, lost>>
      BY <1>3 DEF WriteSchemaFail, At
    <2>2. job' \in Row /\ (job' = job \/ job'.status # "none")
      BY <1>0, <1>3 DEF WriteSchemaFail, Row, Statuses
    <2> HIDE DEF e
    <2> QED BY <1>1, <2>1, <2>2, FailedStep
  <1>4. CASE WriteAudit(s)
    <2> DEFINE row == [job EXCEPT !.status = "complete"]
               f   == [Cleared(d) EXCEPT !.complete = TRUE]
    <2>1. row \in Row /\ row.status # "none"
      BY <1>0 DEF Row, Statuses
    <2>2. f \in Data /\ Kept(f)
      BY <1>0 DEF Data, Kept, Cleared, Fresh
    <2> HIDE DEF f
    <2>3. PICK r \in Runs : Moved(s, r) /\ r.pc = "done" /\ r.at = run[s].at /\ r.data = f
      <3>1. Yield(s, "done", f)
        BY <1>4 DEF WriteAudit, f
      <3> QED BY <1>0, <2>2, <3>1, YieldEffect DEF Phases
    <2>4. /\ job' \in {job, row} /\ job' \in Row
          /\ lost' \in Nat /\ failures + crashes + lost' <= MaxFaults
      BY <1>0, <1>4, <2>1, StoreEffect DEF WriteAudit
    <2> HIDE DEF row
    <2> QED BY <1>4, <2>1, <2>2, <2>3, <2>4, SlotFacts, InsideStep DEF WriteAudit, World
  <1>5. CASE WriteAuditFail(s)
    <2>1. Fails /\ Yield(s, "done", e) /\ run[s].pc = "written"
          /\ UNCHANGED <<job, ckpt, copies, overlaps, crashes, lost>>
      BY <1>5 DEF WriteAuditFail
    <2> HIDE DEF e
    <2> QED BY <1>0, <1>1, <2>1, FailedStep
  <1> QED BY <1>2, <1>3, <1>4, <1>5 DEF Write

\* A crash ends the assumption of a single fault-free run.
LEMMA CrashStep == IInv /\ Crash => IInv'
  <1> SUFFICES ASSUME IInv, Crash PROVE IInv' OBVIOUS
  <1>0. TypeOK /\ KInv
    BY DEF IInv
  <1>1. run' \in [Slots -> Runs]
    BY <1>0, IdleType DEF Crash, TypeOK
  <1>2. \A s \in Slots : run'[s] = run[s] \/ run'[s] = Idle
    BY DEF Crash
  <1>3. crashes' \in Nat /\ crashes' # 0 /\ failures + crashes' + lost <= MaxFaults
        /\ UNCHANGED <<job, ckpt, copies, overlaps, failures, lost>>
    BY <1>0, BoundsAssumption DEF Crash, Budget, TypeOK
  <1>4. TypeOK'
    BY <1>0, <1>1, <1>3 DEF TypeOK
  <1>5. KInv'
    BY <1>0, <1>2, <1>3, IdleType DEF KInv, Idle, Inside
  <1>6. SInv'
    BY <1>3 DEF SInv
  <1> QED BY <1>4, <1>5, <1>6 DEF IInv

LEMMA StutterStep == IInv /\ UNCHANGED vars => IInv'
  BY DEF IInv, TypeOK, KInv, SInv, Single, AtRest, Late, vars

LEMMA NextStep == IInv /\ [Next]_vars => IInv'
  <1> SUFFICES ASSUME IInv, [Next]_vars PROVE IInv' OBVIOUS
  <1>1. ASSUME NEW s \in Slots, Request(s) \/ Proceed(s) PROVE IInv'
    <2>1. CASE Request(s)
      BY <2>1, RequestStep
    <2>2. CASE Handler(s)
      BY <2>2, HandlerStep
    <2>3. CASE Runner(s)
      BY <2>3, BeginStep, LoadStep, CommitStep, EndStep DEF Runner
    <2>4. CASE Step(s)
      BY <2>4, StepStep
    <2>5. CASE Gate(s)
      BY <2>5, GateStep
    <2>6. CASE Write(s)
      BY <2>6, WriteStep
    <2> QED BY <1>1, <2>1, <2>2, <2>3, <2>4, <2>5, <2>6 DEF Proceed
  <1>2. CASE Crash
    BY <1>2, CrashStep
  <1>3. CASE UNCHANGED vars
    BY <1>3, StutterStep
  <1> QED BY <1>1, <1>2, <1>3 DEF Next

\* The new columns a user asks for at the first gate are in the DDL plan of every
\* schema that is written, however many requests overlap and whatever fails.
THEOREM NewColumns == Spec => [](TypeOK /\ NewColumnsKept)
  <1>1. IInv => TypeOK /\ NewColumnsKept
    BY DEF IInv, KInv, Kept, NewColumnsKept
  <1> QED BY InitIInv, NextStep, <1>1, PTL DEF Spec

\* Every state has the types of TypeOK.
THEOREM TypesHold == Spec => []TypeOK
  BY NewColumns, PTL

\* Without overlapping requests and crashes the canonical data is copied into a new
\* schema once, whatever nodes fail and whatever row updates are lost: the row that
\* guards the requests may be wrong, the finished checkpoint stops the second run.
THEOREM SingleCopy == Spec => []CopiedOnce
  <1>1. IInv => CopiedOnce
    BY DEF IInv, SInv, Single, CopiedOnce
  <1> QED BY InitIInv, NextStep, <1>1, PTL DEF Spec

-----------------------------------------------------------------------------
(* Only the users' answers take a field name out of the mapping.           *)

LEMMA CarriesAll ==
  ASSUME NEW A, NEW B
  PROVE  /\ A \subseteq B => Carries(A, B)
         /\ \A C : Carries(A, B) /\ Carries(B, C) => Carries(A, C)
  BY DEF Carries

MatchNodes == {"schema_pre_semantic_node", "schema_preprocess_node", "schema_semantic_node"}
EarlyNodes == {"canonical_schema_node", "schema_ingest_node", "schema_deterministic_node"}
Reviewing  == {"schema_human_review_node", "schema_hierarchy_node"}

\* Where the columns are in front of node n: those sent back await only node 2.5.
Found(n, d) ==
    IF n \in MatchNodes
    THEN d.t1 \cup d.open \cup d.extra \cup (IF n = "schema_preprocess_node" THEN d.sent ELSE {})
    ELSE Placed(d) \cup TakenOut(d)

\* No field name is missing in front of node n.
Whole(n, d) ==
    d.tables /\ n \notin EarlyNodes \cup {Nowhere, End} => Carries(Columns, Found(n, d))

\* What is not set yet in front of node n.
Fine(n, d) ==
    /\ n \in {"canonical_schema_node", "schema_ingest_node"} => ~d.tables
    /\ n \in EarlyNodes \cup MatchNodes \cup Reviewing => ~d.complete

\* A state that the advance task turns into an error of the job.
Doomed(d) == d.err /\ ~d.complete

\* Only an advance moves the job, or it is over.
Paused == job.status = "step_paused"
Over   == AtRest /\ job.status \in {"error", "cancelled"}
Held   == Paused /\ \A s \in Slots : \/ run[s].pc \in {"idle", "finish"}
                                     \/ run[s].pc = "checked" /\ run[s].kind \in {"advance", "cancel"}
Going  == \E s \in Slots : run[s].kind = "advance" /\ run[s].pc \in {"load", "node", "asked", "done"}
Ending == \E s \in Slots : run[s].kind = "advance" /\ run[s].pc \in {"finish", "raised"}

\* A run that is not between two nodes works on the latest checkpoint.
Synced(s) ==
    /\ run[s].pc \in {"checked", "load"} => run[s].data = Fresh
    /\ run[s].pc \in {"node", "asked", "written", "finish"} => run[s].data = ckpt.data
    /\ run[s].pc \in Inside => run[s].at = ckpt.next
    /\ run[s].pc = "asked" => run[s].at \in GateNodes
    /\ run[s].pc = "written" => run[s].at = "schema_write_node"

\* What a task of kind k may bring to node a, the row having status st ...
Comes(a, k, d, st) ==
    /\ Fine(a, d)
    /\ ~Whole(a, d) => Doomed(d) /\ a \in Reviewing /\ k = "advance"
    /\ a = "schema_deterministic_node" /\ d.tables => k = "advance"
    /\ a = "schema_semantic_node" => st = "step_paused"

\* ... and away from it.
Passes(a, k, d, st) ==
    LET n == Successor(a, d)
    IN  /\ Fine(n, d)
        /\ ~Whole(n, d) => /\ Doomed(d)
                           /\ \/ a = "schema_semantic_node"
                              \/ a \in Reviewing \cup {"schema_deterministic_node"} /\ k = "advance"
        /\ \/ n = "schema_deterministic_node" /\ d.tables
           \/ "schema_semantic_node" \in {n, a}
           => st = "step_paused"

Ready(s) == run[s].pc = "done" => Passes(run[s].at, run[s].kind, run[s].data, job.status)

\* A checkpoint that has lost a field name is one the job stops at.
Stopped ==
    /\ Fine(ckpt.next, ckpt.data)
    /\ ~Whole(ckpt.next, ckpt.data) =>
          /\ Doomed(ckpt.data)
          /\ Over \/ Ending \/ (ckpt.next \in Reviewing /\ (Held \/ Going))
    /\ ckpt.next = "schema_deterministic_node" /\ ckpt.data.tables => Over \/ Held \/ Going
    /\ ckpt.next = "schema_semantic_node" => Paused /\ \E s \in Slots : run[s].pc \in {"node", "done"}

Guarded == Stopped /\ \A s \in Slots : Synced(s) /\ Ready(s)
LInv    == Calm => Guarded

-----------------------------------------------------------------------------
LEMMA InitLInv == Init => LInv
  BY DEF Init, LInv, Guarded, Stopped, Synced, Ready, Fine, Whole, Fresh, Idle, Nowhere, Inside,
     EarlyNodes, MatchNodes, Reviewing

\* One slot is busy, and the others are idle.
Sole(s) == \A t \in Slots : t # s => run[t].pc = "idle"

LEMMA SoleBusy ==
  ASSUME IInv, Calm, NEW s \in Slots, run[s].pc # "idle"
  PROVE  Sole(s)
  BY DEF IInv, SInv, Single, Calm, Sole

LEMMA StoreCalm ==
  ASSUME TypeOK, Calm, Calm', NEW row, Store(row)
  PROVE  job' = row
  BY DEF TypeOK, Calm, Store

\* What a run works on inside the graph.
LEMMA Inward ==
  ASSUME Guarded, NEW s \in Slots, Sole(s), run[s].pc \in {"node", "asked", "written"}
  PROVE  /\ run[s].at = ckpt.next /\ run[s].data = ckpt.data
         /\ Comes(run[s].at, run[s].kind, run[s].data, job.status)
         /\ ~Whole(run[s].at, run[s].data) => Going
         /\ run[s].pc = "asked" => run[s].at \in GateNodes
         /\ run[s].pc = "written" => run[s].at = "schema_write_node"
         /\ run[s].at = "schema_semantic_node" => run[s].pc = "node"
  <1>1. /\ run[s].at = ckpt.next /\ run[s].data = ckpt.data
        /\ run[s].pc = "asked" => run[s].at \in GateNodes
        /\ run[s].pc = "written" => run[s].at = "schema_write_node"
    BY DEF Guarded, Synced, Inside
  <1>2. ~Over /\ ~Held /\ ~Ending /\ (Going => run[s].kind = "advance")
    BY DEF Over, AtRest, Held, Ending, Going, Sole
  <1>3. ckpt.next = "schema_semantic_node" => Paused /\ run[s].pc = "node"
    BY DEF Guarded, Stopped, Sole
  <1> QED BY <1>1, <1>2, <1>3 DEF Guarded, Stopped, Comes, Paused

\* A node is done.
LEMMA DoneStep ==
  ASSUME Guarded, NEW s \in Slots, Sole(s), run[s].pc \in {"node", "asked", "written"},
         NEW r \in Runs, Moved(s, r), r.pc = "done", r.at = run[s].at, r.kind = run[s].kind,
         Passes(r.at, r.kind, r.data, job'.status), UNCHANGED ckpt
  PROVE  Guarded'
  <1>1. /\ run[s].at = ckpt.next /\ run[s].data = ckpt.data
        /\ Comes(run[s].at, run[s].kind, run[s].data, job.status)
    BY Inward
  <1>2. run'[s] = r /\ \A t \in Slots : t # s => run'[t] = run[t] /\ run[t].pc = "idle"
    BY DEF Moved, Sole
  <1>3. \A t \in Slots : Synced(t)' /\ Ready(t)'
    BY <1>1, <1>2 DEF Synced, Ready, Inside
  <1>4. r.kind = "advance" => Going'
    BY <1>2 DEF Going
  <1>5. r.at = "schema_semantic_node" => Paused'
    BY DEF Passes, Paused
  <1>6. Stopped'
    BY <1>1, <1>2, <1>4, <1>5 DEF Stopped, Comes, Guarded
  <1> QED BY <1>3, <1>6 DEF Guarded

\* A gate asks or interrupts, a decision raises, the schema is written: the state stays.
LEMMA OnStep ==
  ASSUME Guarded, NEW s \in Slots, Sole(s), run[s].pc \in {"node", "asked"},
         NEW r \in Runs, Moved(s, r), r.at = run[s].at, r.kind = run[s].kind, r.data = run[s].data,
         \/ r.pc \in {"asked", "finish", "raised"} /\ r.at \in GateNodes
         \/ r.pc = "written" /\ r.at = "schema_write_node",
         UNCHANGED ckpt
  PROVE  Guarded'
  <1>1. /\ run[s].at = ckpt.next /\ run[s].data = ckpt.data
        /\ Comes(run[s].at, run[s].kind, run[s].data, job.status)
    BY Inward
  <1>2. run'[s] = r /\ \A t \in Slots : t # s => run'[t] = run[t] /\ run[t].pc = "idle"
    BY DEF Moved, Sole
  <1>3. \A t \in Slots : Synced(t)' /\ Ready(t)'
    BY <1>1, <1>2 DEF Synced, Ready, Inside
  <1>4. r.kind = "advance" => (r.pc = "written" \/ Going' \/ Ending')
    BY <1>2 DEF Going, Ending
  <1>5. ckpt.next \in GateNodes \cup {"schema_write_node"}
    BY <1>1
  <1>6. /\ ckpt.next \notin {"schema_deterministic_node", "schema_semantic_node"}
        /\ r.pc = "written" => ckpt.next \notin Reviewing
    BY <1>1, <1>5 DEF GateNodes, Reviewing
  <1>7. Stopped'
    <2>1. Fine(ckpt.next, ckpt.data)
      BY <1>1 DEF Comes
    <2>2. ~Whole(ckpt.next, ckpt.data) =>
             Doomed(ckpt.data) /\ ckpt.next \in Reviewing /\ r.kind = "advance"
      BY <1>1 DEF Comes
    <2> QED BY <1>4, <1>6, <2>1, <2>2 DEF Stopped
  <1> QED BY <1>3, <1>7 DEF Guarded

LEMMA YieldGuard ==
  ASSUME TypeOK, Guarded, NEW s \in Slots, Sole(s), run[s].pc \in {"node", "asked", "written"},
         NEW d \in Data, Yield(s, "done", d), UNCHANGED ckpt,
         Passes(run[s].at, run[s].kind, d, job'.status)
  PROVE  Guarded'
  <1>1. PICK r \in Runs : /\ Moved(s, r)
                          /\ r.pc = "done" /\ r.at = run[s].at /\ r.data = d
                          /\ r.kind = run[s].kind
    BY YieldEffect DEF Phases
  <1> QED BY <1>1, DoneStep

\* What the nodes make of the columns.
LEMMA Matching ==
  ASSUME NEW d \in Data, NEW e \in Data, NEW k, NEW st
  PROVE  /\ ~d.complete /\ ~d.tables => Passes("canonical_schema_node", k, d, st)
         /\ /\ ~d.complete /\ ~e.complete
            /\ e.tables = d.tables \/ st = "step_paused"
            /\ ~d.tables
            => Passes("schema_ingest_node", k, e, st)
         /\ /\ ~d.complete /\ e.tables = d.tables /\ e.complete = d.complete
            /\ Columns \subseteq e.t1 \cup e.open \/ ~d.tables \/ (e.err /\ k = "advance")
            => Passes("schema_deterministic_node", k, e, st)
         /\ /\ Comes("schema_semantic_node", k, d, st)
            /\ e.tables = d.tables /\ e.complete = d.complete /\ st = "step_paused"
            /\ \/ e.err
               \/ e.t1 = d.t1 /\ e.extra = d.extra
                  /\ Carries(d.open, e.auto \cup e.flagged \cup e.unmappable)
            => Passes("schema_semantic_node", k, e, st)
  <1> USE DEF Passes, Successor, Fine, Whole, Doomed, EarlyNodes, MatchNodes, Reviewing, Nowhere, End
  <1>1. ~d.complete /\ ~d.tables => Passes("canonical_schema_node", k, d, st)
    OBVIOUS
  <1>2. ASSUME ~d.complete, ~e.complete, e.tables = d.tables \/ st = "step_paused", ~d.tables
        PROVE  Passes("schema_ingest_node", k, e, st)
    BY <1>2
  <1>3. ASSUME ~d.complete, e.tables = d.tables, e.complete = d.complete,
               Columns \subseteq e.t1 \cup e.open \/ ~d.tables \/ (e.err /\ k = "advance")
        PROVE  Passes("schema_deterministic_node", k, e, st)
    BY <1>3 DEF Found, Carries
  <1>4. ASSUME Comes("schema_semantic_node", k, d, st),
               e.tables = d.tables, e.complete = d.complete, st = "step_paused",
               \/ e.err
               \/ /\ e.t1 = d.t1 /\ e.extra = d.extra
                  /\ Carries(d.open, e.auto \cup e.flagged \cup e.unmappable)
        PROVE  Passes("schema_semantic_node", k, e, st)
    <2>1. ~d.complete /\ Whole("schema_semantic_node", d)
      BY <1>4 DEF Comes
    <2>2. ASSUME ~e.err, e.tables PROVE Carries(Columns, Found("schema_human_review_node", e))
      <3>1. Carries(Columns, d.t1 \cup d.open \cup d.extra)
        BY <1>4, <2>1, <2>2 DEF Found
      <3>2. Found("schema_human_review_node", e) = Placed(e) \cup TakenOut(e)
        BY DEF Found
      <3>3. Carries(d.t1 \cup d.open \cup d.extra, Placed(e) \cup TakenOut(e))
        BY <1>4, <2>2 DEF Carries, Placed
      <3> QED BY <3>1, <3>2, <3>3, CarriesAll
    <2> QED BY <1>4, <2>1, <2>2
  <1> QED BY <1>1, <1>2, <1>3, <1>4

\* Past the matching, the columns stay where they are, or move to where they are found.
LEMMA Keeping ==
  ASSUME NEW a \in Nodes, NEW k, NEW st, NEW st2, NEW d \in Data, NEW e \in Data, Comes(a, k, d, st),
         e.tables = d.tables, Doomed(d) => Doomed(e), ~d.complete => ~e.complete \/ a \notin MatchNodes \cup Reviewing,
         a \notin EarlyNodes, a # "schema_semantic_node",
         Successor(a, e) # End => Carries(Found(a, d), Found(Successor(a, e), e)),
         a = "schema_preprocess_node" /\ e.open # {} => st2 = "step_paused"
  PROVE  Passes(a, k, e, st2)
  <1> DEFINE n == Successor(a, e)
  <1>1. /\ n \notin EarlyNodes \cup {Nowhere, "schema_pre_semantic_node"}
        /\ n \in MatchNodes \cup Reviewing => a \in MatchNodes \cup {"schema_human_review_node"}
        /\ n = "schema_semantic_node" => a = "schema_preprocess_node" /\ e.open # {}
    BY DEF Successor, AfterPreprocess, Nodes, StepNodes, GateNodes, EarlyNodes, MatchNodes, Reviewing,
           Nowhere, End
  <1>2. a \notin EarlyNodes \cup {Nowhere, End}
    BY DEF Nowhere, End, Nodes, StepNodes, GateNodes
  <1>3. Whole(a, d) => Whole(n, e)
    <2> SUFFICES ASSUME Whole(a, d), e.tables, n # End PROVE Carries(Columns, Found(n, e))
      BY DEF Whole
    <2>1. Carries(Columns, Found(a, d))
      BY <1>2 DEF Whole
    <2> HIDE DEF n
    <2> QED BY <2>1, CarriesAll DEF n
  <1>4. Fine(n, e)
    <2> HIDE DEF n
    <2>1. n \in MatchNodes \cup Reviewing => ~e.complete
      BY <1>1 DEF Comes, Fine, Reviewing
    <2> QED BY <1>1, <2>1 DEF Fine, EarlyNodes
  <1>5. ~Whole(n, e) => Doomed(e) /\ a \in Reviewing /\ k = "advance"
    BY <1>3 DEF Comes
  <1>6. n = "schema_semantic_node" => st2 = "step_paused"
    BY <1>1
  <1>7. n # "schema_deterministic_node"
    BY <1>1 DEF EarlyNodes
  <1> QED BY <1>4, <1>5, <1>6, <1>7 DEF Passes

\* A node behind the matching that moves no column.
LEMMA Leaving ==
  ASSUME NEW a \in Nodes \ (EarlyNodes \cup MatchNodes), NEW d \in Data, NEW e \in Data,
         Placed(d) \cup TakenOut(d) \subseteq Placed(e) \cup TakenOut(e)
  PROVE  Carries(Found(a, d), Found(Successor(a, e), e))
  <1>1. Successor(a, e) \notin MatchNodes
    BY DEF Successor, Nodes, StepNodes, GateNodes, EarlyNodes, MatchNodes, End
  <1> QED BY <1>1, CarriesAll DEF Found

-----------------------------------------------------------------------------
LEMMA StepGuard ==
  ASSUME IInv, Calm, Calm', Guarded, NEW s \in Slots, Step(s)
  PROVE  Guarded'
  <1> DEFINE a == run[s].at
             k == run[s].kind
             d == run[s].data
  <1>0. /\ TypeOK /\ d \in Data /\ run[s].pc = "node" /\ Sole(s) /\ UNCHANGED ckpt
        /\ a \in Nodes
    <2>1. run[s].pc = "node" /\ UNCHANGED ckpt
      BY DEF Step, CanonicalSchema, SchemaIngest, Deterministic, NoTables, Preprocess, Semantic,
         EmbeddingFails, Hierarchy, Output, StepFail, At, StepPause, Quietly, World
    <2>2. a \in Nodes
      BY <2>1 DEF IInv, KInv, Inside
    <2> QED BY <2>1, <2>2, SlotFacts, SoleBusy
  <1>c. Comes(a, k, d, job.status)
    BY <1>0, Inward
  <1>p. ASSUME NEW e \in Data, StepPause(s, e) PROVE Yield(s, "done", e) /\ job'.status = "step_paused"
    <2>1. job' = [status |-> "step_paused", gate |-> run[s].at]
      BY <1>0, <1>p, StoreCalm DEF StepPause
    <2> QED BY <1>p, <2>1 DEF StepPause
  <1>1. CASE CanonicalSchema(s)
    <2>1. a = "canonical_schema_node" /\ StepPause(s, d)
      BY <1>1 DEF CanonicalSchema, At
    <2>2. Passes(a, k, d, job'.status)
      BY <1>0, <1>c, <2>1, Matching DEF Comes, Fine, EarlyNodes
    <2> QED BY <1>0, <1>p, <2>1, <2>2, YieldGuard
  <1>2. CASE SchemaIngest(s)
    <2>1. PICK text \in BOOLEAN : StepPause(s, [d EXCEPT !.tables = TRUE, !.text = text])
      BY <1>2 DEF SchemaIngest
    <2> DEFINE e == [d EXCEPT !.tables = TRUE, !.text = text]
    <2>2. e \in Data /\ e.complete = d.complete
      BY <1>0 DEF Data
    <2>3. a = "schema_ingest_node" /\ ~d.complete /\ ~d.tables
      BY <1>2, <1>c DEF SchemaIngest, At, Comes, Fine, EarlyNodes
    <2> HIDE DEF e
    <2>4. Yield(s, "done", e) /\ job'.status = "step_paused"
      BY <1>p, <2>1, <2>2 DEF e
    <2>5. Passes(a, k, e, job'.status)
      BY <1>0, <2>2, <2>3, <2>4, Matching
    <2> QED BY <1>0, <2>2, <2>4, <2>5, YieldGuard
  <1>3. CASE Deterministic(s)
    <2>1. PICK matched \in SUBSET Columns : \E shown \in SUBSET matched :
             StepPause(s, [d EXCEPT !.t1 = matched, !.shown = shown, !.open = Columns \ matched])
      BY <1>3 DEF Deterministic
    <2>2. PICK shown \in SUBSET matched :
             StepPause(s, [d EXCEPT !.t1 = matched, !.shown = shown, !.open = Columns \ matched])
      BY <2>1
    <2> DEFINE e == [d EXCEPT !.t1 = matched, !.shown = shown, !.open = Columns \ matched]
    <2>3. /\ e \in Data /\ e.complete = d.complete /\ e.tables = d.tables
          /\ Columns \subseteq e.t1 \cup e.open
      BY <1>0 DEF Data
    <2>4. a = "schema_deterministic_node" /\ ~d.complete
      BY <1>3, <1>c DEF Deterministic, At, Comes, Fine, EarlyNodes
    <2> HIDE DEF e
    <2>5. Yield(s, "done", e)
      BY <1>p, <2>2, <2>3 DEF e
    <2>6. Passes(a, k, e, job'.status)
      BY <1>0, <2>3, <2>4, Matching
    <2> QED BY <1>0, <2>3, <2>5, <2>6, YieldGuard
  <1>4. CASE NoTables(s)
    <2>1. /\ a \in {"schema_deterministic_node", "schema_hierarchy_node"}
          /\ ~d.tables /\ Yield(s, "done", d) /\ job' = job
      BY <1>4 DEF NoTables, At, Quietly
    <2>2. Passes(a, k, d, job'.status)
      <3>1. CASE a = "schema_deterministic_node"
        BY <1>0, <1>c, <2>1, <3>1, Matching DEF Comes, Fine, EarlyNodes
      <3>2. CASE a = "schema_hierarchy_node"
        BY <1>0, <1>c, <2>1, <3>2, Keeping, Leaving DEF EarlyNodes, MatchNodes
      <3> QED BY <2>1, <3>1, <3>2
    <2> QED BY <1>0, <2>1, <2>2, YieldGuard
  <1>5. CASE Preprocess(s)
    <2> DEFINE filed == {FirstNamed[c] : c \in d.sent}
               e == IF d.open \cup d.sent = {} THEN d
                    ELSE [d EXCEPT !.open = @ \cup filed, !.sent = {}]
    <2>1. a = "schema_preprocess_node"
          /\ IF d.open \cup d.sent = {} THEN Quietly(s, e) ELSE StepPause(s, e)
      BY <1>5 DEF Preprocess, At
    <2>2. /\ e \in Data /\ e.tables = d.tables /\ e.complete = d.complete /\ e.err = d.err
          /\ e.t1 = d.t1 /\ e.extra = d.extra /\ e.open = d.open \cup filed
          /\ d.open \cup d.sent = {} => e.open = {}
      <3>1. filed \in SUBSET Columns /\ (d.sent = {} => filed = {})
        BY <1>0, NamesAssumption DEF Data
      <3> HIDE DEF filed
      <3> QED BY <1>0, <3>1 DEF Data
    <2>3. Carries(d.sent, filed)
      BY <1>0, NamesAssumption DEF Carries, Data
    <2> HIDE DEF e, filed
    <2>4. Yield(s, "done", e) /\ (e.open # {} => job'.status = "step_paused")
      BY <1>0, <1>p, <2>1, <2>2 DEF Quietly
    <2>5. Carries(Found(a, d), Found(Successor(a, e), e))
      <3>1. Successor(a, e) = IF e.open = {} THEN "schema_human_review_node" ELSE "schema_semantic_node"
        BY <2>1 DEF Successor, AfterPreprocess
      <3>2. e.t1 \cup e.open \cup e.extra \subseteq Found(Successor(a, e), e)
        BY <3>1 DEF Found, Placed, MatchNodes
      <3>3. Carries(Found(a, d), e.t1 \cup e.open \cup e.extra)
        BY <2>1, <2>2, <2>3 DEF Found, Carries, MatchNodes
      <3> QED BY <3>2, <3>3 DEF Carries
    <2>6. Passes(a, k, e, job'.status)
      BY <1>0, <1>c, <2>1, <2>2, <2>4, <2>5, Keeping DEF EarlyNodes, Doomed
    <2> QED BY <1>0, <2>2, <2>4, <2>6, YieldGuard
  <1>6. CASE Semantic(s)
    <2>1. PICK kept \in Keepable(d.open) : \E auto, flagged \in SUBSET kept :
             StepPause(s, [d EXCEPT !.auto = auto, !.flagged = flagged,
                                    !.unmappable = kept \ (auto \cup flagged)])
      BY <1>6 DEF Semantic
    <2>6. PICK auto \in SUBSET kept, flagged \in SUBSET kept :
             StepPause(s, [d EXCEPT !.auto = auto, !.flagged = flagged,
                                    !.unmappable = kept \ (auto \cup flagged)])
      BY <2>1
    <2>7. kept \subseteq Columns /\ Carries(d.open, kept)
      BY <1>0 DEF Data, Keepable
    <2> DEFINE e == [d EXCEPT !.auto = auto, !.flagged = flagged,
                              !.unmappable = kept \ (auto \cup flagged)]
    <2>2. /\ e \in Data /\ e.tables = d.tables /\ e.complete = d.complete
          /\ e.t1 = d.t1 /\ e.extra = d.extra
          /\ Carries(d.open, e.auto \cup e.flagged \cup e.unmappable)
      <3>1. /\ e \in Data /\ e.tables = d.tables /\ e.complete = d.complete
            /\ e.t1 = d.t1 /\ e.extra = d.extra
            /\ kept = e.auto \cup e.flagged \cup e.unmappable
        BY <1>0, <2>7 DEF Data
      <3> QED BY <2>7, <3>1
    <2> HIDE DEF e
    <2>3. Yield(s, "done", e) /\ job'.status = "step_paused" /\ a = "schema_semantic_node"
      BY <1>6, <1>p, <2>2, <2>6 DEF e, Semantic, At
    <2>4. Comes(a, k, d, job'.status)
      BY <1>c, <2>3 DEF Comes
    <2>5. Passes(a, k, e, job'.status)
      BY <1>0, <2>2, <2>3, <2>4, Matching
    <2> QED BY <1>0, <2>2, <2>3, <2>5, YieldGuard
  <1>7. CASE EmbeddingFails(s)
    <2> DEFINE e == [d EXCEPT !.unmappable = d.open]
    <2>1. /\ e \in Data /\ e.tables = d.tables /\ e.complete = d.complete
          /\ e.t1 = d.t1 /\ e.extra = d.extra
          /\ Carries(d.open, e.auto \cup e.flagged \cup e.unmappable)
      BY <1>0 DEF Data, Carries
    <2>2. Yield(s, "done", e) /\ job' = job /\ a = "schema_semantic_node"
      BY <1>7 DEF EmbeddingFails, At
    <2> HIDE DEF e
    <2>3. job'.status = "step_paused"
      BY <1>c, <2>2 DEF Comes
    <2>4. Passes(a, k, e, job'.status)
      BY <1>0, <1>c, <2>1, <2>2, <2>3, Matching
    <2> QED BY <1>0, <2>1, <2>2, <2>4, YieldGuard
  <1>8. CASE Hierarchy(s)
    <2>1. a = "schema_hierarchy_node" /\ StepPause(s, d)
      BY <1>8 DEF Hierarchy, At
    <2>2. Passes(a, k, d, job'.status)
      BY <1>0, <1>c, <2>1, Keeping, Leaving DEF EarlyNodes, MatchNodes
    <2> QED BY <1>0, <1>p, <2>1, <2>2, YieldGuard
  <1>9. CASE Output(s)
    <2> DEFINE e == [d EXCEPT !.complete = TRUE]
    <2>1. /\ e \in Data /\ e.tables = d.tables
          /\ Placed(e) \cup TakenOut(e) = Placed(d) \cup TakenOut(d)
      BY <1>0 DEF Data, Placed, TakenOut
    <2>2. a = "schema_output_node" /\ StepPause(s, e)
      BY <1>9 DEF Output, At
    <2> HIDE DEF e
    <2>3. Passes(a, k, e, job'.status)
      <3>1. Successor(a, e) = "schema_artifacts_review_node"
        BY <2>2 DEF Successor
      <3>2. Whole(a, d)
        BY <1>c, <2>2 DEF Comes, Reviewing
      <3>3. Whole("schema_artifacts_review_node", e)
        BY <2>1, <2>2, <3>2 DEF Whole, Found, MatchNodes, EarlyNodes, Nowhere, End
      <3> QED BY <2>2, <3>1, <3>3 DEF Passes, Fine, EarlyNodes, MatchNodes, Reviewing
    <2> QED BY <1>0, <1>p, <2>1, <2>2, <2>3, YieldGuard
  <1>10. CASE StepFail(s)
    <2> DEFINE e == [d EXCEPT !.err = TRUE]
    <2>1. /\ e \in Data /\ e.tables = d.tables /\ e.complete = d.complete /\ e.err
          /\ Placed(e) \cup TakenOut(e) = Placed(d) \cup TakenOut(d)
      BY <1>0 DEF Data, Placed, TakenOut
    <2>2. /\ Yield(s, "done", e) /\ job' = job /\ a \in StepNodes
          /\ a = "schema_deterministic_node" => d.tables
      BY <1>10 DEF StepFail
    <2> HIDE DEF e
    <2>3. Passes(a, k, e, job'.status)
      <3>1. CASE a = "canonical_schema_node"
        BY <1>0, <1>c, <2>1, <3>1, Matching DEF Comes, Fine, EarlyNodes
      <3>2. CASE a = "schema_ingest_node"
        BY <1>0, <1>c, <2>1, <3>2, Matching DEF Comes, Fine, EarlyNodes
      <3>3. CASE a = "schema_deterministic_node"
        <4>1. k = "advance" /\ ~d.complete
          BY <1>c, <2>2, <3>3 DEF Comes, Fine, EarlyNodes
        <4> QED BY <1>0, <2>1, <3>3, <4>1, Matching
      <3>4. CASE a = "schema_semantic_node"
        <4>1. job'.status = "step_paused" /\ Comes("schema_semantic_node", k, d, job'.status)
          BY <1>c, <2>2, <3>4 DEF Comes
        <4> QED BY <1>0, <2>1, <3>4, <4>1, Matching
      <3>5. CASE a \in {"schema_hierarchy_node", "schema_output_node"}
        <4>1. Doomed(d) => Doomed(e)
          BY <2>1 DEF Doomed
        <4>2. a \notin MatchNodes \cup EarlyNodes
          BY <3>5 DEF MatchNodes, EarlyNodes
        <4> QED BY <1>0, <1>c, <2>1, <3>5, <4>1, <4>2, Keeping, Leaving
      <3> QED BY <2>2, <3>1, <3>2, <3>3, <3>4, <3>5 DEF StepNodes
    <2> QED BY <1>0, <2>1, <2>2, <2>3, YieldGuard
  <1> QED BY <1>1, <1>2, <1>3, <1>4, <1>5, <1>6, <1>7, <1>8, <1>9, <1>10 DEF Step

LEMMA GateGuard ==
  ASSUME IInv, Calm, Calm', Guarded, NEW s \in Slots, Gate(s)
  PROVE  Guarded'
  <1> DEFINE a == run[s].at
             k == run[s].kind
             d == run[s].data
  <1>0. /\ TypeOK /\ d \in Data /\ run[s].pc \in {"node", "asked"} /\ Sole(s) /\ UNCHANGED ckpt
        /\ a \in Nodes
    <2>1. run[s].pc \in {"node", "asked"} /\ UNCHANGED ckpt
      BY DEF Gate, GateSkip, GateAsk, GateInterrupt, PreSemanticDecide, HumanReviewDecide,
         DecisionRaises, ArtifactsDecide, VerifyHierarchy, Answered, At, StepPause, Quietly, Resolve, World
    <2>2. a \in Nodes
      BY <2>1 DEF IInv, KInv, Inside
    <2> QED BY <2>1, <2>2, SlotFacts, SoleBusy
  <1>c. /\ Comes(a, k, d, job.status)
        /\ run[s].pc = "asked" => a \in GateNodes
    BY <1>0, Inward
  <1>g. a \in GateNodes => /\ a \notin EarlyNodes /\ a # "schema_semantic_node"
                           /\ a # "schema_preprocess_node"
                           /\ a \in MatchNodes => a = "schema_pre_semantic_node"
    BY DEF GateNodes, EarlyNodes, MatchNodes
  <1>1. CASE GateSkip(s)
    <2>1. Yield(s, "done", d) /\ a \in GateNodes
      BY <1>1 DEF GateSkip, Quietly
    <2>2. Carries(Found(a, d), Found(Successor(a, d), d))
      <3>1. CASE a = "schema_pre_semantic_node"
        <4>1. Successor(a, d) = "schema_preprocess_node"
          BY <3>1 DEF Successor
        <4>2. Found(a, d) \subseteq Found("schema_preprocess_node", d)
          BY <3>1 DEF Found, MatchNodes
        <4> QED BY <4>1, <4>2, CarriesAll
      <3>2. CASE a # "schema_pre_semantic_node"
        BY <1>0, <1>g, <2>1, <3>2, Leaving
      <3> QED BY <3>1, <3>2
    <2>3. Passes(a, k, d, job'.status)
      BY <1>0, <1>c, <1>g, <2>1, <2>2, Keeping
    <2> QED BY <1>0, <2>1, <2>3, YieldGuard
  <1>2. CASE GateAsk(s)
    <2>1. PICK r \in Runs : /\ Moved(s, r)
                            /\ r.pc = "asked" /\ r.at = a /\ r.data = d /\ r.kind = k
      BY <1>0, <1>2, GotoEffect DEF GateAsk, Phases
    <2> QED BY <1>0, <1>2, <2>1, OnStep DEF GateAsk
  <1>3. CASE GateInterrupt(s)
    <2>1. PICK r \in Runs : /\ Moved(s, r)
                            /\ r.pc = "finish" /\ r.at = a /\ r.data = d /\ r.kind = k
      BY <1>0, <1>3, GotoEffect DEF GateInterrupt, Phases
    <2> QED BY <1>0, <1>3, <1>c, <2>1, OnStep DEF GateInterrupt
  <1>4. CASE PreSemanticDecide(s)
    <2>1. PICK back \in SUBSET d.shown, new \in SUBSET Columns :
            Resolve(s, [d EXCEPT !.shown = {}, !.t1 = (@ \ back) \cup new,
                                 !.open = @ \ new, !.sent = back, !.extra = @ \cup new,
                                 !.asked = @ \cup new])
      BY <1>4 DEF PreSemanticDecide
    <2> DEFINE e == [d EXCEPT !.shown = {}, !.t1 = (@ \ back) \cup new,
                              !.open = @ \ new, !.sent = back, !.extra = @ \cup new,
                              !.asked = @ \cup new]
    <2>2. /\ e \in Data /\ e.tables = d.tables /\ e.complete = d.complete /\ e.err = d.err
          /\ d.t1 \cup d.open \cup d.extra \subseteq e.t1 \cup e.open \cup e.extra \cup e.sent
      BY <1>0 DEF Data
    <2>3. Yield(s, "done", e) /\ a = "schema_pre_semantic_node"
      BY <1>4, <2>1 DEF PreSemanticDecide, Answered, Resolve
    <2> HIDE DEF e
    <2>4. Carries(Found(a, d), Found(Successor(a, e), e))
      <3>1. Successor(a, e) = "schema_preprocess_node"
        BY <2>3 DEF Successor
      <3>2. Found(a, d) \subseteq Found("schema_preprocess_node", e)
        BY <2>2, <2>3 DEF Found, MatchNodes
      <3> QED BY <3>1, <3>2, CarriesAll
    <2>5. Passes(a, k, e, job'.status)
      BY <1>0, <1>c, <2>2, <2>3, <2>4, Keeping DEF Doomed, EarlyNodes, MatchNodes
    <2> QED BY <1>0, <2>2, <2>3, <2>5, YieldGuard
  <1>5. CASE HumanReviewDecide(s)
    <2> DEFINE Answer(named, back, stored, text, rejected) ==
                 [d EXCEPT !.t1 = (@ \ named) \cup back, !.extra = @ \cup stored,
                           !.auto = @ \ text, !.open = {}, !.text = FALSE,
                           !.rejected = @ \cup rejected,
                           !.unplaced = @ \cup ((named \cap d.t1) \ (back \cup stored \cup rejected))]
    <2>1. PICK named \in SUBSET Columns : \E back, stored \in SUBSET named :
            \E text \in SUBSET stored, rejected \in SUBSET ((named \cap d.t1) \ (back \cup stored)) :
            Resolve(s, Answer(named, back, stored, text, rejected))
      BY <1>5 DEF HumanReviewDecide
    <2>2. PICK back \in SUBSET named, stored \in SUBSET named :
            \E text \in SUBSET stored, rejected \in SUBSET ((named \cap d.t1) \ (back \cup stored)) :
            Resolve(s, Answer(named, back, stored, text, rejected))
      BY <2>1
    <2>3. PICK text \in SUBSET stored, rejected \in SUBSET ((named \cap d.t1) \ (back \cup stored)) :
            Resolve(s, Answer(named, back, stored, text, rejected))
      BY <2>2
    <2> DEFINE e == Answer(named, back, stored, text, rejected)
    <2>4. e \in Data /\ e.tables = d.tables /\ e.complete = d.complete /\ e.err = d.err
      BY <1>0 DEF Data
    <2>5. Placed(d) \cup TakenOut(d) \subseteq Placed(e) \cup TakenOut(e)
      <3>1. /\ e.t1 = (d.t1 \ named) \cup back /\ e.extra = d.extra \cup stored
            /\ e.auto = d.auto \ text /\ e.flagged = d.flagged /\ e.unmappable = d.unmappable
            /\ e.rejected = d.rejected \cup rejected
            /\ e.unplaced = d.unplaced \cup ((named \cap d.t1) \ (back \cup stored \cup rejected))
        BY <1>0 DEF Data
      <3> HIDE DEF e
      <3> QED BY <3>1 DEF Placed, TakenOut
    <2>6. Yield(s, "done", e) /\ a = "schema_human_review_node"
      BY <1>5, <2>3 DEF HumanReviewDecide, Answered, Resolve
    <2> HIDE DEF e
    <2>7. Passes(a, k, e, job'.status)
      BY <1>0, <1>c, <2>4, <2>5, <2>6, Keeping, Leaving DEF Doomed, EarlyNodes, MatchNodes
    <2> QED BY <1>0, <2>4, <2>6, <2>7, YieldGuard
  <1>6. CASE DecisionRaises(s)
    <2>1. PICK r \in Runs : /\ Moved(s, r)
                            /\ r.pc = "raised" /\ r.at = a /\ r.data = d /\ r.kind = k
      BY <1>0, <1>6, GotoEffect DEF DecisionRaises, Phases
    <2> QED BY <1>0, <1>6, <1>c, <2>1, OnStep DEF DecisionRaises, Answered
  <1>7. CASE ArtifactsDecide(s)
    <2> DEFINE b == d.reviewed \/ run[s].val = "artifacts_review"
               e == [d EXCEPT !.reviewed = b]
    <2>1. /\ e \in Data /\ e.tables = d.tables /\ e.complete = d.complete /\ e.err = d.err
          /\ Placed(e) \cup TakenOut(e) = Placed(d) \cup TakenOut(d)
      BY <1>0 DEF Data, Placed, TakenOut
    <2>2. Yield(s, "done", e) /\ a = "schema_artifacts_review_node"
      BY <1>7 DEF ArtifactsDecide, Answered, Resolve
    <2> HIDE DEF e
    <2>3. Passes(a, k, e, job'.status)
      BY <1>0, <1>c, <2>1, <2>2, Keeping, Leaving DEF Doomed, EarlyNodes, MatchNodes, Reviewing
    <2> QED BY <1>0, <2>1, <2>2, <2>3, YieldGuard
  <1>8. CASE VerifyHierarchy(s)
    <2> DEFINE e == [d EXCEPT !.hierarchy = TRUE]
               f == [d EXCEPT !.err = TRUE, !.complete = FALSE]
    <2>1. /\ e \in Data /\ e.tables = d.tables /\ e.complete = d.complete /\ e.err = d.err
          /\ Placed(e) \cup TakenOut(e) = Placed(d) \cup TakenOut(d)
      BY <1>0 DEF Data, Placed, TakenOut
    <2>2. /\ f \in Data /\ f.tables = d.tables /\ ~f.complete /\ f.err
          /\ Placed(f) \cup TakenOut(f) = Placed(d) \cup TakenOut(d)
      BY <1>0 DEF Data, Placed, TakenOut
    <2>3. a = "schema_verify_hierarchy_node" /\ (StepPause(s, e) \/ StepPause(s, f))
      BY <1>8 DEF VerifyHierarchy, At
    <2> HIDE DEF e, f
    <2>4. Passes(a, k, e, job'.status) /\ Passes(a, k, f, job'.status)
      BY <1>0, <1>c, <2>1, <2>2, <2>3, Keeping, Leaving DEF Doomed, EarlyNodes, MatchNodes, Reviewing
    <2>5. Yield(s, "done", e) \/ Yield(s, "done", f)
      BY <2>3 DEF StepPause
    <2> QED BY <1>0, <2>1, <2>2, <2>4, <2>5, YieldGuard
  <1> QED BY <1>1, <1>2, <1>3, <1>4, <1>5, <1>6, <1>7, <1>8 DEF Gate

LEMMA WriteGuard ==
  ASSUME IInv, Calm, Calm', Guarded, NEW s \in Slots, Write(s)
  PROVE  Guarded'
  <1> DEFINE a == run[s].at
             k == run[s].kind
             d == run[s].data
             e == [Cleared(d) EXCEPT !.err = TRUE]
             f == [Cleared(d) EXCEPT !.complete = TRUE]
  <1>0. /\ TypeOK /\ d \in Data /\ run[s].pc \in {"node", "written"} /\ Sole(s) /\ UNCHANGED ckpt
        /\ run[s].pc = "node" => a = "schema_write_node"
    <2>1. /\ run[s].pc \in {"node", "written"} /\ UNCHANGED ckpt
          /\ run[s].pc = "node" => a = "schema_write_node"
      BY DEF Write, WriteSchema, WriteSchemaFail, WriteAudit, WriteAuditFail, At, World
    <2> QED BY <2>1, SlotFacts, SoleBusy
  <1>c. Comes(a, k, d, job.status) /\ a = "schema_write_node" /\ a \in Nodes
    BY <1>0, Inward DEF Nodes
  <1>1. e \in Data /\ f \in Data
    <2>1. e \in Data
      BY <1>0 DEF Data, Cleared, Fresh
    <2>2. f \in Data
      BY <1>0 DEF Data, Cleared, Fresh
    <2> QED BY <2>1, <2>2
  <1>2. CASE WriteSchema(s)
    <2>1. PICK r \in Runs : /\ Moved(s, r)
                            /\ r.pc = "written" /\ r.at = a /\ r.data = d /\ r.kind = k
      BY <1>0, <1>2, GotoEffect DEF WriteSchema, Phases
    <2> QED BY <1>0, <1>2, <1>c, <2>1, OnStep DEF WriteSchema, At
  <1> HIDE DEF e, f
  <1>3. ASSUME NEW g \in Data PROVE Passes(a, k, g, job'.status)
    <2>1. Successor(a, g) = End
      BY <1>c DEF Successor
    <2> QED BY <1>c, <2>1 DEF Passes, Fine, Whole, EarlyNodes, MatchNodes, Reviewing, End
  <1>4. CASE WriteSchemaFail(s) \/ WriteAuditFail(s)
    <2>1. Yield(s, "done", e)
      BY <1>4 DEF WriteSchemaFail, WriteAuditFail, e
    <2> QED BY <1>0, <1>1, <1>3, <2>1, YieldGuard
  <1>5. CASE WriteAudit(s)
    <2>1. Yield(s, "done", f)
      BY <1>5 DEF WriteAudit, f
    <2> QED BY <1>0, <1>1, <1>3, <2>1, YieldGuard
  <1> QED BY <1>2, <1>4, <1>5 DEF Write

-----------------------------------------------------------------------------
\* The runner: a checkpoint is written, read, or the first of the job.
LEMMA CommitGuard ==
  ASSUME IInv, Calm, Calm', Guarded, NEW s \in Slots, CommitCheckpoint(s)
  PROVE  Guarded'
  <1> DEFINE a  == run[s].at
             d  == run[s].data
             n  == Successor(a, d)
             pc == IF a \in StepNodes \/ n = End THEN "finish" ELSE "node"
             r  == [run[s] EXCEPT !.at = n, !.val = NoGate, !.pc = pc]
  <1>0. /\ TypeOK /\ run[s] \in Runs /\ run[s].pc = "done" /\ Sole(s) /\ UNCHANGED job
        /\ ckpt' = [next |-> n, data |-> d]
    BY SlotFacts, SoleBusy DEF CommitCheckpoint
  <1>1. run' = [run EXCEPT ![s] = r]
    BY <1>0 DEF CommitCheckpoint, TypeOK
  <1>2. run'[s] = r /\ \A t \in Slots : t # s => run'[t] = run[t] /\ run[t].pc = "idle"
    BY <1>0, <1>1 DEF TypeOK, Sole
  <1>3. r.pc = pc /\ r.at = n /\ r.data = d /\ r.kind = run[s].kind
    BY <1>0 DEF Runs
  <1>4. Passes(a, run[s].kind, d, job.status) /\ a \in Nodes
    BY <1>0 DEF Guarded, Ready, IInv, KInv, Inside
  <1>5. /\ ckpt'.next = n /\ ckpt'.data = d /\ pc \in {"finish", "node"}
        /\ a \in StepNodes => pc = "finish"
    BY <1>0
  <1>6. /\ a = "schema_semantic_node" => n = "schema_human_review_node"
        /\ a = "schema_human_review_node" => n = "schema_hierarchy_node" /\ pc = "node"
        /\ n = "schema_deterministic_node" => a \in StepNodes
        /\ n = "schema_semantic_node" => pc = "node"
    BY <1>4 DEF Successor, AfterPreprocess, Nodes, StepNodes, GateNodes, End
  <1> HIDE DEF a, d, n, pc, r
  <1>7. \A t \in Slots : Synced(t)' /\ Ready(t)'
    BY <1>2, <1>3, <1>5 DEF Synced, Ready, Inside
  <1>8. Paused' <=> job.status = "step_paused"
    BY <1>0 DEF Paused
  <1>9. job.status = "step_paused" /\ pc = "finish" => Held'
    BY <1>2, <1>3, <1>8 DEF Held
  <1>10. run[s].kind = "advance" => IF pc = "finish" THEN Ending' ELSE Going'
    BY <1>2, <1>3, <1>5 DEF Ending, Going
  <1>11. ~Whole(n, d) => Doomed(d) /\ (Ending' \/ (n \in Reviewing /\ (Held' \/ Going')))
    <2> SUFFICES ASSUME ~Whole(n, d) PROVE Doomed(d) /\ (Ending' \/ (n \in Reviewing /\ (Held' \/ Going')))
      OBVIOUS
    <2>1. CASE a = "schema_semantic_node"
      BY <1>4, <1>5, <1>6, <1>9, <2>1 DEF Passes, n, Reviewing, StepNodes
    <2>2. CASE a \in {"schema_deterministic_node", "schema_hierarchy_node"} /\ run[s].kind = "advance"
      BY <1>4, <1>5, <1>10, <2>2 DEF Passes, n, StepNodes
    <2>3. CASE a = "schema_human_review_node" /\ run[s].kind = "advance"
      BY <1>4, <1>6, <1>10, <2>3 DEF Passes, n, Reviewing
    <2> QED BY <1>4, <2>1, <2>2, <2>3 DEF Passes, n, Reviewing
  <1>12. Fine(n, d)
    BY <1>4 DEF Passes, n
  <1>13. n = "schema_deterministic_node" /\ d.tables => Held'
    BY <1>4, <1>5, <1>6, <1>9 DEF Passes, n
  <1>14. n = "schema_semantic_node" => Paused' /\ \E t \in Slots : run'[t].pc \in {"node", "done"}
    BY <1>2, <1>3, <1>4, <1>6, <1>8 DEF Passes, n
  <1>15. Stopped'
    BY <1>5, <1>11, <1>12, <1>13, <1>14 DEF Stopped
  <1> QED BY <1>7, <1>15 DEF Guarded

LEMMA BeginGuard ==
  ASSUME IInv, Calm, Calm', Guarded, NEW s \in Slots, BeginRun(s)
  PROVE  Guarded'
  <1> DEFINE r == [run[s] EXCEPT !.pc = "node", !.at = "canonical_schema_node"]
  <1>0. /\ TypeOK /\ run[s] \in Runs /\ run[s].pc = "load" /\ Sole(s)
        /\ ckpt' = [next |-> "canonical_schema_node", data |-> Fresh]
        /\ run[s].data = Fresh
    BY SlotFacts, SoleBusy DEF BeginRun, Guarded, Synced
  <1>1. run' = [run EXCEPT ![s] = r]
    BY <1>0 DEF BeginRun, TypeOK
  <1>2. run'[s] = r /\ \A t \in Slots : t # s => run'[t] = run[t] /\ run[t].pc = "idle"
    BY <1>0, <1>1 DEF TypeOK, Sole
  <1>3. r.pc = "node" /\ r.at = "canonical_schema_node" /\ r.data = Fresh
    BY <1>0 DEF Runs
  <1>4. \A t \in Slots : Synced(t)' /\ Ready(t)'
    BY <1>0, <1>2, <1>3 DEF Synced, Ready, Inside
  <1>5. Stopped'
    BY <1>0 DEF Stopped, Fine, Whole, Fresh, EarlyNodes, MatchNodes, Reviewing
  <1> QED BY <1>4, <1>5 DEF Guarded

LEMMA LoadGuard ==
  ASSUME IInv, Calm, Calm', Guarded, NEW s \in Slots, LoadCheckpoint(s)
  PROVE  Guarded'
  <1> DEFINE pc == CASE ckpt.next = Nowhere -> "raised"
                     [] ckpt.next = End     -> "finish"
                     [] OTHER               -> "node"
             at == IF ckpt.next \in Nodes THEN ckpt.next ELSE End
             r  == [run[s] EXCEPT !.pc = pc, !.at = at, !.data = ckpt.data]
  <1>0. TypeOK /\ run[s] \in Runs /\ run[s].pc = "load" /\ Sole(s) /\ UNCHANGED <<job, ckpt>>
    BY SlotFacts, SoleBusy DEF LoadCheckpoint, World
  <1>1. /\ pc \in {"raised", "finish", "node"}
        /\ pc = "node" => at = ckpt.next
        /\ pc # "node" => ckpt.next \in {Nowhere, End}
    BY <1>0 DEF TypeOK, Nowhere, End
  <1>2. run' = [run EXCEPT ![s] = r]
    <2>0. run' = [run EXCEPT ![s].pc = pc, ![s].at = at, ![s].data = ckpt.data]
      BY DEF LoadCheckpoint
    <2> HIDE DEF pc, at
    <2> QED BY <1>0, <2>0 DEF TypeOK
  <1>3. run'[s] = r /\ \A t \in Slots : t # s => run'[t] = run[t] /\ run[t].pc = "idle"
    BY <1>0, <1>2 DEF TypeOK, Sole
  <1>4. r.pc = pc /\ r.at = at /\ r.data = ckpt.data /\ r.kind = run[s].kind
    BY <1>0 DEF Runs
  <1> HIDE DEF pc, at, r
  <1>5. \A t \in Slots : Synced(t)' /\ Ready(t)'
    BY <1>0, <1>1, <1>3, <1>4 DEF Synced, Ready, Inside
  <1>6. ~Over /\ ~Held /\ ~Ending /\ (Going => run[s].kind = "advance")
    BY <1>0 DEF Over, AtRest, Held, Ending, Going, Sole
  <1>7. run[s].kind = "advance" /\ pc = "node" => Going'
    BY <1>3, <1>4 DEF Going
  <1>8. ckpt.next # "schema_semantic_node"
    BY <1>0 DEF Guarded, Stopped, Sole
  <1>9. ckpt.next \in Reviewing \cup EarlyNodes => pc = "node"
    BY <1>1 DEF Reviewing, EarlyNodes, Nowhere, End
  <1>10. Stopped'
    <2>1. /\ Fine(ckpt.next, ckpt.data)
          /\ ~Whole(ckpt.next, ckpt.data) =>
               Doomed(ckpt.data) /\ ckpt.next \in Reviewing /\ Going
          /\ ckpt.next = "schema_deterministic_node" /\ ckpt.data.tables => Going
      BY <1>6 DEF Guarded, Stopped
    <2>2. ~Whole(ckpt.next, ckpt.data) => Going'
      BY <1>6, <1>7, <1>9, <2>1
    <2>3. ckpt.next = "schema_deterministic_node" /\ ckpt.data.tables => Going'
      BY <1>6, <1>7, <1>9, <2>1 DEF EarlyNodes
    <2> QED BY <1>0, <1>8, <2>1, <2>2, <2>3 DEF Stopped
  <1> QED BY <1>5, <1>10 DEF Guarded

\* A task ends: the error of a doomed state becomes that of the job.
LEMMA EndGuard ==
  ASSUME IInv, Calm, Calm', Guarded, NEW s \in Slots, FinishRun(s) \/ FailRun(s) \/ CancelCommit(s)
  PROVE  Guarded'
  <1>0. /\ TypeOK /\ job \in Row /\ run[s].pc \in {"finish", "raised", "checked"} /\ Sole(s) /\ UNCHANGED ckpt
        /\ Moved(s, Idle)
    BY SlotFacts, SoleBusy, LeaveEffect DEF FinishRun, FailRun, CancelCommit, World
  <1>1. AtRest' /\ run'[s] = Idle /\ Idle.pc = "idle"
    BY <1>0 DEF AtRest, Moved, Sole, Idle
  <1>2. \A t \in Slots : Synced(t)' /\ Ready(t)'
    BY <1>0, <1>1 DEF Synced, Ready, Inside, AtRest
  <1>3. job'.status \in {"error", "cancelled"} => Over'
    BY <1>1 DEF Over
  <1>4. job' = job /\ Held => Held'
    BY <1>0, <1>1 DEF Held, Paused, AtRest
  <1>5. job' = job \/ job'.status \in {"error", "cancelled"}
    BY <1>0 DEF FinishRun, FailRun, CancelCommit, Row
  <1>6. ~Over /\ ~Going /\ ckpt.next # "schema_semantic_node"
    BY <1>0 DEF Over, AtRest, Going, Sole, Guarded, Stopped
  <1>7. Ending /\ Doomed(ckpt.data) => Over'
    <2> SUFFICES ASSUME Ending, Doomed(ckpt.data) PROVE job'.status = "error"
      BY <1>3
    <2>1. run[s].kind = "advance" /\ run[s].pc \in {"finish", "raised"}
      BY <1>0 DEF Ending, Sole
    <2>2. run[s].pc = "finish" => run[s].data = ckpt.data
      BY DEF Guarded, Synced
    <2> QED BY <1>0, <2>1, <2>2 DEF FinishRun, FailRun, CancelCommit, Doomed, Row
  <1>8. Held => Held' \/ Over'
    BY <1>3, <1>4, <1>5
  <1>9. Stopped'
    BY <1>0, <1>6, <1>7, <1>8 DEF Guarded, Stopped
  <1> QED BY <1>2, <1>9 DEF Guarded

-----------------------------------------------------------------------------
LEMMA HandlerGuard ==
  ASSUME IInv, Calm, Calm', Guarded, NEW s \in Slots, Dispatch(s) \/ ResumeSchemaMapping(s)
  PROVE  Guarded'
  <1>0. /\ TypeOK /\ run[s].pc \in {"checked", "queued"} /\ Sole(s) /\ UNCHANGED ckpt
    BY SlotFacts, SoleBusy DEF Dispatch, ResumeSchemaMapping, World
  <1>1. ~Over /\ ~Going /\ ~Ending /\ ckpt.next # "schema_semantic_node"
    BY <1>0 DEF Over, AtRest, Going, Ending, Sole, Guarded, Stopped
  <1>2. CASE Dispatch(s)
    <2>1. PICK r \in Runs : Moved(s, r) /\ r.pc = "load" /\ r.data = run[s].data /\ r.kind = run[s].kind
      BY <1>0, <1>2, GotoEffect DEF Dispatch, Phases
    <2>2. run'[s] = r /\ \A t \in Slots : t # s => run'[t] = run[t] /\ run[t].pc = "idle"
      BY <1>0, <2>1 DEF Moved, Sole
    <2>3. \A t \in Slots : Synced(t)' /\ Ready(t)'
      BY <1>2, <2>1, <2>2 DEF Synced, Ready, Inside, Guarded, Dispatch
    <2>4. Held => Going'
      <3>1. Held => run[s].kind = "advance"
        BY <1>2 DEF Held, Dispatch
      <3> QED BY <2>1, <2>2, <3>1 DEF Going
    <2>5. Stopped'
      BY <1>0, <1>1, <2>4 DEF Guarded, Stopped
    <2> QED BY <2>3, <2>5 DEF Guarded
  <1>3. CASE ResumeSchemaMapping(s)
    <2>1. PICK r \in Runs : Moved(s, r) /\ r.pc \in {"raised", "idle"}
      <3>1. CASE Goto(s, "raised")
        BY <1>0, <3>1, GotoEffect DEF Phases
      <3>2. CASE Leave(s)
        BY <1>0, <3>2, LeaveEffect, IdleType DEF Idle
      <3> QED BY <1>3, <3>1, <3>2 DEF ResumeSchemaMapping
    <2>2. run'[s] = r /\ \A t \in Slots : t # s => run'[t] = run[t] /\ run[t].pc = "idle"
      BY <1>0, <2>1 DEF Moved, Sole
    <2>3. \A t \in Slots : Synced(t)' /\ Ready(t)'
      BY <2>1, <2>2 DEF Synced, Ready, Inside
    <2>4. ~Held
      BY <1>3 DEF Held, ResumeSchemaMapping
    <2>5. Stopped'
      BY <1>0, <1>1, <2>4 DEF Guarded, Stopped
    <2> QED BY <2>3, <2>5 DEF Guarded
  <1> QED BY <1>2, <1>3

\* A request comes to a job at rest; one that is held takes an advance or a cancellation.
LEMMA RequestGuard ==
  ASSUME IInv, Calm, Calm', Guarded, NEW s \in Slots, Request(s)
  PROVE  Guarded'
  <1>1. PICK kind \in Kinds, phase \in {"checked", "load", "queued"},
              val \in GateTypes \cup {NoGate} :
            /\ Arrive(s) /\ Enter(s, kind, phase, val) /\ UNCHANGED ckpt
            /\ \/ UNCHANGED job /\ kind \in {"advance", "cancel"} /\ phase = "checked"
                  /\ job.status \notin {"error", "cancelled"}
               \/ job.status \notin {"step_paused", "error", "cancelled"}
    <2>1. CASE StartSchemaMapping(s)
      BY <2>1 DEF StartSchemaMapping, Kinds, World
    <2>2. CASE AdvanceCheck(s)
      BY <2>2 DEF AdvanceCheck, Kinds, World, GateTypes
    <2>3. CASE KickCheck(s)
      BY <2>3 DEF KickCheck, Kinds, World
    <2>4. CASE CancelCheck(s)
      BY <2>4 DEF CancelCheck, Kinds, World
    <2>5. CASE RetryDdl(s)
      BY <2>5 DEF RetryDdl, Kinds, World
    <2>6. CASE \E g \in GateTypes : GateCheck(s, g)
      BY <2>6 DEF GateCheck, Kinds, World
    <2> QED BY <2>1, <2>2, <2>3, <2>4, <2>5, <2>6 DEF Request
  <1> DEFINE r == [Idle EXCEPT !.pc = phase, !.kind = kind, !.val = val]
  <1>2. r.pc = phase /\ r.kind = kind /\ r.data = Fresh
    BY DEF Idle
  <1>3. \A t \in Slots : run[t].pc = "idle"
    BY <1>1 DEF Arrive, Calm, IInv, TypeOK
  <1>4. run'[s] = r /\ \A t \in Slots : t # s => run'[t] = run[t]
    BY <1>1 DEF Enter, IInv, TypeOK
  <1> HIDE DEF r
  <1>5. \A t \in Slots : Synced(t)' /\ Ready(t)'
    BY <1>2, <1>3, <1>4 DEF Synced, Ready, Inside
  <1>6. ~Over /\ ~Going /\ ~Ending /\ ckpt.next # "schema_semantic_node"
    BY <1>1, <1>3 DEF Over, Going, Ending, Guarded, Stopped
  <1>7. Held => Held'
    BY <1>1, <1>2, <1>3, <1>4 DEF Held, Paused
  <1>8. Stopped'
    BY <1>1, <1>6, <1>7 DEF Guarded, Stopped
  <1> QED BY <1>5, <1>8 DEF Guarded

LEMMA CalmBack == TypeOK /\ [Next]_vars /\ Calm' => Calm /\ ~Crash
  <1> SUFFICES ASSUME TypeOK, [Next]_vars, Calm' PROVE Calm /\ ~Crash OBVIOUS
  <1>1. overlaps \in Nat /\ crashes \in Nat /\ lost \in Nat
    BY DEF TypeOK
  <1>2. ~Crash
    BY <1>1 DEF Crash, Calm
  <1>3. ASSUME NEW s \in Slots, Request(s) PROVE Calm
    <2>1. Arrive(s) /\ UNCHANGED <<crashes, lost>>
      BY <1>3 DEF Request, StartSchemaMapping, AdvanceCheck, KickCheck, CancelCheck, RetryDdl, GateCheck, World
    <2> QED BY <1>1, <2>1 DEF Calm, Arrive
  <1>4. ASSUME NEW s \in Slots, Handler(s) \/ Runner(s) PROVE Calm
    BY <1>4 DEF Handler, Runner, Dispatch, CancelCommit, ResumeSchemaMapping, BeginRun, LoadCheckpoint,
       CommitCheckpoint, FinishRun, FailRun, World, Bounded, Calm
  <1>5. ASSUME NEW s \in Slots, Step(s) \/ Gate(s) \/ Write(s) PROVE Calm
    <2>1. UNCHANGED <<overlaps, crashes>> /\ (lost' = lost \/ lost' = lost + 1)
      BY <1>5 DEF Step, CanonicalSchema, SchemaIngest, Deterministic, NoTables, Preprocess, Semantic,
         EmbeddingFails, Hierarchy, Output, StepFail, Gate, GateSkip, GateAsk, GateInterrupt,
         PreSemanticDecide, HumanReviewDecide, DecisionRaises, ArtifactsDecide, VerifyHierarchy, Write,
         WriteSchema, WriteSchemaFail, WriteAudit, WriteAuditFail, StepPause, Quietly, Resolve, Store,
         World, Bounded
    <2> QED BY <1>1, <2>1 DEF Calm
  <1>6. CASE UNCHANGED vars
    BY <1>2, <1>6 DEF vars, Calm
  <1> QED BY <1>2, <1>3, <1>4, <1>5, <1>6 DEF Next, Proceed

LEMMA NextLInv == IInv /\ LInv /\ [Next]_vars => LInv'
  <1> SUFFICES ASSUME IInv, LInv, [Next]_vars, Calm' PROVE Guarded'
    BY DEF LInv
  <1>0. Calm /\ Guarded /\ ~Crash
    BY CalmBack DEF LInv, IInv
  <1>1. ASSUME NEW s \in Slots, Request(s) PROVE Guarded'
    BY <1>0, <1>1, RequestGuard
  <1>2. ASSUME NEW s \in Slots, Handler(s) \/ Runner(s) PROVE Guarded'
    BY <1>0, <1>2, HandlerGuard, EndGuard, BeginGuard, LoadGuard, CommitGuard DEF Handler, Runner
  <1>3. ASSUME NEW s \in Slots, Step(s) \/ Gate(s) \/ Write(s) PROVE Guarded'
    BY <1>0, <1>3, StepGuard, GateGuard, WriteGuard
  <1>4. CASE UNCHANGED vars
    BY <1>0, <1>4 DEF vars, Guarded, Stopped, Synced, Ready, Over, AtRest, Held, Paused, Going, Ending
  <1> QED BY <1>0, <1>1, <1>2, <1>3, <1>4 DEF Next, Proceed

\* For any external schema, whatever columns share a name in it, and any number of
\* failing nodes: with one request at a time, no crash and no lost update, every
\* field name still has a column where the schema is written from, unless an answer
\* at the field-mapping gate took it out of tier 1.
THEOREM NamesKept == Spec => []OnlyAnswersDiscard
  <1>1. IInv /\ LInv => OnlyAnswersDiscard
    <2> SUFFICES ASSUME IInv, LInv, Calm, NEW s \in Slots, run[s].pc = "written", run[s].data.tables
                 PROVE  Carries(Columns, Placed(run[s].data) \cup TakenOut(run[s].data))
      BY DEF OnlyAnswersDiscard
    <2>1. Guarded /\ Sole(s)
      BY SoleBusy DEF LInv
    <2>2. Comes(run[s].at, run[s].kind, run[s].data, job.status) /\ run[s].at = "schema_write_node"
      BY <2>1, Inward
    <2>3. Whole("schema_write_node", run[s].data)
      BY <2>2 DEF Comes, Reviewing
    <2> QED BY <2>3 DEF Whole, Found, MatchNodes, EarlyNodes, Nowhere, End
  <1> QED BY InitIInv, NextStep, InitLInv, NextLInv, <1>1, PTL DEF Spec
==============================================================================
