------------------------ MODULE ApprovalChain_proofs ------------------------
(***************************************************************************)
(* For any number of steps, approvers, replies and concurrent requests:    *)
(* type correctness, what a rejection and a final approval mean, that the  *)
(* status of a work order only makes the transitions of the table, and     *)
(* that the background poller spends a reply once.                         *)
(***************************************************************************)
EXTENDS ApprovalChain, FiniteSetTheorems, TLAPS

\* A request past its first read works on a step of the chain, an update on a
\* transition of the table.
CallsValid ==
    \A c \in Clients :
        /\ call[c].at \in {"request", "order", "respond"} => call[c].step \in Steps
        /\ call[c].at = "respond" => call[c].wo \in Statuses \cup {"none"}
        /\ call[c].at = "update" => /\ call[c].wo \in Statuses
                                    /\ call[c].new \in ValidTransitions[call[c].wo]

\* Steps were answered in their turn, and no commit relied on a stale row.
InTurn == ~skips /\ ~overlaps

\* Only an unblocked step is approved, and it was unblocked by the approval of all
\* the steps before it.
Ordered ==
    InTurn =>
        /\ \A s \in Steps : rows[s] = "approved" => s \in unblocked
        /\ \A s \in unblocked : /\ rows[s] # "none"
                                /\ \A t \in Steps : t < s => rows[t] = "approved"

\* After a final approval no unblocked step is pending, so that there is no second one.
Finished ==
    finals > 0 =>
        /\ \E s \in Steps : Exists(s)
        /\ InTurn => finals = 1 /\ unblocked \cap Pending = {}

IInv == TypeOK /\ CallsValid /\ JourneyFollows /\ RejectionCloses /\ Ordered /\ Finished /\ FinalMeansAll

-----------------------------------------------------------------------------
LEMMA StepsAreNumbers == Steps \subseteq Nat \ {0}
  <1>1. Cardinality(Steps) \in Nat
    BY StepsAssumption, FS_CardinalityType
  <1> QED BY <1>1, StepsAssumption

LEMMA NoCallType == NoCall \in Call /\ NoCall.at = "idle"
  BY DEF NoCall, Call

LEMMA InitIInv == Init => IInv
  <1> SUFFICES ASSUME Init PROVE IInv OBVIOUS
  <1>1. TypeOK
    <2>1. calls \in 0..MaxCalls /\ failures \in 0..MaxFailures /\ finals \in Nat
      BY BoundsAssumption DEF Init
    <2>2. call \in [Clients -> Call]
      BY NoCallType DEF Init
    <2> QED BY <2>1, <2>2 DEF Init, TypeOK, RowStates
  <1>2. CallsValid
    BY NoCallType DEF Init, CallsValid
  <1>3. JourneyFollows /\ RejectionCloses /\ Ordered /\ Finished /\ FinalMeansAll
    BY DEF Init, JourneyFollows, RejectionCloses, Ordered, Finished, FinalMeansAll
  <1> QED BY <1>1, <1>2, <1>3 DEF IInv

-----------------------------------------------------------------------------
(* Types and arguments.                                                    *)

LEMMA BeginType ==
  ASSUME TypeOK, NEW c \in Clients, NEW r \in Call, Begin(c, r)
  PROVE  /\ call' \in [Clients -> Call] /\ call'[c] = r
         /\ calls' \in 0..MaxCalls
         /\ \A d \in Clients : d # c => call'[d] = call[d]
  BY BoundsAssumption DEF TypeOK, Begin

LEMMA ReturnType ==
  ASSUME TypeOK, NEW c \in Clients, Return(c)
  PROVE  /\ call' \in [Clients -> Call] /\ call'[c] = NoCall
         /\ \A d \in Clients : d # c => call'[d] = call[d]
  BY NoCallType DEF TypeOK, Return

LEMMA AnswerType ==
  ASSUME TypeOK, NEW c \in Clients, NEW outcome \in {"closed", "preparing", "none"}, Answer(c, outcome)
  PROVE  /\ call' \in [Clients -> Call] /\ call'[c].at \in {"idle", "sort"}
         /\ \A d \in Clients : d # c => call'[d] = call[d]
  BY DEF TypeOK, Answer, NoCall, Call, Statuses

\* The argument of one client's request is valid.
Valid(c) ==
    /\ call[c].at \in {"request", "order", "respond"} => call[c].step \in Steps
    /\ call[c].at = "respond" => call[c].wo \in Statuses \cup {"none"}
    /\ call[c].at = "update" => /\ call[c].wo \in Statuses
                                /\ call[c].new \in ValidTransitions[call[c].wo]

\* Steps that touch neither the order nor the chain.
Quiet ==
    \/ \E c \in Callers : \/ \E new \in Statuses : StatusCheck(c, new)
                          \/ AskApproval(c)
                          \/ \E s \in Steps, ok \in BOOLEAN : Respond(c, s, ok)
    \/ \E m \in Mails : MailArrives(m)
    \/ \E c \in Clients : SelectRequest(c) \/ SelectOrder(c) \/ SortMail(c)
    \/ \E p \in Pollers, m \in Mails : ReadReply(p, m)
    \/ \E p \in Pollers : PollerFails(p)

Untouched == UNCHANGED <<status, journey, rows, unblocked, finals, overlaps, skips>>

LEMMA QuietUntouched == Quiet => Untouched
  BY DEF Quiet, Untouched, StatusCheck, AskApproval, Respond, MailArrives, SelectRequest, SelectOrder,
     SortMail, ReadReply, PollerFails, Order, Chain

LEMMA UntouchedInv ==
  IInv /\ Untouched => JourneyFollows' /\ RejectionCloses' /\ Ordered' /\ Finished' /\ FinalMeansAll'
  BY DEF IInv, Untouched, JourneyFollows, RejectionCloses, Ordered, Finished, FinalMeansAll, InTurn,
     Gapless, Exists, Pending

LEMMA CallerType ==
  ASSUME TypeOK, CallsValid, NEW c \in Callers,
         \/ \E new \in Statuses : StatusCheck(c, new)
         \/ AskApproval(c)
         \/ \E s \in Steps, ok \in BOOLEAN : Respond(c, s, ok)
  PROVE  TypeOK' /\ CallsValid'
  <1>0. c \in Clients
    BY DEF Clients
  <1>1. PICK r \in Call : /\ Begin(c, r)
                          /\ r.at \in {"request", "order", "respond"} => r.step \in Steps
                          /\ r.at # "respond"
                          /\ r.at = "update" => r.wo \in Statuses /\ r.new \in ValidTransitions[r.wo]
    <2>1. ASSUME NEW new \in Statuses, StatusCheck(c, new)
          PROVE  \E r \in Call : /\ Begin(c, r)
                                 /\ r.at \in {"request", "order", "respond"} => r.step \in Steps
                                 /\ r.at # "respond"
                                 /\ r.at = "update" => r.wo \in Statuses /\ r.new \in ValidTransitions[r.wo]
      <3> DEFINE r == [NoCall EXCEPT !.at = "update", !.new = new, !.wo = status]
      <3>1. r \in Call /\ r.at = "update" /\ r.wo = status /\ r.new = new
        BY <2>1 DEF TypeOK, NoCall, Call
      <3>2. Begin(c, r) /\ status \in Statuses /\ new \in ValidTransitions[status]
        BY <2>1 DEF StatusCheck, TypeOK
      <3> QED BY <3>1, <3>2
    <2>2. CASE AskApproval(c)
      <3> DEFINE r == [NoCall EXCEPT !.at = "insert"]
      <3>1. r \in Call /\ r.at = "insert" /\ Begin(c, r)
        BY <2>2 DEF AskApproval, NoCall, Call
      <3> QED BY <3>1
    <2>3. ASSUME NEW s \in Steps, NEW ok \in BOOLEAN, Respond(c, s, ok)
          PROVE  \E r \in Call : /\ Begin(c, r)
                                 /\ r.at \in {"request", "order", "respond"} => r.step \in Steps
                                 /\ r.at # "respond"
                                 /\ r.at = "update" => r.wo \in Statuses /\ r.new \in ValidTransitions[r.wo]
      <3> DEFINE r == [NoCall EXCEPT !.at = "request", !.step = s, !.approve = ok]
      <3>1. r \in Call /\ r.at = "request" /\ r.step = s
        BY DEF NoCall, Call
      <3>2. Begin(c, r)
        BY <2>3 DEF Respond
      <3> QED BY <3>1, <3>2
    <2> QED BY <2>1, <2>2, <2>3
  <1>2. UNCHANGED <<status, journey, rows, unblocked, mail, crowded, routed, decided, finals, overlaps, skips, failures>>
    BY DEF StatusCheck, AskApproval, Respond, Order, Chain, Mailbox
  <1>3. /\ call' \in [Clients -> Call] /\ call'[c] = r /\ calls' \in 0..MaxCalls
        /\ \A d \in Clients : d # c => call'[d] = call[d]
    BY <1>0, <1>1, BeginType
  <1>4. TypeOK'
    BY <1>2, <1>3 DEF TypeOK
  <1>5. CallsValid'
    BY <1>1, <1>3 DEF CallsValid
  <1> QED BY <1>4, <1>5

LEMMA ReadType ==
  ASSUME TypeOK, CallsValid, NEW p \in Pollers, NEW m \in Mails, ReadReply(p, m)
  PROVE  TypeOK' /\ CallsValid'
  <1>0. p \in Clients
    BY DEF Clients
  <1>1. PICK s \in Actionable(m) : \E ok \in BOOLEAN :
          call' = [call EXCEPT ![p] = [NoCall EXCEPT !.at = "request", !.step = s,
                                                     !.approve = ok, !.mail = m]]
    BY DEF ReadReply
  <1>2. PICK ok \in BOOLEAN :
          call' = [call EXCEPT ![p] = [NoCall EXCEPT !.at = "request", !.step = s,
                                                     !.approve = ok, !.mail = m]]
    BY <1>1
  <1>3. s \in Steps
    BY DEF Actionable, Pending
  <1>4. /\ call' \in [Clients -> Call] /\ call'[p].at = "request" /\ call'[p].step = s
        /\ \A d \in Clients : d # p => call'[d] = call[d]
    BY <1>0, <1>2, <1>3 DEF TypeOK, NoCall, Call
  <1>5. TypeOK'
    BY <1>4 DEF TypeOK, ReadReply, Order, Chain, Bounds
  <1>6. CallsValid'
    BY <1>3, <1>4 DEF CallsValid
  <1> QED BY <1>5, <1>6

LEMMA SelectType ==
  ASSUME TypeOK, CallsValid, NEW c \in Clients, SelectRequest(c) \/ SelectOrder(c)
  PROVE  TypeOK' /\ CallsValid'
  <1>1. call' \in [Clients -> Call] /\ \A d \in Clients : d # c => call'[d] = call[d]
    BY NoCallType DEF TypeOK, SelectRequest, SelectOrder, Return, Call
  <1>2. /\ call'[c].at \in {"idle", "order", "respond"}
        /\ call'[c].at # "idle" => call'[c].step = call[c].step /\ call[c].step \in Steps
        /\ call'[c].at = "respond" => call'[c].wo \in Statuses \cup {"none"}
    BY NoCallType DEF TypeOK, SelectRequest, SelectOrder, Return, Call, CallsValid
  <1>3. TypeOK'
    BY <1>1 DEF TypeOK, SelectRequest, SelectOrder, Order, Chain, Mailbox, Bounds
  <1>4. CallsValid'
    BY <1>1, <1>2 DEF CallsValid
  <1> QED BY <1>3, <1>4

LEMMA MailType ==
  ASSUME TypeOK, CallsValid,
         \/ \E m \in Mails : MailArrives(m)
         \/ \E c \in Clients : SortMail(c)
         \/ \E p \in Pollers : PollerFails(p)
  PROVE  TypeOK' /\ CallsValid'
  <1>1. CASE \E m \in Mails : MailArrives(m)
    <2>1. UNCHANGED call /\ crowded' \in BOOLEAN
      BY <1>1 DEF MailArrives, TypeOK
    <2>2. TypeOK'
      BY <1>1, <2>1 DEF TypeOK, MailArrives, Order, Chain, Bounds
    <2> QED BY <2>1, <2>2 DEF CallsValid
  <1>2. ASSUME NEW c \in Clients, SortMail(c) PROVE TypeOK' /\ CallsValid'
    <2>1. /\ call' \in [Clients -> Call] /\ call'[c] = NoCall
          /\ \A d \in Clients : d # c => call'[d] = call[d]
      BY <1>2, ReturnType DEF SortMail
    <2>2. TypeOK'
      BY <1>2, <2>1 DEF TypeOK, SortMail, Order, Chain, Bounds
    <2> QED BY <2>1, <2>2, NoCallType DEF CallsValid
  <1>3. ASSUME NEW p \in Pollers, PollerFails(p) PROVE TypeOK' /\ CallsValid'
    <2>0. p \in Clients
      BY DEF Clients
    <2>1. /\ call' \in [Clients -> Call] /\ call'[p] = NoCall
          /\ \A d \in Clients : d # p => call'[d] = call[d]
      BY <1>3, <2>0, ReturnType DEF PollerFails
    <2>2. failures' \in 0..MaxFailures
      BY <1>3, BoundsAssumption DEF PollerFails, TypeOK
    <2>3. mail' \in [Mails -> {"away", "unread", "done"}]
      BY <1>3 DEF PollerFails, TypeOK
    <2>4. TypeOK'
      BY <1>3, <2>1, <2>2, <2>3 DEF TypeOK, PollerFails, Order, Chain
    <2> QED BY <2>1, <2>4, NoCallType DEF CallsValid
  <1> QED BY <1>1, <1>2, <1>3

LEMMA QuietStep == IInv /\ Quiet => IInv'
  <1> SUFFICES ASSUME IInv, Quiet PROVE IInv' OBVIOUS
  <1>1. TypeOK' /\ CallsValid'
    BY CallerType, ReadType, SelectType, MailType DEF IInv, Quiet
  <1> QED BY <1>1, QuietUntouched, UntouchedInv DEF IInv

-----------------------------------------------------------------------------
(* Steps that commit.                                                      *)

LEMMA CreateStep == IInv /\ CreateWorkOrder => IInv'
  <1> SUFFICES ASSUME IInv, CreateWorkOrder PROVE IInv' OBVIOUS
  <1> USE DEF IInv, CreateWorkOrder, Chain, Mailbox, Bounds
  <1>1. TypeOK'
    BY DEF TypeOK, Statuses
  <1>2. CallsValid' /\ JourneyFollows' /\ RejectionCloses'
    BY DEF CallsValid, JourneyFollows, RejectionCloses, Pending
  <1>3. Ordered' /\ Finished' /\ FinalMeansAll'
    BY DEF Ordered, Finished, FinalMeansAll, InTurn, Gapless, Exists, Pending
  <1> QED BY <1>1, <1>2, <1>3

LEMMA StatusStep ==
  ASSUME IInv, NEW c \in Clients, StatusCommit(c)
  PROVE  IInv' /\ (status' # status /\ ~overlaps' => status' \in ValidTransitions[status])
  <1> USE DEF IInv
  <1>1. /\ call[c].at = "update" /\ status' = call[c].new /\ journey' = call[c].new
        /\ overlaps' = (overlaps \/ call[c].wo # status)
        /\ UNCHANGED <<rows, unblocked, mail, crowded, routed, decided, finals, skips, calls, failures>>
    BY DEF StatusCommit, Chain, Mailbox, Bounds
  <1>2. call[c].wo \in Statuses /\ call[c].new \in ValidTransitions[call[c].wo] /\ call[c].new \in Statuses
    <2>1. call[c].wo \in Statuses /\ call[c].new \in ValidTransitions[call[c].wo]
      BY <1>1 DEF CallsValid
    <2> QED BY <2>1 DEF Statuses, ValidTransitions
  <1>3. /\ call' \in [Clients -> Call] /\ call'[c] = NoCall
        /\ \A d \in Clients : d # c => call'[d] = call[d]
    BY ReturnType DEF StatusCommit
  <1>4. TypeOK'
    BY <1>1, <1>2, <1>3 DEF TypeOK
  <1>5. CallsValid'
    BY <1>3, NoCallType DEF CallsValid
  <1>6. JourneyFollows'
    BY <1>1 DEF JourneyFollows
  <1>7. RejectionCloses'
    <2>1. ValidTransitions["closed"] = {}
      BY DEF ValidTransitions
    <2>2. ~overlaps' => ~overlaps /\ status # "closed"
      BY <1>1, <1>2, <2>1
    <2> QED BY <1>1, <2>2 DEF RejectionCloses
  <1>8. ~overlaps' => ~overlaps /\ status = call[c].wo
    BY <1>1 DEF TypeOK
  <1>9. Ordered' /\ Finished' /\ FinalMeansAll'
    BY <1>1, <1>8 DEF Ordered, Finished, FinalMeansAll, InTurn, Gapless, Exists, Pending
  <1> QED BY <1>1, <1>2, <1>4, <1>5, <1>6, <1>7, <1>8, <1>9

LEMMA InsertStep ==
  ASSUME IInv, NEW c \in Clients, InsertRows(c)
  PROVE  IInv' /\ UNCHANGED status
  <1> USE DEF IInv
  <1>1. PICK chain \in Chains :
          IF \E s \in chain : Exists(s)
          THEN UNCHANGED <<rows, unblocked, overlaps>>
          ELSE /\ rows' = [s \in Steps |-> IF s \in chain THEN "pending" ELSE rows[s]]
               /\ unblocked' = unblocked \cup (chain \cap {1})
               /\ overlaps' = (overlaps \/ \E s \in Steps : Exists(s))
    BY DEF InsertRows, Chain
  <1>2. UNCHANGED <<status, journey, mail, crowded, routed, decided, finals, skips, calls, failures>>
    BY DEF InsertRows, Order, Mailbox, Bounds
  <1>3. /\ call' \in [Clients -> Call] /\ call'[c] = NoCall
        /\ \A d \in Clients : d # c => call'[d] = call[d]
    BY ReturnType DEF InsertRows
  <1>4. CallsValid'
    BY <1>3, NoCallType DEF CallsValid
  <1>5. TypeOK'
    <2>1. chain \subseteq Steps
      BY ChainsAssumption
    <2>2. /\ rows' \in [Steps -> RowStates] /\ unblocked' \in SUBSET Steps /\ overlaps' \in BOOLEAN
      BY <1>1, <2>1 DEF TypeOK, RowStates
    <2> QED BY <1>2, <1>3, <2>2 DEF TypeOK
  <1>6. CASE UNCHANGED <<rows, unblocked, overlaps>>
    BY <1>2, <1>4, <1>5, <1>6, UntouchedInv DEF Untouched
  <1>7. CASE overlaps'
    <2>1. \A s \in Steps : rows[s] # "none" => rows'[s] # "none"
      BY <1>1
    <2> QED BY <1>2, <1>4, <1>5, <1>7, <2>1
            DEF JourneyFollows, RejectionCloses, Ordered, Finished, FinalMeansAll, InTurn, Exists
  <1>8. CASE /\ ~overlaps /\ \A s \in Steps : rows[s] = "none"
             /\ rows' = [s \in Steps |-> IF s \in chain THEN "pending" ELSE rows[s]]
             /\ unblocked' = unblocked \cup (chain \cap {1})
             /\ ~overlaps'
    <2>1. finals = 0
      BY <1>8 DEF Finished, Exists, TypeOK
    <2>2. InTurn => unblocked = {}
      BY <1>8 DEF Ordered, TypeOK, InTurn
    <2>3. \A s \in Steps : rows'[s] \in {"none", "pending"} /\ (s \in chain => rows'[s] = "pending")
      BY <1>8
    <2>4. JourneyFollows' /\ RejectionCloses' /\ Finished' /\ FinalMeansAll'
      BY <1>2, <1>8, <2>1, <2>3 DEF JourneyFollows, RejectionCloses, Finished, FinalMeansAll
    <2>5. Ordered'
      <3>1. chain \subseteq Steps
        BY ChainsAssumption
      <3>2. ASSUME InTurn' PROVE unblocked' \subseteq chain \cap {1}
        BY <1>2, <1>8, <2>2, <3>2 DEF InTurn
      <3> QED BY <2>3, <3>1, <3>2, StepsAreNumbers DEF Ordered
    <2> QED BY <1>2, <1>4, <1>5, <2>4, <2>5
  <1> QED BY <1>1, <1>2, <1>6, <1>7, <1>8 DEF Exists, TypeOK

\* What a commit of handle_approval_response finds when no row is stale.
LEMMA RespondFacts ==
  ASSUME IInv, NEW c \in Clients, Reject(c) \/ ApproveStep(c) \/ ApproveLast(c)
  PROVE  /\ call[c].step \in Steps
         /\ TypeOK' /\ CallsValid'
         /\ ~overlaps' => ~overlaps /\ rows[call[c].step] = "pending" /\ status = call[c].wo
         /\ ~overlaps' => \A s \in Steps : rows[s] # "rejected"
         /\ skips \/ skips' \/ InTurn \/ overlaps
  <1> USE DEF IInv
  <1>1. call[c].step \in Steps /\ call[c].step \in Nat
    BY StepsAreNumbers DEF Reject, ApproveStep, ApproveLast, CallsValid
  <1>2. overlaps' = (overlaps \/ rows[call[c].step] # "pending" \/ status # call[c].wo)
    BY DEF Reject, ApproveStep, ApproveLast, NoteOverlap
  <1>3. /\ call' \in [Clients -> Call] /\ call'[c].at \in {"idle", "sort"}
        /\ \A d \in Clients : d # c => call'[d] = call[d]
    BY AnswerType DEF Reject, ApproveStep, ApproveLast
  <1>4. decided' \in [Mails -> SUBSET Steps]
    BY <1>1 DEF Reject, ApproveStep, ApproveLast, Decide, TypeOK
  <1>5. overlaps' \in BOOLEAN /\ skips' \in BOOLEAN
    BY <1>2 DEF Reject, ApproveStep, ApproveLast, TypeOK
  <1>6. status' \in Statuses \cup {"none"} /\ journey' \in Statuses \cup {"none"} /\ finals' \in Nat
    BY DEF Reject, ApproveStep, ApproveLast, Order, TypeOK, Statuses
  <1>7. rows' \in [Steps -> RowStates] /\ unblocked' \in SUBSET Steps
    BY <1>1 DEF Reject, ApproveStep, ApproveLast, TypeOK, RowStates, Pending
  <1>8. TypeOK'
    BY <1>3, <1>4, <1>5, <1>6, <1>7 DEF Reject, ApproveStep, ApproveLast, Mailbox, Bounds, TypeOK
  <1>9. CallsValid'
    BY <1>3 DEF CallsValid
  <1>10. ~overlaps' => \A s \in Steps : rows[s] # "rejected"
    BY <1>1, <1>2 DEF RejectionCloses, Pending
  <1> QED BY <1>1, <1>2, <1>8, <1>9, <1>10 DEF InTurn, TypeOK

LEMMA RejectStep ==
  ASSUME IInv, NEW c \in Clients, Reject(c)
  PROVE  IInv' /\ (status' # status /\ status # "none" /\ ~overlaps' => status' \in ValidTransitions[status])
  <1> USE DEF IInv
  <1> DEFINE step == call[c].step
  <1>1. /\ step \in Steps /\ TypeOK' /\ CallsValid'
        /\ ~overlaps' => ~overlaps /\ rows[step] = "pending" /\ status = call[c].wo
    BY RespondFacts
  <1>2. /\ rows' = [s \in Steps |-> IF s = step \/ rows[s] = "pending" THEN "rejected" ELSE rows[s]]
        /\ status' = IF call[c].wo = "closed" THEN status ELSE "closed"
        /\ journey' = "closed"
        /\ UNCHANGED <<unblocked, finals, skips>>
    BY DEF Reject
  <1> HIDE DEF step
  <1>3. CASE overlaps'
    <2>1. \E s \in Steps : rows'[s] # "none"
      BY <1>1, <1>2
    <2>2. JourneyFollows' /\ RejectionCloses' /\ Ordered' /\ Finished' /\ FinalMeansAll'
      BY <1>3, <2>1 DEF JourneyFollows, RejectionCloses, Ordered, Finished, FinalMeansAll, InTurn, Exists
    <2> QED BY <1>1, <1>3, <2>2
  <1>4. CASE ~overlaps'
    <2>1. \A s \in Steps : rows'[s] = IF rows[s] = "pending" THEN "rejected" ELSE rows[s]
      BY <1>1, <1>2, <1>4
    <2>2. status' = "closed" /\ journey' = "closed" /\ (InTurn' => InTurn)
      BY <1>1, <1>2, <1>4 DEF InTurn
    <2>3. JourneyFollows' /\ RejectionCloses'
      BY <2>1, <2>2 DEF JourneyFollows, RejectionCloses, Pending
    <2>4. Ordered'
      BY <1>1, <1>2, <2>1, <2>2 DEF Ordered, TypeOK
    <2>5. Finished'
      BY <1>1, <1>2, <2>1, <2>2 DEF Finished, Exists, Pending
    <2>6. FinalMeansAll'
      <3>1. ASSUME finals' > 0, Gapless', ~skips', ~overlaps' PROVE FALSE
        <4>1. finals > 0 /\ ~skips /\ ~overlaps /\ rows[step] = "pending"
          BY <1>1, <1>2, <3>1
        <4>2. Gapless
          <5>1. Steps = 1..Cardinality(Steps) /\ Cardinality(Steps) \in Nat
            BY StepsAssumption, FS_CardinalityType
          <5>2. \A s \in Steps : \A t \in 1..s : t \in Steps
            BY <5>1
          <5>3. \A s \in Steps : rows'[s] # "none" <=> rows[s] # "none"
            BY <2>1
          <5> QED BY <3>1, <5>2, <5>3 DEF Gapless, Exists
        <4> QED BY <1>1, <4>1, <4>2 DEF FinalMeansAll, Exists
      <3> QED BY <3>1 DEF FinalMeansAll
    <2>7. status # "closed" /\ status # "none" => status' \in ValidTransitions[status]
      BY <2>2 DEF TypeOK, Statuses, ValidTransitions
    <2> QED BY <1>1, <2>2, <2>3, <2>4, <2>5, <2>6, <2>7
  <1> QED BY <1>3, <1>4

\* When the answer to a step is taken in its turn, every step before it is approved, no
\* later one is unblocked and no final approval was given.
LEMMA TurnFacts ==
  ASSUME IInv, NEW step \in Steps, InTurn, step \in unblocked, rows[step] = "pending"
  PROVE  /\ \A t \in Steps : t < step => rows[t] = "approved"
         /\ \A t \in Steps : t > step => t \notin unblocked /\ rows[t] # "approved"
         /\ finals = 0
  <1> USE DEF IInv
  <1>1. /\ \A t \in Steps : t < step => rows[t] = "approved"
        /\ \A t \in Steps : t > step => t \notin unblocked
    BY StepsAreNumbers DEF Ordered
  <1>2. finals = 0
    BY DEF Finished, Pending, TypeOK
  <1> QED BY <1>1, <1>2 DEF Ordered

LEMMA ApproveStepStep ==
  ASSUME IInv, NEW c \in Clients, ApproveStep(c)
  PROVE  IInv' /\ UNCHANGED status
  <1> USE DEF IInv
  <1> DEFINE step == call[c].step
  <1>1. /\ step \in Steps /\ TypeOK' /\ CallsValid'
        /\ ~overlaps' => ~overlaps /\ rows[step] = "pending" /\ \A s \in Steps : rows[s] # "rejected"
    BY RespondFacts
  <1>2. /\ step + 1 \in Pending
        /\ rows' = [rows EXCEPT ![step] = "approved"]
        /\ unblocked' = unblocked \cup {step + 1}
        /\ skips' = (skips \/ step \notin unblocked)
        /\ UNCHANGED <<status, journey, finals>>
    BY DEF ApproveStep, Order
  <1> HIDE DEF step
  <1>3. \A s \in Steps : rows'[s] = IF s = step THEN "approved" ELSE rows[s]
    BY <1>1, <1>2 DEF TypeOK
  <1>4. JourneyFollows' /\ RejectionCloses'
    BY <1>1, <1>2, <1>3 DEF JourneyFollows, RejectionCloses
  <1>5. CASE ~InTurn'
    BY <1>1, <1>2, <1>3, <1>4, <1>5 DEF Ordered, Finished, FinalMeansAll, InTurn, Exists
  <1>6. CASE InTurn'
    <2>1. InTurn /\ step \in unblocked /\ rows[step] = "pending"
      BY <1>1, <1>2, <1>6 DEF InTurn, TypeOK
    <2>2. /\ \A t \in Steps : t < step => rows[t] = "approved"
          /\ finals = 0
      BY <1>1, <2>1, TurnFacts
    <2>3. step \in Nat /\ step + 1 \in Steps /\ rows[step + 1] = "pending" /\ Steps \subseteq Nat
      BY <1>1, <1>2, StepsAreNumbers DEF Pending
    <2>4. Ordered'
      <3>1. \A s \in Steps : rows'[s] = "approved" => s \in unblocked'
        BY <1>2, <1>3, <2>1 DEF Ordered
      <3>2. ASSUME NEW s \in unblocked PROVE rows'[s] # "none" /\ \A t \in Steps : t < s => rows'[t] = "approved"
        BY <1>3, <2>1, <3>2 DEF Ordered, TypeOK
      <3>3. rows'[step + 1] # "none" /\ \A t \in Steps : t < step + 1 => rows'[t] = "approved"
        BY <1>3, <2>2, <2>3
      <3> QED BY <1>2, <3>1, <3>2, <3>3 DEF Ordered
    <2>5. Finished' /\ FinalMeansAll'
      BY <1>2, <2>2 DEF Finished, FinalMeansAll
    <2> QED BY <1>1, <1>2, <1>4, <2>4, <2>5
  <1> QED BY <1>5, <1>6

LEMMA ApproveLastStep ==
  ASSUME IInv, NEW c \in Clients, ApproveLast(c)
  PROVE  IInv' /\ (status' # status /\ ~overlaps' => status' \in ValidTransitions[status])
  <1> USE DEF IInv
  <1> DEFINE step == call[c].step
  <1>1. /\ step \in Steps /\ TypeOK' /\ CallsValid'
        /\ ~overlaps' => /\ ~overlaps /\ rows[step] = "pending" /\ status = call[c].wo
                         /\ \A s \in Steps : rows[s] # "rejected"
    BY RespondFacts
  <1>2. /\ step + 1 \notin Pending
        /\ rows' = [rows EXCEPT ![step] = "approved"]
        /\ UNCHANGED unblocked
        /\ skips' = (skips \/ step \notin unblocked)
        /\ finals' = finals + 1
    BY DEF ApproveLast
  <1>3. IF call[c].wo = "pending_approval"
        THEN status' = "preparing" /\ journey' = "preparing"
        ELSE status' = status /\ journey' = journey
    BY DEF ApproveLast, Order
  <1> HIDE DEF step
  <1>4. \A s \in Steps : rows'[s] = IF s = step THEN "approved" ELSE rows[s]
    BY <1>1, <1>2 DEF TypeOK
  <1>5. JourneyFollows' /\ RejectionCloses'
    BY <1>1, <1>3, <1>4 DEF JourneyFollows, RejectionCloses
  <1>6. status' # status /\ ~overlaps' => status' \in ValidTransitions[status]
    BY <1>1, <1>3 DEF ValidTransitions
  <1>7. CASE ~InTurn'
    BY <1>1, <1>2, <1>4, <1>5, <1>6, <1>7 DEF Ordered, Finished, FinalMeansAll, InTurn, Exists
  <1>8. CASE InTurn'
    <2>1. InTurn /\ step \in unblocked /\ rows[step] = "pending"
      BY <1>1, <1>2, <1>8 DEF InTurn, TypeOK
    <2>2. /\ \A t \in Steps : t < step => rows[t] = "approved"
          /\ \A t \in Steps : t > step => t \notin unblocked /\ rows[t] # "approved"
          /\ finals = 0
      BY <1>1, <2>1, TurnFacts
    <2>3. Ordered'
      BY <1>2, <1>4, <2>1 DEF Ordered, TypeOK
    <2>4. \A s \in Steps : s < step \/ s = step \/ s > step
      BY <1>1, StepsAreNumbers
    <2>5. Finished'
      <3>1. ASSUME NEW s \in unblocked, s \in Steps PROVE rows'[s] = "approved"
        BY <1>4, <2>2, <2>4, <3>1
      <3>2. unblocked' \cap Pending' = {}
        BY <1>2, <3>1 DEF Pending
      <3>3. rows'[step] # "none"
        BY <1>1, <1>4
      <3> QED BY <1>1, <1>2, <2>2, <3>2, <3>3 DEF Finished, Exists
    <2>6. FinalMeansAll'
      <3>1. ASSUME Gapless', NEW s \in Steps, Exists(s)' PROVE rows'[s] = "approved"
        <4>1. CASE s < step \/ s = step
          BY <1>4, <2>2, <4>1
        <4>2. CASE s > step
          <5>1. step \in Nat /\ s \in Nat /\ step + 1 \in 1..s /\ step + 1 > step /\ step + 1 # step
            BY <1>1, <4>2, StepsAreNumbers
          <5>2. step + 1 \in Steps
            <6>1. Steps = 1..Cardinality(Steps) /\ Cardinality(Steps) \in Nat
              BY StepsAssumption, FS_CardinalityType
            <6> QED BY <5>1, <6>1
          <5>3. rows'[step + 1] # "none"
            BY <3>1, <5>1 DEF Gapless, Exists
          <5>4. rows[step + 1] \in {"approved", "rejected"}
            BY <1>2, <1>4, <5>1, <5>2, <5>3 DEF Pending, TypeOK, RowStates
          <5>5. rows[step + 1] # "approved"
            BY <2>2, <5>1, <5>2
          <5>6. rows[step + 1] # "rejected"
            BY <1>1, <1>8, <5>2 DEF InTurn
          <5> QED BY <5>4, <5>5, <5>6
        <4> QED BY <2>4, <4>1, <4>2
      <3> QED BY <3>1 DEF FinalMeansAll
    <2> QED BY <1>1, <1>5, <1>6, <2>3, <2>5, <2>6
  <1> QED BY <1>7, <1>8

-----------------------------------------------------------------------------
\* A commit's change of the status is one of the table's.
Legal == (status' # status /\ status # "none" /\ ~overlaps') => status' \in ValidTransitions[status]

LEMMA StepIInv == IInv /\ [Next]_vars => IInv' /\ Legal
  <1> SUFFICES ASSUME IInv, [Next]_vars PROVE IInv' /\ Legal OBVIOUS
  <1>1. CASE Quiet
    BY <1>1, QuietStep, QuietUntouched DEF Untouched, Legal
  <1>2. CASE CreateWorkOrder
    BY <1>2, CreateStep DEF CreateWorkOrder, Legal
  <1>3. ASSUME NEW c \in Clients, StatusCommit(c) \/ InsertRows(c) \/ Reject(c) \/ ApproveStep(c) \/ ApproveLast(c)
        PROVE  IInv' /\ Legal
    BY <1>3, StatusStep, InsertStep, RejectStep, ApproveStepStep, ApproveLastStep DEF Legal
  <1>4. CASE UNCHANGED vars
    <2>1. TypeOK' /\ CallsValid'
      BY <1>4 DEF IInv, TypeOK, CallsValid, vars
    <2>2. Untouched
      BY <1>4 DEF Untouched, vars
    <2> QED BY <2>1, <2>2, UntouchedInv DEF IInv, Untouched, Legal
  <1> QED BY <1>1, <1>2, <1>3, <1>4 DEF Next, Serve, Quiet

LEMMA IInvSafe == IInv => TypeOK /\ JourneyFollows /\ RejectionCloses /\ FinalMeansAll /\ AnnouncedOnce
  BY DEF IInv, Finished, InTurn, AnnouncedOnce, TypeOK

\* Every state has the types of TypeOK, the journey shows the status, and one rejection
\* closes the work order and its chain, unless a commit relied on a stale row.
THEOREM Correct == Spec => [](TypeOK /\ JourneyFollows /\ RejectionCloses)
  BY InitIInv, StepIInv, IInvSafe, PTL DEF Spec

\* Every state has the types of TypeOK.
THEOREM TypesHold == Spec => []TypeOK
  BY Correct, PTL

\* Where the steps of a chain without gaps are answered in their turn, a final approval
\* means that all of them were approved; it is given once.
THEOREM FinalApproval == Spec => [](FinalMeansAll /\ AnnouncedOnce)
  BY InitIInv, StepIInv, IInvSafe, PTL DEF Spec

\* The parties are told of the final approval at most once, however many steps, replies
\* and pollers there are, as long as the chain is answered in its turn.
THEOREM ToldOnce == Spec => []AnnouncedOnce
  BY FinalApproval, PTL

\* Updates, rejections and final approvals, from any client, move the status along the
\* transitions of the table.
THEOREM Lawful == Spec => LegalTransitions
  <1>1. IInv /\ [Next]_vars => [Legal]_vars
    BY StepIInv
  <1> QED BY InitIInv, StepIInv, <1>1, PTL DEF Spec, LegalTransitions, Legal

-----------------------------------------------------------------------------
(* A reply is spent once.                                                  *)

\* API requests answer no mail, and what the route answers it has read.
Holders ==
    /\ \A c \in Callers : call[c].mail = 0
    /\ call["route"].mail \in routed \cup {0}

\* A mail that decided something was sorted, or is in the hands of the background
\* poller, which has nothing left to do but to sort it.
Spent(m) ==
    /\ Cardinality(decided[m]) <= 1
    /\ decided[m] # {} => \/ mail[m] = "done" /\ call["background"].mail # m
                          \/ call["background"].mail = m /\ call["background"].at = "sort"

MInv == Holders /\ (failures = 0 => \A m \in Mails \ routed : Spent(m))

LEMMA InitMInv == Init => MInv
  BY FS_EmptySet DEF Init, MInv, Holders, Spent, Clients, Pollers, NoCall

\* Other clients' requests and other mails leave what is known of a mail alone.
LEMMA KeepSpent ==
  ASSUME MInv, Holders', failures' = 0 => failures = 0, routed \subseteq routed',
         decided' = decided,
         \A m \in Mails \ routed' : mail'[m] = mail[m] \/ mail[m] = "away",
         UNCHANGED call["background"]
  PROVE  MInv'
  BY DEF MInv, Spent

LEMMA CallerMInv ==
  ASSUME TypeOK, MInv, NEW c \in Callers,
         \/ \E new \in Statuses : StatusCheck(c, new)
         \/ AskApproval(c)
         \/ \E s \in Steps, ok \in BOOLEAN : Respond(c, s, ok)
  PROVE  MInv'
  <1>1. c \in Clients /\ c # "background" /\ c # "route" /\ "background" \in Clients /\ "route" \in Clients
    BY CallersAssumption DEF Clients, Pollers
  <1>2. UNCHANGED <<mail, routed, decided, failures>>
    BY DEF StatusCheck, AskApproval, Respond, Mailbox
  <1>3. \A d \in Clients : IF d = c THEN call'[d].mail = 0 ELSE call'[d] = call[d]
    <2>1. ASSUME NEW new \in Statuses, StatusCheck(c, new)
          PROVE  call'[c].mail = 0 /\ \A d \in Clients : d # c => call'[d] = call[d]
      BY <1>1, <2>1 DEF TypeOK, StatusCheck, Begin, NoCall
    <2>2. ASSUME AskApproval(c)
          PROVE  call'[c].mail = 0 /\ \A d \in Clients : d # c => call'[d] = call[d]
      BY <1>1, <2>2 DEF TypeOK, AskApproval, Begin, NoCall
    <2>3. ASSUME NEW s \in Steps, NEW ok \in BOOLEAN, Respond(c, s, ok)
          PROVE  call'[c].mail = 0 /\ \A d \in Clients : d # c => call'[d] = call[d]
      BY <1>1, <2>3 DEF TypeOK, Respond, Begin, NoCall
    <2> QED BY <2>1, <2>2, <2>3
  <1>4. Holders'
    BY <1>1, <1>2, <1>3 DEF MInv, Holders, Clients
  <1> QED BY <1>1, <1>2, <1>3, <1>4, KeepSpent

\* A request that is not a reply's answer, or one that ends.
LEMMA ServeMInv ==
  ASSUME TypeOK, MInv, NEW c \in Clients,
         StatusCommit(c) \/ InsertRows(c) \/ SelectRequest(c) \/ SelectOrder(c)
  PROVE  MInv'
  <1>1. UNCHANGED <<mail, routed, decided, failures>>
    BY DEF StatusCommit, InsertRows, SelectRequest, SelectOrder, Mailbox, Bounds
  <1>2. /\ call[c].at # "sort"
        /\ call'[c].mail \in {0, call[c].mail}
        /\ \A d \in Clients : d # c => call'[d] = call[d]
    BY DEF TypeOK, Call, StatusCommit, InsertRows, SelectRequest, SelectOrder, Return, NoCall
  <1>3. "background" \in Clients /\ "route" \in Clients /\ Callers \subseteq Clients
    BY DEF Clients, Pollers
  <1>4. Holders'
    BY <1>1, <1>2, <1>3 DEF MInv, Holders
  <1>5. ASSUME NEW m \in Mails \ routed, Spent(m) PROVE Spent(m)'
    BY <1>1, <1>2, <1>3, <1>5, MailsAssumption DEF Spent
  <1> QED BY <1>1, <1>4, <1>5 DEF MInv

LEMMA ReadMInv ==
  ASSUME TypeOK, MInv, NEW p \in Pollers, NEW m \in Mails, ReadReply(p, m)
  PROVE  MInv'
  <1>1. /\ call[p] = NoCall /\ mail[m] = "unread"
        /\ UNCHANGED <<mail, decided, failures>>
        /\ routed' = IF p = "route" THEN routed \cup {m} ELSE routed
    BY DEF ReadReply, Bounds
  <1>2. "background" \in Clients /\ "route" \in Clients /\ p \in Clients /\ Callers \subseteq Clients
        /\ p \notin Callers
    BY CallersAssumption DEF Clients, Pollers
  <1>3. call'[p].mail = m /\ \A d \in Clients : d # p => call'[d] = call[d]
    BY <1>2 DEF TypeOK, Call, ReadReply, NoCall
  <1>4. Holders'
    BY <1>1, <1>2, <1>3 DEF MInv, Holders, Pollers
  <1>5. CASE p = "route"
    BY <1>1, <1>2, <1>3, <1>4, <1>5, KeepSpent
  <1>6. CASE p = "background"
    <2>1. ASSUME NEW n \in Mails \ routed, Spent(n) PROVE Spent(n)'
      BY <1>1, <1>3, <1>6, <2>1, NoCallType, MailsAssumption DEF Spent, NoCall
    <2> QED BY <1>1, <1>4, <1>6, <2>1 DEF MInv
  <1> QED BY <1>5, <1>6 DEF Pollers

LEMMA MailMInv ==
  ASSUME TypeOK, MInv, \/ \E m \in Mails : MailArrives(m)
                       \/ \E c \in Clients : SortMail(c)
                       \/ \E p \in Pollers : PollerFails(p)
  PROVE  MInv'
  <1>0. "background" \in Clients /\ "route" \in Clients /\ Callers \subseteq Clients /\ Pollers \subseteq Clients
    BY DEF Clients, Pollers
  <1>1. ASSUME NEW m \in Mails, MailArrives(m) PROVE MInv'
    <2>1. UNCHANGED <<call, decided, routed, failures>> /\ \A n \in Mails : mail'[n] = mail[n] \/ mail[n] = "away"
      BY <1>1 DEF MailArrives, TypeOK, Bounds
    <2>2. Holders'
      BY <2>1 DEF MInv, Holders
    <2> QED BY <2>1, <2>2, KeepSpent
  <1>2. ASSUME NEW c \in Clients, SortMail(c) PROVE MInv'
    <2>1. /\ UNCHANGED <<decided, routed, failures>>
          /\ call'[c].mail = 0 /\ \A d \in Clients : d # c => call'[d] = call[d]
      BY <1>2 DEF SortMail, Return, TypeOK, NoCall, Bounds
    <2>2. Holders'
      BY <1>0, <2>1 DEF MInv, Holders
    <2>3. \A m \in Mails : mail[m] = "done" => mail'[m] = "done"
      BY <1>2 DEF SortMail, TypeOK
    <2>4. c = "background" => \A m \in Mails : call[c].mail = m => mail'[m] = "done"
      BY <1>2 DEF SortMail, Removes, TypeOK
    <2>5. ASSUME NEW m \in Mails \ routed, Spent(m) PROVE Spent(m)'
      BY <1>0, <2>1, <2>3, <2>4, <2>5, MailsAssumption DEF Spent
    <2> QED BY <2>1, <2>2, <2>5 DEF MInv
  <1>3. ASSUME NEW p \in Pollers, PollerFails(p) PROVE MInv'
    <2>1. failures' # 0 /\ UNCHANGED routed
      BY <1>3 DEF PollerFails, TypeOK, Mailbox
    <2>2. call'[p].mail = 0 /\ \A d \in Clients : d # p => call'[d] = call[d]
      BY <1>0, <1>3 DEF PollerFails, Return, TypeOK, NoCall
    <2>3. Holders'
      BY <1>0, <2>1, <2>2 DEF MInv, Holders
    <2> QED BY <2>1, <2>3 DEF MInv
  <1> QED BY <1>1, <1>2, <1>3

\* The decision itself: a mail in hand has decided nothing so far.
LEMMA DecideMInv ==
  ASSUME IInv, MInv, NEW c \in Clients, Reject(c) \/ ApproveStep(c) \/ ApproveLast(c)
  PROVE  MInv'
  <1>1. /\ call[c].at = "respond" /\ call[c].step \in Steps
        /\ UNCHANGED <<mail, routed, failures>> /\ Decide(c)
    BY DEF IInv, CallsValid, Reject, ApproveStep, ApproveLast, Mailbox, Bounds
  <1>2. PICK outcome : Answer(c, outcome)
    BY DEF Reject, ApproveStep, ApproveLast
  <1>3. /\ \A d \in Clients : d # c => call'[d] = call[d]
        /\ IF c \in Pollers THEN call'[c].mail = call[c].mail /\ call'[c].at = "sort"
                            ELSE call'[c].mail = 0
    BY <1>2 DEF Answer, NoCall, IInv, TypeOK
  <1>4. /\ "background" \in Clients /\ "route" \in Clients /\ Callers \subseteq Clients
        /\ \A d \in Callers : d \notin Pollers
        /\ Clients = Callers \cup {"background", "route"} /\ Pollers = {"background", "route"}
    BY CallersAssumption DEF Clients, Pollers
  <1>5. Holders'
    BY <1>1, <1>3, <1>4 DEF MInv, Holders
  <1>6. ASSUME NEW m \in Mails \ routed, Spent(m) PROVE Spent(m)'
    <2>1. CASE call[c].mail # m
      <3>1. decided'[m] = decided[m]
        BY <1>1, <2>1 DEF Decide, IInv, TypeOK
      <3>2. call["background"].mail = m => c # "background"
        BY <2>1
      <3>3. c = "background" => call'["background"].mail # m
        BY <1>3, <1>4, <2>1
      <3> QED BY <1>1, <1>3, <1>4, <1>6, <3>1, <3>2, <3>3 DEF Spent
    <2>2. CASE call[c].mail = m
      <3>1. c = "background" /\ m # 0
        BY <1>4, <2>2, MailsAssumption DEF MInv, Holders
      <3>2. decided[m] = {}
        BY <1>1, <1>6, <2>2, <3>1 DEF Spent
      <3>3. decided'[m] = {call[c].step}
        BY <1>1, <2>2, <3>1, <3>2 DEF Decide, IInv, TypeOK
      <3>4. Cardinality(decided'[m]) = 1
        BY <3>3, FS_Singleton
      <3>5. call'["background"].mail = m /\ call'["background"].at = "sort"
        BY <1>3, <1>4, <2>2, <3>1
      <3> QED BY <3>4, <3>5 DEF Spent
    <2> QED BY <2>1, <2>2
  <1> QED BY <1>1, <1>5, <1>6 DEF MInv

LEMMA StepMInv == IInv /\ MInv /\ [Next]_vars => MInv'
  <1> SUFFICES ASSUME IInv, MInv, [Next]_vars PROVE MInv' OBVIOUS
  <1>0. TypeOK
    BY DEF IInv
  <1>1. CASE CreateWorkOrder \/ UNCHANGED vars
    BY <1>1 DEF CreateWorkOrder, vars, Mailbox, Bounds, MInv, Holders, Spent
  <1>2. ASSUME NEW c \in Clients, Serve(c) PROVE MInv'
    BY <1>0, <1>2, ServeMInv, MailMInv, DecideMInv DEF Serve
  <1> QED BY <1>0, <1>1, <1>2, CallerMInv, ReadMInv, MailMInv DEF Next

\* For any number of replies and of steps per approver: a reply that only the background
\* poller has read, with no failing call, decides at most one step.
THEOREM SpentOnce == Spec => []MailSpentOnce
  <1>1. MInv => MailSpentOnce
    BY DEF MInv, Spent, MailSpentOnce
  <1> QED BY InitIInv, StepIInv, InitMInv, StepMInv, <1>1, PTL DEF Spec
=============================================================================
