--------------------------- MODULE ApprovalChain ---------------------------
(***************************************************************************)
(* One work order of svc-work-order-management: its status and journey,    *)
(* the chain of approval requests, the calls of the REST API and the two   *)
(* pollers that read the approvers' replies from the mailbox.  A handler   *)
(* reads the rows it needs, without a lock, and commits once; every        *)
(* interleaving of reads and commits is a behaviour.                       *)
(***************************************************************************)
EXTENDS Naturals, FiniteSets

CONSTANTS
    Steps,          \* step numbers 1..n
    Chains,         \* the sets of steps DynamicApprovalEngine may suggest
    Persons,        \* approvers
    ApproverOf,     \* [Steps -> Persons]
    Mails,          \* replies 1..n, numbered in the order in which they arrive
    SenderOf,       \* [Mails -> Persons]
    Callers,        \* concurrent API requests
    Fetch,          \* get_unread_emails(max_count)
    MaxCalls,       \* bound: API requests
    MaxFailures     \* bound: handlings of a mail that raise

ASSUME StepsAssumption == IsFiniteSet(Steps) /\ Steps = 1..Cardinality(Steps)
ASSUME ChainsAssumption == Chains \subseteq SUBSET Steps
ASSUME PersonsAssumption == ApproverOf \in [Steps -> Persons] /\ SenderOf \in [Mails -> Persons]
ASSUME MailsAssumption == IsFiniteSet(Mails) /\ Mails \subseteq Nat \ {0}
ASSUME BoundsAssumption == Fetch \in Nat \ {0} /\ MaxCalls \in Nat /\ MaxFailures \in Nat

Pollers == {"background", "route"}      \* _approval_poller and POST /poll
ASSUME CallersAssumption == Callers \cap Pollers = {}
Clients == Callers \cup Pollers

VARIABLES
    status,         \* work_orders.status, "none" before the work order exists
    journey,        \* wo_journey_logs.current_step
    rows,           \* rows[s]: status of the approval request of step s
    unblocked,      \* steps whose unblocked_at is set
    call,           \* call[c]: the request client c is serving
    mail,           \* mail[m]: "away", "unread", "done"
    decided,        \* decided[m]: steps that mail m approved or rejected
    routed,         \* mails the route has read
    finals,         \* final approvals: technician assigned, parties notified
    overlaps,       \* a commit relied on a row that had changed since it was read
    skips,          \* a step was approved that had not been unblocked
    crowded,        \* more mails were unread than one poll fetches
    calls, failures \* bounded: see MaxCalls, MaxFailures

vars == <<status, journey, rows, unblocked, call, mail, decided, routed, finals, overlaps,
          skips, crowded, calls, failures>>

Statuses == {"pending_approval", "preparing", "prepared", "active", "completed", "closed"}
RowStates == {"none", "pending", "approved", "rejected"}

\* _VALID_TRANSITIONS
ValidTransitions ==
    [pending_approval |-> {"preparing", "closed"},
     preparing        |-> {"prepared", "closed"},
     prepared         |-> {"active", "preparing", "closed"},
     active           |-> {"completed", "closed"},
     completed        |-> {"closed"},
     closed           |-> {}]

\* A request in progress: where it stands, its arguments, and what it has read.
NoCall == [at |-> "idle", step |-> 0, approve |-> FALSE, mail |-> 0, new |-> "none", wo |-> "none"]
Call == [at : {"idle", "insert", "request", "order", "respond", "sort", "update"},
         step : Steps \cup {0}, approve : BOOLEAN, mail : Mails \cup {0},
         new : Statuses \cup {"none"}, wo : Statuses \cup {"none"}]

Init ==
    /\ status = "none"
    /\ journey = "none"
    /\ rows = [s \in Steps |-> "none"]
    /\ unblocked = {}
    /\ call = [c \in Clients |-> NoCall]
    /\ mail = [m \in Mails |-> "away"]
    /\ decided = [m \in Mails |-> {}]
    /\ routed = {}
    /\ finals = 0
    /\ overlaps = FALSE
    /\ skips = FALSE
    /\ crowded = FALSE
    /\ calls = 0
    /\ failures = 0

-----------------------------------------------------------------------------
(* Shorthands.                                                             *)

Order   == <<status, journey>>
Chain   == <<rows, unblocked>>
Mailbox == <<mail, crowded, routed>>
Bounds  == <<calls, failures>>

Exists(s)  == rows[s] # "none"
Pending    == {s \in Steps : rows[s] = "pending"}
Unread     == {m \in Mails : mail[m] = "unread"}
Return(c)  == call' = [call EXCEPT ![c] = NoCall]
Begin(c, r) ==
    /\ calls < MaxCalls
    /\ call[c] = NoCall
    /\ call' = [call EXCEPT ![c] = r]
    /\ calls' = calls + 1

-----------------------------------------------------------------------------
(* The life of the work order.                                             *)

\* POST /api/work-orders, create_from_email, create_ppm_work_order.
CreateWorkOrder ==
    /\ status = "none"
    /\ status' = "pending_approval"
    /\ journey' = "pending_approval"
    /\ UNCHANGED <<Chain, call, Mailbox, decided, finals, overlaps, skips, Bounds>>

\* update_status, bulk_status_update, approve, prepare and close: the row is
\* selected and the transition looked up ...
UncheckedStatusCheck(c, new) ==                     \* fault: no transition table
    /\ status # "none"
    /\ Begin(c, [NoCall EXCEPT !.at = "update", !.new = new, !.wo = status])
    /\ UNCHANGED <<Order, Chain, Mailbox, decided, finals, overlaps, skips, failures>>
StatusCheck(c, new) ==
    /\ status # "none" /\ new \in ValidTransitions[status]
    /\ Begin(c, [NoCall EXCEPT !.at = "update", !.new = new, !.wo = status])
    /\ UNCHANGED <<Order, Chain, Mailbox, decided, finals, overlaps, skips, failures>>

\* ... and status, history and journey are committed.
ForgetJourney(c) ==                                 \* fault: the journey is not advanced
    /\ call[c].at = "update"
    /\ status' = call[c].new
    /\ overlaps' = (overlaps \/ call[c].wo # status)
    /\ Return(c)
    /\ UNCHANGED <<journey, Chain, Mailbox, decided, finals, skips, Bounds>>
StatusCommit(c) ==
    /\ call[c].at = "update"
    /\ status' = call[c].new
    /\ journey' = call[c].new
    /\ overlaps' = (overlaps \/ call[c].wo # status)
    /\ Return(c)
    /\ UNCHANGED <<Chain, Mailbox, decided, finals, skips, Bounds>>

-----------------------------------------------------------------------------
(* create_approval_requests_from_suggestion                                *)

\* The engine runs and the existing chain is loaded: with one, nothing is written.
AskApproval(c) ==
    /\ status # "none" /\ \A s \in Steps : ~Exists(s)
    /\ Begin(c, [NoCall EXCEPT !.at = "insert"])
    /\ UNCHANGED <<Order, Chain, Mailbox, decided, finals, overlaps, skips, failures>>

\* One row per step, the first unblocked; the key APR-<order>-L<step> makes the
\* second of two clashing requests fail.
InsertRows(c) ==
    /\ call[c].at = "insert"
    /\ \E chain \in Chains :
          IF \E s \in chain : Exists(s)
          THEN UNCHANGED <<Chain, overlaps>>
          ELSE /\ rows' = [s \in Steps |-> IF s \in chain THEN "pending" ELSE rows[s]]
               /\ unblocked' = unblocked \cup (chain \cap {1})
               /\ overlaps' = (overlaps \/ \E s \in Steps : Exists(s))
    /\ Return(c)
    /\ UNCHANGED <<Order, Mailbox, decided, finals, skips, Bounds>>

-----------------------------------------------------------------------------
(* The pollers.                                                            *)

\* An approver's reply arrives.
MailArrives(m) ==
    /\ mail[m] = "away" /\ \A n \in Mails : n < m => mail[n] # "away"
    /\ mail' = [mail EXCEPT ![m] = "unread"]
    /\ crowded' = (crowded \/ Cardinality(Unread) >= Fetch)
    /\ UNCHANGED <<Order, Chain, call, decided, routed, finals, overlaps, skips, Bounds>>

\* _find_actionable_approval_request: the sender's first pending step among the
\* first and the unblocked ones.
Actionable(m) ==
    LET own == {s \in Pending : ApproverOf[s] = SenderOf[m] /\ (s \in unblocked \/ s = 1)}
    IN  {s \in own : \A t \in own : s <= t}

\* process_approval_reply for one of the newest mails, which approves or rejects.
\* A reply whose intent is unclear or whose sender has no actionable step changes
\* nothing and stays unread.
FetchShort(p, m) ==                                 \* fault: one mail less is fetched
    /\ p \in Pollers /\ call[p] = NoCall
    /\ mail[m] = "unread" /\ Cardinality({n \in Unread : n > m}) + 1 < Fetch
    /\ \E s \in Actionable(m), ok \in BOOLEAN :
          call' = [call EXCEPT ![p] = [NoCall EXCEPT !.at = "request", !.step = s,
                                                     !.approve = ok, !.mail = m]]
    /\ routed' = IF p = "route" THEN routed \cup {m} ELSE routed
    /\ UNCHANGED <<Order, Chain, mail, crowded, decided, finals, overlaps, skips, Bounds>>
ReadReply(p, m) ==
    /\ p \in Pollers /\ call[p] = NoCall
    /\ mail[m] = "unread" /\ Cardinality({n \in Unread : n > m}) < Fetch
    /\ \E s \in Actionable(m), ok \in BOOLEAN :
          call' = [call EXCEPT ![p] = [NoCall EXCEPT !.at = "request", !.step = s,
                                                     !.approve = ok, !.mail = m]]
    /\ routed' = IF p = "route" THEN routed \cup {m} ELSE routed
    /\ UNCHANGED <<Order, Chain, mail, crowded, decided, finals, overlaps, skips, Bounds>>

\* The mail is taken out of the inbox.  The route leaves the approval of a step
\* that is not the last one unread.
LeaveSteps(p, last) == last                         \* fault: of the background poller, too
Removes(p, last) == p = "background" \/ last
SortMail(p) ==
    /\ call[p].at = "sort"
    /\ mail' = IF Removes(p, call[p].new = "closed" \/ call[p].new = "preparing")
               THEN [mail EXCEPT ![call[p].mail] = "done"] ELSE mail
    /\ Return(p)
    /\ UNCHANGED <<Order, Chain, crowded, routed, decided, finals, overlaps, skips, Bounds>>

\* A call of the mail service or the database raises: the background poller leaves
\* the mail unread, the route marks it as read.
PollerFails(p) ==
    /\ failures < MaxFailures
    /\ p \in Pollers /\ call[p].at # "idle"
    /\ failures' = failures + 1
    /\ mail' = IF p = "route" THEN [mail EXCEPT ![call[p].mail] = "done"] ELSE mail
    /\ Return(p)
    /\ UNCHANGED <<Order, Chain, crowded, routed, decided, finals, overlaps, skips, calls>>

-----------------------------------------------------------------------------
(* handle_approval_response                                                *)

\* POST /approvals/{id}/respond names any request.
Respond(c, s, ok) ==
    /\ Exists(s)
    /\ Begin(c, [NoCall EXCEPT !.at = "request", !.step = s, !.approve = ok])
    /\ UNCHANGED <<Order, Chain, Mailbox, decided, finals, overlaps, skips, failures>>

\* The request is selected; unless it is pending the answer is "already_processed".
SelectRequest(c) ==
    /\ call[c].at = "request"
    /\ IF rows[call[c].step] = "pending"
       THEN call' = [call EXCEPT ![c].at = "order"]
       ELSE Return(c)
    /\ UNCHANGED <<Order, Chain, Mailbox, decided, finals, overlaps, skips, Bounds>>

SelectOrder(c) ==
    /\ call[c].at = "order"
    /\ call' = [call EXCEPT ![c].at = "respond", ![c].wo = status]
    /\ UNCHANGED <<Order, Chain, Mailbox, decided, finals, overlaps, skips, Bounds>>

\* The answer: an API request returns, a poller sorts its mail.
Answer(c, outcome) ==
    call' = [call EXCEPT ![c] = IF c \in Pollers
                                THEN [NoCall EXCEPT !.at = "sort", !.mail = call[c].mail, !.new = outcome]
                                ELSE NoCall]
Decide(c) ==
    decided' = IF call[c].mail = 0 THEN decided
               ELSE [decided EXCEPT ![call[c].mail] = @ \cup {call[c].step}]
NoteOverlap(c) == overlaps' = (overlaps \/ rows[call[c].step] # "pending" \/ status # call[c].wo)

\* The work order is closed and everything pending is rejected.  Nothing is written
\* to a status column that holds "closed" in the session already.
RejectOne(c) ==                                     \* fault: the other steps stay pending
    /\ call[c].at = "respond" /\ ~call[c].approve
    /\ rows' = [rows EXCEPT ![call[c].step] = "rejected"]
    /\ status' = IF call[c].wo = "closed" THEN status ELSE "closed"
    /\ journey' = "closed"
    /\ NoteOverlap(c) /\ Decide(c) /\ Answer(c, "closed")
    /\ UNCHANGED <<unblocked, Mailbox, finals, skips, Bounds>>
Reject(c) ==
    /\ call[c].at = "respond" /\ ~call[c].approve
    /\ rows' = [s \in Steps |-> IF s = call[c].step \/ rows[s] = "pending" THEN "rejected" ELSE rows[s]]
    /\ status' = IF call[c].wo = "closed" THEN status ELSE "closed"
    /\ journey' = "closed"
    /\ NoteOverlap(c) /\ Decide(c) /\ Answer(c, "closed")
    /\ UNCHANGED <<unblocked, Mailbox, finals, skips, Bounds>>

\* With the next step pending, that step is unblocked and its approver notified ...
UnblockAnyway(c) ==                                 \* fault: without looking for a next step
    /\ call[c].at = "respond" /\ call[c].approve
    /\ rows' = [rows EXCEPT ![call[c].step] = "approved"]
    /\ unblocked' = unblocked \cup {call[c].step + 1}
    /\ skips' = (skips \/ call[c].step \notin unblocked)
    /\ NoteOverlap(c) /\ Decide(c) /\ Answer(c, "none")
    /\ UNCHANGED <<Order, Mailbox, finals, Bounds>>
ApproveStep(c) ==
    /\ call[c].at = "respond" /\ call[c].approve
    /\ call[c].step + 1 \in Pending
    /\ rows' = [rows EXCEPT ![call[c].step] = "approved"]
    /\ unblocked' = unblocked \cup {call[c].step + 1}
    /\ skips' = (skips \/ call[c].step \notin unblocked)
    /\ NoteOverlap(c) /\ Decide(c) /\ Answer(c, "none")
    /\ UNCHANGED <<Order, Mailbox, finals, Bounds>>

\* ... otherwise the approval is final: apply_final_approval_finalization.
FinalAtOnce(c) ==                                   \* fault: the other steps are not asked
    /\ call[c].at = "respond" /\ call[c].approve
    /\ rows' = [rows EXCEPT ![call[c].step] = "approved"]
    /\ IF call[c].wo = "pending_approval"
       THEN status' = "preparing" /\ journey' = "preparing"
       ELSE UNCHANGED Order
    /\ finals' = finals + 1
    /\ skips' = (skips \/ call[c].step \notin unblocked)
    /\ NoteOverlap(c) /\ Decide(c) /\ Answer(c, "preparing")
    /\ UNCHANGED <<unblocked, Mailbox, Bounds>>
KeepLastPending(c) ==                               \* fault: the request is not marked
    /\ call[c].at = "respond" /\ call[c].approve
    /\ call[c].step + 1 \notin Pending
    /\ IF call[c].wo = "pending_approval"
       THEN status' = "preparing" /\ journey' = "preparing"
       ELSE UNCHANGED Order
    /\ finals' = finals + 1
    /\ skips' = (skips \/ call[c].step \notin unblocked)
    /\ NoteOverlap(c) /\ Decide(c) /\ Answer(c, "preparing")
    /\ UNCHANGED <<Chain, Mailbox, Bounds>>
ApproveLast(c) ==
    /\ call[c].at = "respond" /\ call[c].approve
    /\ call[c].step + 1 \notin Pending
    /\ rows' = [rows EXCEPT ![call[c].step] = "approved"]
    /\ IF call[c].wo = "pending_approval"
       THEN status' = "preparing" /\ journey' = "preparing"
       ELSE UNCHANGED Order
    /\ finals' = finals + 1
    /\ skips' = (skips \/ call[c].step \notin unblocked)
    /\ NoteOverlap(c) /\ Decide(c) /\ Answer(c, "preparing")
    /\ UNCHANGED <<unblocked, Mailbox, Bounds>>

Serve(c) ==
    \/ StatusCommit(c) \/ InsertRows(c)
    \/ SelectRequest(c) \/ SelectOrder(c) \/ Reject(c) \/ ApproveStep(c) \/ ApproveLast(c)
    \/ SortMail(c)

Poll(p) == Serve(p) \/ \E m \in Mails : ReadReply(p, m)

Next ==
    \/ CreateWorkOrder
    \/ \E c \in Callers :
          \/ \E new \in Statuses : StatusCheck(c, new)
          \/ AskApproval(c)
          \/ \E s \in Steps, ok \in BOOLEAN : Respond(c, s, ok)
    \/ \E m \in Mails : MailArrives(m)
    \/ \E c \in Clients : Serve(c)
    \/ \E p \in Pollers, m \in Mails : ReadReply(p, m)
    \/ \E p \in Pollers : PollerFails(p)

Spec == Init /\ [][Next]_vars
\* The background poller's loop goes on for ever, and what was read is answered.
FairSpec == Spec /\ WF_vars(Poll("background")) /\ \A c \in Clients : WF_vars(Serve(c))

-----------------------------------------------------------------------------
(* Properties.                                                             *)

TypeOK ==
    /\ status \in Statuses \cup {"none"}
    /\ journey \in Statuses \cup {"none"}
    /\ rows \in [Steps -> RowStates]
    /\ unblocked \in SUBSET Steps
    /\ call \in [Clients -> Call]
    /\ mail \in [Mails -> {"away", "unread", "done"}]
    /\ decided \in [Mails -> SUBSET Steps]
    /\ routed \in SUBSET Mails
    /\ finals \in Nat
    /\ overlaps \in BOOLEAN /\ skips \in BOOLEAN /\ crowded \in BOOLEAN
    /\ calls \in 0..MaxCalls
    /\ failures \in 0..MaxFailures

Gapless == \A s \in Steps : Exists(s) => \A t \in 1..s : Exists(t)

\* A final approval means that every step of the chain was approved, in chains
\* without gaps, as long as no one answered a step before its turn and no commit
\* relied on a stale row.
FinalMeansAll ==
    (finals > 0 /\ Gapless /\ ~skips /\ ~overlaps) => \A s \in Steps : Exists(s) => rows[s] = "approved"

\* Under the same conditions the parties are told of the final approval once, for all
\* replies, repeated mails and concurrent pollers.
AnnouncedOnce == (~skips /\ ~overlaps) => finals <= 1

\* One rejection ends the matter: no step stays pending, and the work order is and
\* stays closed, unless a commit relied on a stale row.
RejectionCloses ==
    (~overlaps /\ \E s \in Steps : rows[s] = "rejected") => status = "closed" /\ Pending = {}

\* The journey shows the status of the work order, unless a commit relied on a
\* stale row.
JourneyFollows == ~overlaps => journey = status

\* Every change of the status is one of the table's, whoever makes it: the update
\* endpoints, a rejection, a final approval or the background poller.
LegalTransitions ==
    [][(status' # status /\ status # "none" /\ ~overlaps') => status' \in ValidTransitions[status]]_vars

\* The background poller spends a reply once, even one of an approver who has
\* several steps, as long as no call fails and the route has not read it.
MailSpentOnce ==
    failures = 0 => \A m \in Mails \ routed : Cardinality(decided[m]) <= 1

\* No reply to a step whose turn it is waits for ever, unless more mails are unread
\* than one poll fetches: those it cannot use stay unread and keep their place.
Waiting == {m \in Unread : Actionable(m) # {}}
RepliesAreAnswered == []<>(Waiting = {} \/ crowded)
=============================================================================
