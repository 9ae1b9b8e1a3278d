---------------------------- MODULE PPMScheduler ----------------------------
(***************************************************************************)
(* The scheduler of preventive maintenance (PPM): the hourly loop of the   *)
(* worker and the requests POST /api/ppm/run turn every maintenance plan   *)
(* that is due into a work order, in any order, while connector-service    *)
(* edits the plans.                                                        *)
(***************************************************************************)
EXTENDS Naturals

CONSTANTS
    Plans,          \* rows of maintenance_plans
    Requests,       \* concurrent POST /api/ppm/run
    MaxDay,         \* bound: the last day that is looked at
    MaxFailures     \* bound: calls of the database or the mail server that raise

Loop    == "loop"
Runners == Requests \cup {Loop}
Absent  == MaxDay + 1       \* no such plan; day 0 stands for a next_due_date that is NULL

VARIABLES
    today,
    due,            \* due[p]: next_due_date of the plan, or Absent
    ordered,        \* the plans with a work order of today, or several
    run,            \* run[r]: what runner r has left to do
    failures        \* bounded: see MaxFailures

vars == <<today, due, ordered, run, failures>>

\* Sleeping, or not requested. Otherwise a runner is about to create an order, or to
\* notify of the one it has created.
Resting == [at |-> "rest", todo |-> {}]

Init ==
    /\ today = 1
    /\ due \in [Plans -> 0..Absent]
    /\ ordered = {}
    /\ run = [r \in Runners |-> Resting]
    /\ failures = 0

DueAfter(p) == due[p] # Absent /\ due[p] < today     \* fault: due only from the day after

\* A plan without a date is due by the fallback: nobody records its last execution.
IsScheduleDue(p) == due[p] # Absent /\ due[p] <= today

\* The plans are read at once, and are not looked at again.
GetDuePPMSchedules(r) ==
    /\ run[r].at = "rest"
    /\ run' = [run EXCEPT ![r] = [at |-> "create", todo |-> {p \in Plans : IsScheduleDue(p)}]]
    /\ UNCHANGED <<today, due, ordered, failures>>

\* The order is committed first; the plan is left as it is.
CreatePPMWorkOrder(r) ==
    /\ run[r].at = "create"
    /\ \E p \in run[r].todo :
          /\ ordered' = ordered \cup {p}
          /\ run' = [run EXCEPT ![r] = [at |-> "notify", todo |-> @.todo \ {p}]]
    /\ UNCHANGED <<today, due, failures>>

\* The approver has been told, or Outlook is not configured.
SendPPMApprovalNotification(r) ==
    /\ run[r].at = "notify"
    /\ run' = [run EXCEPT ![r].at = "create"]
    /\ UNCHANGED <<today, due, ordered, failures>>

EndRun(r) ==
    /\ run[r] = [at |-> "create", todo |-> {}]
    /\ run' = [run EXCEPT ![r] = Resting]
    /\ UNCHANGED <<today, due, ordered, failures>>

\* An order cannot be stored or a mail cannot be sent: the loop logs it and sleeps, a
\* request fails. What was committed stays, the remaining plans are not served.
Raise(r) ==
    /\ run[r].at = "notify" \/ run[r].todo # {}
    /\ failures < MaxFailures
    /\ failures' = failures + 1
    /\ run' = [run EXCEPT ![r] = Resting]
    /\ UNCHANGED <<today, due, ordered>>

\* Plans are created, given another date and deleted through connector-service.
EditPlan(p) ==
    /\ due' \in {[due EXCEPT ![p] = d] : d \in 0..Absent}
    /\ UNCHANGED <<today, ordered, run, failures>>

NextDay ==
    /\ today < MaxDay
    /\ today' = today + 1
    /\ ordered' = {}
    /\ UNCHANGED <<due, run, failures>>

Serve(r) ==
    \/ GetDuePPMSchedules(r)
    \/ CreatePPMWorkOrder(r)
    \/ SendPPMApprovalNotification(r)
    \/ EndRun(r)

Next ==
    \/ \E r \in Runners : Serve(r) \/ Raise(r)
    \/ \E p \in Plans : EditPlan(p)
    \/ NextDay

Spec == Init /\ [][Next]_vars
\* The worker process goes on, and its loop catches what a run raises. Nobody needs to
\* post a request.
FairSpec == Spec /\ WF_vars(Serve(Loop))

-----------------------------------------------------------------------------
(* Properties.                                                             *)

\* A plan that stays due gets its order, although a run serves the plans in any order and
\* drops the rest of them when one notification fails: sooner or later one run is whole.
DueIsServed == \A p \in Plans : []<>(due[p] > today \/ p \in ordered)
=============================================================================
