---------------------------- MODULE ReviewQueue ----------------------------
(***************************************************************************)
(* The human review queue of svc-ingestion: a redis sorted set of pending  *)
(* items, a hash with the data of each, a lock with a TTL per item, and    *)
(* the review_queue table of PostgreSQL the decisions are written to.      *)
(* Every redis command and every transaction is a step of its own: nothing *)
(* ties them together but the lock.                                        *)
(***************************************************************************)
EXTENDS Naturals, FiniteSets

CONSTANTS
    Slots,         \* requests that may be under way at once
    Reviewers,
    Items,         \* review items, each enqueued at most once (uuid4 ids)
    Docs,          \* ingestion ids
    DocOf,         \* the ingestion an item is about
    Page,          \* candidates one acquire looks at (20 in the code)
    NoOne,         \* no lock, no row
    MaxOverlaps,   \* bound: requests made while another is under way
    MaxLapses,     \* bound: redis keys that expire
    MaxCrashes     \* bound: crashes of the service

ASSUME DocAssumption == DocOf \in [Items -> Docs] /\ IsFiniteSet(Items)
ASSUME NoOneAssumption == NoOne \notin Reviewers /\ NoOne \notin Items
ASSUME BoundsAssumption == Page \in Nat /\ MaxOverlaps \in Nat /\ MaxLapses \in Nat /\ MaxCrashes \in Nat

VARIABLES
    queue,      \* members of the sorted set
    score,      \* score[i]: place of item i in the order of creation
    hash,       \* hash[i]: "absent", "expiring" (7-day TTL) or "lasting" (no TTL)
    lock,       \* lock[i]: the reviewer holding the lock of i
    table,      \* table[i]: last decider on the review_queue row with id i, if any
    req,        \* req[s]: where the request in slot s stands
    enqueued,   \* items whose enqueue() returned
    decided,    \* decided[i]: reviewers whose decision on i was committed
    expired,    \* items whose data expired
    overlaps, lapses, crashes   \* bounded: see MaxOverlaps, MaxLapses, MaxCrashes

vars == <<queue, score, hash, lock, table, req, enqueued, decided, expired,
          overlaps, lapses, crashes>>

Phases  == {"idle", "rank", "scan", "read", "drop", "unlock", "mark",
            "fetch", "select", "commit", "remove", "release", "delete"}
Request == [pc : Phases, who : Reviewers \cup {NoOne}, item : Items \cup {NoOne},
            left : SUBSET Items, row : Items \cup {NoOne}]
Idle    == [pc |-> "idle", who |-> NoOne, item |-> NoOne, left |-> {}, row |-> NoOne]

Init ==
    /\ queue = {}
    /\ score = [i \in Items |-> 0]
    /\ hash = [i \in Items |-> "absent"]
    /\ lock = [i \in Items |-> NoOne]
    /\ table = [i \in Items |-> NoOne]
    /\ req = [s \in Slots |-> Idle]
    /\ enqueued = {}
    /\ decided = [i \in Items |-> {}]
    /\ expired = {}
    /\ overlaps = 0
    /\ lapses = 0
    /\ crashes = 0

-----------------------------------------------------------------------------
(* Shorthands.                                                             *)

Queue   == <<queue, score, enqueued>>
Ghosts  == <<expired, lapses, crashes>>
Table   == <<table, decided>>

Arrive(s) ==
    /\ req[s].pc = "idle"
    /\ IF \A t \in Slots : req[t].pc = "idle"
       THEN UNCHANGED overlaps
       ELSE overlaps < MaxOverlaps /\ overlaps' = overlaps + 1

Goto(s, phase) == req' = [req EXCEPT ![s].pc = phase]
Leave(s)       == req' = [req EXCEPT ![s] = Idle]

\* The first Page members of the sorted set.
Candidates == {i \in queue : Cardinality({j \in queue : score[j] < score[i]}) < Page}
\* Those of a candidate list that come next: the oldest.
Oldest(left) == {i \in left : \A j \in left : score[i] <= score[j]}
\* Rows the SELECT ... WHERE ingestion_id finds.
RowsOf(d) == {i \in Items : table[i] # NoOne /\ DocOf[i] = d}

-----------------------------------------------------------------------------
(* enqueue()                                                               *)

\* HSET and EXPIRE of the item's data ...
EnqueueStore(s, i) ==
    /\ Arrive(s)
    /\ hash[i] = "absent" /\ score[i] = 0
    /\ hash' = [hash EXCEPT ![i] = "expiring"]
    /\ score' = [score EXCEPT ![i] = Cardinality({j \in Items : score[j] > 0}) + 1]
    /\ req' = [req EXCEPT ![s] = [Idle EXCEPT !.pc = "rank", !.item = i]]
    /\ UNCHANGED <<queue, lock, Table, enqueued, Ghosts>>

\* ... then ZADD.
EnqueueRank(s) ==
    /\ req[s].pc = "rank"
    /\ queue' = queue \cup {req[s].item}
    /\ enqueued' = enqueued \cup {req[s].item}
    /\ Leave(s)
    /\ UNCHANGED <<score, hash, lock, Table, Ghosts, overlaps>>

-----------------------------------------------------------------------------
(* acquire_next()                                                          *)

\* ZRANGE 0 19: the candidates are read once.
AcquireList(s, r) ==
    /\ Arrive(s)
    /\ req' = [req EXCEPT ![s] = [Idle EXCEPT !.pc = "scan", !.who = r, !.left = Candidates]]
    /\ UNCHANGED <<Queue, hash, lock, Table, Ghosts>>

\* SET NX EX on the lock of the next candidate; a locked one is passed over.
LockWithItem(s) ==                                  \* fault: key and value swapped
    /\ req[s].pc = "scan"
    /\ \E i \in Oldest(req[s].left) :
          /\ lock' = [lock EXCEPT ![i] = IF @ = NoOne THEN i ELSE @]
          /\ req' = [req EXCEPT ![s].pc = IF lock[i] = NoOne THEN "read" ELSE @,
                                ![s].item = i, ![s].left = @ \ {i}]
    /\ UNCHANGED <<Queue, hash, Table, Ghosts, overlaps>>
TryLock(s) ==
    /\ req[s].pc = "scan"
    /\ \E i \in Oldest(req[s].left) :
          IF lock[i] = NoOne
          THEN /\ lock' = [lock EXCEPT ![i] = req[s].who]
               /\ req' = [req EXCEPT ![s].pc = "read", ![s].item = i, ![s].left = @ \ {i}]
          ELSE /\ req' = [req EXCEPT ![s].left = @ \ {i}]
               /\ UNCHANGED lock
    /\ UNCHANGED <<Queue, hash, Table, Ghosts, overlaps>>

\* No candidate left: None is returned.
NothingToReview(s) ==
    /\ req[s].pc = "scan" /\ req[s].left = {}
    /\ Leave(s)
    /\ UNCHANGED <<Queue, hash, lock, Table, Ghosts, overlaps>>

\* HGET of the locked item's data.
ReadItem(s) ==
    /\ req[s].pc = "read"
    /\ Goto(s, IF hash[req[s].item] = "absent" THEN "drop" ELSE "mark")
    /\ UNCHANGED <<Queue, hash, lock, Table, Ghosts, overlaps>>

\* The data is gone: ZREM, then the lock is deleted, whoever holds it by now.
DropItem(s) ==
    /\ req[s].pc = "drop"
    /\ queue' = queue \ {req[s].item}
    /\ Goto(s, "unlock")
    /\ UNCHANGED <<score, enqueued, hash, lock, Table, Ghosts, overlaps>>

UnlockDropped(s) ==
    /\ req[s].pc = "unlock"
    /\ lock' = [lock EXCEPT ![req[s].item] = NoOne]
    /\ req' = [req EXCEPT ![s].pc = "scan", ![s].item = NoOne]
    /\ UNCHANGED <<Queue, hash, Table, Ghosts, overlaps>>

\* HSET status = "locked": re-creates, without a TTL, data that is gone by now.
MarkLocked(s) ==
    /\ req[s].pc = "mark"
    /\ hash' = [hash EXCEPT ![req[s].item] = IF @ = "absent" THEN "lasting" ELSE @]
    /\ Leave(s)
    /\ UNCHANGED <<Queue, lock, Table, Ghosts, overlaps>>

-----------------------------------------------------------------------------
(* submit_decision()                                                       *)

\* GET of the lock: 409 and 403 unless the caller holds it.
SubmitCheck(s, r, i) ==
    /\ Arrive(s)
    /\ lock[i] = r
    /\ req' = [req EXCEPT ![s] = [Idle EXCEPT !.pc = "fetch", !.who = r, !.item = i]]
    /\ UNCHANGED <<Queue, hash, lock, Table, Ghosts>>

\* HGET of the data: 404 when it is gone.
FetchAndRemove(s) ==                                \* fault: removed before the commit
    /\ req[s].pc = "fetch"
    /\ IF hash[req[s].item] = "absent" THEN Leave(s) ELSE Goto(s, "select")
    /\ queue' = queue \ {req[s].item}
    /\ UNCHANGED <<score, enqueued, hash, lock, Table, Ghosts, overlaps>>
SubmitFetch(s) ==
    /\ req[s].pc = "fetch"
    /\ IF hash[req[s].item] = "absent" THEN Leave(s) ELSE Goto(s, "select")
    /\ UNCHANGED <<Queue, hash, lock, Table, Ghosts, overlaps>>

\* SELECT by ingestion id: scalar_one_or_none raises on two rows (500).
SelectOwnRow(s) ==                                  \* fault: looked up by item id
    /\ req[s].pc = "select"
    /\ req' = [req EXCEPT ![s].pc = "commit",
                          ![s].row = IF table[req[s].item] = NoOne THEN NoOne ELSE req[s].item]
    /\ UNCHANGED <<Queue, hash, lock, Table, Ghosts, overlaps>>
SelectRow(s) ==
    /\ req[s].pc = "select"
    /\ LET found == RowsOf(DocOf[req[s].item]) IN
          \/ /\ found = {}
             /\ Goto(s, "commit")
          \/ \E i \in found :
                /\ found = {i}
                /\ req' = [req EXCEPT ![s].pc = "commit", ![s].row = i]
          \/ /\ \E i, j \in found : i # j
             /\ Leave(s)
    /\ UNCHANGED <<Queue, hash, lock, Table, Ghosts, overlaps>>

\* UPDATE of the row found, or INSERT of one with the item's id; a duplicate id
\* is an IntegrityError (500, rolled back).
CommitOnly(s) ==                                    \* fault: nothing is cleaned up
    /\ req[s].pc = "commit"
    /\ LET k == IF req[s].row = NoOne THEN req[s].item ELSE req[s].row IN
          table' = [table EXCEPT ![k] = req[s].who]
    /\ decided' = [decided EXCEPT ![req[s].item] = @ \cup {req[s].who}]
    /\ Leave(s)
    /\ UNCHANGED <<Queue, hash, lock, Ghosts, overlaps>>
CommitDecision(s) ==
    /\ req[s].pc = "commit"
    /\ LET i == req[s].item
           k == IF req[s].row = NoOne THEN i ELSE req[s].row
       IN  IF req[s].row = NoOne /\ table[i] # NoOne
           THEN Leave(s) /\ UNCHANGED Table
           ELSE /\ table' = [table EXCEPT ![k] = req[s].who]
                /\ decided' = [decided EXCEPT ![i] = @ \cup {req[s].who}]
                /\ Goto(s, "remove")
    /\ UNCHANGED <<Queue, hash, lock, Ghosts, overlaps>>

\* The transaction failed: rolled back, 500, redis left as it is.
DatabaseError(s) ==
    /\ req[s].pc \in {"select", "commit"}
    /\ Leave(s)
    /\ UNCHANGED <<Queue, hash, lock, Table, Ghosts, overlaps>>

\* ZREM, DEL of the lock, DEL of the data.
KeepUpdated(s) ==                                   \* fault: ZREM for new rows only
    /\ req[s].pc = "remove"
    /\ queue' = IF req[s].row = NoOne THEN queue \ {req[s].item} ELSE queue
    /\ Goto(s, "release")
    /\ UNCHANGED <<score, enqueued, hash, lock, Table, Ghosts, overlaps>>
RemoveItem(s) ==
    /\ req[s].pc = "remove"
    /\ queue' = queue \ {req[s].item}
    /\ Goto(s, "release")
    /\ UNCHANGED <<score, enqueued, hash, lock, Table, Ghosts, overlaps>>

ReleaseLock(s) ==
    /\ req[s].pc = "release"
    /\ lock' = [lock EXCEPT ![req[s].item] = NoOne]
    /\ Goto(s, "delete")
    /\ UNCHANGED <<Queue, hash, Table, Ghosts, overlaps>>

DeleteItem(s) ==
    /\ req[s].pc = "delete"
    /\ hash' = [hash EXCEPT ![req[s].item] = "absent"]
    /\ Leave(s)
    /\ UNCHANGED <<Queue, lock, Table, Ghosts, overlaps>>

-----------------------------------------------------------------------------
(* Redis and the service process.                                          *)

LockExpires(i) ==
    /\ lapses < MaxLapses
    /\ lock[i] # NoOne
    /\ lock' = [lock EXCEPT ![i] = NoOne]
    /\ lapses' = lapses + 1
    /\ UNCHANGED <<Queue, hash, Table, req, expired, crashes, overlaps>>

DataExpires(i) ==
    /\ lapses < MaxLapses
    /\ hash[i] = "expiring"
    /\ hash' = [hash EXCEPT ![i] = "absent"]
    /\ expired' = expired \cup {i}
    /\ lapses' = lapses + 1
    /\ UNCHANGED <<Queue, lock, Table, req, crashes, overlaps>>

Crash ==
    /\ crashes < MaxCrashes
    /\ \E s \in Slots : req[s].pc # "idle"
    /\ crashes' = crashes + 1
    /\ req' = [s \in Slots |-> Idle]
    /\ UNCHANGED <<Queue, hash, lock, Table, expired, lapses, overlaps>>

Serve(s) ==
    \/ EnqueueRank(s)
    \/ TryLock(s) \/ NothingToReview(s) \/ ReadItem(s)
    \/ DropItem(s) \/ UnlockDropped(s) \/ MarkLocked(s)
    \/ SubmitFetch(s) \/ SelectRow(s) \/ CommitDecision(s) \/ DatabaseError(s)
    \/ RemoveItem(s) \/ ReleaseLock(s) \/ DeleteItem(s)

Next ==
    \/ \E s \in Slots, i \in Items : EnqueueStore(s, i)
    \/ \E s \in Slots, r \in Reviewers : AcquireList(s, r)
    \/ \E s \in Slots, r \in Reviewers, i \in Items : SubmitCheck(s, r, i)
    \/ \E s \in Slots : Serve(s)
    \/ \E i \in Items : LockExpires(i)
    \/ \E i \in Items : DataExpires(i)
    \/ Crash

Spec == Init /\ [][Next]_vars
\* A handler that was called runs on.
FairSpec == Spec /\ \A s \in Slots : WF_vars(Serve(s))

-----------------------------------------------------------------------------
(* Properties.                                                             *)

TypeOK ==
    /\ queue \in SUBSET Items
    /\ score \in [Items -> Nat]
    /\ hash \in [Items -> {"absent", "expiring", "lasting"}]
    /\ lock \in [Items -> Reviewers \cup {NoOne}]
    /\ table \in [Items -> Reviewers \cup {NoOne}]
    /\ req \in [Slots -> Request]
    /\ enqueued \in SUBSET Items
    /\ decided \in [Items -> SUBSET Reviewers]
    /\ expired \in SUBSET Items
    /\ overlaps \in 0..MaxOverlaps
    /\ lapses \in 0..MaxLapses
    /\ crashes \in 0..MaxCrashes

\* An item whose enqueue was acknowledged stays in the queue until a decision on it
\* is committed or its data expires: no interleaving of acquire_next and
\* submit_decision, no failed transaction and no crash loses it.
NothingForgotten ==
    \A i \in enqueued : i \in queue \/ decided[i] # {} \/ i \in expired

\* When requests are served one at a time and no process dies, an item is decided
\* by one reviewer, however often locks expire: the commit is followed by the
\* removal of the queue entry, the lock and the data.
DecidedByOne ==
    (overlaps = 0 /\ crashes = 0) =>
        \A i \in Items : \A r, q \in decided[i] : r = q

\* When requests are served one at a time an ingestion has at most one
\* review_queue row: a second one would make scalar_one_or_none raise for every
\* later decision on that ingestion.
OneRowPerDocument ==
    overlaps = 0 =>
        \A i, j \in Items : (table[i] # NoOne /\ table[j] # NoOne /\ DocOf[i] = DocOf[j]) => i = j

\* A decided item leaves the queue for good unless the process dies first: the
\* redis cleanup follows the commit.
DecisionLeavesQueue ==
    \A i \in Items : decided[i] # {} ~> (i \notin queue \/ crashes > 0)
=============================================================================
