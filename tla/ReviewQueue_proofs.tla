------------------------- MODULE ReviewQueue_proofs -------------------------
(***************************************************************************)
(* For any number of requests, reviewers, items and ingestions: type       *)
(* correctness, no acknowledged item is forgotten, and, for requests       *)
(* served one at a time, one decider per item and one row per ingestion.   *)
(***************************************************************************)
EXTENDS ReviewQueue, FiniteSetTheorems, TLAPS


\* The cleanup after a committed decision.
Settling == {"remove", "release", "delete"}

\* A request past its first step works on an item, for a reviewer unless it is an
\* enqueue; it has found a row only once it is about to commit.
Working ==
    \A s \in Slots : /\ req[s].pc \notin {"idle", "scan"} => req[s].item \in Items
                     /\ req[s].pc \notin {"idle", "rank"} => req[s].who \in Reviewers
                     /\ req[s].pc \notin {"commit"} \cup Settling => req[s].row = NoOne

\* Item i can still be served from its data, or needs it no longer.
Accounted(i) == hash[i] = "absent" => decided[i] # {} \/ i \in expired

\* Why an item may leave the sorted set: it was decided, or its data expired.
Leaving ==
    /\ queue \subseteq enqueued
    /\ \A s \in Slots : req[s].left \subseteq enqueued
    /\ \A i \in enqueued : Accounted(i)
    /\ \A s \in Slots :
          /\ req[s].pc = "rank" => Accounted(req[s].item)
          /\ req[s].pc \in {"read", "drop", "unlock", "mark"} => req[s].item \in enqueued
          /\ req[s].pc = "drop" => decided[req[s].item] # {} \/ req[s].item \in expired
          /\ req[s].pc \in Settling => decided[req[s].item] # {}

IInv == TypeOK /\ Working /\ Leaving /\ NothingForgotten

\* No overlap was counted: at most one request is under way.
Alone == overlaps = 0 => \A s, t \in Slots : (req[s].pc # "idle" /\ req[t].pc # "idle") => s = t

\* A row found is a row of the same ingestion; a row not found is not there.
RowFound ==
    overlaps = 0 => \A s \in Slots : req[s].pc = "commit" =>
        IF req[s].row = NoOne THEN RowsOf(DocOf[req[s].item]) = {}
        ELSE req[s].row \in RowsOf(DocOf[req[s].item])

\* After a decision the item is being cleaned up by the one who decided it, or its
\* data is gone and no request is about to bring it back.
Settled(i) ==
    /\ score[i] > 0
    /\ \/ \E s \in Slots : /\ req[s].pc \in Settling
                           /\ req[s].item = i
                           /\ decided[i] = {req[s].who}
       \/ /\ hash[i] = "absent"
          /\ \A s \in Slots : req[s].item = i => req[s].pc \notin {"mark", "select", "commit"}
          /\ \E r \in Reviewers : decided[i] = {r}

\* Where data is or was, the item has its place in the order.
Placed ==
    /\ \A i \in Items : hash[i] # "absent" => score[i] > 0
    /\ \A i \in enqueued : score[i] > 0
    /\ \A s \in Slots : req[s].pc \notin {"idle", "scan", "fetch"} => score[req[s].item] > 0

DecidedOnce ==
    (overlaps = 0 /\ crashes = 0) => \A i \in Items : decided[i] # {} => Settled(i)

SInv == Alone /\ RowFound /\ OneRowPerDocument /\ Placed /\ DecidedOnce

-----------------------------------------------------------------------------
\* Every request starts and ends idle, and a step moves one slot.
LEMMA IdleType == Idle \in Request
  BY DEF Idle, Request, Phases

LEMMA CandidatesQueued == Candidates \subseteq queue
  BY DEF Candidates

LEMMA InitIInv == Init => IInv
  <1> SUFFICES ASSUME Init PROVE IInv OBVIOUS
  <1>1. TypeOK
    BY IdleType, BoundsAssumption DEF Init, TypeOK
  <1>2. Working /\ Leaving /\ NothingForgotten
    BY DEF Init, Working, Leaving, NothingForgotten, Idle, Settling
  <1> QED BY <1>1, <1>2 DEF IInv

\* A request that moves on keeps its reviewer, its item and, up to the commit, no row.
LEMMA GotoMoves ==
  ASSUME TypeOK, Working, NEW s \in Slots, NEW p \in Phases, Goto(s, p),
         req[s].item \in Items, req[s].who \in Reviewers,
         req[s].row = NoOne \/ p \in Settling
  PROVE  req' \in [Slots -> Request] /\ Working'
  <1>1. req' \in [Slots -> Request]
    BY DEF Goto, TypeOK, Request
  <1>2. ASSUME NEW t \in Slots
        PROVE  /\ req'[t].pc \notin {"idle", "scan"} => req'[t].item \in Items
               /\ req'[t].pc \notin {"idle", "rank"} => req'[t].who \in Reviewers
               /\ req'[t].pc \notin {"commit"} \cup Settling => req'[t].row = NoOne
    <2>1. CASE t = s
      BY <2>1 DEF Goto, TypeOK, Request
    <2>2. CASE t # s
      <3>1. req'[t] = req[t]
        BY <2>2 DEF Goto, TypeOK
      <3> QED BY <3>1 DEF Working
    <2> QED BY <2>1, <2>2
  <1> QED BY <1>1, <1>2 DEF Working

LEMMA LeaveMoves ==
  ASSUME TypeOK, Working, NEW s \in Slots, Leave(s)
  PROVE  req' \in [Slots -> Request] /\ Working'
  BY IdleType DEF Leave, Idle, TypeOK, Working, Settling

LEMMA TypeStep == TypeOK /\ Working /\ [Next]_vars => TypeOK' /\ Working'
  <1> SUFFICES ASSUME TypeOK, Working, [Next]_vars PROVE TypeOK' /\ Working' OBVIOUS
  <1> USE IdleType DEF TypeOK, Working, Settling, Queue, Ghosts, Table, Goto, Leave
  <1>1. ASSUME NEW s \in Slots, NEW i \in Items, EnqueueStore(s, i) PROVE TypeOK' /\ Working'
    <2>0. IsFiniteSet({j \in Items : score[j] > 0})
      BY DocAssumption, FS_Subset
    <2>1. Cardinality({j \in Items : score[j] > 0}) + 1 \in Nat
      BY <2>0, FS_CardinalityType
    <2>2. score' \in [Items -> Nat]
      BY <1>1, <2>1 DEF EnqueueStore
    <2>3. overlaps' \in 0..MaxOverlaps
      BY <1>1, BoundsAssumption DEF EnqueueStore, Arrive
    <2> QED BY <1>1, <2>2, <2>3 DEF EnqueueStore, Idle, Request, Phases
  <1>2. ASSUME NEW s \in Slots, NEW r \in Reviewers, AcquireList(s, r) PROVE TypeOK' /\ Working'
    <2>1. overlaps' \in 0..MaxOverlaps
      BY <1>2, BoundsAssumption DEF AcquireList, Arrive
    <2>2. Candidates \subseteq Items
      BY CandidatesQueued
    <2> QED BY <1>2, <2>1, <2>2 DEF AcquireList, Idle, Request, Phases
  <1>3. ASSUME NEW s \in Slots, NEW r \in Reviewers, NEW i \in Items, SubmitCheck(s, r, i)
        PROVE TypeOK' /\ Working'
    <2>1. overlaps' \in 0..MaxOverlaps
      BY <1>3, BoundsAssumption DEF SubmitCheck, Arrive
    <2> QED BY <1>3, <2>1 DEF SubmitCheck, Idle, Request, Phases
  <1>4. ASSUME NEW s \in Slots, Serve(s) PROVE TypeOK' /\ Working'
    <2>1. CASE EnqueueRank(s)
      <3>1. req' \in [Slots -> Request] /\ Working'
        BY <2>1, LeaveMoves DEF EnqueueRank
      <3> QED BY <2>1, <3>1 DEF EnqueueRank, Working
    <2>2. CASE TryLock(s)
      <3>0. req[s].who \in Reviewers /\ req[s].pc = "scan"
        BY <2>2 DEF TryLock
      <3>1. PICK i \in Items :
            IF lock[i] = NoOne
            THEN /\ lock' = [lock EXCEPT ![i] = req[s].who]
                 /\ req' = [req EXCEPT ![s].pc = "read", ![s].item = i, ![s].left = @ \ {i}]
            ELSE /\ req' = [req EXCEPT ![s].left = @ \ {i}]
                 /\ UNCHANGED lock
        BY <2>2 DEF TryLock, Oldest, Request
      <3>2. lock' \in [Items -> Reviewers \cup {NoOne}]
        BY <3>0, <3>1
      <3>3. req' \in [Slots -> Request]
        BY <3>0, <3>1 DEF Request, Phases
      <3>4. Working'
        BY <3>0, <3>1 DEF Request, Phases
      <3> QED BY <2>2, <3>2, <3>3, <3>4 DEF TryLock
    <2>3. CASE NothingToReview(s)
      <3>1. req' \in [Slots -> Request] /\ Working'
        BY <2>3, LeaveMoves DEF NothingToReview
      <3> QED BY <2>3, <3>1 DEF NothingToReview, Working
    <2>4. CASE ReadItem(s)
      <3>1. req' \in [Slots -> Request] /\ Working'
        BY <2>4, GotoMoves DEF ReadItem, Working, Settling, Phases
      <3> QED BY <2>4, <3>1 DEF ReadItem
    <2>5. CASE DropItem(s)
      <3>1. req' \in [Slots -> Request] /\ Working'
        BY <2>5, GotoMoves DEF DropItem, Working, Settling, Phases
      <3> QED BY <2>5, <3>1 DEF DropItem
    <2>6. CASE UnlockDropped(s)
      <3>1. req' \in [Slots -> Request]
        BY <2>6, ZenonT(60) DEF UnlockDropped, Request, Phases
      <3>2. Working'
        BY <2>6 DEF UnlockDropped, Request
      <3>3. lock' \in [Items -> Reviewers \cup {NoOne}]
        BY <2>6 DEF UnlockDropped
      <3> QED BY <2>6, <3>1, <3>2, <3>3 DEF UnlockDropped
    <2>7. CASE MarkLocked(s)
      <3>1. req' \in [Slots -> Request] /\ Working'
        BY <2>7, LeaveMoves DEF MarkLocked
      <3> QED BY <2>7, <3>1 DEF MarkLocked, Working
    <2>8. CASE SubmitFetch(s)
      <3>1. CASE Leave(s)
        BY <2>8, <3>1, LeaveMoves DEF SubmitFetch
      <3>2. CASE Goto(s, "select")
        <4>1. req' \in [Slots -> Request] /\ Working'
          BY <2>8, <3>2, GotoMoves DEF SubmitFetch, Working, Settling, Phases
        <4> QED BY <2>8, <4>1 DEF SubmitFetch
      <3> QED BY <2>8, <3>1, <3>2 DEF SubmitFetch
    <2>9. CASE SelectRow(s)
      BY <2>9, SMTT(30) DEF SelectRow, RowsOf, Idle, Request, Phases
    <2>10. CASE CommitDecision(s)
      <3> DEFINE k == IF req[s].row = NoOne THEN req[s].item ELSE req[s].row
      <3>1. k \in Items /\ req[s].who \in Reviewers /\ req[s].pc = "commit"
        BY <2>10 DEF CommitDecision, Request
      <3>2. CASE req' = [req EXCEPT ![s] = Idle] /\ UNCHANGED Table
        BY <2>10, <3>2 DEF CommitDecision, Idle, Request, Phases
      <3>3. CASE /\ table' = [table EXCEPT ![k] = req[s].who]
                 /\ decided' = [decided EXCEPT ![req[s].item] = @ \cup {req[s].who}]
                 /\ req' = [req EXCEPT ![s].pc = "remove"]
        <4>1. table' \in [Items -> Reviewers \cup {NoOne}]
          BY <3>1, <3>3
        <4>2. decided' \in [Items -> SUBSET Reviewers]
          BY <3>1, <3>3
        <4> HIDE DEF k
        <4>3. req' \in [Slots -> Request] /\ Working'
          BY <3>1, <3>3 DEF Request, Phases
        <4> QED BY <2>10, <4>1, <4>2, <4>3 DEF CommitDecision
      <3> QED BY <2>10, <3>2, <3>3 DEF CommitDecision
    <2>11. CASE DatabaseError(s)
      <3>1. req' \in [Slots -> Request] /\ Working'
        BY <2>11, LeaveMoves DEF DatabaseError
      <3> QED BY <2>11, <3>1 DEF DatabaseError, Working
    <2>12. CASE RemoveItem(s)
      <3>1. req' \in [Slots -> Request] /\ Working'
        BY <2>12, GotoMoves DEF RemoveItem, Working, Settling, Phases
      <3> QED BY <2>12, <3>1 DEF RemoveItem
    <2>13. CASE ReleaseLock(s)
      <3>1. req' \in [Slots -> Request] /\ Working'
        BY <2>13, GotoMoves DEF ReleaseLock, Working, Settling, Phases
      <3> QED BY <2>13, <3>1 DEF ReleaseLock
    <2>14. CASE DeleteItem(s)
      <3>1. req' \in [Slots -> Request] /\ Working'
        BY <2>14, LeaveMoves DEF DeleteItem
      <3> QED BY <2>14, <3>1 DEF DeleteItem, Working
    <2> QED BY <1>4, <2>1, <2>2, <2>3, <2>4, <2>5, <2>6, <2>7, <2>8, <2>9, <2>10, <2>11,
               <2>12, <2>13, <2>14 DEF Serve
  <1>5. ASSUME NEW i \in Items, LockExpires(i) PROVE TypeOK' /\ Working'
    BY <1>5, BoundsAssumption DEF LockExpires
  <1>6. ASSUME NEW i \in Items, DataExpires(i) PROVE TypeOK' /\ Working'
    BY <1>6, BoundsAssumption DEF DataExpires
  <1>7. ASSUME Crash PROVE TypeOK' /\ Working'
    BY <1>7, BoundsAssumption DEF Crash, Idle
  <1>8. ASSUME UNCHANGED vars PROVE TypeOK' /\ Working'
    BY <1>8 DEF vars
  <1> QED BY <1>1, <1>2, <1>3, <1>4, <1>5, <1>6, <1>7, <1>8 DEF Next

\* What the SELECT by ingestion id leads to.
LEMMA SelectEffect ==
    ASSUME NEW s \in Slots, SelectRow(s)
    PROVE  \/ req' = [req EXCEPT ![s] = Idle]
           \/ RowsOf(DocOf[req[s].item]) = {} /\ req' = [req EXCEPT ![s].pc = "commit"]
           \/ \E i \in RowsOf(DocOf[req[s].item]) :
                 req' = [req EXCEPT ![s].pc = "commit", ![s].row = i]
  BY DEF SelectRow, Goto, Leave

\* A candidate is locked for the caller or passed over.
TryLockAt(s, i) ==
    /\ i \in req[s].left
    /\ \/ /\ lock[i] = NoOne
          /\ lock' = [lock EXCEPT ![i] = req[s].who]
          /\ req' = [req EXCEPT ![s].pc = "read", ![s].item = i, ![s].left = @ \ {i}]
       \/ /\ lock[i] # NoOne
          /\ req' = [req EXCEPT ![s].left = @ \ {i}]
          /\ UNCHANGED lock

LEMMA TryLockEffect ==
    ASSUME TypeOK, NEW s \in Slots, TryLock(s)
    PROVE  \E i \in Items : TryLockAt(s, i)
  BY DEF TypeOK, Request, TryLock, TryLockAt, Oldest

LEMMA LeavingStep == IInv /\ [Next]_vars => Leaving' /\ NothingForgotten'
  <1> SUFFICES ASSUME IInv, [Next]_vars PROVE Leaving' /\ NothingForgotten' OBVIOUS
  <1> USE DEF IInv, TypeOK, Working, Settling, Request, Queue, Ghosts, Table, Goto, Leave
  <1>1. ASSUME NEW s \in Slots, NEW i \in Items, EnqueueStore(s, i) PROVE Leaving' /\ NothingForgotten'
    BY <1>1 DEF EnqueueStore, Arrive, Idle, Leaving, Accounted, NothingForgotten, Settling
  <1>2. ASSUME NEW s \in Slots, NEW r \in Reviewers, AcquireList(s, r) PROVE Leaving' /\ NothingForgotten'
    BY <1>2, CandidatesQueued DEF AcquireList, Arrive, Idle, Leaving, Accounted, NothingForgotten, Settling
  <1>3. ASSUME NEW s \in Slots, NEW r \in Reviewers, NEW i \in Items, SubmitCheck(s, r, i)
        PROVE Leaving' /\ NothingForgotten'
    BY <1>3 DEF SubmitCheck, Arrive, Idle, Leaving, Accounted, NothingForgotten, Settling
  <1>4. ASSUME NEW s \in Slots, Serve(s) PROVE Leaving' /\ NothingForgotten'
    <2>1. CASE EnqueueRank(s)
      BY <2>1 DEF EnqueueRank, Idle, Leaving, Accounted, NothingForgotten, Settling
    <2>2. CASE TryLock(s)
      BY <2>2 DEF TryLock, Idle, Oldest, Leaving, Accounted, NothingForgotten, Settling
    <2>3. CASE NothingToReview(s)
      BY <2>3 DEF NothingToReview, Idle, Leaving, Accounted, NothingForgotten, Settling
    <2>4. CASE ReadItem(s)
      BY <2>4 DEF ReadItem, Idle, Leaving, Accounted, NothingForgotten, Settling
    <2>5. CASE DropItem(s)
      BY <2>5 DEF DropItem, Idle, Leaving, Accounted, NothingForgotten, Settling
    <2>6. CASE UnlockDropped(s)
      BY <2>6 DEF UnlockDropped, Idle, Leaving, Accounted, NothingForgotten, Settling
    <2>7. CASE MarkLocked(s)
      BY <2>7 DEF MarkLocked, Idle, Leaving, Accounted, NothingForgotten, Settling
    <2>8. CASE SubmitFetch(s)
      BY <2>8 DEF SubmitFetch, Idle, Leaving, Accounted, NothingForgotten, Settling
    <2>9. CASE SelectRow(s)
      <3>0. /\ UNCHANGED <<queue, score, enqueued, hash, lock, table, decided, expired,
                            lapses, crashes, overlaps>>
            /\ req[s].pc = "select" /\ req[s].item \in Items /\ req[s].who \in Reviewers
        BY <2>9 DEF SelectRow
      <3>1. CASE req' = [req EXCEPT ![s] = Idle]
        BY <3>0, <3>1 DEF Idle, Leaving, Accounted, NothingForgotten, Settling
      <3>2. CASE RowsOf(DocOf[req[s].item]) = {} /\ req' = [req EXCEPT ![s].pc = "commit"]
        BY <3>0, <3>2 DEF Leaving, Accounted, NothingForgotten, Settling
      <3>3. ASSUME NEW i \in RowsOf(DocOf[req[s].item]),
                   req' = [req EXCEPT ![s].pc = "commit", ![s].row = i]
            PROVE Leaving' /\ NothingForgotten'
        BY <3>0, <3>3 DEF Leaving, Accounted, NothingForgotten, Settling
      <3> QED BY <2>9, <3>1, <3>2, <3>3, SelectEffect
    <2>10. CASE CommitDecision(s)
      <3> DEFINE k == IF req[s].row = NoOne THEN req[s].item ELSE req[s].row
      <3>1. CASE req[s].row = NoOne /\ table[req[s].item] # NoOne
        BY <2>10, <3>1 DEF CommitDecision, Idle, Leaving, Accounted, NothingForgotten, Settling
      <3>2. CASE ~(req[s].row = NoOne /\ table[req[s].item] # NoOne)
        <4>1. /\ table' = [table EXCEPT ![k] = req[s].who]
              /\ decided' = [decided EXCEPT ![req[s].item] = @ \cup {req[s].who}]
              /\ req' = [req EXCEPT ![s].pc = "remove"]
              /\ UNCHANGED <<queue, score, enqueued, hash, lock, expired, lapses, crashes, overlaps>>
          BY <2>10, <3>2 DEF CommitDecision
        <4>2. k \in Items /\ req[s].who \in Reviewers /\ req[s].pc = "commit"
          BY <2>10, <3>2 DEF CommitDecision
        <4>3. table' \in [Items -> Reviewers \cup {NoOne}]
          BY <4>1, <4>2
        <4>4. /\ \A t \in Slots \ {s} : req'[t] = req[t]
              /\ req'[s].pc = "remove" /\ req'[s].left = req[s].left
              /\ req'[s].item = req[s].item /\ req'[s].who = req[s].who
          BY <4>1
        <4>5. /\ \A i \in Items : decided[i] \subseteq decided'[i]
              /\ req[s].who \in decided'[req[s].item]
              /\ req[s].item \in Items
          BY <4>1, <4>2
        <4>6. /\ queue' = queue /\ enqueued' = enqueued /\ hash' = hash /\ expired' = expired
          BY <4>1
        <4>7. \A i \in Items : Accounted(i) => Accounted(i)'
          BY <4>5, <4>6 DEF Accounted
        <4>8. Leaving'
          <5>1. \A t \in Slots : req'[t].left \subseteq enqueued'
            BY <4>4, <4>6 DEF Leaving
          <5>2. queue' \subseteq enqueued' /\ \A i \in enqueued' : Accounted(i)'
            BY <4>6, <4>7 DEF Leaving
          <5>3. ASSUME NEW t \in Slots
                PROVE  /\ req'[t].pc = "rank" => Accounted(req[t].item)'
                       /\ req'[t].pc \in {"read", "drop", "unlock", "mark"} => req'[t].item \in enqueued'
                       /\ req'[t].pc = "drop" => decided'[req'[t].item] # {} \/ req'[t].item \in expired'
                       /\ req'[t].pc \in Settling => decided'[req'[t].item] # {}
            BY <4>4, <4>5, <4>6, <4>7, ZenonT(60) DEF Leaving, Settling
          <5> QED BY <4>4, <5>1, <5>2, <5>3 DEF Leaving
        <4>9. NothingForgotten'
          BY <4>5, <4>6 DEF NothingForgotten
        <4> QED BY <4>8, <4>9
      <3> QED BY <3>1, <3>2
    <2>11. CASE DatabaseError(s)
      BY <2>11 DEF DatabaseError, Idle, Leaving, Accounted, NothingForgotten, Settling
    <2>12. CASE RemoveItem(s)
      BY <2>12 DEF RemoveItem, Idle, Leaving, Accounted, NothingForgotten, Settling
    <2>13. CASE ReleaseLock(s)
      BY <2>13 DEF ReleaseLock, Idle, Leaving, Accounted, NothingForgotten, Settling
    <2>14. CASE DeleteItem(s)
      BY <2>14 DEF DeleteItem, Idle, Leaving, Accounted, NothingForgotten, Settling
    <2> QED BY <1>4, <2>1, <2>2, <2>3, <2>4, <2>5, <2>6, <2>7,
               <2>8, <2>9, <2>10, <2>11, <2>12, <2>13, <2>14 DEF Serve
  <1>5. ASSUME NEW i \in Items, LockExpires(i) PROVE Leaving' /\ NothingForgotten'
    BY <1>5 DEF LockExpires, Leaving, Accounted, NothingForgotten, Settling
  <1>6. ASSUME NEW i \in Items, DataExpires(i) PROVE Leaving' /\ NothingForgotten'
    BY <1>6 DEF DataExpires, Leaving, Accounted, NothingForgotten, Settling
  <1>7. ASSUME Crash PROVE Leaving' /\ NothingForgotten'
    BY <1>7 DEF Crash, Idle, Leaving, Accounted, NothingForgotten, Settling
  <1>8. ASSUME UNCHANGED vars PROVE Leaving' /\ NothingForgotten'
    BY <1>8 DEF vars, Leaving, Accounted, NothingForgotten, Settling
  <1> QED BY <1>1, <1>2, <1>3, <1>4, <1>5, <1>6, <1>7, <1>8 DEF Next

\* The queue gives up an item only for a committed decision or expired data.
THEOREM Correct == Spec => [](TypeOK /\ NothingForgotten)
  <1>1. IInv /\ [Next]_vars => IInv'
    BY TypeStep, LeavingStep DEF IInv
  <1>2. IInv => TypeOK /\ NothingForgotten
    BY DEF IInv
  <1> QED BY InitIInv, <1>1, <1>2, PTL DEF Spec

\* Every state has the types of TypeOK.
THEOREM TypesHold == Spec => []TypeOK
  BY Correct, PTL

LEMMA InductiveIInv == Spec => []IInv
  <1>1. IInv /\ [Next]_vars => IInv'
    BY TypeStep, LeavingStep DEF IInv
  <1> QED BY InitIInv, <1>1, PTL DEF Spec

-----------------------------------------------------------------------------
(* Requests served one at a time.                                          *)

LEMMA InitSInv == Init => SInv
  BY BoundsAssumption DEF Init, SInv, Alone, RowFound, OneRowPerDocument, Placed, DecidedOnce, Idle

LEMMA AloneStep == IInv /\ Alone /\ [Next]_vars => Alone'
  <1> SUFFICES ASSUME IInv, Alone, [Next]_vars PROVE Alone' OBVIOUS
  <1> USE DEF IInv, TypeOK, Working, Settling, Request, Queue, Ghosts, Table, Goto, Leave
  <1>1. ASSUME NEW s \in Slots, NEW i \in Items, EnqueueStore(s, i) PROVE Alone'
    BY <1>1 DEF EnqueueStore, Arrive, Idle, Alone
  <1>2. ASSUME NEW s \in Slots, NEW r \in Reviewers, AcquireList(s, r) PROVE Alone'
    BY <1>2, CandidatesQueued DEF AcquireList, Arrive, Idle, Alone
  <1>3. ASSUME NEW s \in Slots, NEW r \in Reviewers, NEW i \in Items, SubmitCheck(s, r, i)
        PROVE Alone'
    BY <1>3 DEF SubmitCheck, Arrive, Idle, Alone
  <1>4. ASSUME NEW s \in Slots, Serve(s) PROVE Alone'
    <2>1. CASE EnqueueRank(s)
      BY <2>1 DEF EnqueueRank, Idle, Alone
    <2>2. CASE TryLock(s)
      BY <2>2 DEF TryLock, Idle, Oldest, Alone
    <2>3. CASE NothingToReview(s)
      BY <2>3 DEF NothingToReview, Idle, Alone
    <2>4. CASE ReadItem(s)
      BY <2>4 DEF ReadItem, Idle, Alone
    <2>5. CASE DropItem(s)
      BY <2>5 DEF DropItem, Idle, Alone
    <2>6. CASE UnlockDropped(s)
      BY <2>6 DEF UnlockDropped, Idle, Alone
    <2>7. CASE MarkLocked(s)
      BY <2>7 DEF MarkLocked, Idle, Alone
    <2>8. CASE SubmitFetch(s)
      BY <2>8 DEF SubmitFetch, Idle, Alone
    <2>9. CASE SelectRow(s)
      BY <2>9 DEF SelectRow, Idle, RowsOf, Alone
    <2>10. CASE CommitDecision(s)
      BY <2>10 DEF CommitDecision, Idle, Alone
    <2>11. CASE DatabaseError(s)
      BY <2>11 DEF DatabaseError, Idle, Alone
    <2>12. CASE RemoveItem(s)
      BY <2>12 DEF RemoveItem, Idle, Alone
    <2>13. CASE ReleaseLock(s)
      BY <2>13 DEF ReleaseLock, Idle, Alone
    <2>14. CASE DeleteItem(s)
      BY <2>14 DEF DeleteItem, Idle, Alone
    <2> QED BY <1>4, <2>1, <2>2, <2>3, <2>4, <2>5, <2>6, <2>7,
               <2>8, <2>9, <2>10, <2>11, <2>12, <2>13, <2>14 DEF Serve
  <1>5. ASSUME NEW i \in Items, LockExpires(i) PROVE Alone'
    BY <1>5 DEF LockExpires, Alone
  <1>6. ASSUME NEW i \in Items, DataExpires(i) PROVE Alone'
    BY <1>6 DEF DataExpires, Alone
  <1>7. ASSUME Crash PROVE Alone'
    BY <1>7 DEF Crash, Idle, Alone
  <1>8. ASSUME UNCHANGED vars PROVE Alone'
    BY <1>8 DEF vars, Alone
  <1> QED BY <1>1, <1>2, <1>3, <1>4, <1>5, <1>6, <1>7, <1>8 DEF Next

LEMMA PlacedStep == IInv /\ Placed /\ [Next]_vars => Placed'
  <1> SUFFICES ASSUME IInv, Placed, [Next]_vars PROVE Placed' OBVIOUS
  <1> USE DEF IInv, TypeOK, Working, Settling, Request, Queue, Ghosts, Table, Goto, Leave
  <1>1. ASSUME NEW s \in Slots, NEW i \in Items, EnqueueStore(s, i) PROVE Placed'
    <2>1. IsFiniteSet({j \in Items : score[j] > 0})
      BY DocAssumption, FS_Subset
    <2>2. Cardinality({j \in Items : score[j] > 0}) + 1 \in Nat \ {0}
      BY <2>1, FS_CardinalityType
    <2>3. PICK n \in Nat \ {0} : score' = [score EXCEPT ![i] = n]
      BY <1>1, <2>2 DEF EnqueueStore
    <2>4. /\ hash' = [hash EXCEPT ![i] = "expiring"]
          /\ req' = [req EXCEPT ![s] = [Idle EXCEPT !.pc = "rank", !.item = i]]
          /\ UNCHANGED enqueued
      BY <1>1 DEF EnqueueStore
    <2> QED BY <2>3, <2>4 DEF Idle, Placed, Leaving
  <1>2. ASSUME NEW s \in Slots, NEW r \in Reviewers, AcquireList(s, r) PROVE Placed'
    BY <1>2, CandidatesQueued DEF AcquireList, Arrive, Idle, Placed, Leaving
  <1>3. ASSUME NEW s \in Slots, NEW r \in Reviewers, NEW i \in Items, SubmitCheck(s, r, i)
        PROVE Placed'
    BY <1>3 DEF SubmitCheck, Arrive, Idle, Placed, Leaving
  <1>4. ASSUME NEW s \in Slots, Serve(s) PROVE Placed'
    <2>1. CASE EnqueueRank(s)
      BY <2>1 DEF EnqueueRank, Idle, Placed, Leaving
    <2>2. CASE TryLock(s)
      BY <2>2, SMTT(30) DEF TryLock, Idle, Oldest, Placed, Leaving
    <2>3. CASE NothingToReview(s)
      BY <2>3 DEF NothingToReview, Idle, Placed, Leaving
    <2>4. CASE ReadItem(s)
      BY <2>4 DEF ReadItem, Idle, Placed, Leaving
    <2>5. CASE DropItem(s)
      BY <2>5 DEF DropItem, Idle, Placed, Leaving
    <2>6. CASE UnlockDropped(s)
      BY <2>6 DEF UnlockDropped, Idle, Placed, Leaving
    <2>7. CASE MarkLocked(s)
      BY <2>7 DEF MarkLocked, Idle, Placed, Leaving
    <2>8. CASE SubmitFetch(s)
      BY <2>8 DEF SubmitFetch, Idle, Placed, Leaving
    <2>9. CASE SelectRow(s)
      <3>0. /\ UNCHANGED <<queue, score, enqueued, hash, lock, table, decided, expired,
                            lapses, crashes, overlaps>>
            /\ req[s].pc = "select" /\ req[s].item \in Items /\ req[s].who \in Reviewers
        BY <2>9 DEF SelectRow
      <3>1. CASE req' = [req EXCEPT ![s] = Idle]
        BY <3>0, <3>1 DEF Idle, Placed, Leaving
      <3>2. CASE RowsOf(DocOf[req[s].item]) = {} /\ req' = [req EXCEPT ![s].pc = "commit"]
        BY <3>0, <3>2 DEF Placed, Leaving
      <3>3. ASSUME NEW i \in RowsOf(DocOf[req[s].item]),
                   req' = [req EXCEPT ![s].pc = "commit", ![s].row = i]
            PROVE Placed'
        BY <3>0, <3>3 DEF Placed, Leaving
      <3> QED BY <2>9, <3>1, <3>2, <3>3, SelectEffect
    <2>10. CASE CommitDecision(s)
      <3> DEFINE k == IF req[s].row = NoOne THEN req[s].item ELSE req[s].row
      <3>1. CASE req[s].row = NoOne /\ table[req[s].item] # NoOne
        BY <2>10, <3>1 DEF CommitDecision, Idle, Placed, Leaving
      <3>2. CASE ~(req[s].row = NoOne /\ table[req[s].item] # NoOne)
        <4>1. /\ table' = [table EXCEPT ![k] = req[s].who]
              /\ decided' = [decided EXCEPT ![req[s].item] = @ \cup {req[s].who}]
              /\ req' = [req EXCEPT ![s].pc = "remove"]
              /\ UNCHANGED <<queue, score, enqueued, hash, lock, expired, lapses, crashes, overlaps>>
          BY <2>10, <3>2 DEF CommitDecision
        <4>2. k \in Items /\ req[s].who \in Reviewers /\ req[s].pc = "commit"
          BY <2>10, <3>2 DEF CommitDecision
        <4>3. table' \in [Items -> Reviewers \cup {NoOne}]
          BY <4>1, <4>2
        <4>4. /\ \A t \in Slots \ {s} : req'[t] = req[t]
              /\ req'[s].pc = "remove" /\ req'[s].left = req[s].left
              /\ req'[s].item = req[s].item /\ req'[s].who = req[s].who
          BY <4>1
        <4>5. /\ \A i \in Items : decided[i] \subseteq decided'[i]
              /\ req[s].who \in decided'[req[s].item]
              /\ req[s].item \in Items
          BY <4>1, <4>2
        <4>6. score' = score /\ hash' = hash /\ enqueued' = enqueued
          BY <4>1
        <4>7. \A t \in Slots : req'[t].pc \notin {"idle", "scan", "fetch"} => score[req'[t].item] > 0
          BY <4>2, <4>4 DEF Placed
        <4> QED BY <4>6, <4>7 DEF Placed
      <3> QED BY <3>1, <3>2
    <2>11. CASE DatabaseError(s)
      BY <2>11 DEF DatabaseError, Idle, Placed, Leaving
    <2>12. CASE RemoveItem(s)
      BY <2>12 DEF RemoveItem, Idle, Placed, Leaving
    <2>13. CASE ReleaseLock(s)
      BY <2>13 DEF ReleaseLock, Idle, Placed, Leaving
    <2>14. CASE DeleteItem(s)
      BY <2>14 DEF DeleteItem, Idle, Placed, Leaving
    <2> QED BY <1>4, <2>1, <2>2, <2>3, <2>4, <2>5, <2>6, <2>7,
               <2>8, <2>9, <2>10, <2>11, <2>12, <2>13, <2>14 DEF Serve
  <1>5. ASSUME NEW i \in Items, LockExpires(i) PROVE Placed'
    BY <1>5 DEF LockExpires, Placed, Leaving
  <1>6. ASSUME NEW i \in Items, DataExpires(i) PROVE Placed'
    BY <1>6 DEF DataExpires, Placed, Leaving
  <1>7. ASSUME Crash PROVE Placed'
    BY <1>7 DEF Crash, Idle, Placed, Leaving
  <1>8. ASSUME UNCHANGED vars PROVE Placed'
    BY <1>8 DEF vars, Placed, Leaving
  <1> QED BY <1>1, <1>2, <1>3, <1>4, <1>5, <1>6, <1>7, <1>8 DEF Next

LEMMA RowStep == IInv /\ SInv /\ [Next]_vars => RowFound' /\ OneRowPerDocument'
  <1> SUFFICES ASSUME IInv, SInv, [Next]_vars PROVE RowFound' /\ OneRowPerDocument' OBVIOUS
  <1> USE DEF IInv, SInv, TypeOK, Working, Settling, Request, Queue, Ghosts, Table, Goto, Leave
  <1>1. ASSUME NEW s \in Slots, NEW i \in Items, EnqueueStore(s, i) PROVE RowFound' /\ OneRowPerDocument'
    BY <1>1 DEF EnqueueStore, Arrive, Idle, RowFound, OneRowPerDocument, RowsOf, Alone
  <1>2. ASSUME NEW s \in Slots, NEW r \in Reviewers, AcquireList(s, r) PROVE RowFound' /\ OneRowPerDocument'
    BY <1>2, CandidatesQueued DEF AcquireList, Arrive, Idle, RowFound, OneRowPerDocument, RowsOf, Alone
  <1>3. ASSUME NEW s \in Slots, NEW r \in Reviewers, NEW i \in Items, SubmitCheck(s, r, i)
        PROVE RowFound' /\ OneRowPerDocument'
    BY <1>3 DEF SubmitCheck, Arrive, Idle, RowFound, OneRowPerDocument, RowsOf, Alone
  <1>4. ASSUME NEW s \in Slots, Serve(s) PROVE RowFound' /\ OneRowPerDocument'
    <2>1. CASE EnqueueRank(s)
      BY <2>1 DEF EnqueueRank, Idle, RowFound, OneRowPerDocument, RowsOf, Alone
    <2>2. CASE TryLock(s)
      <3>0. /\ UNCHANGED <<queue, score, enqueued, hash, table, decided, expired,
                            lapses, crashes, overlaps>>
            /\ req[s].pc = "scan" /\ req[s].who \in Reviewers
        BY <2>2 DEF TryLock
      <3>1. PICK i \in Items : TryLockAt(s, i)
        BY <2>2, TryLockEffect
      <3>2. CASE lock[i] = NoOne
        BY <3>0, <3>1, <3>2 DEF TryLockAt, RowFound, OneRowPerDocument, RowsOf, Alone
      <3>3. CASE lock[i] # NoOne
        BY <3>0, <3>1, <3>3, SMTT(30) DEF TryLockAt, RowFound, OneRowPerDocument, RowsOf, Alone
      <3> QED BY <3>2, <3>3
    <2>3. CASE NothingToReview(s)
      BY <2>3 DEF NothingToReview, Idle, RowFound, OneRowPerDocument, RowsOf, Alone
    <2>4. CASE ReadItem(s)
      BY <2>4 DEF ReadItem, Idle, RowFound, OneRowPerDocument, RowsOf, Alone
    <2>5. CASE DropItem(s)
      BY <2>5 DEF DropItem, Idle, RowFound, OneRowPerDocument, RowsOf, Alone
    <2>6. CASE UnlockDropped(s)
      BY <2>6 DEF UnlockDropped, Idle, RowFound, OneRowPerDocument, RowsOf, Alone
    <2>7. CASE MarkLocked(s)
      BY <2>7 DEF MarkLocked, Idle, RowFound, OneRowPerDocument, RowsOf, Alone
    <2>8. CASE SubmitFetch(s)
      BY <2>8 DEF SubmitFetch, Idle, RowFound, OneRowPerDocument, RowsOf, Alone
    <2>9. CASE SelectRow(s)
      <3>0. /\ UNCHANGED <<table, overlaps>>
            /\ req[s].pc = "select" /\ req[s].row = NoOne
        BY <2>9 DEF SelectRow
      <3>1. overlaps = 0 => \A t \in Slots \ {s} : req[t].pc = "idle"
        BY <3>0 DEF Alone
      <3>2. \A t \in Slots \ {s} : req'[t] = req[t]
        BY SelectEffect, <2>9
      <3>3. req'[s].pc = "commit" =>
               /\ req'[s].item = req[s].item
               /\ \/ RowsOf(DocOf[req[s].item]) = {} /\ req'[s].row = NoOne
                  \/ req'[s].row \in RowsOf(DocOf[req[s].item])
        <4>1. CASE req' = [req EXCEPT ![s] = Idle]
          BY <4>1 DEF Idle
        <4>2. CASE RowsOf(DocOf[req[s].item]) = {} /\ req' = [req EXCEPT ![s].pc = "commit"]
          BY <3>0, <4>2
        <4>3. ASSUME NEW i \in RowsOf(DocOf[req[s].item]),
                     req' = [req EXCEPT ![s].pc = "commit", ![s].row = i]
              PROVE  req'[s].item = req[s].item /\ req'[s].row = i
          BY <4>3
        <4> QED BY <2>9, <4>1, <4>2, <4>3, SelectEffect
      <3>4. \A d : RowsOf(d)' = RowsOf(d)
        BY <3>0 DEF RowsOf
      <3>5. NoOne \notin RowsOf(DocOf[req[s].item])
        BY NoOneAssumption DEF RowsOf
      <3>6. RowFound'
        BY <3>0, <3>1, <3>2, <3>3, <3>4, <3>5 DEF RowFound
      <3>7. OneRowPerDocument'
        BY <3>0 DEF OneRowPerDocument
      <3> QED BY <3>6, <3>7
    <2>10. CASE CommitDecision(s)
      <3> DEFINE k == IF req[s].row = NoOne THEN req[s].item ELSE req[s].row
      <3>1. CASE req[s].row = NoOne /\ table[req[s].item] # NoOne
        BY <2>10, <3>1 DEF CommitDecision, Idle, RowFound, OneRowPerDocument, RowsOf, Alone
      <3>2. CASE ~(req[s].row = NoOne /\ table[req[s].item] # NoOne)
        <4>1. /\ table' = [table EXCEPT ![k] = req[s].who]
              /\ decided' = [decided EXCEPT ![req[s].item] = @ \cup {req[s].who}]
              /\ req' = [req EXCEPT ![s].pc = "remove"]
              /\ UNCHANGED <<queue, score, enqueued, hash, lock, expired, lapses, crashes, overlaps>>
          BY <2>10, <3>2 DEF CommitDecision
        <4>2. k \in Items /\ req[s].who \in Reviewers /\ req[s].pc = "commit"
          BY <2>10, <3>2 DEF CommitDecision
        <4>3. table' \in [Items -> Reviewers \cup {NoOne}]
          BY <4>1, <4>2
        <4>4. /\ \A t \in Slots \ {s} : req'[t] = req[t]
              /\ req'[s].pc = "remove" /\ req'[s].left = req[s].left
              /\ req'[s].item = req[s].item /\ req'[s].who = req[s].who
          BY <4>1
        <4>5. /\ \A i \in Items : decided[i] \subseteq decided'[i]
              /\ req[s].who \in decided'[req[s].item]
              /\ req[s].item \in Items
          BY <4>1, <4>2
        <4>6. overlaps = 0 => \A t \in Slots \ {s} : req[t].pc = "idle"
          BY <4>2 DEF Alone
        <4>7. RowFound'
          BY <4>1, <4>4, <4>6 DEF RowFound
        <4>8. overlaps = 0 => /\ DocOf[k] = DocOf[req[s].item]
                              /\ RowsOf(DocOf[k]) \subseteq {k}
          BY <4>2 DEF RowFound, RowsOf, OneRowPerDocument
        <4>9. overlaps = 0 => \A i \in Items : (table'[i] # NoOne /\ i # k) => table[i] # NoOne
          BY <4>1, <4>2
        <4>10. OneRowPerDocument'
          BY <4>1, <4>2, <4>8, <4>9 DEF OneRowPerDocument, RowsOf
        <4> QED BY <4>7, <4>10
      <3> QED BY <3>1, <3>2
    <2>11. CASE DatabaseError(s)
      BY <2>11 DEF DatabaseError, Idle, RowFound, OneRowPerDocument, RowsOf, Alone
    <2>12. CASE RemoveItem(s)
      BY <2>12 DEF RemoveItem, Idle, RowFound, OneRowPerDocument, RowsOf, Alone
    <2>13. CASE ReleaseLock(s)
      BY <2>13 DEF ReleaseLock, Idle, RowFound, OneRowPerDocument, RowsOf, Alone
    <2>14. CASE DeleteItem(s)
      BY <2>14 DEF DeleteItem, Idle, RowFound, OneRowPerDocument, RowsOf, Alone
    <2> QED BY <1>4, <2>1, <2>2, <2>3, <2>4, <2>5, <2>6, <2>7,
               <2>8, <2>9, <2>10, <2>11, <2>12, <2>13, <2>14 DEF Serve
  <1>5. ASSUME NEW i \in Items, LockExpires(i) PROVE RowFound' /\ OneRowPerDocument'
    BY <1>5 DEF LockExpires, RowFound, OneRowPerDocument, RowsOf, Alone
  <1>6. ASSUME NEW i \in Items, DataExpires(i) PROVE RowFound' /\ OneRowPerDocument'
    BY <1>6 DEF DataExpires, RowFound, OneRowPerDocument, RowsOf, Alone
  <1>7. ASSUME Crash PROVE RowFound' /\ OneRowPerDocument'
    BY <1>7 DEF Crash, Idle, RowFound, OneRowPerDocument, RowsOf, Alone
  <1>8. ASSUME UNCHANGED vars PROVE RowFound' /\ OneRowPerDocument'
    BY <1>8 DEF vars, RowFound, OneRowPerDocument, RowsOf, Alone
  <1> QED BY <1>1, <1>2, <1>3, <1>4, <1>5, <1>6, <1>7, <1>8 DEF Next

LEMMA DecidedStep == IInv /\ SInv /\ [Next]_vars => DecidedOnce'
  <1> SUFFICES ASSUME IInv, SInv, [Next]_vars PROVE DecidedOnce' OBVIOUS
  <1> USE DEF IInv, SInv, TypeOK, Working, Settling, Request, Queue, Ghosts, Table, Goto, Leave
  <1>1. ASSUME NEW s \in Slots, NEW i \in Items, EnqueueStore(s, i) PROVE DecidedOnce'
    BY <1>1 DEF EnqueueStore, Arrive, Idle, DecidedOnce, Settled, Settling, Alone, Placed, Leaving
  <1>2. ASSUME NEW s \in Slots, NEW r \in Reviewers, AcquireList(s, r) PROVE DecidedOnce'
    BY <1>2, CandidatesQueued DEF AcquireList, Arrive, Idle, DecidedOnce, Settled, Settling, Alone, Placed, Leaving
  <1>3. ASSUME NEW s \in Slots, NEW r \in Reviewers, NEW i \in Items, SubmitCheck(s, r, i)
        PROVE DecidedOnce'
    BY <1>3 DEF SubmitCheck, Arrive, Idle, DecidedOnce, Settled, Settling, Alone, Placed, Leaving
  <1>4. ASSUME NEW s \in Slots, Serve(s) PROVE DecidedOnce'
    <2>1. CASE EnqueueRank(s)
      BY <2>1 DEF EnqueueRank, Idle, DecidedOnce, Settled, Settling, Alone, Placed, Leaving
    <2>2. CASE TryLock(s)
      <3>0. /\ UNCHANGED <<queue, score, enqueued, hash, table, decided, expired,
                            lapses, crashes, overlaps>>
            /\ req[s].pc = "scan" /\ req[s].who \in Reviewers
        BY <2>2 DEF TryLock
      <3>1. PICK i \in Items : TryLockAt(s, i)
        BY <2>2, TryLockEffect
      <3>2. CASE lock[i] = NoOne
        BY <3>0, <3>1, <3>2 DEF TryLockAt, DecidedOnce, Settled, Settling, Alone, Placed, Leaving
      <3>3. CASE lock[i] # NoOne
        BY <3>0, <3>1, <3>3, SMTT(30) DEF TryLockAt, DecidedOnce, Settled, Settling, Alone, Placed, Leaving
      <3> QED BY <3>2, <3>3
    <2>3. CASE NothingToReview(s)
      BY <2>3 DEF NothingToReview, Idle, DecidedOnce, Settled, Settling, Alone, Placed, Leaving
    <2>4. CASE ReadItem(s)
      BY <2>4 DEF ReadItem, Idle, DecidedOnce, Settled, Settling, Alone, Placed, Leaving
    <2>5. CASE DropItem(s)
      BY <2>5 DEF DropItem, Idle, DecidedOnce, Settled, Settling, Alone, Placed, Leaving
    <2>6. CASE UnlockDropped(s)
      BY <2>6, NoOneAssumption DEF UnlockDropped, DecidedOnce, Settled, Settling, Alone
    <2>7. CASE MarkLocked(s)
      BY <2>7 DEF MarkLocked, Idle, DecidedOnce, Settled, Settling, Alone, Placed, Leaving
    <2>8. CASE SubmitFetch(s)
      BY <2>8, SMTT(30) DEF SubmitFetch, Idle, DecidedOnce, Settled, Settling, Alone, Placed, Leaving
    <2>9. CASE SelectRow(s)
      BY <2>9 DEF SelectRow, Idle, RowsOf, DecidedOnce, Settled, Settling, Alone, Placed, Leaving
    <2>10. CASE CommitDecision(s)
      BY <2>10, SMTT(30) DEF CommitDecision, Idle, DecidedOnce, Settled, Settling, Alone, Placed, Leaving
    <2>11. CASE DatabaseError(s)
      BY <2>11 DEF DatabaseError, Idle, DecidedOnce, Settled, Settling, Alone, Placed, Leaving
    <2>12. CASE RemoveItem(s)
      BY <2>12 DEF RemoveItem, Idle, DecidedOnce, Settled, Settling, Alone, Placed, Leaving
    <2>13. CASE ReleaseLock(s)
      BY <2>13 DEF ReleaseLock, Idle, DecidedOnce, Settled, Settling, Alone, Placed, Leaving
    <2>14. CASE DeleteItem(s)
      BY <2>14 DEF DeleteItem, Idle, DecidedOnce, Settled, Settling, Alone, Placed, Leaving
    <2> QED BY <1>4, <2>1, <2>2, <2>3, <2>4, <2>5, <2>6, <2>7,
               <2>8, <2>9, <2>10, <2>11, <2>12, <2>13, <2>14 DEF Serve
  <1>5. ASSUME NEW i \in Items, LockExpires(i) PROVE DecidedOnce'
    BY <1>5 DEF LockExpires, DecidedOnce, Settled, Settling, Alone, Placed, Leaving
  <1>6. ASSUME NEW i \in Items, DataExpires(i) PROVE DecidedOnce'
    BY <1>6 DEF DataExpires, DecidedOnce, Settled, Settling, Alone, Placed, Leaving
  <1>7. ASSUME Crash PROVE DecidedOnce'
    BY <1>7 DEF Crash, Idle, DecidedOnce, Settled, Settling, Alone, Placed, Leaving
  <1>8. ASSUME UNCHANGED vars PROVE DecidedOnce'
    BY <1>8 DEF vars, DecidedOnce, Settled, Settling, Alone, Placed, Leaving
  <1> QED BY <1>1, <1>2, <1>3, <1>4, <1>5, <1>6, <1>7, <1>8 DEF Next

\* One decider per item and one row per ingestion, for any number of reviewers,
\* items and expired keys, as long as requests do not overlap.
THEOREM SerialReview == Spec => [](DecidedByOne /\ OneRowPerDocument)
  <1>1. IInv /\ SInv /\ [Next]_vars => SInv'
    BY AloneStep, PlacedStep, RowStep, DecidedStep DEF SInv
  <1>2. SInv => DecidedByOne /\ OneRowPerDocument
    BY DEF SInv, DecidedOnce, Settled, DecidedByOne
  <1> QED BY InductiveIInv, InitSInv, <1>1, <1>2, PTL DEF Spec

\* The second decider finds the row of the first and updates it: no ingestion gets a
\* second row, so the look-up that expects one does not fail.
THEOREM OneRow == Spec => []OneRowPerDocument
  BY SerialReview, PTL
=============================================================================
