--------------------------- MODULE JobQueueProofs ---------------------------
(***************************************************************************)
(* Proofs about JobQueue, for every number of jobs, workers and reapers.   *)
(***************************************************************************)
EXTENDS JobQueue, TLAPS

(***************************************************************************)
(* The updates the statements make to a row, and the ones process makes to *)
(* a worker's local state, stay in the types.                              *)
(***************************************************************************)
LEMMA RowUpdates ==
    /\ AbsentRow \in Row
    /\ \A t \in {"future", "past"}, m, q \in Nat : NewRow(t, m, q) \in Row
    /\ \A r \in Row :
          /\ [r EXCEPT !.runAt = "past"] \in Row
          /\ \A g \in Nat : [r EXCEPT !.lease = "expired", !.gaps = g] \in Row
          /\ \A n \in Nat : [r EXCEPT !.status = "inflight", !.lease = "held",
                                      !.attempts = n] \in Row
          /\ [r EXCEPT !.status = "done", !.lease = "none"] \in Row
          /\ [r EXCEPT !.status = "queued", !.lease = "none"] \in Row
          /\ [r EXCEPT !.status = "queued", !.lease = "none",
                       !.runAt = "future"] \in Row
<1>1. AbsentRow \in Row
  BY DEF Row, AbsentRow
<1>2. ASSUME NEW t \in {"future", "past"}, NEW m \in Nat, NEW q \in Nat
      PROVE  NewRow(t, m, q) \in Row
  BY DEF Row, NewRow
<1>3. ASSUME NEW r \in Row
      PROVE  /\ [r EXCEPT !.runAt = "past"] \in Row
             /\ \A g \in Nat : [r EXCEPT !.lease = "expired", !.gaps = g] \in Row
             /\ [r EXCEPT !.status = "done", !.lease = "none"] \in Row
             /\ [r EXCEPT !.status = "queued", !.lease = "none"] \in Row
             /\ [r EXCEPT !.status = "queued", !.lease = "none",
                          !.runAt = "future"] \in Row
  BY DEF Row
<1>4. ASSUME NEW r \in Row, NEW n \in Nat
      PROVE  [r EXCEPT !.status = "inflight", !.lease = "held",
                       !.attempts = n] \in Row
  BY DEF Row
<1> QED
  BY <1>1, <1>2, <1>3, <1>4

\* The updates of a worker record stay in its type.
LEMMA WorkerUpdates ==
    /\ IdleWorker \in WorkerState
    /\ \A u \in WorkerState, pc \in WorkerPcs : [u EXCEPT !.pc = pc] \in WorkerState
    /\ \A j \in Jobs, a, m \in Nat :
          [pc |-> "dispatch", job |-> j, attempts |-> a, max |-> m] \in WorkerState
BY DEF WorkerState, WorkerPcs, IdleWorker

\* A worker that is not idle has a job in hand.
LEMMA BusyHasJob ==
    ASSUME TypeOK, NEW w \in Workers, worker[w].pc # "idle"
    PROVE  worker[w].job \in Jobs
BY DEF TypeOK, WorkerState

(***************************************************************************)
(* Taking a step inside process, or going back to the loop, keeps the      *)
(* worker part of TypeOK.                                                  *)
(***************************************************************************)
WorkersOK ==
    /\ worker \in [Workers -> WorkerState]
    /\ \A w \in Workers : worker[w].pc = "idle" <=> worker[w].job = NoJob

\* Moving a busy worker to another statement keeps the workers well typed.
LEMMA GotoOK ==
    ASSUME WorkersOK, NEW w \in Workers, worker[w].pc # "idle",
           NEW pc \in WorkerPcs \ {"idle"}, Goto(w, pc)
    PROVE  WorkersOK'
<1>1. worker' \in [Workers -> WorkerState]
  BY WorkerUpdates DEF WorkersOK, Goto
<1>2. ASSUME NEW v \in Workers
      PROVE  (worker[v].pc = "idle" <=> worker[v].job = NoJob)'
  BY DEF WorkersOK, Goto, WorkerState
<1> QED
  BY <1>1, <1>2 DEF WorkersOK

\* So does sending it back to its loop.
LEMMA ReleaseOK ==
    ASSUME WorkersOK, NEW w \in Workers, Release(w)
    PROVE  WorkersOK'
<1>1. worker' \in [Workers -> WorkerState]
  BY WorkerUpdates DEF WorkersOK, Release
<1>2. ASSUME NEW v \in Workers
      PROVE  (worker[v].pc = "idle" <=> worker[v].job = NoJob)'
  BY DEF WorkersOK, Release, WorkerState, IdleWorker
<1> QED
  BY <1>1, <1>2 DEF WorkersOK

(***************************************************************************)
(* Every action of the queue keeps the rows, the workers' copies and the   *)
(* reapers in their types, and a worker is idle exactly when it has no job.*)
(***************************************************************************)
LEMMA TypeOKInductive == TypeOK /\ [Next]_vars => TypeOK'
<1> SUFFICES ASSUME TypeOK, [Next]_vars PROVE TypeOK'
  OBVIOUS
<1>a. WorkersOK
  BY DEF TypeOK, WorkersOK
<1>1. ASSUME NEW j \in Jobs, Enqueue(j) PROVE TypeOK'
  BY <1>1, RowUpdates, JobQueueAssumption DEF TypeOK, Enqueue
<1>2. ASSUME NEW j \in Jobs, BecomeDue(j) PROVE TypeOK'
  BY <1>2, RowUpdates DEF TypeOK, BecomeDue
<1>3. ASSUME NEW j \in Jobs, LeaseExpire(j) PROVE TypeOK'
  <2> DEFINE g == IF InGap(j) THEN jobs[j].gaps + 1 ELSE jobs[j].gaps
  <2>1. g \in Nat
    BY DEF TypeOK, Row
  <2>2. jobs' = [jobs EXCEPT ![j] = [@ EXCEPT !.lease = "expired", !.gaps = g]]
    BY <1>3 DEF LeaseExpire
  <2> HIDE DEF g
  <2>3. jobs' \in [Jobs -> Row]
    BY <2>1, <2>2, RowUpdates DEF TypeOK
  <2> QED
    BY <1>3, <2>3 DEF TypeOK, LeaseExpire
<1>4. ASSUME NEW j \in Jobs, Replay(j) PROVE TypeOK'
  <2>1. NewRow("past", DefaultMaxAttempts, DefaultPriority) \in Row
    BY RowUpdates, JobQueueAssumption
  <2>2. jobs' \in [Jobs -> Row]
    BY <1>4, <2>1 DEF TypeOK, Replay
  <2>3. replays' \in 0..MaxReplays
    BY <1>4, JobQueueAssumption DEF TypeOK, Replay
  <2> QED
    BY <1>4, <2>2, <2>3 DEF TypeOK, Replay
<1>5. ASSUME NEW w \in Workers, NEW j \in Jobs, Claim(w, j) PROVE TypeOK'
  <2>2. jobs[j].attempts + 1 \in Nat /\ jobs[j].max \in Nat
    BY DEF TypeOK, Row
  <2>1. jobs' \in [Jobs -> Row]
    BY <1>5, <2>2, RowUpdates DEF TypeOK, Claim
  <2>3. worker' \in [Workers -> WorkerState]
    BY <1>5, <2>2, WorkerUpdates DEF TypeOK, Claim
  <2>4. ASSUME NEW v \in Workers
        PROVE  (worker[v].pc = "idle" <=> worker[v].job = NoJob)'
    BY <1>5, JobQueueAssumption DEF TypeOK, Claim, WorkerState
  <2> QED
    BY <1>5, <2>1, <2>3, <2>4 DEF TypeOK, Claim
<1>6. ASSUME NEW w \in Workers, DispatchOk(w) PROVE TypeOK'
  BY <1>6, <1>a, GotoOK DEF TypeOK, DispatchOk, WorkersOK, WorkerPcs
<1>7. ASSUME NEW w \in Workers, DispatchFail(w) PROVE TypeOK'
  BY <1>7, <1>a, GotoOK DEF TypeOK, DispatchFail, WorkersOK, WorkerPcs
<1>8. ASSUME NEW w \in Workers, Complete(w) PROVE TypeOK'
  <2>1. jobs' \in [Jobs -> Row]
    BY <1>8, RowUpdates DEF TypeOK, Complete
  <2> QED
    BY <1>8, <1>a, <2>1, ReleaseOK DEF TypeOK, Complete, WorkersOK
<1>9. ASSUME NEW w \in Workers, Retry(w) PROVE TypeOK'
  <2>1. jobs' \in [Jobs -> Row]
    BY <1>9, RowUpdates DEF TypeOK, Retry
  <2> QED
    BY <1>9, <1>a, <2>1, ReleaseOK DEF TypeOK, Retry, WorkersOK
<1>10. ASSUME NEW w \in Workers, BuryInsert(w) PROVE TypeOK'
  <2>1. worker[w].job \in Jobs
    BY <1>10, BusyHasJob DEF BuryInsert
  <2>2. WorkersOK'
    BY <1>10, <1>a, GotoOK, ReleaseOK DEF BuryInsert, WorkerPcs
  <2> QED
    BY <1>10, <2>1, <2>2 DEF TypeOK, BuryInsert, WorkersOK
<1>11. ASSUME NEW w \in Workers, BuryDelete(w) PROVE TypeOK'
  <2>1. jobs' \in [Jobs -> Row]
    BY <1>11, RowUpdates DEF TypeOK, BuryDelete
  <2> QED
    BY <1>11, <1>a, <2>1, ReleaseOK DEF TypeOK, BuryDelete, WorkersOK
<1>12. ASSUME NEW w \in Workers, Interrupt(w) PROVE TypeOK'
  BY <1>12, <1>a, ReleaseOK DEF TypeOK, Interrupt, WorkersOK
<1>13. ASSUME NEW r \in Reapers, ReapDead(r) PROVE TypeOK'
  <2>1. CASE DeadOnExpiry \cap dead = {}
    BY <1>13, <2>1, RowUpdates DEF TypeOK, ReapDead, DeadOnExpiry
  <2>2. CASE DeadOnExpiry \cap dead # {}
    BY <1>13, <2>2 DEF TypeOK, ReapDead
  <2> QED
    BY <2>1, <2>2
<1>14. ASSUME NEW r \in Reapers, ReapRequeue(r) PROVE TypeOK'
  BY <1>14, RowUpdates DEF TypeOK, ReapRequeue
<1>15. ASSUME NEW r \in Reapers, ReaperInterrupt(r) PROVE TypeOK'
  BY <1>15 DEF TypeOK, ReaperInterrupt
<1>16. CASE UNCHANGED vars
  BY <1>16 DEF TypeOK, vars
<1> QED
  BY <1>1, <1>2, <1>3, <1>4, <1>5, <1>6, <1>7, <1>8, <1>9, <1>10, <1>11,
     <1>12, <1>13, <1>14, <1>15, <1>16
  DEF Next, WorkerStep, ReaperStep, TimeStep

\* The empty queue is well typed.
LEMMA InitTypeOK == Init => TypeOK
<1> SUFFICES ASSUME Init PROVE TypeOK
  OBVIOUS
<1>1. jobs \in [Jobs -> Row] /\ worker \in [Workers -> WorkerState]
  BY RowUpdates, WorkerUpdates DEF Init
<1>2. \A w \in Workers : worker[w].pc = "idle" <=> worker[w].job = NoJob
  BY DEF Init, IdleWorker
<1>3. replays \in 0..MaxReplays
  BY JobQueueAssumption DEF Init
<1> QED
  BY <1>1, <1>2, <1>3 DEF Init, TypeOK

(***************************************************************************)
(* The queue's state is well typed in every behaviour.                     *)
(***************************************************************************)
THEOREM TypeCorrect == Spec => []TypeOK
BY InitTypeOK, TypeOKInductive, PTL DEF Spec

(***************************************************************************)
(* What keeps a job from being lost is that a worker between MoveToDead's  *)
(* two statements is alone there and has its job in both tables: the       *)
(* reaper's INSERT and Replay's INSERT are refused by the primary keys, so *)
(* its DELETE removes a row that has a dead letter.                        *)
(***************************************************************************)
OnlyEnqueued ==
    /\ dead \subseteq enqueued
    /\ \A j \in Jobs : InTable(j) => j \in enqueued
    /\ \A w \in Workers : worker[w].pc # "idle" => worker[w].job \in enqueued

Safekeeping == TypeOK /\ OnlyEnqueued /\ NoLostJob /\ BuryIsExclusive

\* Safekeeping is kept by every step.
LEMMA SafekeepingInductive == Safekeeping /\ [Next]_vars => Safekeeping'
<1> DEFINE Kept == OnlyEnqueued /\ NoLostJob /\ BuryIsExclusive
<1> SUFFICES ASSUME Safekeeping, [Next]_vars PROVE Kept'
  BY TypeOKInductive DEF Safekeeping
<1>a. TypeOK /\ OnlyEnqueued /\ NoLostJob /\ BuryIsExclusive
  BY DEF Safekeeping
<1> USE <1>a DEF TypeOK, OnlyEnqueued, NoLostJob, BuryIsExclusive, InTable
<1>1. ASSUME NEW j \in Jobs, Enqueue(j) PROVE Kept'
  BY <1>1 DEF Enqueue, NewRow
<1>2. ASSUME NEW j \in Jobs, BecomeDue(j) PROVE Kept'
  BY <1>2 DEF BecomeDue, Row
<1>3. ASSUME NEW j \in Jobs, LeaseExpire(j) PROVE Kept'
  BY <1>3 DEF LeaseExpire, Row
<1>4. ASSUME NEW j \in Jobs, Replay(j) PROVE Kept'
  BY <1>4 DEF Replay, NewRow
<1>5. ASSUME NEW w \in Workers, NEW j \in Jobs, Claim(w, j) PROVE Kept'
  <2>1. j \in enqueued
    BY <1>5 DEF Claim, Runnable
  <2>2. \A k \in Jobs : InTable(k)' <=> InTable(k)
    BY <1>5 DEF Claim, Runnable, Row
  <2>3. \A v \in Workers : v # w => worker'[v] = worker[v]
    BY <1>5 DEF Claim
  <2>4. worker'[w].pc = "dispatch" /\ worker'[w].job = j
    BY <1>5 DEF Claim
  <2>5. dead' = dead /\ enqueued' = enqueued
    BY <1>5 DEF Claim
  <2> QED
    BY <2>1, <2>2, <2>3, <2>4, <2>5 DEF WorkerState
<1>6. ASSUME NEW w \in Workers, DispatchOk(w) PROVE Kept'
  BY <1>6 DEF DispatchOk, Goto, WorkerState
<1>7. ASSUME NEW w \in Workers, DispatchFail(w) PROVE Kept'
  BY <1>7 DEF DispatchFail, Goto, WorkerState
<1>8. ASSUME NEW w \in Workers, Complete(w) PROVE Kept'
  BY <1>8 DEF Complete, Release, IdleWorker, Row, WorkerState
<1>9. ASSUME NEW w \in Workers, Retry(w) PROVE Kept'
  BY <1>9 DEF Retry, Release, IdleWorker, Row, WorkerState
<1>10. ASSUME NEW w \in Workers, BuryInsert(w) PROVE Kept'
  <2>1. CASE worker[w].job \in dead
    BY <1>10, <2>1 DEF BuryInsert, Release, IdleWorker, WorkerState
  <2>2. CASE worker[w].job \notin dead
    BY <1>10, <2>2 DEF BuryInsert, Goto, WorkerState
  <2> QED
    BY <2>1, <2>2
<1>11. ASSUME NEW w \in Workers, BuryDelete(w) PROVE Kept'
  BY <1>11 DEF BuryDelete, Release, IdleWorker, AbsentRow, WorkerState
<1>12. ASSUME NEW w \in Workers, Interrupt(w) PROVE Kept'
  BY <1>12 DEF Interrupt, Release, IdleWorker, WorkerState
<1>13. ASSUME NEW r \in Reapers, ReapDead(r) PROVE Kept'
  <2>1. CASE DeadOnExpiry \cap dead = {}
    BY <1>13, <2>1 DEF ReapDead, DeadOnExpiry, Expired, AbsentRow, WorkerState
  <2>2. CASE DeadOnExpiry \cap dead # {}
    BY <1>13, <2>2 DEF ReapDead
  <2> QED
    BY <2>1, <2>2
<1>14. ASSUME NEW r \in Reapers, ReapRequeue(r) PROVE Kept'
  BY <1>14 DEF ReapRequeue, RequeuedOnExpiry, Row, Expired
<1>15. ASSUME NEW r \in Reapers, ReaperInterrupt(r) PROVE Kept'
  BY <1>15 DEF ReaperInterrupt
<1>16. CASE UNCHANGED vars
  BY <1>16 DEF vars
<1> QED
  BY <1>1, <1>2, <1>3, <1>4, <1>5, <1>6, <1>7, <1>8, <1>9, <1>10, <1>11, <1>12, <1>13, <1>14, <1>15, <1>16
  DEF Next, WorkerStep, ReaperStep, TimeStep

\* Safekeeping holds in every reachable state.
LEMMA SafekeepingInvariant == Spec => []Safekeeping
<1>1. Init => OnlyEnqueued /\ NoLostJob /\ BuryIsExclusive
  BY DEF Init, OnlyEnqueued, NoLostJob, BuryIsExclusive, IdleWorker,
         AbsentRow, InTable
<1>2. Init => Safekeeping
  BY <1>1, InitTypeOK DEF Safekeeping
<1> QED
  BY <1>2, SafekeepingInductive, PTL DEF Spec

(***************************************************************************)
(* No enqueued job is lost, in every behaviour with any crashes, failed    *)
(* statements and stale workers.                                           *)
(***************************************************************************)
THEOREM NothingIsLost == Spec => []NoLostJob
<1>1. Safekeeping => NoLostJob
  BY DEF Safekeeping
<1> QED
  BY <1>1, SafekeepingInvariant, PTL

(***************************************************************************)
(* While a worker is between the two statements of MoveToDead, its job is  *)
(* in both tables and no other worker is there with the same job.          *)
(***************************************************************************)
THEOREM BuriesAreExclusive == Spec => []BuryIsExclusive
<1>1. Safekeeping => BuryIsExclusive
  BY DEF Safekeeping
<1> QED
  BY <1>1, SafekeepingInvariant, PTL

(***************************************************************************)
(* As long as a lease outlives the work, the row of a job in a worker's    *)
(* hands is the worker's alone: only that worker's own statement moves it. *)
(***************************************************************************)
LEMMA LeaseInductive ==
    Safekeeping /\ LeaseExclusive /\ [Next]_vars => LeaseExclusive'
<1> SUFFICES ASSUME Safekeeping, LeaseExclusive, [Next]_vars
             PROVE  LeaseExclusive'
  OBVIOUS
<1>a. TypeOK /\ OnlyEnqueued
  BY DEF Safekeeping
<1>b. NoJob \notin Leased /\ Leased \subseteq Jobs
  BY JobQueueAssumption DEF Leased
<1> USE <1>a, <1>b DEF TypeOK, LeaseExclusive
<1>1. ASSUME NEW j \in Jobs, Enqueue(j) PROVE LeaseExclusive'
  BY <1>1 DEF Enqueue, OnlyEnqueued
<1>2. ASSUME NEW j \in Jobs, BecomeDue(j) PROVE LeaseExclusive'
  BY <1>2 DEF BecomeDue, Row
<1>3. ASSUME NEW j \in Jobs, LeaseExpire(j) PROVE LeaseExclusive'
  BY <1>3 DEF LeaseExpire, Works, Leased
<1>4. ASSUME NEW j \in Jobs, Replay(j) PROVE LeaseExclusive'
  BY <1>4 DEF Replay, InTable
<1>5. ASSUME NEW w \in Workers, NEW j \in Jobs, Claim(w, j) PROVE LeaseExclusive'
  <2>1. j \in Leased => \A v \in Workers : worker[v].job # j
    BY <1>5 DEF Claim, Runnable
  <2>2. /\ jobs'[j].status = "inflight" /\ jobs'[j].lease = "held"
        /\ jobs'[j].attempts = jobs[j].attempts + 1
        /\ jobs'[j].max = jobs[j].max
    BY <1>5 DEF Claim, Row
  <2>3. \A k \in Jobs : k # j => jobs'[k] = jobs[k]
    BY <1>5 DEF Claim
  <2>4. worker'[w] = [pc |-> "dispatch", job |-> j,
                      attempts |-> jobs[j].attempts + 1, max |-> jobs[j].max]
    BY <1>5 DEF Claim
  <2>5. \A v \in Workers : v # w => worker'[v] = worker[v]
    BY <1>5 DEF Claim
  <2> QED
    BY <2>1, <2>2, <2>3, <2>4, <2>5 DEF WorkerState
<1>6. ASSUME NEW w \in Workers, DispatchOk(w) PROVE LeaseExclusive'
  BY <1>6 DEF DispatchOk, Goto, WorkerState
<1>7. ASSUME NEW w \in Workers, DispatchFail(w) PROVE LeaseExclusive'
  BY <1>7 DEF DispatchFail, Goto, WorkerState
<1>8. ASSUME NEW w \in Workers, Complete(w) PROVE LeaseExclusive'
  BY <1>8 DEF Complete, Release, IdleWorker, Row, WorkerState
<1>9. ASSUME NEW w \in Workers, Retry(w) PROVE LeaseExclusive'
  BY <1>9 DEF Retry, Release, IdleWorker, Row, WorkerState
<1>10. ASSUME NEW w \in Workers, BuryInsert(w) PROVE LeaseExclusive'
  BY <1>10 DEF BuryInsert, Goto, Release, IdleWorker, WorkerState
<1>11. ASSUME NEW w \in Workers, BuryDelete(w) PROVE LeaseExclusive'
  BY <1>11 DEF BuryDelete, Release, IdleWorker, WorkerState
<1>12. ASSUME NEW w \in Workers, Interrupt(w) PROVE LeaseExclusive'
  BY <1>12 DEF Interrupt, Release, IdleWorker, WorkerState
<1>13. ASSUME NEW r \in Reapers, ReapDead(r) PROVE LeaseExclusive'
  <2>1. \A k \in Jobs : jobs[k].lease = "held" => jobs'[k] = jobs[k]
    BY <1>13 DEF ReapDead, DeadOnExpiry, Expired
  <2>2. worker' = worker
    BY <1>13 DEF ReapDead
  <2> QED
    BY <2>1, <2>2 DEF WorkerState
<1>14. ASSUME NEW r \in Reapers, ReapRequeue(r) PROVE LeaseExclusive'
  <2>1. \A k \in Jobs : jobs[k].lease = "held" => jobs'[k] = jobs[k]
    BY <1>14 DEF ReapRequeue, RequeuedOnExpiry, Expired
  <2>2. worker' = worker
    BY <1>14 DEF ReapRequeue
  <2> QED
    BY <2>1, <2>2 DEF WorkerState
<1>15. ASSUME NEW r \in Reapers, ReaperInterrupt(r) PROVE LeaseExclusive'
  BY <1>15 DEF ReaperInterrupt
<1>16. CASE UNCHANGED vars
  BY <1>16 DEF vars
<1> QED
  BY <1>1, <1>2, <1>3, <1>4, <1>5, <1>6, <1>7, <1>8, <1>9,
     <1>10, <1>11, <1>12, <1>13, <1>14, <1>15, <1>16
  DEF Next, WorkerStep, ReaperStep, TimeStep

(***************************************************************************)
(* The lease gives exclusive ownership of every job whose lease outlives   *)
(* the work done under it, whatever happens to the other jobs.             *)
(***************************************************************************)
THEOREM LeaseIsExclusive == Spec => []LeaseExclusive
<1>1. Init => LeaseExclusive
  BY JobQueueAssumption DEF Init, LeaseExclusive, IdleWorker, Leased
<1>2. Safekeeping /\ LeaseExclusive /\ [Next]_vars => LeaseExclusive'
  BY LeaseInductive
<1> QED
  BY <1>1, <1>2, SafekeepingInvariant, PTL DEF Spec

(***************************************************************************)
(* The attempt cap.  A queued job has a run left, an attempt of its own or *)
(* one that a lease run out in mid-pass has given it; the claim spends it; *)
(* a worker about to retry has seen that an attempt is left; and while a   *)
(* reaper is about to requeue, every expired job has a run left.           *)
(***************************************************************************)
HasRunLeft(j) == jobs[j].attempts < jobs[j].max + jobs[j].gaps

QueuedHasRunLeft == \A j \in Leased : jobs[j].status = "queued" => HasRunLeft(j)

RetryHasAttemptLeft ==
    \A w \in Workers : worker[w].pc = "retry" => worker[w].attempts < worker[w].max

BuryHasNoAttemptLeft ==
    \A w \in Workers : worker[w].pc = "bury" => worker[w].attempts >= worker[w].max

RequeueSparesExhausted ==
    \A r \in Reapers : reaper[r] = "requeue" =>
        \A j \in Leased : Expired(j) => HasRunLeft(j)

AttemptCount ==
    /\ AttemptsWithinMax
    /\ QueuedHasRunLeft
    /\ RetryHasAttemptLeft
    /\ BuryHasNoAttemptLeft
    /\ RequeueSparesExhausted

\* The counts of a row are numbers.
LEMMA RowCounts ==
    ASSUME TypeOK, NEW j \in Jobs
    PROVE  jobs[j].attempts \in Nat /\ jobs[j].max \in Nat /\ jobs[j].gaps \in Nat
BY DEF TypeOK, Row

\* AttemptCount is kept by every step.
LEMMA AttemptCountInductive ==
    TypeOK /\ LeaseExclusive /\ AttemptCount /\ [Next]_vars => AttemptCount'
<1> SUFFICES ASSUME TypeOK, LeaseExclusive, AttemptCount, [Next]_vars
             PROVE  AttemptCount'
  OBVIOUS
<1> USE DEF TypeOK, AttemptCount, AttemptsWithinMax, QueuedHasRunLeft,
            RetryHasAttemptLeft, BuryHasNoAttemptLeft, RequeueSparesExhausted,
            HasRunLeft, DeadOnExpiry,
            Expired, Exhausted, InTable, Leased
<1>1. ASSUME NEW j \in Jobs, Enqueue(j) PROVE AttemptCount'
  <2>1. /\ jobs'[j].status = "queued" /\ jobs'[j].attempts = 0
        /\ jobs'[j].max = MaxAttempts[j] /\ jobs'[j].gaps = 0
    BY <1>1 DEF Enqueue, NewRow
  <2>2. \A k \in Jobs : k # j => jobs'[k] = jobs[k]
    BY <1>1 DEF Enqueue
  <2>3. MaxAttempts[j] \in Nat \ {0}
    BY JobQueueAssumption
  <2>4. worker' = worker /\ reaper' = reaper
    BY <1>1 DEF Enqueue
  <2> QED
    BY <2>1, <2>2, <2>3, <2>4
<1>2. ASSUME NEW j \in Jobs, BecomeDue(j) PROVE AttemptCount'
  BY <1>2 DEF BecomeDue, Row
<1>3. ASSUME NEW j \in Jobs, LeaseExpire(j) PROVE AttemptCount'
  <2>1. /\ jobs[j].status = "inflight" /\ jobs'[j].status = "inflight"
        /\ jobs'[j].attempts = jobs[j].attempts
        /\ jobs'[j].max = jobs[j].max
        /\ jobs'[j].gaps = IF InGap(j) THEN jobs[j].gaps + 1 ELSE jobs[j].gaps
    BY <1>3 DEF LeaseExpire, Row
  <2>2. \A k \in Jobs : k # j => jobs'[k] = jobs[k]
    BY <1>3 DEF LeaseExpire
  <2>3. worker' = worker /\ reaper' = reaper
    BY <1>3 DEF LeaseExpire
  <2>4. ASSUME NEW k \in Jobs
        PROVE  /\ jobs'[k].status = jobs[k].status
               /\ jobs'[k].attempts = jobs[k].attempts /\ jobs'[k].max = jobs[k].max
               /\ jobs'[k].gaps \in Nat /\ jobs'[k].gaps >= jobs[k].gaps
    BY <2>1, <2>2, RowCounts
  <2>5. AttemptsWithinMax' /\ QueuedHasRunLeft'
    BY <2>4, RowCounts
  <2>6. RetryHasAttemptLeft' /\ BuryHasNoAttemptLeft'
    BY <2>3
  <2>7. ASSUME NEW r \in Reapers, reaper'[r] = "requeue", NEW k \in Leased, Expired(k)'
        PROVE  HasRunLeft(k)'
    <3>1. CASE k # j
      BY <2>2, <2>3, <2>7, <3>1
    <3>2. CASE k = j /\ InGap(j)
      BY <2>1, <3>2, RowCounts
    <3>3. CASE k = j /\ ~InGap(j)
      <4>1. ~Exhausted(j)
        BY <2>3, <2>7, <3>3 DEF InGap
      <4> QED
        BY <2>1, <3>3, <4>1, RowCounts
    <3> QED
      BY <3>1, <3>2, <3>3
  <2> QED
    BY <2>5, <2>6, <2>7
<1>4. ASSUME NEW j \in Jobs, Replay(j) PROVE AttemptCount'
  BY <1>4, JobQueueAssumption DEF Replay, NewRow
<1>5. ASSUME NEW w \in Workers, NEW j \in Jobs, Claim(w, j) PROVE AttemptCount'
  <2>1. /\ jobs'[j].status = "inflight" /\ jobs'[j].lease = "held"
        /\ jobs'[j].attempts = jobs[j].attempts + 1
        /\ jobs'[j].max = jobs[j].max
    BY <1>5 DEF Claim, Row
  <2>2. \A k \in Jobs : k # j => jobs'[k] = jobs[k]
    BY <1>5 DEF Claim
  <2>3. jobs[j].attempts \in Nat /\ jobs[j].max \in Nat
    BY DEF Row
  <2>6. jobs'[j].gaps = jobs[j].gaps /\ jobs[j].gaps \in Nat
    BY <1>5 DEF Claim, Row
  <2>4. jobs[j].status = "queued"
    BY <1>5 DEF Claim, Runnable
  <2>5. RetryHasAttemptLeft' /\ BuryHasNoAttemptLeft' /\ reaper' = reaper
    BY <1>5 DEF Claim
  <2> QED
    BY <2>1, <2>2, <2>3, <2>4, <2>5, <2>6
<1>6. ASSUME NEW w \in Workers, DispatchOk(w) PROVE AttemptCount'
  BY <1>6 DEF DispatchOk, Goto, WorkerState
<1>7. ASSUME NEW w \in Workers, DispatchFail(w) PROVE AttemptCount'
  BY <1>7 DEF DispatchFail, Goto, WorkerState
<1>8. ASSUME NEW w \in Workers, Complete(w) PROVE AttemptCount'
  BY <1>8 DEF Complete, Release, IdleWorker, Row, WorkerState
<1>9. ASSUME NEW w \in Workers, Retry(w) PROVE AttemptCount'
  <2>1. worker[w].job \in Leased =>
          jobs[worker[w].job].attempts < jobs[worker[w].job].max
    BY <1>9 DEF Retry, LeaseExclusive, WorkerState
  <2>2. worker[w].job \in Jobs
    BY <1>9 DEF Retry, WorkerState
  <2> QED
    BY <1>9, <2>1, <2>2 DEF Retry, Release, IdleWorker, Row, WorkerState
<1>10. ASSUME NEW w \in Workers, BuryInsert(w) PROVE AttemptCount'
  BY <1>10 DEF BuryInsert, Goto, Release, IdleWorker, WorkerState
<1>11. ASSUME NEW w \in Workers, BuryDelete(w) PROVE AttemptCount'
  BY <1>11 DEF BuryDelete, Release, IdleWorker, AbsentRow, WorkerState
<1>12. ASSUME NEW w \in Workers, Interrupt(w) PROVE AttemptCount'
  BY <1>12 DEF Interrupt, Release, IdleWorker, WorkerState
<1>13. ASSUME NEW r \in Reapers, ReapDead(r) PROVE AttemptCount'
  <2>1. CASE DeadOnExpiry \cap dead = {}
    <3>1. \A k \in Jobs : jobs'[k] = IF k \in DeadOnExpiry THEN AbsentRow
                                     ELSE jobs[k]
      BY <1>13, <2>1 DEF ReapDead
    <3>2. \A k \in Leased : Expired(k)' => HasRunLeft(k)'
      BY <3>1, RowCounts DEF AbsentRow
    <3>3. AttemptsWithinMax' /\ QueuedHasRunLeft'
      BY <3>1 DEF AbsentRow
    <3>4. RetryHasAttemptLeft' /\ BuryHasNoAttemptLeft'
      BY <1>13 DEF ReapDead
    <3> QED
      BY <3>2, <3>3, <3>4
  <2>2. CASE DeadOnExpiry \cap dead # {}
    BY <1>13, <2>2 DEF ReapDead
  <2> QED
    BY <2>1, <2>2
<1>14. ASSUME NEW r \in Reapers, ReapRequeue(r) PROVE AttemptCount'
  <2>1. \A k \in Leased : Expired(k) => HasRunLeft(k)
    BY <1>14 DEF ReapRequeue
  <2>2. ASSUME NEW k \in Jobs
        PROVE  /\ jobs'[k].attempts = jobs[k].attempts
               /\ jobs'[k].max = jobs[k].max /\ jobs'[k].gaps = jobs[k].gaps
               /\ ~(jobs'[k].status = "inflight" /\ jobs'[k].lease = "expired")
               /\ InTable(k)' <=> InTable(k)
               /\ jobs'[k].status = "queued" =>
                    jobs[k].status = "queued" \/ Expired(k)
    BY <1>14 DEF ReapRequeue, RequeuedOnExpiry, Row
  <2>3. AttemptsWithinMax'
    BY <2>2
  <2>4. QueuedHasRunLeft'
    BY <2>1, <2>2
  <2>5. RetryHasAttemptLeft' /\ BuryHasNoAttemptLeft' /\ RequeueSparesExhausted'
    BY <1>14, <2>2 DEF ReapRequeue
  <2> QED
    BY <2>3, <2>4, <2>5
<1>15. ASSUME NEW r \in Reapers, ReaperInterrupt(r) PROVE AttemptCount'
  BY <1>15 DEF ReaperInterrupt
<1>16. CASE UNCHANGED vars
  BY <1>16 DEF vars
<1> QED
  BY <1>1, <1>2, <1>3, <1>4, <1>5, <1>6, <1>7, <1>8, <1>9,
     <1>10, <1>11, <1>12, <1>13, <1>14, <1>15, <1>16
  DEF Next, WorkerStep, ReaperStep, TimeStep

\* So it is an invariant.
LEMMA AttemptCountInvariant == Spec => []AttemptCount
<1>1. Init => AttemptCount
  BY DEF Init, AttemptCount, AttemptsWithinMax, QueuedHasRunLeft,
         RetryHasAttemptLeft, BuryHasNoAttemptLeft, RequeueSparesExhausted,
         AbsentRow, IdleWorker, InTable, Leased, HasRunLeft
<1>2. TypeOK /\ LeaseExclusive /\ AttemptCount /\ [Next]_vars => AttemptCount'
  BY AttemptCountInductive
<1>3. Spec => []LeaseExclusive
  BY LeaseIsExclusive
<1> QED
  BY <1>1, <1>2, <1>3, TypeCorrect, PTL DEF Spec

(***************************************************************************)
(* A job whose lease outlives its work is run once more than its cap       *)
(* allows for each lease that runs out in mid-pass of a reaper with its    *)
(* attempts used up, and no more often than that.                          *)
(***************************************************************************)
THEOREM CapIsRespected == Spec => []AttemptsWithinMax
<1>1. AttemptCount => AttemptsWithinMax
  BY DEF AttemptCount
<1> QED
  BY <1>1, AttemptCountInvariant, PTL

(***************************************************************************)
(* A step that finds a job done leaves it done: a done job is in no        *)
(* worker's hands, and the reaper and Replay do not select it.             *)
(***************************************************************************)
LEMMA DoneStep ==
    ASSUME Safekeeping, LeaseExclusive, [Next]_vars, NEW k \in Leased,
           jobs[k].status = "done"
    PROVE  jobs'[k].status = "done"
<1>a. TypeOK /\ OnlyEnqueued
  BY DEF Safekeeping
<1>b. \A w \in Workers : worker[w].pc # "idle" => worker[w].job # k
  BY <1>a DEF LeaseExclusive, TypeOK, Leased
<1> USE <1>a, <1>b DEF TypeOK, Leased
<1>1. ASSUME NEW j \in Jobs, Enqueue(j) PROVE jobs'[k].status = "done"
  BY <1>1 DEF Enqueue, OnlyEnqueued, InTable
<1>2. ASSUME NEW j \in Jobs, BecomeDue(j) PROVE jobs'[k].status = "done"
  BY <1>2 DEF BecomeDue
<1>3. ASSUME NEW j \in Jobs, LeaseExpire(j) PROVE jobs'[k].status = "done"
  BY <1>3 DEF LeaseExpire
<1>4. ASSUME NEW j \in Jobs, Replay(j) PROVE jobs'[k].status = "done"
  BY <1>4 DEF Replay, InTable
<1>5. ASSUME NEW w \in Workers, NEW j \in Jobs, Claim(w, j) PROVE jobs'[k].status = "done"
  BY <1>5 DEF Claim, Runnable
<1>6. ASSUME NEW w \in Workers, DispatchOk(w) PROVE jobs'[k].status = "done"
  BY <1>6 DEF DispatchOk
<1>7. ASSUME NEW w \in Workers, DispatchFail(w) PROVE jobs'[k].status = "done"
  BY <1>7 DEF DispatchFail
<1>8. ASSUME NEW w \in Workers, Complete(w) PROVE jobs'[k].status = "done"
  BY <1>8 DEF Complete
<1>9. ASSUME NEW w \in Workers, Retry(w) PROVE jobs'[k].status = "done"
  BY <1>9 DEF Retry
<1>10. ASSUME NEW w \in Workers, BuryInsert(w) PROVE jobs'[k].status = "done"
  BY <1>10 DEF BuryInsert
<1>11. ASSUME NEW w \in Workers, BuryDelete(w) PROVE jobs'[k].status = "done"
  BY <1>11 DEF BuryDelete
<1>12. ASSUME NEW w \in Workers, Interrupt(w) PROVE jobs'[k].status = "done"
  BY <1>12 DEF Interrupt
<1>13. ASSUME NEW r \in Reapers, ReapDead(r) PROVE jobs'[k].status = "done"
  BY <1>13 DEF ReapDead, DeadOnExpiry, Expired
<1>14. ASSUME NEW r \in Reapers, ReapRequeue(r) PROVE jobs'[k].status = "done"
  BY <1>14 DEF ReapRequeue, RequeuedOnExpiry, Expired
<1>15. ASSUME NEW r \in Reapers, ReaperInterrupt(r) PROVE jobs'[k].status = "done"
  BY <1>15 DEF ReaperInterrupt
<1>16. CASE UNCHANGED vars
  BY <1>16 DEF vars
<1> QED
  BY <1>1, <1>2, <1>3, <1>4, <1>5, <1>6, <1>7, <1>8, <1>9,
     <1>10, <1>11, <1>12, <1>13, <1>14, <1>15, <1>16
  DEF Next, WorkerStep, ReaperStep, TimeStep

(***************************************************************************)
(* Done is final for a job whose lease outlives the work.                  *)
(***************************************************************************)
THEOREM DoneStaysDone == Spec => DoneIsFinal
<1>1. Safekeeping /\ LeaseExclusive /\ [Next]_vars =>
        [\A j \in Leased : jobs[j].status = "done" => jobs'[j].status = "done"]_vars
  BY DoneStep
<1>2. Spec => []LeaseExclusive
  BY LeaseIsExclusive
<1> QED
  BY <1>1, <1>2, SafekeepingInvariant, PTL DEF Spec, DoneIsFinal

(***************************************************************************)
(* If no worker is ever stopped between MoveToDead's two statements, a job *)
(* in both tables is one that a worker is moving right now.                *)
(***************************************************************************)
LEMMA OneTableInductive ==
    ASSUME "delete" \notin InterruptAt
    PROVE  Safekeeping /\ OneTable /\ [Next]_vars => OneTable'
<1> SUFFICES ASSUME Safekeeping, OneTable, [Next]_vars PROVE OneTable'
  OBVIOUS
<1>a. TypeOK /\ OnlyEnqueued
  BY DEF Safekeeping
<1> USE <1>a DEF TypeOK, OneTable, InTable, Works
<1>1. ASSUME NEW j \in Jobs, Enqueue(j) PROVE OneTable'
  BY <1>1 DEF Enqueue, OnlyEnqueued
<1>2. ASSUME NEW j \in Jobs, BecomeDue(j) PROVE OneTable'
  BY <1>2 DEF BecomeDue, Row
<1>3. ASSUME NEW j \in Jobs, LeaseExpire(j) PROVE OneTable'
  BY <1>3 DEF LeaseExpire, Row
<1>4. ASSUME NEW j \in Jobs, Replay(j) PROVE OneTable'
  BY <1>4 DEF Replay
<1>5. ASSUME NEW w \in Workers, NEW j \in Jobs, Claim(w, j) PROVE OneTable'
  <2>1. \A k \in Jobs : InTable(k)' <=> InTable(k)
    BY <1>5 DEF Claim, Runnable, Row
  <2>2. \A v \in Workers : worker[v].pc = "delete" => worker'[v] = worker[v]
    BY <1>5 DEF Claim
  <2> QED
    BY <1>5, <2>1, <2>2 DEF Claim
<1>6. ASSUME NEW w \in Workers, DispatchOk(w) PROVE OneTable'
  BY <1>6 DEF DispatchOk, Goto, WorkerState
<1>7. ASSUME NEW w \in Workers, DispatchFail(w) PROVE OneTable'
  BY <1>7 DEF DispatchFail, Goto, WorkerState
<1>8. ASSUME NEW w \in Workers, Complete(w) PROVE OneTable'
  BY <1>8 DEF Complete, Release, Row
<1>9. ASSUME NEW w \in Workers, Retry(w) PROVE OneTable'
  BY <1>9 DEF Retry, Release, Row
<1>10. ASSUME NEW w \in Workers, BuryInsert(w) PROVE OneTable'
  <2>1. CASE worker[w].job \in dead
    BY <1>10, <2>1 DEF BuryInsert, Release
  <2>2. CASE worker[w].job \notin dead
    <3>1. worker'[w].pc = "delete" /\ worker'[w].job = worker[w].job
      BY <1>10, <2>2 DEF BuryInsert, Goto, WorkerState
    <3>2. \A v \in Workers : v # w => worker'[v] = worker[v]
      BY <1>10, <2>2 DEF BuryInsert, Goto
    <3>3. jobs' = jobs /\ dead' = dead \cup {worker[w].job}
      BY <1>10, <2>2 DEF BuryInsert
    <3>4. worker[w].pc = "bury"
      BY <1>10 DEF BuryInsert
    <3> QED
      BY <3>1, <3>2, <3>3, <3>4
  <2> QED
    BY <2>1, <2>2
<1>11. ASSUME NEW w \in Workers, BuryDelete(w) PROVE OneTable'
  BY <1>11 DEF BuryDelete, Release, AbsentRow, WorkerState
<1>12. ASSUME NEW w \in Workers, Interrupt(w) PROVE OneTable'
  BY <1>12 DEF Interrupt, Release
<1>13. ASSUME NEW r \in Reapers, ReapDead(r) PROVE OneTable'
  <2>1. CASE DeadOnExpiry \cap dead = {}
    <3>1. \A k \in Jobs : jobs'[k] = IF k \in DeadOnExpiry THEN AbsentRow
                                     ELSE jobs[k]
      BY <1>13, <2>1 DEF ReapDead
    <3>2. dead' = dead \cup DeadOnExpiry /\ worker' = worker
      BY <1>13, <2>1 DEF ReapDead
    <3>3. DeadOnExpiry \subseteq Jobs
      BY DEF DeadOnExpiry
    <3> QED
      BY <3>1, <3>2, <3>3 DEF AbsentRow
  <2>2. CASE DeadOnExpiry \cap dead # {}
    BY <1>13, <2>2 DEF ReapDead
  <2> QED
    BY <2>1, <2>2
<1>14. ASSUME NEW r \in Reapers, ReapRequeue(r) PROVE OneTable'
  BY <1>14 DEF ReapRequeue, RequeuedOnExpiry, Expired
<1>15. ASSUME NEW r \in Reapers, ReaperInterrupt(r) PROVE OneTable'
  BY <1>15 DEF ReaperInterrupt
<1>16. CASE UNCHANGED vars
  BY <1>16 DEF vars
<1> QED
  BY <1>1, <1>2, <1>3, <1>4, <1>5, <1>6, <1>7, <1>8, <1>9,
     <1>10, <1>11, <1>12, <1>13, <1>14, <1>15, <1>16
  DEF Next, WorkerStep, ReaperStep, TimeStep

(***************************************************************************)
(* The two tables are disjoint but for a move under way, provided no crash *)
(* or failed statement separates MoveToDead's DELETE from its INSERT.      *)
(***************************************************************************)
THEOREM TablesAreDisjoint == "delete" \notin InterruptAt => (Spec => []OneTable)
<1> SUFFICES ASSUME "delete" \notin InterruptAt PROVE Spec => []OneTable
  OBVIOUS
<1>1. Init => OneTable
  BY DEF Init, OneTable
<1>2. Safekeeping /\ OneTable /\ [Next]_vars => OneTable'
  BY OneTableInductive
<1> QED
  BY <1>1, <1>2, SafekeepingInvariant, PTL DEF Spec

-----------------------------------------------------------------------------
(* The life cycle.                                                         *)

\* What a step makes of the job's state and of the runs it has left.
Moves(k, s, n, m) == StateOf(k)' = s /\ LeftOf(k)' = n /\ LateOf(k)' = m

LifeStep(k) ==
    \/ StateOf(k) = "none" /\ Moves(k, "open", MaxAttempts[k], 0)
    \/ /\ StateOf(k) = "open" /\ LeftOf(k) > 0
       /\ Moves(k, "open", LeftOf(k) - 1, LateOf(k))
    \/ /\ StateOf(k) = "open" /\ LeftOf(k) = 0
       /\ Moves(k, "open", 0, LateOf(k) + 1)
    \/ /\ StateOf(k) = "open" /\ LeftOf(k) = 0 /\ LateOf(k) > 0
       /\ Moves(k, "open", 0, LateOf(k) - 1)
    \/ StateOf(k) = "open" /\ Moves(k, "done", LeftOf(k), LateOf(k))
    \/ StateOf(k) = "open" /\ LeftOf(k) = 0 /\ Moves(k, "dead", 0, 0)
    \/ StateOf(k) = "dead" /\ Moves(k, "open", DefaultMaxAttempts, 0)
    \/ Moves(k, StateOf(k), LeftOf(k), LateOf(k))

\* What the counts of a row amount to.
LEMMA RunsLeft ==
    ASSUME NEW m \in Nat, NEW a \in Nat, NEW g \in Nat
    PROVE  /\ Beyond(m, a) = 0 <=> a >= m
           /\ Beyond(m, 0) = m /\ Beyond(0, m) = 0
           /\ a < m => Beyond(m, a) > 0 /\ Beyond(m, a + 1) = Beyond(m, a) - 1
           /\ a < m => Beyond(g, Beyond(a + 1, m)) = Beyond(g, Beyond(a, m))
           /\ a >= m /\ a < m + g =>
                /\ Beyond(m, a + 1) = 0
                /\ Beyond(g, Beyond(a, m)) > 0
                /\ Beyond(g, Beyond(a + 1, m)) = Beyond(g, Beyond(a, m)) - 1
           /\ a >= m /\ a <= m + g =>
                Beyond(g + 1, Beyond(a, m)) = Beyond(g, Beyond(a, m)) + 1
<1>1. CASE a < m
  BY <1>1 DEF Beyond
<1>2. CASE a >= m
  BY <1>2 DEF Beyond
<1> QED
  BY <1>1, <1>2

\* A step that leaves the job's row and its dead letter alone is a stutter.
LEMMA LifeStutters ==
    ASSUME NEW k, jobs'[k] = jobs[k], k \in dead' <=> k \in dead
    PROVE  LifeStep(k)
BY DEF LifeStep, Moves, StateOf, LeftOf, LateOf

(***************************************************************************)
(* Every step of the queue is, for each job whose lease outlives the work, *)
(* a step of its life cycle or none.                                       *)
(***************************************************************************)
LEMMA StepIsLifeStep ==
    ASSUME Safekeeping, LeaseExclusive, AttemptCount, [Next]_vars, NEW k \in Leased
    PROVE  LifeStep(k)
<1>a. TypeOK /\ OnlyEnqueued /\ BuryIsExclusive
  BY DEF Safekeeping
<1>b. k \in Jobs /\ jobs[k] \in Row /\ jobs \in [Jobs -> Row]
  BY <1>a DEF TypeOK, Leased
<1>c. jobs[k].attempts \in Nat /\ jobs[k].max \in Nat /\ jobs[k].gaps \in Nat
  BY <1>b DEF Row
<1>f. jobs[k].attempts >= jobs[k].max => Beyond(jobs[k].max, jobs[k].attempts) = 0
  BY <1>c, RunsLeft
<1>d. ASSUME NEW w \in Workers, worker[w].job = k
      PROVE  /\ jobs[k].status = "inflight"
             /\ jobs[k].attempts = worker[w].attempts
             /\ jobs[k].max = worker[w].max
  BY <1>d DEF LeaseExclusive
<1>e. ASSUME NEW w \in Workers, worker[w].pc # "idle" PROVE worker[w].job \in Jobs
  BY <1>a, <1>e, BusyHasJob
<1>1. ASSUME NEW j \in Jobs, Enqueue(j) PROVE LifeStep(k)
  <2>1. CASE j = k
    <3>1. jobs[k].status = "absent" /\ k \notin dead /\ dead' = dead
      BY <1>1, <1>a, <2>1 DEF Enqueue, OnlyEnqueued, InTable
    <3>2. /\ jobs'[k].status = "queued" /\ jobs'[k].attempts = 0
          /\ jobs'[k].max = MaxAttempts[k] /\ jobs'[k].gaps = 0
      BY <1>1, <1>b, <2>1 DEF Enqueue, NewRow
    <3>3. /\ Beyond(MaxAttempts[k], 0) = MaxAttempts[k]
          /\ Beyond(0, Beyond(0, MaxAttempts[k])) = 0
      BY <1>b, RunsLeft, JobQueueAssumption
    <3> QED
      BY <3>1, <3>2, <3>3 DEF LifeStep, Moves, StateOf, LeftOf, LateOf
  <2>2. CASE j # k
    BY <1>1, <1>b, <2>2, LifeStutters DEF Enqueue
  <2> QED
    BY <2>1, <2>2
<1>2. ASSUME NEW j \in Jobs, BecomeDue(j) PROVE LifeStep(k)
  <2>1. /\ jobs'[k].status = jobs[k].status /\ jobs'[k].attempts = jobs[k].attempts
        /\ jobs'[k].max = jobs[k].max /\ jobs'[k].gaps = jobs[k].gaps /\ dead' = dead
    BY <1>2, <1>b DEF BecomeDue, Row
  <2> QED
    BY <2>1 DEF LifeStep, Moves, StateOf, LeftOf, LateOf
<1>3. ASSUME NEW j \in Jobs, LeaseExpire(j) PROVE LifeStep(k)
  <2>1. CASE j = k
    <3>1. /\ jobs[k].status = "inflight" /\ jobs'[k].status = "inflight"
          /\ jobs'[k].attempts = jobs[k].attempts /\ jobs'[k].max = jobs[k].max
          /\ jobs'[k].gaps = (IF InGap(k) THEN jobs[k].gaps + 1 ELSE jobs[k].gaps)
          /\ dead' = dead
      BY <1>3, <1>b, <2>1 DEF LeaseExpire, Row
    <3>2. CASE k \notin dead /\ InGap(k)
      <4>1. jobs[k].attempts >= jobs[k].max
        BY <3>2 DEF InGap, Exhausted
      <4>2. jobs[k].attempts <= jobs[k].max + jobs[k].gaps
        BY <3>1 DEF AttemptCount, AttemptsWithinMax, InTable
      <4>3. Beyond(jobs[k].gaps + 1, Beyond(jobs[k].attempts, jobs[k].max))
              = Beyond(jobs[k].gaps, Beyond(jobs[k].attempts, jobs[k].max)) + 1
        BY <1>c, <4>1, <4>2, RunsLeft
      <4> QED
        BY <1>f, <3>1, <3>2, <4>1, <4>3 DEF LifeStep, Moves, StateOf, LeftOf, LateOf
    <3>3. CASE k \in dead \/ ~InGap(k)
      BY <3>1, <3>3 DEF LifeStep, Moves, StateOf, LeftOf, LateOf
    <3> QED
      BY <3>2, <3>3
  <2>2. CASE j # k
    BY <1>3, <1>b, <2>2, LifeStutters DEF LeaseExpire
  <2> QED
    BY <2>1, <2>2
<1>4. ASSUME NEW j \in Jobs, Replay(j) PROVE LifeStep(k)
  <2>1. CASE j = k
    <3>1. k \in dead /\ k \notin dead'
      BY <1>4, <2>1 DEF Replay
    <3>2. /\ jobs'[k].status = "queued" /\ jobs'[k].attempts = 0
          /\ jobs'[k].max = DefaultMaxAttempts /\ jobs'[k].gaps = 0
      BY <1>4, <1>b, <2>1 DEF Replay, NewRow
    <3>3. /\ Beyond(DefaultMaxAttempts, 0) = DefaultMaxAttempts
          /\ Beyond(0, Beyond(0, DefaultMaxAttempts)) = 0
      BY RunsLeft, JobQueueAssumption
    <3> QED
      BY <3>1, <3>2, <3>3 DEF LifeStep, Moves, StateOf, LeftOf, LateOf
  <2>2. CASE j # k
    BY <1>4, <1>b, <2>2, LifeStutters DEF Replay
  <2> QED
    BY <2>1, <2>2
<1>5. ASSUME NEW w \in Workers, NEW j \in Jobs, Claim(w, j) PROVE LifeStep(k)
  <2>1. CASE j = k
    <3>1. jobs[k].status = "queued" /\ jobs[k].attempts < jobs[k].max + jobs[k].gaps
      BY <1>5, <2>1 DEF Claim, Runnable, AttemptCount, QueuedHasRunLeft, HasRunLeft
    <3>2. /\ jobs'[k].status = "inflight" /\ jobs'[k].attempts = jobs[k].attempts + 1
          /\ jobs'[k].max = jobs[k].max /\ jobs'[k].gaps = jobs[k].gaps /\ dead' = dead
      BY <1>5, <1>b, <2>1 DEF Claim, Row
    <3>3. CASE k \in dead
      BY <3>2, <3>3 DEF LifeStep, Moves, StateOf, LeftOf, LateOf
    <3>4. CASE k \notin dead /\ jobs[k].attempts < jobs[k].max
      BY <1>c, <3>1, <3>2, <3>4, RunsLeft DEF LifeStep, Moves, StateOf, LeftOf, LateOf
    <3>5. CASE k \notin dead /\ jobs[k].attempts >= jobs[k].max
      BY <1>c, <1>f, <3>1, <3>2, <3>5, RunsLeft
      DEF LifeStep, Moves, StateOf, LeftOf, LateOf
    <3> QED
      BY <1>c, <3>3, <3>4, <3>5
  <2>2. CASE j # k
    BY <1>5, <1>b, <2>2, LifeStutters DEF Claim
  <2> QED
    BY <2>1, <2>2
<1>6. ASSUME NEW w \in Workers, DispatchOk(w) \/ DispatchFail(w) \/ Interrupt(w)
      PROVE  LifeStep(k)
  BY <1>6, LifeStutters DEF DispatchOk, DispatchFail, Interrupt
<1>8. ASSUME NEW w \in Workers, Complete(w) \/ Retry(w) PROVE LifeStep(k)
  <2>1. CASE worker[w].job = k
    <3>2. InTable(k)
      BY <1>d, <2>1 DEF InTable
    <3>3. \/ jobs' = [jobs EXCEPT ![k] = [@ EXCEPT !.status = "done", !.lease = "none"]]
          \/ jobs' = [jobs EXCEPT ![k] = [@ EXCEPT !.status = "queued", !.lease = "none",
                                                   !.runAt = "future"]]
      BY <1>8, <2>1, <3>2 DEF Complete, Retry
    <3>4. dead' = dead
      BY <1>8 DEF Complete, Retry
    <3>1. /\ jobs'[k].status \in {"done", "queued"} /\ jobs'[k].attempts = jobs[k].attempts
          /\ jobs'[k].max = jobs[k].max /\ jobs'[k].gaps = jobs[k].gaps /\ dead' = dead
      <4>1. CASE jobs' = [jobs EXCEPT ![k] = [@ EXCEPT !.status = "done", !.lease = "none"]]
        BY <1>b, <3>4, <4>1 DEF Row
      <4>2. CASE jobs' = [jobs EXCEPT ![k] = [@ EXCEPT !.status = "queued", !.lease = "none",
                                                      !.runAt = "future"]]
        BY <1>b, <3>4, <4>2 DEF Row
      <4> QED
        BY <3>3, <4>1, <4>2
    <3> QED
      BY <1>d, <2>1, <3>1 DEF LifeStep, Moves, StateOf, LeftOf, LateOf
  <2>2. CASE worker[w].job # k
    BY <1>8, <1>b, <1>e, <2>2, LifeStutters DEF Complete, Retry
  <2> QED
    BY <2>1, <2>2
<1>10. ASSUME NEW w \in Workers, BuryInsert(w) PROVE LifeStep(k)
  <2>1. CASE worker[w].job = k /\ k \notin dead
    <3>1. jobs[k].attempts >= jobs[k].max
      BY <1>10, <1>d, <2>1 DEF BuryInsert, AttemptCount, BuryHasNoAttemptLeft
    <3>2. k \in dead'
      BY <1>10, <2>1 DEF BuryInsert
    <3> QED
      BY <1>d, <1>f, <2>1, <3>1, <3>2 DEF LifeStep, Moves, StateOf, LeftOf, LateOf
  <2>2. CASE worker[w].job # k \/ k \in dead
    BY <1>10, <2>2, LifeStutters DEF BuryInsert
  <2> QED
    BY <2>1, <2>2
<1>11. ASSUME NEW w \in Workers, BuryDelete(w) PROVE LifeStep(k)
  <2>1. CASE worker[w].job = k
    <3>1. k \in dead /\ dead' = dead
      BY <1>11, <1>a, <2>1 DEF BuryDelete, BuryIsExclusive
    <3> QED
      BY <3>1 DEF LifeStep, Moves, StateOf, LeftOf, LateOf
  <2>2. CASE worker[w].job # k
    BY <1>11, <1>b, <2>2, LifeStutters DEF BuryDelete
  <2> QED
    BY <2>1, <2>2
<1>13. ASSUME NEW r \in Reapers, ReapDead(r) PROVE LifeStep(k)
  <2>1. CASE k \in DeadOnExpiry /\ DeadOnExpiry \cap dead = {}
    <3>1. k \notin dead /\ k \in dead'
      BY <1>13, <2>1 DEF ReapDead
    <3>2. jobs[k].status = "inflight" /\ jobs[k].attempts >= jobs[k].max
      BY <2>1 DEF DeadOnExpiry, Expired, Exhausted
    <3> QED
      BY <1>f, <3>1, <3>2 DEF LifeStep, Moves, StateOf, LeftOf, LateOf
  <2>2. CASE k \notin DeadOnExpiry \/ DeadOnExpiry \cap dead # {}
    BY <1>13, <1>b, <2>2, LifeStutters DEF ReapDead
  <2> QED
    BY <2>1, <2>2
<1>14. ASSUME NEW r \in Reapers, ReapRequeue(r) PROVE LifeStep(k)
  <2>1. CASE k \in RequeuedOnExpiry
    <3>1. /\ jobs[k].status = "inflight" /\ jobs'[k].status = "queued"
          /\ jobs'[k].attempts = jobs[k].attempts /\ jobs'[k].max = jobs[k].max
          /\ jobs'[k].gaps = jobs[k].gaps /\ dead' = dead
      BY <1>14, <1>b, <2>1 DEF ReapRequeue, RequeuedOnExpiry, Expired, Row
    <3> QED
      BY <3>1 DEF LifeStep, Moves, StateOf, LeftOf, LateOf
  <2>2. CASE k \notin RequeuedOnExpiry
    BY <1>14, <1>b, <2>2, LifeStutters DEF ReapRequeue
  <2> QED
    BY <2>1, <2>2
<1>15. ASSUME NEW r \in Reapers, ReaperInterrupt(r) PROVE LifeStep(k)
  BY <1>15, LifeStutters DEF ReaperInterrupt
<1>16. CASE UNCHANGED vars
  BY <1>16, LifeStutters DEF vars
<1> HIDE DEF LifeStep
<1> QED
  BY <1>1, <1>2, <1>3, <1>4, <1>5, <1>6, <1>8, <1>10, <1>11, <1>13, <1>14, <1>15,
     <1>16
  DEF Next, WorkerStep, ReaperStep, TimeStep

(***************************************************************************)
(* The queue implements JobLifecycle, for any number of jobs, workers and  *)
(* reapers, wherever they crash and whenever a lease runs out: a dead      *)
(* letter has used up its attempts, and a job whose attempts are used up   *)
(* is run again only if a lease ran out in mid-pass of a reaper.           *)
(***************************************************************************)
THEOREM QueueImplementsLifecycle == Spec => ImplementsLifecycle
<1>1. Init => Life!Init
  <2> SUFFICES ASSUME Init PROVE Life!Init
    OBVIOUS
  <2>1. ASSUME NEW j \in Leased
        PROVE  StateOf(j) = "none" /\ LeftOf(j) = 0 /\ LateOf(j) = 0
    <3>1. j \notin dead /\ jobs[j] = AbsentRow
      BY DEF Init, Leased
    <3> QED
      BY <3>1 DEF StateOf, LeftOf, LateOf, AbsentRow, Beyond
  <2> QED
    BY <2>1 DEF Life!Init
<1>2. Safekeeping /\ LeaseExclusive /\ AttemptCount /\ [Next]_vars => [Life!Next]_(Life!vars)
  <2> SUFFICES ASSUME Safekeeping, LeaseExclusive, AttemptCount, [Next]_vars
               PROVE  Life!Next
    OBVIOUS
  <2> SUFFICES ASSUME NEW k \in Leased
               PROVE  \/ Life!Accept(k) \/ Life!Run(k) \/ Life!GiveLate(k)
                      \/ Life!RunLate(k) \/ Life!Succeed(k) \/ Life!Bury(k)
                      \/ Life!Reopen(k) \/ Life!Stay(k)
    BY DEF Life!Next
  <2>1. LifeStep(k)
    BY StepIsLifeStep
  <2> QED
    BY <2>1 DEF LifeStep, Moves, Life!Accept, Life!Run, Life!GiveLate,
                Life!RunLate, Life!Succeed, Life!Bury, Life!Reopen, Life!Stay, Life!Becomes
<1>3. Spec => []LeaseExclusive
  BY LeaseIsExclusive
<1>4. Spec => []AttemptCount
  BY AttemptCountInvariant
<1> QED
  BY <1>1, <1>2, <1>3, <1>4, SafekeepingInvariant, PTL
  DEF Spec, ImplementsLifecycle, Life!Spec

=============================================================================
