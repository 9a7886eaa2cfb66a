------------------------------ MODULE JobQueue ------------------------------
(***************************************************************************)
(* The Postgres-backed job queue: the tables jobs and dead_letters, the    *)
(* worker goroutines that claim, dispatch and finish jobs, the lease       *)
(* reapers, and the operator's replay of dead letters.                     *)
(*                                                                         *)
(* One step is one SQL statement (each statement of JobRepository commits  *)
(* by itself) or one return from a job handler.  A worker keeps the row    *)
(* that Claim returned in local memory; what it does later is decided from *)
(* that copy, while the row itself may have moved on.                      *)
(***************************************************************************)
EXTENDS Naturals, FiniteSets

CONSTANTS
    Jobs,               \* job ids (uuids: each is inserted at most once)
    Workers,            \* worker goroutines, over all worker processes
    Reapers,            \* one reaper goroutine per worker process
    NoJob,              \* "no job in hand"
    MaxAttempts,        \* max_attempts each job is enqueued with
    Priority,           \* priority each job is enqueued with
    Delayed,            \* jobs enqueued with a run_at in the future
    DefaultMaxAttempts, \* column default, which Replay falls back to
    DefaultPriority,    \* column default, which Replay falls back to
    AttemptCap,         \* bound: no job is claimed more often than this
    MaxReplays,         \* bound: operator replays in a behaviour
    InterruptAt,        \* worker steps a crash or a failed statement may hit
    Overruns,           \* jobs whose handler may outlive its lease
    MaxGaps             \* bound: expiries of a used-up job's lease during a
                        \* reaper pass, since the job was last inserted

WorkerPcs == {"idle", "dispatch", "complete", "retry", "bury", "delete"}

\* Jobs whose lease expires only after its worker is gone.
Leased == Jobs \ Overruns

ASSUME JobQueueAssumption ==
    /\ NoJob \notin Jobs
    /\ MaxAttempts \in [Jobs -> Nat \ {0}]
    /\ Priority \in [Jobs -> Nat]
    /\ Delayed \subseteq Jobs
    /\ DefaultMaxAttempts \in Nat \ {0}
    /\ DefaultPriority \in Nat
    /\ AttemptCap \in Nat
    /\ MaxReplays \in Nat
    /\ InterruptAt \subseteq WorkerPcs \ {"idle"}
    /\ Overruns \subseteq Jobs
    /\ MaxGaps \in Nat

VARIABLES
    jobs,      \* the jobs table
    dead,      \* ids in dead_letters
    enqueued,  \* ids ever inserted (a uuid is never reused)
    worker,    \* each worker's program counter and local copy of its job
    reaper,    \* which statement of ReapExpired each reaper runs next
    replays    \* operator replays so far

vars == <<jobs, dead, enqueued, worker, reaper, replays>>

-----------------------------------------------------------------------------
(* The rows.                                                               *)

Row == [status : {"absent", "queued", "inflight", "done"},
        runAt : {"future", "past"},           \* run_at against now()
        lease : {"none", "held", "expired"},  \* leased_until against now()
        attempts : Nat, max : Nat, prio : Nat,
        gaps : Nat]                           \* history, see LeaseExpire

AbsentRow == [status |-> "absent", runAt |-> "future", lease |-> "none",
              attempts |-> 0, max |-> 0, prio |-> 0, gaps |-> 0]

NewRow(runAt, max, prio) ==
    [status |-> "queued", runAt |-> runAt, lease |-> "none",
     attempts |-> 0, max |-> max, prio |-> prio, gaps |-> 0]

InTable(j) == jobs[j].status # "absent"

Expired(j) == jobs[j].status = "inflight" /\ jobs[j].lease = "expired"

\* Fault: an off-by-one in the comparison with max_attempts.
ExhaustedPastMax(j) == jobs[j].attempts > jobs[j].max

Exhausted(j) == jobs[j].attempts >= jobs[j].max

\* Faults: the reaper looks at the status alone, or at the wrong status.
RequeuedInflight == {j \in Jobs : jobs[j].status = "inflight"}
RequeuedWrongStatus ==
    {j \in Jobs : jobs[j].status = "queued" /\ jobs[j].lease = "expired"}

\* Rows the two statements of ReapExpired select.
DeadOnExpiry == {j \in Jobs : Expired(j) /\ Exhausted(j)}
RequeuedOnExpiry == {j \in Jobs : Expired(j)}

-----------------------------------------------------------------------------
(* The workers.                                                            *)

IdleWorker == [pc |-> "idle", job |-> NoJob, attempts |-> 0, max |-> 0]

Works(w, j) == worker[w].job = j

Goto(w, pc) == worker' = [worker EXCEPT ![w].pc = pc]

\* Fault: the worker goes back to its loop with the job still in hand.
ReleaseKeepsJob(w) == worker' = [worker EXCEPT ![w].pc = "idle"]

Release(w) == worker' = [worker EXCEPT ![w] = IdleWorker]

Init ==
    /\ jobs = [j \in Jobs |-> AbsentRow]
    /\ dead = {}
    /\ enqueued = {}
    /\ worker = [w \in Workers |-> IdleWorker]
    /\ reaper = [r \in Reapers |-> "dead"]
    /\ replays = 0

-----------------------------------------------------------------------------
(* JobRepository.Enqueue                                                   *)

Enqueue(j) ==
    /\ j \notin enqueued
    /\ jobs' = [jobs EXCEPT ![j] =
                  NewRow(IF j \in Delayed THEN "future" ELSE "past",
                         MaxAttempts[j], Priority[j])]
    /\ enqueued' = enqueued \cup {j}
    /\ UNCHANGED <<dead, worker, reaper, replays>>

\* Time passes: a run_at or a leased_until is reached.
BecomeDue(j) ==
    /\ jobs[j].status = "queued"
    /\ jobs[j].runAt = "future"
    /\ jobs' = [jobs EXCEPT ![j].runAt = "past"]
    /\ UNCHANGED <<dead, enqueued, worker, reaper, replays>>

\* The attempts of job j are used up, and a reaper is between its statements:
\* if the lease runs out now, the second statement requeues the job.
InGap(j) == Exhausted(j) /\ \E r \in Reapers : reaper[r] = "requeue"

LeaseExpire(j) ==
    /\ jobs[j].status = "inflight"
    /\ jobs[j].lease = "held"
    /\ j \in Leased => \A w \in Workers : ~Works(w, j)
    /\ InGap(j) => jobs[j].gaps < MaxGaps
    /\ jobs' = [jobs EXCEPT ![j] =
                  [@ EXCEPT !.lease = "expired",
                            !.gaps = IF InGap(j) THEN jobs[j].gaps + 1
                                                 ELSE jobs[j].gaps]]
    /\ UNCHANGED <<dead, enqueued, worker, reaper, replays>>

-----------------------------------------------------------------------------
(* Worker.loop and Worker.process                                          *)

\* Fault: Claim does not look at the status.
RunnableAnyStatus(j) == InTable(j) /\ jobs[j].runAt = "past"

Runnable(j) == jobs[j].status = "queued" /\ jobs[j].runAt = "past"

\* The most urgent runnable row; which of several as urgent, the earliest
\* run_at or the one not locked by another claim, is left open.
Claim(w, j) ==
    /\ worker[w].pc = "idle"
    /\ Runnable(j)
    /\ \A k \in Jobs : Runnable(k) => jobs[k].prio <= jobs[j].prio
    /\ jobs[j].attempts < AttemptCap
    /\ jobs' = [jobs EXCEPT ![j] = [@ EXCEPT !.status = "inflight",
                                             !.lease = "held",
                                             !.attempts = jobs[j].attempts + 1]]
    /\ worker' = [worker EXCEPT ![w] =
                    [pc |-> "dispatch", job |-> j,
                     attempts |-> jobs[j].attempts + 1, max |-> jobs[j].max]]
    /\ UNCHANGED <<dead, enqueued, reaper, replays>>

\* The handler returned nil.
DispatchOk(w) ==
    /\ worker[w].pc = "dispatch"
    /\ Goto(w, "complete")
    /\ UNCHANGED <<jobs, dead, enqueued, reaper, replays>>

\* Fault: an off-by-one in the comparison with max_attempts.
DispatchFailPastMax(w) ==
    /\ worker[w].pc = "dispatch"
    /\ Goto(w, IF worker[w].attempts > worker[w].max THEN "bury" ELSE "retry")
    /\ UNCHANGED <<jobs, dead, enqueued, reaper, replays>>

\* Fault: the run under way is counted as one to come.
DispatchFailBuriesEarly(w) ==
    /\ worker[w].pc = "dispatch"
    /\ Goto(w, IF worker[w].attempts + 1 >= worker[w].max
               THEN "bury" ELSE "retry")
    /\ UNCHANGED <<jobs, dead, enqueued, reaper, replays>>

\* The handler returned an error: the cap is tested on the local copy.
DispatchFail(w) ==
    /\ worker[w].pc = "dispatch"
    /\ Goto(w, IF worker[w].attempts >= worker[w].max THEN "bury" ELSE "retry")
    /\ UNCHANGED <<jobs, dead, enqueued, reaper, replays>>

\* UPDATE ... WHERE id=$1 changes nothing when the row is gone.
Complete(w) ==
    LET j == worker[w].job IN
    /\ worker[w].pc = "complete"
    /\ jobs' = IF InTable(j)
               THEN [jobs EXCEPT ![j] = [@ EXCEPT !.status = "done",
                                                  !.lease = "none"]]
               ELSE jobs
    /\ Release(w)
    /\ UNCHANGED <<dead, enqueued, reaper, replays>>

\* Fault: the lease is cleared but the status is not set back.
RetryKeepsInflight(w) ==
    LET j == worker[w].job IN
    /\ worker[w].pc = "retry"
    /\ jobs' = IF InTable(j)
               THEN [jobs EXCEPT ![j] = [@ EXCEPT !.lease = "none",
                                                  !.runAt = "future"]]
               ELSE jobs
    /\ Release(w)
    /\ UNCHANGED <<dead, enqueued, reaper, replays>>

Retry(w) ==
    LET j == worker[w].job IN
    /\ worker[w].pc = "retry"
    /\ jobs' = IF InTable(j)
               THEN [jobs EXCEPT ![j] = [@ EXCEPT !.status = "queued",
                                                  !.lease = "none",
                                                  !.runAt = "future"]]
               ELSE jobs
    /\ Release(w)
    /\ UNCHANGED <<dead, enqueued, reaper, replays>>

\* Fault: the row is deleted before the dead letter is inserted.
BuryInsertDeletesFirst(w) ==
    LET j == worker[w].job IN
    /\ worker[w].pc = "bury"
    /\ jobs' = [jobs EXCEPT ![j] = AbsentRow]
    /\ Goto(w, "delete")
    /\ UNCHANGED <<dead, enqueued, reaper, replays>>

\* Fault: ON CONFLICT DO NOTHING, so that a second worker goes on to delete.
BuryInsertIgnoresConflict(w) ==
    /\ worker[w].pc = "bury"
    /\ Goto(w, "delete")
    /\ dead' = dead \cup {worker[w].job}
    /\ UNCHANGED <<jobs, enqueued, reaper, replays>>

\* MoveToDead, first statement: a primary-key conflict ends the attempt.
BuryInsert(w) ==
    LET j == worker[w].job IN
    /\ worker[w].pc = "bury"
    /\ IF j \in dead
       THEN Release(w) /\ dead' = dead
       ELSE Goto(w, "delete") /\ dead' = dead \cup {j}
    /\ UNCHANGED <<jobs, enqueued, reaper, replays>>

\* Fault: the row is not deleted.
BuryDeleteForgets(w) ==
    /\ worker[w].pc = "delete"
    /\ Release(w)
    /\ UNCHANGED <<jobs, dead, enqueued, reaper, replays>>

\* MoveToDead, second statement.
BuryDelete(w) ==
    LET j == worker[w].job IN
    /\ worker[w].pc = "delete"
    /\ jobs' = [jobs EXCEPT ![j] = AbsentRow]
    /\ Release(w)
    /\ UNCHANGED <<dead, enqueued, reaper, replays>>

\* The process dies, or the statement the worker is about to run fails: the
\* error is logged and the worker goes back to its loop, the row untouched.
Interrupt(w) ==
    /\ worker[w].pc \in InterruptAt
    /\ Release(w)
    /\ UNCHANGED <<jobs, dead, enqueued, reaper, replays>>

-----------------------------------------------------------------------------
(* JobRepository.ReapExpired, run by Worker.reaper on every tick           *)

\* First statement.  It is all or nothing: one primary-key conflict in
\* dead_letters fails it, and ReapExpired returns.
ReapDead(r) ==
    /\ reaper[r] = "dead"
    /\ IF DeadOnExpiry \cap dead = {}
       THEN /\ dead' = dead \cup DeadOnExpiry
            /\ jobs' = [j \in Jobs |-> IF j \in DeadOnExpiry THEN AbsentRow
                                       ELSE jobs[j]]
            /\ reaper' = [reaper EXCEPT ![r] = "requeue"]
       ELSE UNCHANGED <<dead, jobs, reaper>>
    /\ UNCHANGED <<enqueued, worker, replays>>

\* Second statement: every lease expired by now, exhausted or not.
ReapRequeue(r) ==
    /\ reaper[r] = "requeue"
    /\ jobs' = [j \in Jobs |->
                  IF j \in RequeuedOnExpiry
                  THEN [jobs[j] EXCEPT !.status = "queued", !.lease = "none"]
                  ELSE jobs[j]]
    /\ reaper' = [reaper EXCEPT ![r] = "dead"]
    /\ UNCHANGED <<dead, enqueued, worker, replays>>

\* The second statement fails or the process dies before it.
ReaperInterrupt(r) ==
    /\ reaper[r] = "requeue"
    /\ reaper' = [reaper EXCEPT ![r] = "dead"]
    /\ UNCHANGED <<jobs, dead, enqueued, worker, replays>>

-----------------------------------------------------------------------------
(* JobRepository.Replay: one statement, refused while the row still exists *)

Replay(j) ==
    /\ replays < MaxReplays
    /\ j \in dead
    /\ ~InTable(j)
    /\ dead' = dead \ {j}
    /\ jobs' = [jobs EXCEPT ![j] =
                  NewRow("past", DefaultMaxAttempts, DefaultPriority)]
    /\ replays' = replays + 1
    /\ UNCHANGED <<enqueued, worker, reaper>>

-----------------------------------------------------------------------------
WorkerStep(w) ==
    \/ \E j \in Jobs : Claim(w, j)
    \/ DispatchOk(w)
    \/ DispatchFail(w)
    \/ Complete(w)
    \/ Retry(w)
    \/ BuryInsert(w)
    \/ BuryDelete(w)

ReaperStep(r) == ReapDead(r) \/ ReapRequeue(r)

TimeStep(j) == BecomeDue(j) \/ LeaseExpire(j)

Next ==
    \/ \E j \in Jobs : Enqueue(j) \/ TimeStep(j) \/ Replay(j)
    \/ \E w \in Workers : WorkerStep(w) \/ Interrupt(w)
    \/ \E r \in Reapers : ReaperStep(r) \/ ReaperInterrupt(r)

Spec == Init /\ [][Next]_vars

(***************************************************************************)
(* Fairness.  A worker loop, a reaper ticker and the clock never stop, so  *)
(* each keeps taking its steps; a lease whose expiry keeps coinciding with *)
(* a reaper pass (beyond MaxGaps times, when it waits for another moment), *)
(* or a requeue statement that keeps failing, is a transient condition and *)
(* gets strong fairness.  Nothing is assumed of handlers succeeding, of    *)
(* crashes stopping, or of operators replaying.                            *)
(***************************************************************************)
Fairness ==
    /\ \A w \in Workers : WF_vars(WorkerStep(w))
    /\ \A j \in Jobs : WF_vars(BecomeDue(j)) /\ SF_vars(LeaseExpire(j))
    /\ \A r \in Reapers : WF_vars(ReapDead(r)) /\ SF_vars(ReapRequeue(r))

FairSpec == Spec /\ Fairness

-----------------------------------------------------------------------------
(* Properties *)

WorkerState == [pc : WorkerPcs, job : Jobs \cup {NoJob},
                attempts : Nat, max : Nat]

(***************************************************************************)
(* Type correctness.  An idle worker has dropped its copy; a busy one has  *)
(* a job in hand.                                                          *)
(***************************************************************************)
TypeOK ==
    /\ jobs \in [Jobs -> Row]
    /\ dead \subseteq Jobs
    /\ enqueued \subseteq Jobs
    /\ worker \in [Workers -> WorkerState]
    /\ \A w \in Workers : worker[w].pc = "idle" <=> worker[w].job = NoJob
    /\ reaper \in [Reapers -> {"dead", "requeue"}]
    /\ replays \in 0..MaxReplays

(***************************************************************************)
(* No accepted job is ever lost: whatever crashes, failed statements,      *)
(* expired leases, stale workers and replays do, a job that was enqueued   *)
(* has a row in jobs or in dead_letters.  This is about the order of the   *)
(* two statements of MoveToDead and the single-statement moves of          *)
(* ReapExpired and Replay.                                                 *)
(***************************************************************************)
NoLostJob == \A j \in enqueued : InTable(j) \/ j \in dead

(***************************************************************************)
(* While a worker is between the two statements of MoveToDead, its job is  *)
(* in both tables and no other worker is there with the same job: nothing  *)
(* else can remove the row or the dead letter under it.                    *)
(***************************************************************************)
BuryIsExclusive ==
    \A w \in Workers : worker[w].pc = "delete" =>
        /\ InTable(worker[w].job)
        /\ worker[w].job \in dead
        /\ \A v \in Workers \ {w} :
              worker[v].pc = "delete" => worker[v].job # worker[w].job

(***************************************************************************)
(* A job whose lease outlives the work, once in a worker's hands, is in    *)
(* flight under a held lease, its row still has the attempt number and cap *)
(* the worker copied at Claim, and no other worker has it, whatever other  *)
(* jobs overrun.                                                           *)
(***************************************************************************)
LeaseExclusive ==
    \A w \in Workers : worker[w].job \in Leased =>
        LET j == worker[w].job IN
        /\ jobs[j].status = "inflight"
        /\ jobs[j].lease = "held"
        /\ jobs[j].attempts = worker[w].attempts
        /\ jobs[j].max = worker[w].max
        /\ \A v \in Workers \ {w} : worker[v].job # j

(***************************************************************************)
(* The attempt cap, across failures, crashes, reaped leases and replays    *)
(* (which reset the count): a job is run once more than its max_attempts   *)
(* for each time its lease, the attempts used up, ran out between the two  *)
(* statements of ReapExpired, and for no other reason, unless its lease    *)
(* runs out under a handler.                                               *)
(***************************************************************************)
AttemptsWithinMax ==
    \A j \in Leased : InTable(j) =>
        jobs[j].attempts <= jobs[j].max + jobs[j].gaps

(***************************************************************************)
(* A job that was marked done stays done: no late Retry, reaper pass or    *)
(* dead-lettering by another worker revives it, unless its lease runs out  *)
(* under a handler.                                                        *)
(***************************************************************************)
DoneIsFinal ==
    [][\A j \in Leased : jobs[j].status = "done" =>
                           jobs'[j].status = "done"]_vars

(***************************************************************************)
(* Outside the window of MoveToDead a job is in one table only, so that    *)
(* the reaper's INSERT and the operator's Replay never meet a conflict.    *)
(***************************************************************************)
OneTable ==
    \A j \in dead : InTable(j) =>
        \E w \in Workers : worker[w].pc = "delete" /\ Works(w, j)

(***************************************************************************)
(* Every accepted job is resolved: it ends up done or in dead_letters,     *)
(* whatever fails on the way.                                              *)
(***************************************************************************)
EveryJobResolved ==
    \A j \in Jobs :
        j \in enqueued ~> (jobs[j].status = "done" \/ j \in dead)

(***************************************************************************)
(* What Worker.reaper promises: a job whose lease expired does not stay    *)
(* that way; it is requeued or dead-lettered.                              *)
(***************************************************************************)
ExpiredLeaseRecovered == \A j \in Jobs : Expired(j) ~> ~Expired(j)

\* A job's life cycle as its row and its dead letter tell it.
StateOf(j) ==
    IF j \in dead THEN "dead"
    ELSE CASE jobs[j].status = "absent" -> "none"
           [] jobs[j].status = "done" -> "done"
           [] OTHER -> "open"

Beyond(a, b) == IF a > b THEN a - b ELSE 0

LeftOf(j) == IF j \in dead THEN 0 ELSE Beyond(jobs[j].max, jobs[j].attempts)

\* Runs beyond max_attempts that gaps have given and that were not used.
LateOf(j) ==
    IF j \in dead THEN 0
    ELSE Beyond(jobs[j].gaps, Beyond(jobs[j].attempts, jobs[j].max))

(***************************************************************************)
(* The queue implements the life cycle of module JobLifecycle: statements  *)
(* that commit one by one, copies that workers act on after the row has    *)
(* moved, crashes and reaped leases neither bury a job that has a run left *)
(* nor grant it one more, except for each lease that ran out between the   *)
(* two statements of ReapExpired; jobs whose lease runs out under a        *)
(* handler are left out.                                                   *)
(***************************************************************************)
Life == INSTANCE JobLifecycle WITH
          Jobs <- Leased, Granted <- MaxAttempts,
          Regranted <- DefaultMaxAttempts,
          state <- [j \in Leased |-> StateOf(j)],
          left <- [j \in Leased |-> LeftOf(j)],
          late <- [j \in Leased |-> LateOf(j)]

ImplementsLifecycle == Life!Spec

=============================================================================
