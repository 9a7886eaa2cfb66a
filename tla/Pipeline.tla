------------------------------ MODULE Pipeline ------------------------------
(***************************************************************************)
(* The way of an order through the system: the job queue and the trading   *)
(* core put together.  Accepting an order inserts it and its execute_order *)
(* job in one transaction; a worker runs ExecuteOrder only for a job it    *)
(* claimed and still has in hand; a fill inserts the settle job in its own *)
(* transaction; what the handler returns decides what becomes of the job.  *)
(* When an order is delivered twice, and whether the two overlap, is not   *)
(* assumed here but follows from leases, crashes, retries and replays.     *)
(***************************************************************************)
EXTENDS Naturals, Sequences, FiniteSets

CONSTANTS
    Workers, Orders, MaxAttempts, AttemptCap, MaxReplays, InterruptAt, Reapers,
    NoJob, DefaultMaxAttempts, DefaultPriority, MaxGaps,
    Portfolios, Stocks, Cash, Clients, Cancellers, Requests, Keys, NoKey,
    NoRequest, NoOrder, NoPortfolio, NoView, Free, SeedTrade, Prices, Seeds,
    Half, MaxClock,
    MaxFills,    \* bound: settle jobs of one order
    MayOverrun   \* the kinds of jobs whose handler may outlive its lease

VARIABLES
    jobs, dead, enqueued, worker, reaper, replays,
    opened, seqCounter, entries, orders, settleJobs, lock, exec, client,
    conflicts, snapshot, reader, clock

\* A job's type and payload; each settle job of an order has its own uuid.
ExecuteJob(o) == <<"execute_order", o, 1>>
SettleJob(o, n) == <<"settle", o, n>>

Jobs == {ExecuteJob(o) : o \in Orders}
          \cup {SettleJob(o, n) : o \in Orders, n \in 1..MaxFills}

Kind(j) == j[1]
OrderOf(j) == j[2]

Q == INSTANCE JobQueue WITH
       MaxAttempts <- [j \in Jobs |-> MaxAttempts[Kind(j)]],
       Priority <- [j \in Jobs |-> IF Kind(j) = "settle" THEN 0 ELSE 10],
       Delayed <- {j \in Jobs : Kind(j) = "settle"},
       Overruns <- {j \in Jobs : Kind(j) \in MayOverrun}

T == INSTANCE Trading WITH Readers <- {}

ASSUME PipelineAssumption ==
    /\ Q!JobQueueAssumption
    /\ T!TradingAssumption
    /\ MaxFills \in Nat

queue == <<jobs, dead, enqueued, worker, reaper, replays>>
book == <<opened, seqCounter, entries, orders, settleJobs, lock, exec, client,
          conflicts, snapshot, reader, clock>>
vars == <<queue, book>>

Init == Q!Init /\ T!Init

-----------------------------------------------------------------------------
(* The API *)

CreatePortfolio(p, seed) == T!CreatePortfolio(p, seed) /\ UNCHANGED queue

\* One transaction: the order and its job, or neither.
Accept(c, o) == T!PlaceInsert(c, o) /\ Q!Enqueue(ExecuteJob(o))

Ask(c) ==
    /\ \/ \E req \in Requests, key \in Keys \cup {NoKey} :
             T!PlaceLookup(c, req, key)
       \/ T!PlaceConflict(c)
       \/ T!RequestFails(c)
    /\ UNCHANGED queue

Cancel(c) == T!CancelStep(c) /\ UNCHANGED queue

-----------------------------------------------------------------------------
(* The workers *)

\* Worker w has claimed a job of this kind for order o and runs its handler.
Handles(w, kind, o) ==
    /\ worker[w].pc = "dispatch"
    /\ Kind(worker[w].job) = kind
    /\ OrderOf(worker[w].job) = o

Claim(w) == \E j \in Jobs : Q!Claim(w, j) /\ UNCHANGED book

\* handleExecuteOrder, up to the transaction.
StartExecute(w, o) ==
    /\ Handles(w, "execute_order", o)
    /\ \/ T!ExecSkip(w, o)
       \/ T!ExecReadFails(w, o)
       \/ \E quote \in Prices : T!ExecPriced(w, o, quote)
    /\ UNCHANGED queue

\* The steps of ExecuteOrder that do not touch the queue.
Execute(w) ==
    /\ \/ T!ExecReject(w)
       \/ T!ExecBegin(w)
       \/ T!ExecLock(w)
       \/ T!ExecInsufficient(w)
       \/ T!ExecWrite(w)
       \/ T!ExecRefused(w)
    /\ UNCHANGED queue

\* A statement of ExecuteOrder fails.
Abort(w) == T!ExecAbort(w) /\ UNCHANGED queue

\* Fault: the settle job is not enqueued with the fill.
FillForgetsSettle(w, result) == T!ExecFill(w, result) /\ UNCHANGED queue

\* The transaction of the fill commits, with the settle job it enqueued.
Fill(w, result) ==
    LET o == exec[w].order
        earlier == {n \in 1..MaxFills : SettleJob(o, n) \in enqueued}
    IN
    /\ T!ExecFill(w, result)
    /\ Cardinality(earlier) < MaxFills
    /\ Q!Enqueue(SettleJob(o, Cardinality(earlier) + 1))

StartSettle(w, o) ==
    /\ Handles(w, "settle", o)
    /\ T!Settle(w, o)
    /\ UNCHANGED queue

\* handleSettle cannot read or update the order.
SettleFails(w, o) ==
    /\ Handles(w, "settle", o)
    /\ exec[w].pc = "idle"
    /\ Q!DispatchFail(w)
    /\ UNCHANGED book

\* Fault: the handler's error is dropped.
ReturnDropsError(w) == T!ExecReturn(w) /\ Q!DispatchOk(w)

\* The handler returns to Worker.process.
Return(w) ==
    /\ T!ExecReturn(w)
    /\ IF exec[w].pc = "ok" THEN Q!DispatchOk(w) ELSE Q!DispatchFail(w)

\* The statement that ends the job: Complete, Retry or MoveToDead.
Finish(w) ==
    /\ Q!Complete(w) \/ Q!Retry(w) \/ Q!BuryInsert(w) \/ Q!BuryDelete(w)
    /\ UNCHANGED book

\* The process dies, in the handler or after it, or the statement that ends
\* the job fails.
Crash(w) ==
    /\ Q!Interrupt(w)
    /\ IF exec[w].pc = "idle" THEN UNCHANGED book ELSE T!ExecCrash(w)

-----------------------------------------------------------------------------
(* Reapers, operators and time *)

Reap(r) == (Q!ReaperStep(r) \/ Q!ReaperInterrupt(r)) /\ UNCHANGED book

Replay(j) == Q!Replay(j) /\ UNCHANGED book

Pass(j) == Q!TimeStep(j) /\ UNCHANGED book

-----------------------------------------------------------------------------
Handle(w) ==
    \/ \E o \in Orders :
          StartExecute(w, o) \/ StartSettle(w, o) \/ SettleFails(w, o)
    \/ Execute(w)
    \/ \E result \in {"ok", "err"} : Fill(w, result)
    \/ Return(w)

WorkerStep(w) == Claim(w) \/ Handle(w) \/ Finish(w)

Next ==
    \/ \E p \in Portfolios, seed \in Seeds : CreatePortfolio(p, seed)
    \/ \E c \in Clients : Ask(c) \/ \E o \in Orders : Accept(c, o)
    \/ \E c \in Cancellers : Cancel(c)
    \/ \E w \in Workers : WorkerStep(w) \/ Abort(w) \/ Crash(w)
    \/ \E r \in Reapers : Reap(r)
    \/ \E j \in Jobs : Replay(j) \/ Pass(j)

Spec == Init /\ [][Next]_vars

(***************************************************************************)
(* Fairness, as the components have it: workers, reapers and the clock go  *)
(* on, the row lock is granted in the order of arrival, an API request is  *)
(* cut off in the end.  Handlers and statements may fail, and processes    *)
(* die, at any time.                                                       *)
(***************************************************************************)
Fairness ==
    /\ \A w \in Workers :
          /\ WF_vars(WorkerStep(w))
          /\ SF_vars(T!ExecLock(w) /\ UNCHANGED queue)
    /\ \A c \in Clients : WF_vars(T!RequestFails(c) /\ UNCHANGED queue)
    /\ \A j \in Jobs :
          /\ WF_vars(Q!BecomeDue(j) /\ UNCHANGED book)
          /\ SF_vars(Q!LeaseExpire(j) /\ UNCHANGED book)
    /\ \A r \in Reapers :
          /\ WF_vars(Q!ReapDead(r) /\ UNCHANGED book)
          /\ SF_vars(Q!ReapRequeue(r) /\ UNCHANGED book)

FairSpec == Spec /\ Fairness

-----------------------------------------------------------------------------
(* Properties *)

(***************************************************************************)
(* An order is filled at most once, whatever crashes, lost                 *)
(* acknowledgements, retries, reaped leases, replays and cancels do, as    *)
(* long as no lease runs out under a running ExecuteOrder.                 *)
(***************************************************************************)
FilledAtMostOnce == T!FilledAtMostOnce

(***************************************************************************)
(* The order's status and the ledger agree: an order with a trade reads    *)
(* filled or settled, never pending or rejected (or cancelled, when its    *)
(* client cancelled it while it was being executed).                       *)
(***************************************************************************)
TradedReadsFilled ==
    \A o \in Orders : T!Traded(o) =>
        orders[o].status \in {"filled", "settled", "cancelled"}

\* The job of an accepted order is still to be run, or is a dead letter.
Pending(j) == jobs[j].status \in {"queued", "inflight"} \/ j \in dead

(***************************************************************************)
(* No order is stranded: a pending order's execute_order job, and a filled *)
(* order's settle job, is queued, in flight or among the dead letters.     *)
(* Order and job are inserted together, and a job is completed only when   *)
(* its handler has moved the order on.                                     *)
(***************************************************************************)
NoStrandedOrder ==
    \A o \in Orders :
        /\ orders[o].status = "pending" => Pending(ExecuteJob(o))
        /\ orders[o].status = "filled" =>
              \E n \in 1..MaxFills : Pending(SettleJob(o, n))

(***************************************************************************)
(* A redelivered order keeps its verdict: unless the client cancels, a     *)
(* filled or rejected order changes only from filled to settled.           *)
(***************************************************************************)
VerdictStands ==
    [][\A o \in Orders :
          \/ orders[o].status \in {"none", "pending", "cancelled"}
          \/ orders'[o].status \in {orders[o].status, "cancelled"}
          \/ orders[o].status = "filled" /\ orders'[o].status = "settled"]_vars

(***************************************************************************)
(* The derived balances behave as the abstract account of module Ledger    *)
(* also with costs beyond the machine word.                                *)
(***************************************************************************)
ImplementsLedger == T!ImplementsLedger

(***************************************************************************)
(* Every accepted order is decided in the end (filled, rejected or         *)
(* cancelled), or its job is among the dead letters for an operator to     *)
(* replay; no lock, lease or crash leaves it waiting for ever.             *)
(***************************************************************************)
EveryOrderDecided ==
    \A o \in Orders :
        orders[o].status = "pending" ~>
            orders[o].status # "pending" \/ ExecuteJob(o) \in dead

(***************************************************************************)
(* Every fill is settled in the end, or its settle job is a dead letter.   *)
(***************************************************************************)
EveryFillSettled ==
    \A o \in Orders :
        orders[o].status = "filled" ~>
            \/ orders[o].status # "filled"
            \/ \E n \in 1..MaxFills : SettleJob(o, n) \in dead

=============================================================================
