--------------------------- MODULE PipelineProofs ---------------------------
(***************************************************************************)
(* Proofs about Pipeline: for any number of orders, portfolios, clients,   *)
(* workers and reapers, wherever handlers fail and processes die.  That    *)
(* the composition runs the queue and the trading core as their modules    *)
(* specify them makes the theorems about each available here.              *)
(***************************************************************************)
EXTENDS Pipeline, FiniteSetTheorems, TLAPS

\* The proofs about the components, for the instances Pipeline is made of.
QP == INSTANCE JobQueueProofs WITH
        MaxAttempts <- [j \in Jobs |-> MaxAttempts[Kind(j)]],
        Priority <- [j \in Jobs |-> IF Kind(j) = "settle" THEN 0 ELSE 10],
        Delayed <- {j \in Jobs : Kind(j) = "settle"},
        Overruns <- {j \in Jobs : Kind(j) \in MayOverrun}

TP == INSTANCE TradingProofs WITH Readers <- {}

(***************************************************************************)
(* Q and QP, and T and TP, are instances of the same module with the same  *)
(* parameters: a behaviour of the one is a behaviour of the other.         *)
(***************************************************************************)
LEMMA SameBook == T!Spec <=> TP!Spec
BY DEF T!Spec, TP!Spec,
       T!Assets, TP!Assets, T!MachineInt, TP!MachineInt, T!Amounts,
       TP!Amounts, T!vars, TP!vars, T!Wrap, TP!Wrap, T!Contribution,
       TP!Contribution, T!Net, TP!Net, T!Holdings, TP!Holdings, T!Fits,
       TP!Fits, T!NoRow, TP!NoRow, T!InTx, TP!InTx, T!OrderRowFree,
       TP!OrderRowFree, T!Placed, TP!Placed, T!SetStatus, TP!SetStatus,
       T!IdleExec, TP!IdleExec, T!IdleClient, TP!IdleClient, T!IdleReader,
       TP!IdleReader, T!ReaderReturns, TP!ReaderReturns, T!ClientReturns,
       TP!ClientReturns, T!Init, TP!Init, T!Tick, TP!Tick, T!SeedEntry,
       TP!SeedEntry, T!CreatePortfolio, TP!CreatePortfolio, T!Valid, TP!Valid,
       T!KeyTaken, TP!KeyTaken, T!clientUnchanged, TP!clientUnchanged,
       T!PlaceLookup, TP!PlaceLookup, T!PlaceInsert, TP!PlaceInsert,
       T!PlaceConflict, TP!PlaceConflict, T!CancelGet, TP!CancelGet,
       T!CancelSet, TP!CancelSet, T!RequestFails, TP!RequestFails,
       T!execUnchanged, TP!execUnchanged, T!Delivered, TP!Delivered,
       T!ExecGoto, TP!ExecGoto, T!Start, TP!Start, T!Unlocked, TP!Unlocked,
       T!ExecSkip, TP!ExecSkip, T!ExecReadFails, TP!ExecReadFails,
       T!Marketable, TP!Marketable, T!ExecPriced, TP!ExecPriced, T!ExecReject,
       TP!ExecReject, T!ExecBegin, TP!ExecBegin, T!ExecLock, TP!ExecLock,
       T!Cost, TP!Cost, T!Insufficient, TP!Insufficient, T!Leg, TP!Leg,
       T!StockDir, TP!StockDir, T!Legs, TP!Legs, T!SignedValue,
       TP!SignedValue, T!LegsAccepted, TP!LegsAccepted, T!ExecInsufficient,
       TP!ExecInsufficient, T!ExecWrite, TP!ExecWrite, T!ExecFill,
       TP!ExecFill, T!ExecRefused, TP!ExecRefused, T!ExecAbort, TP!ExecAbort,
       T!ExecReturn, TP!ExecReturn, T!ExecCrash, TP!ExecCrash, T!Settle,
       TP!Settle, T!ReadHoldings, TP!ReadHoldings, T!ReadStore, TP!ReadStore,
       T!ReadFails, TP!ReadFails, T!SnapshotExpires, TP!SnapshotExpires,
       T!PlaceStep, TP!PlaceStep, T!CancelStep, TP!CancelStep, T!StartStep,
       TP!StartStep, T!ExecStep, TP!ExecStep, T!ReadStep, TP!ReadStep, T!Next,
       TP!Next

\* The same for the queue.
LEMMA SameQueue == Q!Spec <=> QP!Spec
BY DEF Q!Spec, QP!Spec,
       Q!WorkerPcs, QP!WorkerPcs, Q!Leased, QP!Leased, Q!vars, QP!vars,
       Q!AbsentRow, QP!AbsentRow, Q!NewRow, QP!NewRow, Q!InTable, QP!InTable,
       Q!Expired, QP!Expired, Q!Exhausted, QP!Exhausted, Q!DeadOnExpiry,
       QP!DeadOnExpiry, Q!RequeuedOnExpiry, QP!RequeuedOnExpiry, Q!IdleWorker,
       QP!IdleWorker, Q!Works, QP!Works, Q!Goto, QP!Goto, Q!Release,
       QP!Release, Q!Init, QP!Init, Q!Enqueue, QP!Enqueue, Q!BecomeDue,
       QP!BecomeDue, Q!InGap, QP!InGap, Q!LeaseExpire, QP!LeaseExpire, Q!Runnable, QP!Runnable,
       Q!Claim, QP!Claim, Q!DispatchOk, QP!DispatchOk, Q!DispatchFail,
       QP!DispatchFail, Q!Complete, QP!Complete, Q!Retry, QP!Retry,
       Q!BuryInsert, QP!BuryInsert, Q!BuryDelete, QP!BuryDelete, Q!Interrupt,
       QP!Interrupt, Q!ReapDead, QP!ReapDead, Q!ReapRequeue, QP!ReapRequeue,
       Q!ReaperInterrupt, QP!ReaperInterrupt, Q!Replay, QP!Replay,
       Q!WorkerStep, QP!WorkerStep, Q!ReaperStep, QP!ReaperStep, Q!TimeStep,
       QP!TimeStep, Q!Next, QP!Next

\* The assumptions of the components, for these instances.
LEMMA BookAssumption == TP!TradingAssumption
BY PipelineAssumption DEF T!Assets, TP!Assets, T!MachineInt, TP!MachineInt, T!Amounts,
   TP!Amounts

\* The same for the queue.
LEMMA QueueAssumption == QP!JobQueueAssumption
BY PipelineAssumption DEF Q!WorkerPcs, QP!WorkerPcs

(***************************************************************************)
(* Every step of the pipeline is, for the trading core, a step of its own  *)
(* or none.                                                                *)
(***************************************************************************)
LEMMA BookStep == [Next]_vars => [T!Next]_(T!vars)
<1> SUFFICES ASSUME [Next]_vars PROVE T!Next \/ UNCHANGED T!vars
  OBVIOUS
<1>1. ASSUME UNCHANGED book PROVE UNCHANGED T!vars
  BY <1>1 DEF book, T!vars
<1>2. ASSUME NEW p \in Portfolios, NEW seed \in Seeds, CreatePortfolio(p, seed) PROVE T!Next
  BY <1>2 DEF CreatePortfolio, T!Next
<1>3. ASSUME NEW c \in Clients, Ask(c) \/ \E o \in Orders : Accept(c, o) PROVE T!Next
  BY <1>3 DEF Ask, Accept, T!Next, T!PlaceStep
<1>4. ASSUME NEW c \in Cancellers, Cancel(c) PROVE T!Next
  BY <1>4 DEF Cancel, T!Next
<1>5. ASSUME NEW w \in Workers, Handle(w) \/ Abort(w)
      PROVE  T!Next \/ UNCHANGED T!vars
  <2>1. CASE \E o \in Orders : StartExecute(w, o) \/ StartSettle(w, o)
    BY <2>1 DEF StartExecute, StartSettle, T!Next, T!StartStep
  <2>2. CASE \E o \in Orders : SettleFails(w, o)
    BY <2>2, <1>1 DEF SettleFails
  <2>3. CASE Execute(w)
    BY <2>3 DEF Execute, T!Next, T!ExecStep
  <2>4. CASE \E result \in {"ok", "err"} : Fill(w, result)
    BY <2>4 DEF Fill, T!Next, T!ExecStep
  <2>5. CASE Return(w)
    BY <2>5 DEF Return, T!Next, T!ExecStep
  <2>6. CASE Abort(w)
    BY <2>6 DEF Abort, T!Next
  <2> QED
    BY <1>5, <2>1, <2>2, <2>3, <2>4, <2>5, <2>6 DEF Handle
<1>6. ASSUME NEW w \in Workers, Crash(w) PROVE T!Next \/ UNCHANGED T!vars
  BY <1>6, <1>1 DEF Crash, T!Next
<1>7. ASSUME \/ \E w \in Workers : Claim(w) \/ Finish(w)
             \/ \E r \in Reapers : Reap(r)
             \/ \E j \in Jobs : Replay(j) \/ Pass(j)
             \/ UNCHANGED vars
      PROVE  UNCHANGED T!vars
  BY <1>7, <1>1 DEF Claim, Finish, Reap, Replay, Pass, vars
<1> QED
  BY <1>2, <1>3, <1>4, <1>5, <1>6, <1>7 DEF Next, WorkerStep

(***************************************************************************)
(* The pipeline runs the trading core: what Trading promises of arbitrary  *)
(* deliveries holds of the deliveries the queue makes.                     *)
(***************************************************************************)
THEOREM PipelineRunsTrading == Spec => T!Spec
<1>1. Init => T!Init
  BY DEF Init
<1> QED
  BY <1>1, BookStep, PTL DEF Spec, T!Spec

\* So the tables and the local state of the handlers are well typed.
LEMMA BookTyped == Spec => []T!TypeOK
<1>1. T!TypeOK <=> TP!TypeOK
  BY DEF T!TypeOK, TP!TypeOK, T!Placed, TP!Placed, T!Valid, TP!Valid, T!Entry, TP!Entry,
         T!OrderRow, TP!OrderRow, T!View, TP!View, T!ExecState, TP!ExecState,
         T!ClientState, TP!ClientState, T!ReaderState, TP!ReaderState, T!InTx, TP!InTx,
         T!Assets, TP!Assets, T!MachineInt, TP!MachineInt, T!Amounts, TP!Amounts
<1>2. TP!Spec => []TP!TypeOK
  BY BookAssumption, TP!TypeCorrect, PTL
<1> QED
  BY <1>1, <1>2, PipelineRunsTrading, SameBook, PTL

\* The settle job a fill enqueues is one of the jobs.
LEMMA NextSettleJob ==
    ASSUME NEW o \in Orders, NEW A \in SUBSET (1..MaxFills), Cardinality(A) < MaxFills
    PROVE  /\ SettleJob(o, Cardinality(A) + 1) \in Jobs
           /\ Cardinality(A) + 1 \in 1..MaxFills
<1>1. MaxFills \in Nat
  BY PipelineAssumption
<1>2. IsFiniteSet(A)
  <2>1. 1 \in Int /\ MaxFills \in Int
    BY <1>1
  <2>2. IsFiniteSet(1..MaxFills)
    BY <2>1, FS_Interval
  <2>3. A \subseteq 1..MaxFills
    OBVIOUS
  <2> QED
    BY <2>2, <2>3, FS_Subset
<1>3. Cardinality(A) \in Nat
  BY <1>2, FS_CardinalityType
<1>4. Cardinality(A) + 1 \in 1..MaxFills
  BY <1>1, <1>3
<1> QED
  BY <1>4 DEF Jobs

(***************************************************************************)
(* Every step of the pipeline is, for the queue, a step of its own or none.*)
(***************************************************************************)
LEMMA QueueStep == T!TypeOK /\ [Next]_vars => [Q!Next]_(Q!vars)
<1> SUFFICES ASSUME T!TypeOK, [Next]_vars PROVE Q!Next \/ UNCHANGED Q!vars
  OBVIOUS
<1>1. ASSUME UNCHANGED queue PROVE UNCHANGED Q!vars
  BY <1>1 DEF queue, Q!vars
<1>2. ASSUME NEW j \in Jobs, Q!Enqueue(j) PROVE Q!Next
  BY <1>2 DEF Q!Next
<1>3. ASSUME NEW w \in Workers, \/ Q!DispatchOk(w) \/ Q!DispatchFail(w) \/ Q!Complete(w)
                                \/ Q!Retry(w) \/ Q!BuryInsert(w) \/ Q!BuryDelete(w)
                                \/ \E j \in Jobs : Q!Claim(w, j)
      PROVE  Q!Next
  BY <1>3 DEF Q!Next, Q!WorkerStep
<1>4. ASSUME NEW c \in Clients, NEW o \in Orders, Accept(c, o) PROVE Q!Next
  <2>1. ExecuteJob(o) \in Jobs
    BY DEF Jobs
  <2> QED
    BY <1>4, <1>2, <2>1 DEF Accept
<1>5. ASSUME NEW w \in Workers, NEW result \in {"ok", "err"}, Fill(w, result) PROVE Q!Next
  <2> DEFINE A == {n \in 1..MaxFills : SettleJob(exec[w].order, n) \in enqueued}
  <2>1. exec[w].order \in Orders
    BY <1>5 DEF Fill, T!ExecFill, T!TypeOK
  <2>2. SettleJob(exec[w].order, Cardinality(A) + 1) \in Jobs
    BY <1>5, <2>1, NextSettleJob DEF Fill
  <2> QED
    BY <1>5, <1>2, <2>2 DEF Fill
<1>6. ASSUME NEW w \in Workers, Return(w) PROVE Q!Next
  BY <1>6, <1>3 DEF Return
<1>7. ASSUME NEW w \in Workers, NEW o \in Orders, SettleFails(w, o) PROVE Q!Next
  BY <1>7, <1>3 DEF SettleFails
<1>8. ASSUME NEW w \in Workers, Claim(w) \/ Finish(w) PROVE Q!Next
  BY <1>8, <1>3 DEF Claim, Finish
<1>9. ASSUME NEW w \in Workers, Crash(w) PROVE Q!Next
  BY <1>9 DEF Crash, Q!Next
<1>10. ASSUME NEW w \in Workers,
              \/ \E o \in Orders : StartExecute(w, o) \/ StartSettle(w, o)
              \/ Execute(w) \/ Abort(w)
       PROVE  UNCHANGED Q!vars
  BY <1>10, <1>1 DEF StartExecute, StartSettle, Execute, Abort
<1>11. ASSUME \/ \E r \in Reapers : Reap(r)
              \/ \E j \in Jobs : Replay(j) \/ Pass(j)
       PROVE  Q!Next
  BY <1>11 DEF Reap, Replay, Pass, Q!Next
<1>12. ASSUME \/ \E p \in Portfolios, seed \in Seeds : CreatePortfolio(p, seed)
              \/ \E c \in Clients : Ask(c)
              \/ \E c \in Cancellers : Cancel(c)
              \/ UNCHANGED vars
       PROVE  UNCHANGED Q!vars
  BY <1>12, <1>1 DEF CreatePortfolio, Ask, Cancel, vars
<1> QED
  BY <1>4, <1>5, <1>6, <1>7, <1>8, <1>9, <1>10, <1>11, <1>12 DEF Next, WorkerStep, Handle

(***************************************************************************)
(* The pipeline runs the job queue.                                        *)
(***************************************************************************)
THEOREM PipelineRunsQueue == Spec => Q!Spec
<1>1. Init => Q!Init
  BY DEF Init
<1> QED
  BY <1>1, BookTyped, QueueStep, PTL DEF Spec, Q!Spec

(***************************************************************************)
(* What the queue guarantees, in the pipeline: its state is well typed,    *)
(* jobs in a worker's hands are enqueued, and a job whose lease outlives   *)
(* the work is in one worker's hands only.                                 *)
(***************************************************************************)
InHand == \A w \in Workers : worker[w].pc # "idle" => worker[w].job \in enqueued

\* These follow from the theorems about the queue.
LEMMA QueueInvariants ==
    Spec => [](Q!TypeOK /\ Q!NoLostJob /\ InHand /\ Q!LeaseExclusive)
<1>1. QP!Safekeeping => Q!TypeOK /\ Q!NoLostJob /\ InHand
  BY DEF QP!Safekeeping, QP!OnlyEnqueued, InHand, Q!NoLostJob, QP!NoLostJob, Q!InTable,
         QP!InTable, Q!TypeOK, QP!TypeOK, Q!Row, QP!Row, Q!WorkerState, QP!WorkerState,
         Q!WorkerPcs, QP!WorkerPcs
<1>2. QP!LeaseExclusive => Q!LeaseExclusive
  BY DEF QP!LeaseExclusive, Q!LeaseExclusive, QP!Leased, Q!Leased
<1>3. QP!Spec => []QP!Safekeeping
  BY QueueAssumption, QP!SafekeepingInvariant, PTL
<1>4. QP!Spec => []QP!LeaseExclusive
  BY QueueAssumption, QP!LeaseIsExclusive, PTL
<1> QED
  BY <1>1, <1>2, <1>3, <1>4, PipelineRunsQueue, SameQueue, PTL

-----------------------------------------------------------------------------
(* Deliveries.                                                             *)

\* ExecuteOrder has read the order and not yet decided it.
Active == {"reject", "begin", "lock", "write", "commit"}

(***************************************************************************)
(* A worker runs a handler only for the job it has in hand: ExecuteOrder   *)
(* for the order of its execute_order job.                                 *)
(***************************************************************************)
DeliveryOf(w) ==
    exec[w].pc # "idle" =>
        /\ worker[w].pc = "dispatch"
        /\ OrderOf(worker[w].job) = exec[w].order
        /\ exec[w].pc \in Active => Kind(worker[w].job) = "execute_order"

Deliveries == \A w \in Workers : DeliveryOf(w)

\* What a step does to the call of worker w: starts, goes on with or ends it.
LEMMA StartMoves ==
    ASSUME T!TypeOK, NEW w \in Workers, NEW o, NEW pc, NEW price, T!Start(w, o, pc, price)
    PROVE  /\ exec'[w].pc = pc /\ exec'[w].order = o
           /\ \A v \in Workers : v # w => exec'[v] = exec[v]
BY DEF T!Start, T!IdleExec, T!TypeOK

\* A step inside ExecuteOrder, with its order and with the other workers' calls.
ExecMoves(w) ==
    /\ exec[w].pc \in Active
    /\ exec'[w].pc \in Active \cup {"ok", "err"}
    /\ exec'[w].order = exec[w].order
    /\ \A v \in Workers : v # w => exec'[v] = exec[v]

\* The steps of ExecuteOrder are such steps.
LEMMA ExecuteMoves ==
    ASSUME T!TypeOK, NEW w \in Workers,
           \/ Execute(w) \/ Abort(w)
           \/ \E result \in {"ok", "err"} : Fill(w, result)
    PROVE  ExecMoves(w)
<1>a. exec \in [Workers -> T!ExecState] /\ exec[w] \in T!ExecState
  BY DEF T!TypeOK
<1>1. ASSUME NEW pc \in Active \cup {"ok", "err"}, exec[w].pc \in Active, T!ExecGoto(w, pc)
      PROVE  ExecMoves(w)
  BY <1>1, <1>a DEF T!ExecGoto, ExecMoves, T!ExecState
<1>2. CASE T!ExecReject(w) \/ T!ExecInsufficient(w)
  BY <1>1, <1>2 DEF T!ExecReject, T!ExecInsufficient, Active
<1>3. CASE T!ExecWrite(w) \/ T!ExecRefused(w) \/ T!ExecAbort(w)
  BY <1>1, <1>3 DEF T!ExecWrite, T!ExecRefused, T!ExecAbort, Active
<1>4. CASE \E result \in {"ok", "err"} : T!ExecFill(w, result)
  BY <1>1, <1>4 DEF T!ExecFill, Active
<1>5. CASE T!ExecBegin(w)
  <2>1. /\ exec[w].pc = "begin"
        /\ exec' = [exec EXCEPT ![w] = [@ EXCEPT !.pc = "lock", !.at = clock]]
    BY <1>5 DEF T!ExecBegin
  <2> QED
    BY <2>1, <1>a DEF ExecMoves, Active, T!ExecState
<1>6. CASE T!ExecLock(w)
  <2> DEFINE p == orders[exec[w].order].req.portfolio
             pc == IF T!Fits(T!Holdings(p)) THEN "write" ELSE "err"
  <2>1. /\ exec[w].pc = "lock"
        /\ exec' = [exec EXCEPT ![w] = [@ EXCEPT !.pc = pc, !.seq = seqCounter[p],
                                                 !.hold = T!Holdings(p)]]
    BY <1>6 DEF T!ExecLock
  <2>2. pc \in {"write", "err"}
    OBVIOUS
  <2> HIDE DEF p, pc
  <2> QED
    BY <2>1, <2>2, <1>a DEF ExecMoves, Active, T!ExecState
<1> QED
  BY <1>2, <1>3, <1>4, <1>5, <1>6 DEF Execute, Abort, Fill

\* A step of worker w in the queue does not touch what others have in hand.
Others(w) == \A v \in Workers : v # w => worker'[v] = worker[v]

\* So are all the steps a worker takes in the queue.
LEMMA QueueMoves ==
    ASSUME Q!TypeOK, NEW w \in Workers,
           \/ Claim(w) \/ Finish(w) \/ Crash(w) \/ Return(w)
           \/ \E o \in Orders : SettleFails(w, o)
    PROVE  Others(w)
<1>1. CASE Claim(w)
  BY <1>1 DEF Claim, Q!Claim, Others, Q!TypeOK
<1>2. CASE Q!DispatchOk(w) \/ Q!DispatchFail(w)
  BY <1>2 DEF Q!DispatchOk, Q!DispatchFail, Q!Goto, Others, Q!TypeOK
<1>3. CASE Q!Complete(w) \/ Q!Retry(w) \/ Q!BuryDelete(w) \/ Q!Interrupt(w)
  BY <1>3 DEF Q!Complete, Q!Retry, Q!BuryDelete, Q!Interrupt, Q!Release, Others, Q!TypeOK
<1>4. CASE Q!BuryInsert(w)
  BY <1>4 DEF Q!BuryInsert, Q!Goto, Q!Release, Others, Q!TypeOK
<1> QED
  BY <1>1, <1>2, <1>3, <1>4 DEF Finish, Crash, Return, SettleFails

(***************************************************************************)
(* Deliveries is kept: a job is claimed by a worker without one, and ended *)
(* only after its handler has returned or died.                            *)
(***************************************************************************)
LEMMA DeliveriesInductive ==
    T!TypeOK /\ Q!TypeOK /\ Deliveries /\ [Next]_vars => Deliveries'
<1> SUFFICES ASSUME T!TypeOK, Q!TypeOK, Deliveries, [Next]_vars PROVE Deliveries'
  OBVIOUS
<1>a. ASSUME NEW w \in Workers, \A v \in Workers : v # w => exec'[v] = exec[v], Others(w),
             DeliveryOf(w)'
      PROVE  Deliveries'
  BY <1>a DEF Deliveries, DeliveryOf, Others
<1>1. ASSUME UNCHANGED <<exec, worker>> PROVE Deliveries'
  BY <1>1 DEF Deliveries, DeliveryOf
<1>2. ASSUME NEW w \in Workers, NEW o \in Orders, StartExecute(w, o) \/ StartSettle(w, o)
      PROVE  Deliveries'
  <2>1. worker' = worker
    BY <1>2 DEF StartExecute, StartSettle, queue
  <2>2. CASE StartExecute(w, o)
    <3>1. PICK pc, price : T!Start(w, o, pc, price)
      BY <2>2 DEF StartExecute, T!ExecSkip, T!ExecReadFails, T!ExecPriced
    <3>2. Handles(w, "execute_order", o)
      BY <2>2 DEF StartExecute
    <3> QED
      BY <1>a, <2>1, <3>1, <3>2, StartMoves DEF Handles, DeliveryOf, Others
  <2>3. CASE StartSettle(w, o)
    <3>1. T!Start(w, o, "ok", 0)
      BY <2>3 DEF StartSettle, T!Settle
    <3>2. Handles(w, "settle", o)
      BY <2>3 DEF StartSettle
    <3> QED
      BY <1>a, <2>1, <3>1, <3>2, StartMoves DEF Handles, DeliveryOf, Others, Active
  <2> QED
    BY <1>2, <2>2, <2>3
<1>3. ASSUME NEW w \in Workers,
             \/ Execute(w) \/ Abort(w)
             \/ \E result \in {"ok", "err"} : Fill(w, result)
      PROVE  Deliveries'
  <2>1. ExecMoves(w)
    BY <1>3, ExecuteMoves
  <2>2. worker' = worker
    BY <1>3 DEF Execute, Abort, Fill, queue, Q!Enqueue
  <2>3. DeliveryOf(w)
    BY DEF Deliveries
  <2> QED
    BY <1>a, <2>1, <2>2, <2>3 DEF ExecMoves, DeliveryOf, Others, Active
<1>4. ASSUME NEW w \in Workers, Return(w) \/ Crash(w) PROVE Deliveries'
  <2>1. Others(w)
    BY <1>4, QueueMoves
  <2>2. \/ exec' = exec /\ exec[w].pc = "idle"
        \/ exec' = [exec EXCEPT ![w] = T!IdleExec]
    BY <1>4 DEF Return, Crash, book, T!ExecReturn, T!ExecCrash
  <2>3. exec'[w].pc = "idle" /\ \A v \in Workers : v # w => exec'[v] = exec[v]
    BY <2>2 DEF T!TypeOK, T!IdleExec
  <2> QED
    BY <1>a, <2>1, <2>3 DEF DeliveryOf
<1>5. ASSUME NEW w \in Workers,
             Claim(w) \/ Finish(w) \/ \E o \in Orders : SettleFails(w, o)
      PROVE  Deliveries'
  <2>1. Others(w)
    BY <1>5, QueueMoves
  <2>2. exec' = exec
    BY <1>5 DEF Claim, Finish, SettleFails, book
  <2>3. exec[w].pc = "idle"
    <3>1. CASE Claim(w)
      BY <3>1 DEF Claim, Q!Claim, Deliveries, DeliveryOf
    <3>2. CASE Finish(w)
      BY <3>2 DEF Finish, Q!Complete, Q!Retry, Q!BuryInsert, Q!BuryDelete, Deliveries,
                  DeliveryOf
    <3> QED
      BY <1>5, <3>1, <3>2 DEF SettleFails
  <2> QED
    BY <1>a, <2>1, <2>2, <2>3 DEF DeliveryOf
<1>6. ASSUME \/ \E p \in Portfolios, seed \in Seeds : CreatePortfolio(p, seed)
             \/ \E c \in Clients : Ask(c) \/ \E o \in Orders : Accept(c, o)
             \/ \E c \in Cancellers : Cancel(c)
      PROVE  UNCHANGED <<exec, worker>>
  BY <1>6 DEF CreatePortfolio, Ask, Accept, Cancel, queue, Q!Enqueue, T!CreatePortfolio,
              T!PlaceLookup, T!PlaceInsert, T!PlaceConflict, T!RequestFails, T!CancelStep,
              T!CancelGet, T!CancelSet, T!clientUnchanged
<1>7. ASSUME \/ \E r \in Reapers : Reap(r)
             \/ \E j \in Jobs : Replay(j) \/ Pass(j)
             \/ UNCHANGED vars
      PROVE  UNCHANGED <<exec, worker>>
  BY <1>7 DEF Reap, Replay, Pass, vars, book, queue, Q!ReaperStep, Q!ReapDead, Q!ReapRequeue,
              Q!ReaperInterrupt, Q!Replay, Q!TimeStep, Q!BecomeDue, Q!LeaseExpire
<1> QED
  BY <1>1, <1>2, <1>3, <1>4, <1>5, <1>6, <1>7 DEF Next, WorkerStep, Handle

-----------------------------------------------------------------------------
(* Verdicts.                                                               *)

(***************************************************************************)
(* The inductive invariant: an order in the hands of ExecuteOrder has no   *)
(* trade yet and was not decided by anyone but its own client.             *)
(***************************************************************************)
Undecided(w) ==
    exec[w].pc \in Active =>
        /\ ~T!Traded(exec[w].order)
        /\ orders[exec[w].order].status \in {"pending", "cancelled"}

Verdicts ==
    /\ \A w \in Workers : Undecided(w)
    /\ TradedReadsFilled
    /\ FilledAtMostOnce

(***************************************************************************)
(* Two workers never execute the same order, when the lease of its job     *)
(* outlives the work: they would have the same job in hand.                *)
(***************************************************************************)
LEMMA OneDelivery ==
    ASSUME "execute_order" \notin MayOverrun, Q!TypeOK, Q!LeaseExclusive, Deliveries,
           NEW v \in Workers, NEW w \in Workers,
           exec[v].pc \in Active, exec[w].pc \in Active, exec[v].order = exec[w].order
    PROVE  v = w
<1>1. ASSUME NEW u \in Workers, exec[u].pc \in Active
      PROVE  /\ worker[u].job = ExecuteJob(exec[u].order)
             /\ worker[u].job \in Q!Leased
  <2>1. /\ worker[u].pc = "dispatch" /\ OrderOf(worker[u].job) = exec[u].order
        /\ Kind(worker[u].job) = "execute_order"
    BY <1>1 DEF Deliveries, DeliveryOf, Active
  <2>2. worker[u].job \in Jobs
    BY <2>1 DEF Q!TypeOK, Q!WorkerState
  <2>3. worker[u].job = ExecuteJob(exec[u].order)
    BY <2>1, <2>2 DEF Jobs, Kind, OrderOf, ExecuteJob, SettleJob
  <2> QED
    BY <2>1, <2>2, <2>3 DEF Q!Leased
<1> QED
  BY <1>1 DEF Q!LeaseExclusive

\* Traded and FilledAtMostOnce depend on the entries only.
LEMMA SameTrades ==
    ASSUME entries' = entries
    PROVE  /\ \A o : T!Traded(o)' <=> T!Traded(o)
           /\ FilledAtMostOnce' <=> FilledAtMostOnce
BY DEF T!Traded, T!StockLegOf, FilledAtMostOnce, T!FilledAtMostOnce

\* A call that goes on is the call it was.
CallsKept == \A w \in Workers : exec'[w].pc \in Active =>
                exec[w].pc \in Active /\ exec'[w].order = exec[w].order

\* A step that leaves the orders and the ledger alone and starts no call.
LEMMA QuietKeeps ==
    ASSUME T!TypeOK, Verdicts, entries' = entries, orders' = orders, CallsKept
    PROVE  Verdicts'
<1>1. (\A w \in Workers : Undecided(w))'
  BY SameTrades DEF Verdicts, Undecided, CallsKept
<1>2. TradedReadsFilled'
  BY SameTrades DEF Verdicts, TradedReadsFilled
<1> QED
  BY <1>1, <1>2, SameTrades DEF Verdicts

\* A step that changes the status of one order and leaves the ledger alone.
LEMMA StatusKeeps ==
    ASSUME T!TypeOK, Verdicts, entries' = entries, CallsKept,
           NEW o \in Orders, NEW status, orders'[o].status = status,
           \A q \in Orders : q # o => orders'[q] = orders[q],
           T!Traded(o) => status \in {"filled", "settled", "cancelled"},
           \A w \in Workers : exec'[w].pc \in Active /\ exec[w].order = o =>
                                 status \in {"pending", "cancelled"}
    PROVE  Verdicts'
<1>1. ASSUME NEW w \in Workers PROVE Undecided(w)'
  <2> SUFFICES ASSUME exec'[w].pc \in Active
               PROVE  (/\ ~T!Traded(exec[w].order)
                       /\ orders[exec[w].order].status \in {"pending", "cancelled"})'
    BY DEF Undecided
  <2>1. exec[w].pc \in Active /\ exec'[w].order = exec[w].order
    BY DEF CallsKept
  <2>2. exec[w].order \in Orders
    BY <2>1 DEF T!TypeOK, Active
  <2>3. ~T!Traded(exec[w].order) /\ orders[exec[w].order].status \in {"pending", "cancelled"}
    BY <2>1 DEF Verdicts, Undecided
  <2>4. orders'[exec[w].order].status \in {"pending", "cancelled"}
    BY <2>2, <2>3
  <2>5. (~T!Traded(exec[w].order))'
    BY <2>1, <2>3, SameTrades
  <2> QED
    BY <2>1, <2>4, <2>5
<1>2. TradedReadsFilled'
  BY SameTrades DEF Verdicts, TradedReadsFilled
<1> QED
  BY <1>1, <1>2, SameTrades DEF Verdicts

\* Updating the status of an order leaves the other rows alone.
LEMMA SetStatusMoves ==
    ASSUME T!TypeOK, NEW o \in Orders, NEW status, T!SetStatus(o, status)
    PROVE  /\ orders'[o].status = status
           /\ \A q \in Orders : q # o => orders'[q] = orders[q]
BY DEF T!TypeOK, T!SetStatus, T!OrderRow

\* Creating a portfolio trades nothing.
LEMMA CreateTradesNothing ==
    ASSUME T!TypeOK, NEW p \in Portfolios, NEW seed, T!CreatePortfolio(p, seed)
    PROVE  /\ \A o \in Orders : T!Traded(o)' => T!Traded(o)
           /\ FilledAtMostOnce => FilledAtMostOnce'
<1>1. \A q \in Portfolios : q # p => entries'[q] = entries[q]
  BY DEF T!CreatePortfolio, T!TypeOK
<1>2. ASSUME NEW o \in Orders, NEW k \in 1..Len(entries'[p])
      PROVE  ~(entries'[p][k].trade = o /\ entries'[p][k].inst # Cash)
  <2>1. entries'[p] = <<>> \/ entries'[p] = <<T!SeedEntry(seed)>>
    BY DEF T!CreatePortfolio, T!TypeOK
  <2>2. T!SeedEntry(seed).inst = Cash
    BY DEF T!SeedEntry
  <2> QED
    BY <2>1, <2>2
<1>3. ASSUME NEW o \in Orders PROVE T!Traded(o)' => T!Traded(o)
  BY <1>1, <1>2 DEF T!Traded, T!StockLegOf
<1>4. ASSUME FilledAtMostOnce PROVE FilledAtMostOnce'
  BY <1>1, <1>2, <1>4 DEF FilledAtMostOnce, T!FilledAtMostOnce, T!StockLegOf
<1> QED
  BY <1>3, <1>4

\* Two elements appended to a sequence.
LEMMA AppendTwo ==
    ASSUME NEW S, NEW s \in Seq(S), NEW a, NEW b
    PROVE  /\ Len(s \o <<a, b>>) = Len(s) + 2
           /\ \A k \in 1..Len(s) : (s \o <<a, b>>)[k] = s[k]
           /\ (s \o <<a, b>>)[Len(s) + 1] = a
           /\ (s \o <<a, b>>)[Len(s) + 2] = b
<1>1. s \in Seq(S \cup {a, b}) /\ <<a, b>> \in Seq(S \cup {a, b})
  OBVIOUS
<1> QED
  BY <1>1

(***************************************************************************)
(* Appending the two legs of a trade adds one stock leg, of order o: the   *)
(* others' trades are what they were, and o has one if it had none.        *)
(***************************************************************************)
LEMMA TradeAppended ==
    ASSUME entries \in [Portfolios -> Seq(T!Entry)], NEW p \in Portfolios, NEW o,
           NEW a, NEW b, a.trade = o, b.inst = Cash,
           entries' = [entries EXCEPT ![p] = entries[p] \o <<a, b>>],
           ~T!Traded(o), FilledAtMostOnce
    PROVE  /\ \A x \in Orders : x # o => (T!Traded(x)' => T!Traded(x))
           /\ FilledAtMostOnce'
<1>1. PICK n \in Nat : n = Len(entries[p])
  OBVIOUS
<1>2. entries'[p] = entries[p] \o <<a, b>>
  OBVIOUS
<1>3. /\ Len(entries'[p]) = n + 2
      /\ \A k \in 1..n : entries'[p][k] = entries[p][k]
      /\ entries'[p][n + 1] = a
      /\ entries'[p][n + 2] = b
  <2>1. entries[p] \in Seq(T!Entry)
    OBVIOUS
  <2> QED
    BY <1>1, <1>2, <2>1, AppendTwo
<1>4. \A q \in Portfolios : q # p => entries'[q] = entries[q]
  OBVIOUS
<1>5. ASSUME NEW x \in Orders, NEW q \in Portfolios, NEW k \in 1..Len(entries'[q]),
             entries'[q][k].trade = x, entries'[q][k].inst # Cash
      PROVE  \/ k \in 1..Len(entries[q]) /\ T!StockLegOf(x, q, k)
             \/ q = p /\ k = n + 1 /\ x = o
  <2>1. CASE q # p
    BY <1>4, <1>5, <2>1 DEF T!StockLegOf
  <2>2. CASE q = p
    <3>1. k \in 1..n \/ k = n + 1 \/ k = n + 2
      BY <1>3, <2>2
    <3> QED
      BY <1>1, <1>3, <1>5, <2>2, <3>1 DEF T!StockLegOf
  <2> QED
    BY <2>1, <2>2
<1>6. ASSUME NEW x \in Orders, x # o, T!Traded(x)' PROVE T!Traded(x)
  BY <1>5, <1>6 DEF T!Traded, T!StockLegOf
<1>7. FilledAtMostOnce'
  <2> SUFFICES ASSUME NEW x \in Orders, NEW q \in Portfolios, NEW r \in Portfolios,
                      NEW k \in 1..Len(entries'[q]), NEW l \in 1..Len(entries'[r]),
                      T!StockLegOf(x, q, k)', T!StockLegOf(x, r, l)'
               PROVE  q = r /\ k = l
    BY DEF FilledAtMostOnce, T!FilledAtMostOnce
  <2>1. \/ k \in 1..Len(entries[q]) /\ T!StockLegOf(x, q, k)
        \/ q = p /\ k = n + 1 /\ x = o
    BY <1>5 DEF T!StockLegOf
  <2>2. \/ l \in 1..Len(entries[r]) /\ T!StockLegOf(x, r, l)
        \/ r = p /\ l = n + 1 /\ x = o
    BY <1>5 DEF T!StockLegOf
  <2>3. CASE x = o
    BY <2>1, <2>2, <2>3 DEF T!Traded
  <2>4. CASE x # o
    BY <2>1, <2>2, <2>4 DEF FilledAtMostOnce, T!FilledAtMostOnce
  <2> QED
    BY <2>3, <2>4
<1> QED
  BY <1>6, <1>7

\* A fill is such a trade, of the order that is executed.
LEMMA FillTradesOnce ==
    ASSUME T!TypeOK, NEW w \in Workers, NEW result \in {"ok", "err"},
           T!ExecFill(w, result), NEW o, o = exec[w].order,
           ~T!Traded(o), FilledAtMostOnce
    PROVE  /\ \A x \in Orders : x # o => (T!Traded(x)' => T!Traded(x))
           /\ FilledAtMostOnce'
<1>1. PICK p, a, b : /\ p = orders[o].req.portfolio
                     /\ a = T!Legs(w)[1] /\ b = T!Legs(w)[2]
  OBVIOUS
<1>2. entries' = [entries EXCEPT ![p] = entries[p] \o T!Legs(w)]
  BY <1>1, Zenon DEF T!ExecFill
<1>3. T!Legs(w) = <<a, b>> /\ a.trade = o /\ b.inst = Cash
  BY <1>1 DEF T!Legs, T!Leg
<1>4. entries \in [Portfolios -> Seq(T!Entry)]
  BY DEF T!TypeOK
<1>5. CASE p \in Portfolios
  BY <1>2, <1>3, <1>4, <1>5, TradeAppended
<1>6. CASE p \notin Portfolios
  <2>1. entries' = entries
    BY <1>2, <1>4, <1>6
  <2> QED
    BY <2>1, SameTrades
<1> QED
  BY <1>5, <1>6

\* A verdict that stands, in one step.
Stands(o) ==
    \/ orders[o].status \in {"none", "pending", "cancelled"}
    \/ orders'[o].status \in {orders[o].status, "cancelled"}
    \/ orders[o].status = "filled" /\ orders'[o].status = "settled"

(***************************************************************************)
(* Every step keeps Verdicts, and every verdict stands: an order is        *)
(* decided only by the call that has it in hand, and there is one.         *)
(***************************************************************************)
LEMMA VerdictsStep ==
    ASSUME "execute_order" \notin MayOverrun,
           T!TypeOK, Q!TypeOK, Q!LeaseExclusive, Deliveries, Verdicts, [Next]_vars
    PROVE  Verdicts' /\ \A o \in Orders : Stands(o)
<1> DEFINE Goal == Verdicts' /\ \A o \in Orders : Stands(o)
<1>a. ASSUME NEW o \in Orders, \A q \in Orders : q # o => orders'[q] = orders[q], Stands(o)
      PROVE  \A q \in Orders : Stands(q)
  BY <1>a DEF Stands
<1>b. ASSUME NEW w \in Workers, ExecMoves(w) PROVE CallsKept
  BY <1>b DEF ExecMoves, CallsKept
<1>1. ASSUME entries' = entries, orders' = orders, CallsKept PROVE Goal
  BY <1>1, QuietKeeps DEF Stands
<1>2. ASSUME NEW p \in Portfolios, NEW seed \in Seeds, CreatePortfolio(p, seed) PROVE Goal
  <2>1. T!CreatePortfolio(p, seed) /\ orders' = orders /\ exec' = exec
    BY <1>2 DEF CreatePortfolio, T!CreatePortfolio
  <2>2. \A o \in Orders : T!Traded(o)' => T!Traded(o)
    BY <2>1, CreateTradesNothing
  <2>3. FilledAtMostOnce'
    BY <2>1, CreateTradesNothing DEF Verdicts
  <2>4. TradedReadsFilled'
    BY <2>1, <2>2 DEF Verdicts, TradedReadsFilled
  <2>5. ASSUME NEW w \in Workers PROVE Undecided(w)'
    <3>1. exec[w].pc \in Active => exec[w].order \in Orders
      BY DEF T!TypeOK, Active
    <3> QED
      BY <2>1, <2>2, <3>1 DEF Verdicts, Undecided
  <2> QED
    BY <2>1, <2>3, <2>4, <2>5 DEF Verdicts, Stands
<1>3. ASSUME NEW c \in Clients, NEW o \in Orders, Accept(c, o) PROVE Goal
  <2>1. /\ orders[o].status = "none" /\ orders'[o].status = "pending"
        /\ \A q \in Orders : q # o => orders'[q] = orders[q]
        /\ entries' = entries /\ exec' = exec
    BY <1>3 DEF Accept, T!PlaceInsert, T!Placed, T!TypeOK, T!clientUnchanged
  <2>2. ~T!Traded(o)
    BY <2>1 DEF Verdicts, TradedReadsFilled
  <2>3. Verdicts'
    BY <2>1, <2>2, StatusKeeps DEF CallsKept
  <2> QED
    BY <1>a, <2>1, <2>3 DEF Stands
<1>4. ASSUME NEW c \in Cancellers, T!CancelSet(c) PROVE Goal
  <2>1. c \in Clients
    BY PipelineAssumption
  <2>2. PICK o \in Orders : T!SetStatus(o, "cancelled")
    BY <1>4, <2>1 DEF T!CancelSet, T!TypeOK
  <2>3. entries' = entries /\ exec' = exec
    BY <1>4 DEF T!CancelSet, T!clientUnchanged
  <2>4. /\ orders'[o].status = "cancelled"
        /\ \A q \in Orders : q # o => orders'[q] = orders[q]
    BY <2>2, SetStatusMoves
  <2>5. Verdicts'
    BY <2>3, <2>4, StatusKeeps DEF CallsKept
  <2> QED
    BY <1>a, <2>4, <2>5 DEF Stands
<1>5. ASSUME NEW w \in Workers, NEW o \in Orders, StartExecute(w, o) PROVE Goal
  <2>1. PICK pc, price : T!Start(w, o, pc, price)
    BY <1>5 DEF StartExecute, T!ExecSkip, T!ExecReadFails, T!ExecPriced
  <2>2. /\ exec'[w].pc = pc /\ exec'[w].order = o
        /\ \A v \in Workers : v # w => exec'[v] = exec[v]
    BY <2>1, StartMoves
  <2>3. entries' = entries /\ orders' = orders
    BY <1>5 DEF StartExecute, T!ExecSkip, T!ExecReadFails, T!ExecPriced
  <2>4. CASE pc \notin Active
    BY <1>1, <2>2, <2>3, <2>4 DEF CallsKept
  <2>5. CASE pc \in Active
    <3>1. orders[o].status = "pending"
      <4>1. ASSUME NEW z, T!Start(w, o, z, 0), z \notin Active PROVE FALSE
        BY <2>2, <2>5, <4>1, StartMoves
      <4> QED
        BY <1>5, <4>1 DEF StartExecute, T!ExecSkip, T!ExecReadFails, T!ExecPriced, Active
    <3>2. ~T!Traded(o)
      BY <3>1 DEF Verdicts, TradedReadsFilled
    <3>3. Undecided(w)'
      BY <2>2, <2>3, <3>1, <3>2, SameTrades DEF Undecided
    <3>4. ASSUME NEW v \in Workers, v # w PROVE Undecided(v)'
      BY <2>2, <2>3, <3>4, SameTrades DEF Verdicts, Undecided
    <3>5. TradedReadsFilled' /\ FilledAtMostOnce'
      BY <2>3, SameTrades DEF Verdicts, TradedReadsFilled
    <3> QED
      BY <2>3, <3>3, <3>4, <3>5 DEF Verdicts, Stands
  <2> QED
    BY <2>4, <2>5
<1>6. ASSUME NEW w \in Workers, T!ExecReject(w) \/ T!ExecInsufficient(w), Execute(w) PROVE Goal
  <2>1. ExecMoves(w) /\ entries' = entries
    BY <1>6, ExecuteMoves DEF T!ExecReject, T!ExecInsufficient
  <2>2. PICK o \in Orders : o = exec[w].order /\ T!SetStatus(o, "rejected")
    BY <1>6 DEF T!ExecReject, T!ExecInsufficient, T!TypeOK
  <2>3. /\ orders'[o].status = "rejected"
        /\ \A q \in Orders : q # o => orders'[q] = orders[q]
    BY <2>2, SetStatusMoves
  <2>4. ~T!Traded(o) /\ orders[o].status \in {"pending", "cancelled"}
    BY <2>1, <2>2 DEF Verdicts, Undecided, ExecMoves
  <2>5. exec'[w].pc = "ok"
    BY <1>6 DEF T!ExecReject, T!ExecInsufficient, T!ExecGoto, T!TypeOK, T!ExecState
  <2>6. ASSUME NEW v \in Workers, exec'[v].pc \in Active, exec[v].order = o PROVE FALSE
    <3>1. v # w
      BY <2>5, <2>6 DEF Active
    <3>2. exec[v].pc \in Active /\ exec[w].pc \in Active
      BY <2>1, <2>6, <3>1 DEF ExecMoves
    <3> QED
      BY <2>2, <2>6, <3>1, <3>2, OneDelivery
  <2>7. Verdicts'
    BY <1>b, <2>1, <2>3, <2>4, <2>6, StatusKeeps
  <2> QED
    BY <1>a, <2>3, <2>4, <2>7 DEF Stands
<1>7. ASSUME NEW w \in Workers,
             \/ T!ExecBegin(w) \/ T!ExecLock(w) \/ T!ExecWrite(w) \/ T!ExecRefused(w)
             \/ T!ExecAbort(w),
             ExecMoves(w)
      PROVE  Goal
  <2>1. entries' = entries /\ orders' = orders
    BY <1>7 DEF T!ExecBegin, T!ExecLock, T!ExecWrite, T!ExecRefused, T!ExecAbort
  <2> QED
    BY <1>1, <1>7, <1>b, <2>1
<1>8. ASSUME NEW w \in Workers, NEW result \in {"ok", "err"}, Fill(w, result) PROVE Goal
  <2>1. T!ExecFill(w, result) /\ ExecMoves(w)
    BY <1>8, ExecuteMoves DEF Fill
  <2>2. PICK o \in Orders : o = exec[w].order
    BY <2>1 DEF T!ExecFill, T!TypeOK
  <2>3. ~T!Traded(o) /\ orders[o].status \in {"pending", "cancelled"} /\ FilledAtMostOnce
    BY <2>1, <2>2 DEF Verdicts, Undecided, ExecMoves
  <2>4. /\ orders'[o].status = "filled"
        /\ \A q \in Orders : q # o => orders'[q] = orders[q]
    <3>1. orders' = [orders EXCEPT ![o] = [orders[o] EXCEPT !.status = "filled",
                                                           !.fill = exec[w].price]]
      BY <2>1, <2>2 DEF T!ExecFill
    <3> QED
      BY <3>1 DEF T!TypeOK, T!OrderRow
  <2>5. /\ \A x \in Orders : x # o => (T!Traded(x)' => T!Traded(x))
        /\ FilledAtMostOnce'
    BY <2>1, <2>2, <2>3, FillTradesOnce
  <2>6. TradedReadsFilled'
    BY <2>4, <2>5 DEF Verdicts, TradedReadsFilled
  <2>7. ASSUME NEW v \in Workers, exec'[v].pc \in Active PROVE Undecided(v)'
    <3>1. exec'[w].pc \in {"ok", "err"}
      BY <2>1 DEF T!ExecFill, T!ExecGoto, T!TypeOK, T!ExecState
    <3>2. v # w /\ exec'[v] = exec[v]
      BY <2>1, <2>7, <3>1 DEF ExecMoves, Active
    <3>3. exec[v].pc \in Active /\ exec[w].pc \in Active
      BY <2>1, <2>7, <3>2 DEF ExecMoves
    <3>4. exec[v].order # o
      BY <2>2, <3>2, <3>3, OneDelivery
    <3>5. PICK x \in Orders : x = exec[v].order
      BY <3>3 DEF T!TypeOK, Active
    <3>6. ~T!Traded(x) /\ orders[x].status \in {"pending", "cancelled"}
      BY <3>3, <3>5 DEF Verdicts, Undecided
    <3>7. ~T!Traded(x)' /\ orders'[x].status \in {"pending", "cancelled"}
      BY <2>4, <2>5, <3>4, <3>5, <3>6
    <3>8. (exec[v].order)' = x
      BY <3>2, <3>5
    <3> QED
      BY <3>7, <3>8 DEF Undecided
  <2>8. (\A v \in Workers : Undecided(v))'
    BY <2>7 DEF Undecided
  <2> QED
    BY <1>a, <2>3, <2>4, <2>5, <2>6, <2>8 DEF Verdicts, Stands
<1>9. ASSUME NEW w \in Workers, NEW o \in Orders, StartSettle(w, o) PROVE Goal
  <2>1. /\ T!Start(w, o, "ok", 0) /\ entries' = entries
        /\ IF orders[o].status = "filled" THEN T!SetStatus(o, "settled") ELSE orders' = orders
    BY <1>9 DEF StartSettle, T!Settle
  <2>2. CallsKept
    BY <2>1, StartMoves DEF CallsKept, Active
  <2>3. CASE orders[o].status = "filled"
    <3>1. /\ orders'[o].status = "settled"
          /\ \A q \in Orders : q # o => orders'[q] = orders[q]
      BY <2>1, <2>3, SetStatusMoves
    <3>2. ASSUME NEW v \in Workers, exec'[v].pc \in Active, exec[v].order = o PROVE FALSE
      BY <2>2, <2>3, <3>2 DEF CallsKept, Verdicts, Undecided
    <3>3. Verdicts'
      BY <2>1, <2>2, <3>1, <3>2, StatusKeeps
    <3> QED
      BY <1>a, <2>3, <3>1, <3>3 DEF Stands
  <2>4. CASE orders[o].status # "filled"
    BY <1>1, <2>1, <2>2, <2>4
  <2> QED
    BY <2>3, <2>4
<1>10. ASSUME NEW w \in Workers, Return(w) \/ Crash(w) PROVE Goal
  <2>1. /\ entries' = entries /\ orders' = orders
        /\ exec' = exec \/ exec' = [exec EXCEPT ![w] = T!IdleExec]
    BY <1>10 DEF Return, Crash, book, T!ExecReturn, T!ExecCrash
  <2>2. CallsKept
    <3>1. exec \in [Workers -> T!ExecState] /\ T!IdleExec.pc \notin Active
      BY DEF T!TypeOK, T!IdleExec, Active
    <3>2. exec' = exec \/ (exec'[w].pc \notin Active /\ \A v \in Workers \ {w} : exec'[v] = exec[v])
      BY <2>1, <3>1
    <3> QED
      BY <3>2 DEF CallsKept
  <2> QED
    BY <1>1, <2>1, <2>2
<1>11. ASSUME \/ \E c \in Clients : Ask(c)
              \/ \E c \in Cancellers, o \in Orders : T!CancelGet(c, o)
       PROVE  Goal
  <2>1. entries' = entries /\ orders' = orders /\ exec' = exec
    BY <1>11 DEF Ask, T!PlaceLookup, T!PlaceConflict, T!RequestFails, T!CancelGet,
                 T!clientUnchanged
  <2> QED
    BY <1>1, <2>1 DEF CallsKept
<1>12. ASSUME \/ \E w \in Workers : \/ Claim(w) \/ Finish(w)
                                    \/ \E o \in Orders : SettleFails(w, o)
              \/ \E r \in Reapers : Reap(r)
              \/ \E j \in Jobs : Replay(j) \/ Pass(j)
              \/ UNCHANGED vars
       PROVE  Goal
  <2>1. entries' = entries /\ orders' = orders /\ exec' = exec
    BY <1>12 DEF Claim, Finish, SettleFails, Reap, Replay, Pass, vars, book
  <2> QED
    BY <1>1, <2>1 DEF CallsKept
<1>13. ASSUME NEW w \in Workers, Execute(w) \/ Abort(w) PROVE Goal
  BY <1>6, <1>7, <1>13, ExecuteMoves DEF Execute, Abort
<1>14. ASSUME NEW c \in Cancellers, Cancel(c) PROVE Goal
  BY <1>4, <1>11, <1>14 DEF Cancel, T!CancelStep
<1> HIDE DEF Goal
<1>15. Goal
  BY <1>2, <1>3, <1>5, <1>8, <1>9, <1>10, <1>11, <1>12, <1>13, <1>14
  DEF Next, WorkerStep, Handle
<1> QED
  BY <1>15 DEF Goal

\* What holds of every behaviour of the pipeline, whatever leases do.
LEMMA DeliveriesInvariant == Spec => [](T!TypeOK /\ Q!TypeOK /\ Deliveries)
<1>1. Init => Deliveries
  BY DEF Init, T!Init, T!IdleExec, Deliveries, DeliveryOf
<1>2. T!TypeOK /\ Q!TypeOK /\ Deliveries /\ [Next]_vars => Deliveries'
  BY DeliveriesInductive
<1> QED
  BY <1>1, <1>2, BookTyped, QueueInvariants, PTL DEF Spec

\* Verdicts holds throughout when no lease runs out under ExecuteOrder.
LEMMA VerdictsInvariant ==
    "execute_order" \notin MayOverrun => (Spec => []Verdicts)
<1> SUFFICES ASSUME "execute_order" \notin MayOverrun PROVE Spec => []Verdicts
  OBVIOUS
<1>1. Init => Verdicts
  <2> SUFFICES ASSUME Init PROVE Verdicts
    OBVIOUS
  <2>1. \A p \in Portfolios : entries[p] = <<>>
    BY DEF Init, T!Init
  <2>2. \A w \in Workers : exec[w].pc = "idle"
    BY DEF Init, T!Init, T!IdleExec
  <2>3. \A o : ~T!Traded(o)
    BY <2>1 DEF T!Traded
  <2>4. FilledAtMostOnce
    BY <2>1 DEF FilledAtMostOnce, T!FilledAtMostOnce
  <2> QED
    BY <2>2, <2>3, <2>4 DEF Verdicts, Undecided, Active, TradedReadsFilled
<1>2. /\ T!TypeOK /\ Q!TypeOK /\ Q!LeaseExclusive /\ Deliveries /\ Verdicts
      /\ [Next]_vars
      => Verdicts'
  BY VerdictsStep
<1> QED
  BY <1>1, <1>2, DeliveriesInvariant, QueueInvariants, PTL DEF Spec

(***************************************************************************)
(* An order is filled at most once, for any number of workers, crashes,    *)
(* lost acknowledgements, retries, replays and cancels, provided no lease  *)
(* runs out under a running ExecuteOrder.                                  *)
(***************************************************************************)
THEOREM NeverFilledTwice ==
    "execute_order" \notin MayOverrun => (Spec => []FilledAtMostOnce)
<1>1. Verdicts => FilledAtMostOnce
  BY DEF Verdicts
<1> QED
  BY <1>1, VerdictsInvariant, PTL

(***************************************************************************)
(* Under the same assumption, status and ledger agree.                     *)
(***************************************************************************)
THEOREM StatusMatchesLedger ==
    "execute_order" \notin MayOverrun => (Spec => []TradedReadsFilled)
<1>1. Verdicts => TradedReadsFilled
  BY DEF Verdicts
<1> QED
  BY <1>1, VerdictsInvariant, PTL

(***************************************************************************)
(* Under the same assumption, no redelivery overturns a verdict.           *)
(***************************************************************************)
THEOREM RedeliveryKeepsVerdict ==
    "execute_order" \notin MayOverrun => (Spec => VerdictStands)
<1> SUFFICES ASSUME "execute_order" \notin MayOverrun PROVE Spec => VerdictStands
  OBVIOUS
<1>1. /\ T!TypeOK /\ Q!TypeOK /\ Q!LeaseExclusive /\ Deliveries /\ Verdicts
      /\ [Next]_vars
      => [\A o \in Orders :
            \/ orders[o].status \in {"none", "pending", "cancelled"}
            \/ orders'[o].status \in {orders[o].status, "cancelled"}
            \/ orders[o].status = "filled" /\ orders'[o].status = "settled"]_vars
  BY VerdictsStep DEF Stands
<1>2. Spec => []Verdicts
  BY VerdictsInvariant
<1> QED
  BY <1>1, <1>2, DeliveriesInvariant, QueueInvariants, PTL DEF Spec, VerdictStands

(***************************************************************************)
(* The derived balances of the pipeline are an account that only whole,    *)
(* affordable trades change.                                               *)
(***************************************************************************)
THEOREM PipelineImplementsLedger == Spec => ImplementsLedger
<1>1. TP!ImplementsLedger <=> T!ImplementsLedger
  BY DEF TP!ImplementsLedger, T!ImplementsLedger, TP!Account!Spec, T!Account!Spec,
         TP!Account!Init, T!Account!Init, TP!Account!Next, T!Account!Next,
         TP!Account!Open, T!Account!Open, TP!Account!Buy, T!Account!Buy,
         TP!Account!Sell, T!Account!Sell, TP!Account!Assets, T!Account!Assets,
         TP!Holdings, T!Holdings, TP!Net, T!Net, TP!Contribution, T!Contribution,
         TP!Assets, T!Assets, TP!Amounts, T!Amounts
<1>2. TP!Spec => TP!ImplementsLedger
  BY BookAssumption, TP!TradingImplementsLedger, PTL
<1> QED
  BY <1>1, <1>2, PipelineRunsTrading, SameBook, PTL DEF ImplementsLedger

-----------------------------------------------------------------------------
(* Orders and their jobs.                                                  *)

\* Worker w is about to mark job j done.
Serves(w, j) == worker[w].job = j /\ (worker[w].pc = "complete" \/ exec[w].pc = "ok")

Unserved(j) ==
    /\ j \in enqueued
    /\ jobs[j].status # "done"
    /\ \A w \in Workers : ~Serves(w, j)

\* The order has moved on from where job j takes it up.
MovedOn(j) ==
    orders[OrderOf(j)].status # (IF Kind(j) = "execute_order" THEN "pending" ELSE "filled")

(***************************************************************************)
(* The inductive invariant: the job that is to move an order on has not    *)
(* been served.                                                            *)
(***************************************************************************)
Awaited ==
    \A o \in Orders :
        /\ orders[o].status = "pending" => Unserved(ExecuteJob(o))
        /\ orders[o].status = "filled" => \E n \in 1..MaxFills : Unserved(SettleJob(o, n))

(***************************************************************************)
(* A job is served only by a handler that has moved its order on: what     *)
(* makes ExecuteOrder and handleSettle return nil also decides the order.  *)
(***************************************************************************)
LEMMA ServedMovesOn ==
    ASSUME T!TypeOK, Q!TypeOK, Deliveries, [Next]_vars, NEW j \in Jobs, Unserved(j)
    PROVE  Unserved(j)' \/ MovedOn(j)'
<1> DEFINE Goal == Unserved(j)' \/ MovedOn(j)'
<1>a. /\ worker \in [Workers -> Q!WorkerState] /\ exec \in [Workers -> T!ExecState]
      /\ jobs \in [Jobs -> Q!Row]
  BY DEF Q!TypeOK, T!TypeOK
<1>b. ASSUME NEW w \in Workers, Others(w), \A v \in Workers : v # w => exec'[v] = exec[v],
             enqueued \subseteq enqueued', jobs'[j].status # "done", ~Serves(w, j)'
      PROVE  Goal
  BY <1>b DEF Unserved, Serves, Others
<1>c. ASSUME UNCHANGED <<worker, exec>>, enqueued \subseteq enqueued', jobs'[j].status # "done"
      PROVE  Goal
  BY <1>c DEF Unserved, Serves
<1>d. ASSUME NEW w \in Workers, ExecMoves(w), worker' = worker,
             enqueued \subseteq enqueued', jobs'[j].status # "done",
             exec'[w].pc = "ok" => orders'[exec[w].order].status # "pending"
      PROVE  Goal
  <2>1. CASE Serves(w, j)'
    <3>1. worker[w].job = j
      BY <1>d, <2>1 DEF Serves
    <3>2. Kind(j) = "execute_order" /\ OrderOf(j) = exec[w].order /\ worker[w].pc = "dispatch"
      BY <1>d, <3>1 DEF ExecMoves, Deliveries, DeliveryOf, Active
    <3> QED
      BY <1>d, <2>1, <3>2 DEF Serves, MovedOn
  <2>2. CASE ~Serves(w, j)'
    BY <1>b, <1>d, <2>2 DEF ExecMoves, Others
  <2> QED
    BY <2>1, <2>2
<1>e. ASSUME NEW i \in Jobs, Q!Enqueue(i)
      PROVE  jobs'[j].status # "done" /\ enqueued \subseteq enqueued' /\ worker' = worker
  <2>1. i # j
    BY <1>e DEF Q!Enqueue, Unserved
  <2> QED
    BY <1>a, <1>e, <2>1 DEF Q!Enqueue, Unserved
<1>1. ASSUME NEW c \in Clients, NEW o \in Orders, Accept(c, o) PROVE Goal
  <2>1. ExecuteJob(o) \in Jobs
    BY DEF Jobs
  <2>2. exec' = exec
    BY <1>1 DEF Accept, T!PlaceInsert, T!clientUnchanged
  <2> QED
    BY <1>1, <1>c, <1>e, <2>1, <2>2 DEF Accept
<1>2. ASSUME NEW w \in Workers, NEW result \in {"ok", "err"}, Fill(w, result) PROVE Goal
  <2> DEFINE A == {n \in 1..MaxFills : SettleJob(exec[w].order, n) \in enqueued}
  <2>1. exec[w].order \in Orders
    BY <1>2 DEF Fill, T!ExecFill, T!TypeOK
  <2>2. SettleJob(exec[w].order, Cardinality(A) + 1) \in Jobs
    BY <1>2, <2>1, NextSettleJob DEF Fill
  <2>3. jobs'[j].status # "done" /\ enqueued \subseteq enqueued' /\ worker' = worker
    BY <1>2, <1>e, <2>2 DEF Fill
  <2>4. orders'[exec[w].order].status = "filled"
    BY <1>2, <2>1 DEF Fill, T!ExecFill, T!TypeOK, T!OrderRow
  <2>5. ExecMoves(w)
    BY <1>2, ExecuteMoves
  <2> QED
    BY <1>d, <2>3, <2>4, <2>5
<1>3. ASSUME NEW w \in Workers, Execute(w) \/ Abort(w) PROVE Goal
  <2>1. ExecMoves(w)
    BY <1>3, ExecuteMoves
  <2>2. worker' = worker /\ jobs' = jobs /\ enqueued' = enqueued
    BY <1>3 DEF Execute, Abort, queue
  <2>3. ASSUME exec'[w].pc = "ok" PROVE orders'[exec[w].order].status # "pending"
    <3>1. exec[w].order \in Orders /\ exec[w] \in T!ExecState
      BY <2>1, <1>a DEF ExecMoves, T!TypeOK, Active
    <3>2. CASE T!ExecReject(w) \/ T!ExecInsufficient(w)
      BY <3>1, <3>2, SetStatusMoves DEF T!ExecReject, T!ExecInsufficient
    <3>3. CASE T!ExecWrite(w) \/ T!ExecRefused(w) \/ T!ExecAbort(w)
      BY <1>a, <2>3, <3>1, <3>3 DEF T!ExecWrite, T!ExecRefused, T!ExecAbort, T!ExecGoto,
                                    T!ExecState
    <3>4. CASE T!ExecBegin(w)
      <4>1. exec' = [exec EXCEPT ![w] = [exec[w] EXCEPT !.pc = "lock", !.at = clock]]
        BY <3>4 DEF T!ExecBegin
      <4> QED
        BY <1>a, <2>3, <3>1, <4>1 DEF T!ExecState
    <3>5. CASE T!ExecLock(w)
      <4> DEFINE p == orders[exec[w].order].req.portfolio
                 pc == IF T!Fits(T!Holdings(p)) THEN "write" ELSE "err"
      <4>1. exec' = [exec EXCEPT ![w] = [exec[w] EXCEPT !.pc = pc, !.seq = seqCounter[p],
                                                        !.hold = T!Holdings(p)]]
        BY <3>5 DEF T!ExecLock
      <4>2. pc \in {"write", "err"}
        OBVIOUS
      <4> HIDE DEF p, pc
      <4> QED
        BY <1>a, <2>3, <3>1, <4>1, <4>2 DEF T!ExecState
    <3> QED
      BY <1>3, <3>2, <3>3, <3>4, <3>5 DEF Execute, Abort
  <2> QED
    BY <1>d, <2>1, <2>2, <2>3 DEF Unserved
<1>4. ASSUME NEW w \in Workers, NEW o \in Orders, StartExecute(w, o) PROVE Goal
  <2>1. /\ Handles(w, "execute_order", o) /\ orders' = orders
        /\ worker' = worker /\ jobs' = jobs /\ enqueued' = enqueued
    BY <1>4 DEF StartExecute, queue, T!ExecSkip, T!ExecReadFails, T!ExecPriced
  <2>2. PICK pc, price : T!Start(w, o, pc, price) /\ (pc = "ok" => orders[o].status # "pending")
    <3>1. CASE T!ExecSkip(w, o)
      BY <3>1 DEF T!ExecSkip
    <3>2. CASE T!ExecReadFails(w, o)
      BY <3>2 DEF T!ExecReadFails
    <3>3. CASE \E quote \in Prices : T!ExecPriced(w, o, quote)
      BY <3>3 DEF T!ExecPriced
    <3> QED
      BY <1>4, <3>1, <3>2, <3>3 DEF StartExecute
  <2>3. exec'[w].pc = pc /\ \A v \in Workers : v # w => exec'[v] = exec[v]
    BY <2>2, StartMoves
  <2>4. CASE worker[w].job = j /\ pc = "ok"
    BY <2>1, <2>2, <2>4 DEF Handles, MovedOn
  <2>5. CASE worker[w].job # j \/ pc # "ok"
    <3>1. ~Serves(w, j)'
      BY <2>1, <2>3, <2>5 DEF Handles, Serves
    <3> QED
      BY <1>b, <2>1, <2>3, <3>1 DEF Others, Unserved
  <2> QED
    BY <2>4, <2>5
<1>5. ASSUME NEW w \in Workers, NEW o \in Orders, StartSettle(w, o) PROVE Goal
  <2>1. /\ Handles(w, "settle", o) /\ T!Start(w, o, "ok", 0)
        /\ worker' = worker /\ jobs' = jobs /\ enqueued' = enqueued
    BY <1>5 DEF StartSettle, queue, T!Settle
  <2>2. orders'[o].status # "filled"
    <3>1. IF orders[o].status = "filled" THEN T!SetStatus(o, "settled") ELSE orders' = orders
      BY <1>5 DEF StartSettle, T!Settle
    <3> QED
      BY <3>1, SetStatusMoves
  <2>3. \A v \in Workers : v # w => exec'[v] = exec[v]
    BY <2>1, StartMoves
  <2>4. CASE worker[w].job = j
    BY <2>1, <2>2, <2>4 DEF Handles, MovedOn
  <2>5. CASE worker[w].job # j
    BY <1>b, <2>1, <2>3, <2>5 DEF Others, Serves, Unserved
  <2> QED
    BY <2>4, <2>5
<1>6. ASSUME NEW w \in Workers, Claim(w) PROVE Goal
  <2>1. exec' = exec /\ exec[w].pc = "idle" /\ enqueued' = enqueued /\ Others(w)
    BY <1>6, QueueMoves DEF Claim, Q!Claim, book, Deliveries, DeliveryOf
  <2>2. worker'[w].pc = "dispatch"
    BY <1>6, <1>a DEF Claim, Q!Claim
  <2>3. jobs'[j].status # "done"
    BY <1>6, <1>a DEF Claim, Q!Claim, Unserved, Q!Row
  <2> QED
    BY <1>b, <2>1, <2>2, <2>3 DEF Serves
<1>7. ASSUME NEW w \in Workers, Return(w) PROVE Goal
  <2>1. /\ exec' = [exec EXCEPT ![w] = T!IdleExec]
        /\ jobs' = jobs /\ enqueued' = enqueued /\ Others(w)
    BY <1>7, QueueMoves DEF Return, T!ExecReturn, Q!DispatchOk, Q!DispatchFail
  <2>2. exec'[w].pc = "idle" /\ \A v \in Workers : v # w => exec'[v] = exec[v]
    BY <1>a, <2>1 DEF T!IdleExec
  <2>3. ~Serves(w, j)'
    <3>1. CASE exec[w].pc = "ok"
      BY <1>7, <1>a, <2>2, <3>1 DEF Return, Q!DispatchOk, Q!Goto, Unserved, Serves, Q!WorkerState
    <3>2. CASE exec[w].pc # "ok"
      BY <1>7, <1>a, <2>2, <3>2 DEF Return, Q!DispatchFail, Q!Goto, Serves, Q!WorkerState
    <3> QED
      BY <3>1, <3>2
  <2> QED
    BY <1>b, <2>1, <2>2, <2>3 DEF Unserved
<1>8. ASSUME NEW w \in Workers, NEW o \in Orders, SettleFails(w, o) PROVE Goal
  <2>1. exec' = exec /\ exec[w].pc = "idle" /\ jobs' = jobs /\ enqueued' = enqueued /\ Others(w)
    BY <1>8, QueueMoves DEF SettleFails, Q!DispatchFail, book
  <2>2. worker'[w].pc # "complete"
    BY <1>8, <1>a DEF SettleFails, Q!DispatchFail, Q!Goto, Q!WorkerState
  <2> QED
    BY <1>b, <2>1, <2>2 DEF Serves, Unserved
<1>9. ASSUME NEW w \in Workers, Finish(w) PROVE Goal
  <2>1. exec' = exec /\ exec[w].pc = "idle"
    BY <1>9 DEF Finish, book, Q!Complete, Q!Retry, Q!BuryInsert, Q!BuryDelete, Deliveries,
                DeliveryOf
  <2>2. enqueued' = enqueued /\ Others(w)
    BY <1>9, QueueMoves DEF Finish, Q!Complete, Q!Retry, Q!BuryInsert, Q!BuryDelete
  <2>3. worker'[w].pc # "complete"
    BY <1>9, <1>a DEF Finish, Q!Complete, Q!Retry, Q!BuryInsert, Q!BuryDelete, Q!Release,
                      Q!Goto, Q!IdleWorker, Q!WorkerState
  <2>4. jobs'[j].status # "done"
    <3>1. CASE Q!Complete(w)
      <4>1. worker[w].job # j
        BY <3>1 DEF Q!Complete, Unserved, Serves
      <4> QED
        BY <1>a, <3>1, <4>1 DEF Q!Complete, Unserved
    <3>2. CASE Q!Retry(w)
      BY <1>a, <3>2 DEF Q!Retry, Unserved, Q!Row
    <3>3. CASE Q!BuryInsert(w)
      BY <3>3 DEF Q!BuryInsert, Unserved
    <3>4. CASE Q!BuryDelete(w)
      BY <1>a, <3>4 DEF Q!BuryDelete, Unserved, Q!AbsentRow
    <3> QED
      BY <1>9, <3>1, <3>2, <3>3, <3>4 DEF Finish
  <2> QED
    BY <1>b, <2>1, <2>2, <2>3, <2>4 DEF Serves
<1>10. ASSUME NEW w \in Workers, Crash(w) PROVE Goal
  <2>1. /\ \/ exec' = exec /\ exec[w].pc = "idle"
           \/ exec' = [exec EXCEPT ![w] = T!IdleExec]
        /\ jobs' = jobs /\ enqueued' = enqueued /\ Others(w)
    BY <1>10, QueueMoves DEF Crash, T!ExecCrash, Q!Interrupt, book
  <2>2. exec'[w].pc = "idle" /\ \A v \in Workers : v # w => exec'[v] = exec[v]
    BY <1>a, <2>1 DEF T!IdleExec
  <2>3. worker'[w].pc = "idle"
    BY <1>10, <1>a DEF Crash, Q!Interrupt, Q!Release, Q!IdleWorker
  <2> QED
    BY <1>b, <2>1, <2>2, <2>3 DEF Serves, Unserved
<1>11. ASSUME \/ \E r \in Reapers : Reap(r)
              \/ \E i \in Jobs : Replay(i) \/ Pass(i)
       PROVE  Goal
  <2>1. exec' = exec /\ worker' = worker /\ enqueued' = enqueued
    BY <1>11 DEF Reap, Replay, Pass, book, Q!ReaperStep, Q!ReapDead, Q!ReapRequeue,
                 Q!ReaperInterrupt, Q!Replay, Q!TimeStep, Q!BecomeDue, Q!LeaseExpire
  <2>2. jobs'[j].status # "done"
    <3>1. ASSUME NEW r \in Reapers, Q!ReapDead(r) PROVE jobs'[j].status # "done"
      BY <3>1 DEF Q!ReapDead, Unserved, Q!AbsentRow
    <3>2. ASSUME NEW r \in Reapers, Q!ReapRequeue(r) PROVE jobs'[j].status # "done"
      BY <1>a, <3>2 DEF Q!ReapRequeue, Unserved, Q!Row
    <3>3. ASSUME NEW i \in Jobs, Q!Replay(i) PROVE jobs'[j].status # "done"
      BY <1>a, <3>3 DEF Q!Replay, Unserved, Q!NewRow
    <3>4. ASSUME NEW i \in Jobs, Q!TimeStep(i) PROVE jobs'[j].status # "done"
      <4>1. \A k \in Jobs : jobs'[k].status = jobs[k].status
        <5>1. CASE Q!BecomeDue(i)
          BY <1>a, <5>1 DEF Q!BecomeDue, Q!Row
        <5>2. CASE Q!LeaseExpire(i)
          <6>1. PICK g \in {jobs[i].gaps, jobs[i].gaps + 1} :
                  jobs' = [jobs EXCEPT ![i] = [@ EXCEPT !.lease = "expired", !.gaps = g]]
            BY <5>2 DEF Q!LeaseExpire
          <6> QED
            BY <1>a, <6>1 DEF Q!Row
        <5> QED
          BY <3>4, <5>1, <5>2 DEF Q!TimeStep
      <4> QED
        BY <4>1 DEF Unserved
    <3>5. ASSUME NEW r \in Reapers, Q!ReaperInterrupt(r) PROVE jobs'[j].status # "done"
      BY <3>5 DEF Q!ReaperInterrupt, Unserved
    <3> QED
      BY <1>11, <3>1, <3>2, <3>3, <3>4, <3>5 DEF Reap, Replay, Pass, Q!ReaperStep
  <2> QED
    BY <1>c, <2>1, <2>2
<1>12. ASSUME \/ \E p \in Portfolios, seed \in Seeds : CreatePortfolio(p, seed)
              \/ \E c \in Clients : Ask(c)
              \/ \E c \in Cancellers : Cancel(c)
              \/ UNCHANGED vars
       PROVE  Goal
  <2>1. exec' = exec /\ worker' = worker /\ enqueued' = enqueued /\ jobs' = jobs
    BY <1>12 DEF CreatePortfolio, Ask, Cancel, queue, vars, book, T!CreatePortfolio,
                 T!PlaceLookup, T!PlaceConflict, T!RequestFails, T!CancelStep,
                 T!CancelGet, T!CancelSet, T!clientUnchanged
  <2> QED
    BY <1>c, <2>1 DEF Unserved
<1> HIDE DEF Goal
<1>13. Goal
  BY <1>1, <1>2, <1>3, <1>4, <1>5, <1>6, <1>7, <1>8, <1>9, <1>10, <1>11, <1>12
  DEF Next, WorkerStep, Handle
<1> QED
  BY <1>13 DEF Goal

(***************************************************************************)
(* An order becomes pending only when it is accepted, and filled only by   *)
(* the fill of a call that has it in hand.                                 *)
(***************************************************************************)
LEMMA StatusSources ==
    ASSUME T!TypeOK, [Next]_vars, NEW o \in Orders
    PROVE  /\ orders'[o].status = "pending" =>
                 orders[o].status = "pending" \/ \E c \in Clients : Accept(c, o)
           /\ orders'[o].status = "filled" =>
                 \/ orders[o].status = "filled"
                 \/ \E w \in Workers, result \in {"ok", "err"} :
                       Fill(w, result) /\ exec[w].order = o
<1> DEFINE Goal == /\ orders'[o].status = "pending" =>
                         orders[o].status = "pending" \/ \E c \in Clients : Accept(c, o)
                   /\ orders'[o].status = "filled" =>
                         \/ orders[o].status = "filled"
                         \/ \E w \in Workers, result \in {"ok", "err"} :
                               Fill(w, result) /\ exec[w].order = o
<1>1. ASSUME orders' = orders PROVE Goal
  BY <1>1
<1>2. ASSUME NEW x \in Orders, NEW status \in {"cancelled", "rejected", "settled"},
             T!SetStatus(x, status)
      PROVE  Goal
  <2>1. /\ orders'[x].status = status
        /\ \A q \in Orders : q # x => orders'[q] = orders[q]
    BY <1>2, SetStatusMoves
  <2> QED
    BY <1>2, <2>1
<1>3. ASSUME NEW c \in Clients, NEW x \in Orders, Accept(c, x) PROVE Goal
  <2>1. /\ orders'[x].status = "pending"
        /\ \A q \in Orders : q # x => orders'[q] = orders[q]
    BY <1>3 DEF Accept, T!PlaceInsert, T!TypeOK
  <2> QED
    BY <1>3, <2>1
<1>4. ASSUME NEW w \in Workers, NEW result \in {"ok", "err"}, Fill(w, result) PROVE Goal
  <2>1. PICK x \in Orders : x = exec[w].order
    BY <1>4 DEF Fill, T!ExecFill, T!TypeOK
  <2>2. orders' = [orders EXCEPT ![x] = [orders[x] EXCEPT !.status = "filled",
                                                         !.fill = exec[w].price]]
    BY <1>4, <2>1 DEF Fill, T!ExecFill
  <2>3. /\ orders'[x].status = "filled"
        /\ \A q \in Orders : q # x => orders'[q] = orders[q]
    BY <2>2 DEF T!TypeOK, T!OrderRow
  <2> QED
    BY <1>4, <2>1, <2>3
<1>5. ASSUME NEW c \in Cancellers, Cancel(c) PROVE Goal
  <2>1. c \in Clients
    BY PipelineAssumption
  <2>2. CASE T!CancelSet(c)
    <3>1. client[c].order \in Orders /\ T!SetStatus(client[c].order, "cancelled")
      BY <2>1, <2>2 DEF T!CancelSet, T!TypeOK
    <3> QED
      BY <1>2, <3>1
  <2>3. CASE \E x \in Orders : T!CancelGet(c, x)
    BY <1>1, <2>3 DEF T!CancelGet
  <2> QED
    BY <1>5, <2>2, <2>3 DEF Cancel, T!CancelStep
<1>6. ASSUME NEW w \in Workers, Execute(w) \/ Abort(w) PROVE Goal
  <2>1. CASE T!ExecReject(w) \/ T!ExecInsufficient(w)
    <3>1. exec[w].order \in Orders /\ T!SetStatus(exec[w].order, "rejected")
      BY <2>1 DEF T!ExecReject, T!ExecInsufficient, T!TypeOK
    <3> QED
      BY <1>2, <3>1
  <2>2. CASE \/ T!ExecBegin(w) \/ T!ExecLock(w) \/ T!ExecWrite(w) \/ T!ExecRefused(w)
             \/ T!ExecAbort(w)
    BY <1>1, <2>2 DEF T!ExecBegin, T!ExecLock, T!ExecWrite, T!ExecRefused, T!ExecAbort
  <2> QED
    BY <1>6, <2>1, <2>2 DEF Execute, Abort
<1>7. ASSUME NEW w \in Workers, NEW x \in Orders, StartSettle(w, x) PROVE Goal
  <2>1. IF orders[x].status = "filled" THEN T!SetStatus(x, "settled") ELSE orders' = orders
    BY <1>7 DEF StartSettle, T!Settle
  <2> QED
    BY <1>1, <1>2, <2>1
<1>8. ASSUME \/ \E p \in Portfolios, seed \in Seeds : CreatePortfolio(p, seed)
             \/ \E c \in Clients : Ask(c)
             \/ \E w \in Workers : \/ Claim(w) \/ Finish(w) \/ Return(w) \/ Crash(w)
                                   \/ \E x \in Orders : StartExecute(w, x) \/ SettleFails(w, x)
             \/ \E r \in Reapers : Reap(r)
             \/ \E j \in Jobs : Replay(j) \/ Pass(j)
             \/ UNCHANGED vars
      PROVE  orders' = orders
  BY <1>8 DEF CreatePortfolio, T!CreatePortfolio, Ask, T!PlaceLookup, T!PlaceConflict,
              T!RequestFails, Claim, Finish, Return, T!ExecReturn, Crash, T!ExecCrash,
              StartExecute, T!ExecSkip, T!ExecReadFails, T!ExecPriced, SettleFails, Reap,
              Replay, Pass, vars, book
<1> HIDE DEF Goal
<1>9. Goal
  BY <1>1, <1>3, <1>4, <1>5, <1>6, <1>7, <1>8 DEF Next, WorkerStep, Handle
<1> QED
  BY <1>9 DEF Goal

\* A job that is enqueued now has not been served: nobody has it in hand.
LEMMA FreshIsUnserved ==
    ASSUME Q!TypeOK, InHand, NEW j \in Jobs, Q!Enqueue(j)
    PROVE  Unserved(j)'
<1>1. \A w \in Workers : worker[w].job # j
  BY PipelineAssumption DEF InHand, Q!TypeOK, Q!Enqueue
<1>2. j \in enqueued' /\ worker' = worker /\ jobs'[j].status = "queued"
  BY DEF Q!Enqueue, Q!NewRow, Q!TypeOK
<1> QED
  BY <1>1, <1>2 DEF Unserved, Serves

\* Awaited is kept by every step.
LEMMA AwaitedInductive ==
    T!TypeOK /\ Q!TypeOK /\ InHand /\ Deliveries /\ Awaited /\ [Next]_vars => Awaited'
<1> SUFFICES ASSUME T!TypeOK, Q!TypeOK, InHand, Deliveries, Awaited, [Next]_vars,
                    NEW o \in Orders
             PROVE  /\ orders'[o].status = "pending" => Unserved(ExecuteJob(o))'
                    /\ orders'[o].status = "filled" =>
                          \E n \in 1..MaxFills : Unserved(SettleJob(o, n))'
  BY DEF Awaited
<1>a. /\ ExecuteJob(o) \in Jobs /\ Kind(ExecuteJob(o)) = "execute_order"
      /\ OrderOf(ExecuteJob(o)) = o
  BY DEF Jobs, Kind, OrderOf, ExecuteJob
<1>b. \A n \in 1..MaxFills : /\ SettleJob(o, n) \in Jobs /\ Kind(SettleJob(o, n)) = "settle"
                             /\ OrderOf(SettleJob(o, n)) = o
  BY DEF Jobs, Kind, OrderOf, SettleJob
<1>1. ASSUME orders'[o].status = "pending" PROVE Unserved(ExecuteJob(o))'
  <2>1. CASE orders[o].status = "pending"
    <3>1. Unserved(ExecuteJob(o))
      BY <2>1 DEF Awaited
    <3>2. ~MovedOn(ExecuteJob(o))'
      BY <1>1, <1>a DEF MovedOn
    <3> QED
      BY <1>a, <3>1, <3>2, ServedMovesOn
  <2>2. CASE \E c \in Clients : Accept(c, o)
    BY <1>a, <2>2, FreshIsUnserved DEF Accept
  <2> QED
    BY <1>1, <2>1, <2>2, StatusSources
<1>2. ASSUME orders'[o].status = "filled"
      PROVE  \E n \in 1..MaxFills : Unserved(SettleJob(o, n))'
  <2>1. CASE orders[o].status = "filled"
    <3>1. PICK n \in 1..MaxFills : Unserved(SettleJob(o, n))
      BY <2>1 DEF Awaited
    <3>2. ~MovedOn(SettleJob(o, n))'
      BY <1>2, <1>b DEF MovedOn
    <3>3. Unserved(SettleJob(o, n))'
      BY <1>b, <3>1, <3>2, ServedMovesOn
    <3> QED
      BY <3>3
  <2>2. ASSUME NEW w \in Workers, NEW result \in {"ok", "err"},
               Fill(w, result), exec[w].order = o
        PROVE  \E n \in 1..MaxFills : Unserved(SettleJob(o, n))'
    <3>1. PICK A \in SUBSET (1..MaxFills) :
             /\ Cardinality(A) < MaxFills
             /\ Q!Enqueue(SettleJob(o, Cardinality(A) + 1))
      BY <2>2 DEF Fill
    <3>2. SettleJob(o, Cardinality(A) + 1) \in Jobs /\ Cardinality(A) + 1 \in 1..MaxFills
      BY <3>1, NextSettleJob
    <3>3. Unserved(SettleJob(o, Cardinality(A) + 1))'
      BY <3>1, <3>2, FreshIsUnserved
    <3> QED
      BY <3>2, <3>3
  <2> QED
    BY <1>2, <2>1, <2>2, StatusSources
<1> QED
  BY <1>1, <1>2

(***************************************************************************)
(* No order is stranded, whatever leases, crashes and replays do: a        *)
(* pending order's execute_order job and a filled order's settle job are   *)
(* still to be run, or are dead letters.                                   *)
(***************************************************************************)
THEOREM NoOrderIsStranded == Spec => []NoStrandedOrder
<1>1. Init => Awaited
  BY DEF Init, T!Init, T!NoRow, Awaited
<1>2. T!TypeOK /\ Q!TypeOK /\ InHand /\ Deliveries /\ Awaited /\ [Next]_vars => Awaited'
  BY AwaitedInductive
<1>3. Q!TypeOK /\ Q!NoLostJob /\ Awaited => NoStrandedOrder
  <2> SUFFICES ASSUME Q!TypeOK, Q!NoLostJob, Awaited PROVE NoStrandedOrder
    OBVIOUS
  <2>1. ASSUME NEW j \in Jobs, Unserved(j) PROVE Pending(j)
    BY <2>1 DEF Unserved, Pending, Q!NoLostJob, Q!InTable, Q!TypeOK, Q!Row
  <2>2. \A o \in Orders : ExecuteJob(o) \in Jobs /\ \A n \in 1..MaxFills : SettleJob(o, n) \in Jobs
    BY DEF Jobs
  <2> QED
    BY <2>1, <2>2 DEF Awaited, NoStrandedOrder
<1> QED
  BY <1>1, <1>2, <1>3, DeliveriesInvariant, QueueInvariants, PTL DEF Spec

=============================================================================
