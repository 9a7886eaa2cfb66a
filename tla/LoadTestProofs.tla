--------------------------- MODULE LoadTestProofs ---------------------------
(***************************************************************************)
(* Proofs about LoadTest: for any number of sells at the same time, any    *)
(* number of workers and reapers, and whatever answers are lost, handlers  *)
(* fail and processes die, as long as no lease runs out under a running    *)
(* ExecuteOrder.                                                           *)
(***************************************************************************)
EXTENDS LoadTest, PipelineProofs

-----------------------------------------------------------------------------
(* The load test runs the pipeline.                                        *)

BuyReq == Request("buy")
SellReq == Request("sell")

\* The two requests differ.
LEMMA TwoRequests ==
    /\ BuyReq # SellReq
    /\ BuyReq.portfolio = P /\ BuyReq.inst = S /\ BuyReq.side = "buy"
    /\ BuyReq.qty = Qty /\ BuyReq.type = "market"
    /\ SellReq.portfolio = P /\ SellReq.inst = S /\ SellReq.side = "sell"
    /\ SellReq.qty = Qty /\ SellReq.type = "market"
<1>1. /\ BuyReq.portfolio = P /\ BuyReq.inst = S /\ BuyReq.side = "buy"
      /\ BuyReq.qty = Qty /\ BuyReq.type = "market"
      /\ SellReq.portfolio = P /\ SellReq.inst = S /\ SellReq.side = "sell"
      /\ SellReq.qty = Qty /\ SellReq.type = "market"
  BY DEF BuyReq, SellReq, Request
<1> QED
  BY <1>1

\* The request of a client: the buyer's, or a seller's.
RequestOf(c) == IF c = Buyer THEN BuyReq ELSE SellReq

\* What a client sends when it is its turn.
LEMMA SubmitsOwn ==
    ASSUME NEW c \in Clients, Submit(c)
    PROVE  /\ T!PlaceLookup(c, RequestOf(c), NoKey) /\ RequestOf(c) \in Requests
           /\ step = (IF c = Buyer THEN "buy" ELSE "sell")
           /\ ids[c] = "unsent" /\ ids' = [ids EXCEPT ![c] = "sent"]
<1>1. step = (IF c = Buyer THEN "buy" ELSE "sell")
  BY DEF Submit, Turn
<1>2. Request(step) = RequestOf(c)
  BY <1>1 DEF RequestOf, BuyReq, SellReq
<1>3. RequestOf(c) \in Requests
  BY LoadTestAssumption DEF RequestOf, BuyReq, SellReq
<1>4. T!PlaceLookup(c, Request(step), NoKey)
  BY DEF Submit
<1> QED
  BY <1>1, <1>2, <1>3, <1>4 DEF Submit

TestNext == Script \/ System

\* A step of the test in which the system takes no step.
TestOnly == WaitFilled \/ Verdict \/ \E c \in Sellers : WaitResolved(c)

(***************************************************************************)
(* Every step of the test is a step of the pipeline, or none: what is      *)
(* proved of the pipeline holds while the test runs.                       *)
(***************************************************************************)
LEMMA TestStep == [TestNext]_testVars => [Next]_vars
<1> SUFFICES ASSUME [TestNext]_testVars PROVE Next \/ UNCHANGED vars
  OBVIOUS
<1>1. ASSUME UNCHANGED testVars PROVE UNCHANGED vars
  BY <1>1 DEF testVars
<1>2. ASSUME TestOnly PROVE UNCHANGED vars
  BY <1>2 DEF TestOnly, WaitFilled, Verdict, WaitResolved
<1>3. ASSUME TestCreate PROVE Next
  BY <1>3, LoadTestAssumption DEF TestCreate, Next
<1>4. ASSUME NEW c \in Clients, Submit(c) PROVE Next
  <2>1. T!PlaceLookup(c, RequestOf(c), NoKey) /\ RequestOf(c) \in Requests
    BY <1>4, SubmitsOwn
  <2>2. UNCHANGED queue
    BY <1>4 DEF Submit
  <2>3. Ask(c)
    BY <2>1, <2>2 DEF Ask
  <2> QED
    BY <2>3 DEF Next
<1>5. ASSUME NEW c \in Clients, NEW o \in Orders, Submitted(c, o) PROVE Next
  BY <1>5 DEF Submitted, Next
<1>6. ASSUME NEW c \in Clients, SubmitFails(c) PROVE Next
  <2>1. Ask(c)
    BY <1>6 DEF SubmitFails, Ask
  <2> QED
    BY <2>1 DEF Next
<1>7. ASSUME System PROVE Next
  BY <1>7, Zenon DEF System, Next
<1> HIDE DEF Next
<1> QED
  BY <1>1, <1>2, <1>3, <1>4, <1>5, <1>6, <1>7, Zenon DEF TestNext, Script, TestOnly

(***************************************************************************)
(* A run of the load test is a behaviour of the pipeline.                  *)
(***************************************************************************)
THEOREM TestRunsPipeline == TestSpec => Spec
<1>1. TestInit => Init
  BY DEF TestInit
<1>2. [Script \/ System]_testVars => [Next]_vars
  BY TestStep DEF TestNext
<1> QED
  BY <1>1, <1>2, PTL DEF TestSpec, Spec

-----------------------------------------------------------------------------
(* What a step does to the orders and to the test's position.              *)

Position == T!Net(entries[P], S)

\* Both instances of Trading have the same types and sums.
LEMMA SameSums ==
    /\ \A s, i : T!Net(s, i) = TP!Net(s, i)
    /\ T!TypeOK <=> TP!TypeOK
<1>1. \A s, i : T!Net(s, i) = TP!Net(s, i)
  BY DEF T!Net, TP!Net, T!Contribution, TP!Contribution
<1>2. T!TypeOK <=> TP!TypeOK
  BY DEF T!TypeOK, TP!TypeOK, T!Placed, TP!Placed, T!Valid, TP!Valid, T!Entry, TP!Entry,
         T!OrderRow, TP!OrderRow, T!View, TP!View, T!ExecState, TP!ExecState,
         T!ClientState, TP!ClientState, T!ReaderState, TP!ReaderState, T!InTx, TP!InTx,
         T!Assets, TP!Assets, T!MachineInt, TP!MachineInt, T!Amounts, TP!Amounts
<1> QED
  BY <1>1, <1>2

\* What the theorems about the trading core say of the test's run.
Bookkeeping ==
    /\ T!TypeOK
    /\ TP!CommitAccepted
    /\ TP!OpenedFirst
    /\ T!WritersHoldTheLock

\* It holds of the pipeline, and so throughout the test.
LEMMA BookkeepingInvariant == Spec => []Bookkeeping
<1>1. TP!Books => TP!CommitAccepted /\ TP!OpenedFirst /\ TP!WritersHoldTheLock
  BY DEF TP!Books
<1>2. TP!WritersHoldTheLock => T!WritersHoldTheLock
  BY DEF TP!WritersHoldTheLock, T!WritersHoldTheLock, T!InTx, TP!InTx, T!Holdings,
         TP!Holdings, T!Net, TP!Net, T!Contribution, TP!Contribution, T!Assets, TP!Assets
<1>3. TP!Spec => []TP!Books
  BY BookAssumption, TP!BooksInvariant, PTL
<1> QED
  BY <1>1, <1>2, <1>3, BookTyped, PipelineRunsTrading, SameBook, PTL DEF Bookkeeping

\* The test's stock is an asset, and not cash.
LEMMA TestAsset == S \in T!Assets /\ S # Cash /\ T!Assets = TP!Assets
<1>1. S # Cash
  BY LoadTestAssumption, BookAssumption DEF TP!TradingAssumption
<1> QED
  BY <1>1, LoadTestAssumption DEF T!Assets, TP!Assets

\* The position is a number.
LEMMA PositionInt == ASSUME T!TypeOK PROVE Position \in Int
<1>1. entries[P] \in Seq(TP!Entry)
  BY SameSums, LoadTestAssumption DEF TP!TypeOK
<1>2. TP!Net(entries[P], S) \in Int
  BY <1>1, BookAssumption, TP!NetInt
<1> QED
  BY <1>2, SameSums DEF Position

(***************************************************************************)
(* A fill of the buy adds to the position what it asks for; a fill of a    *)
(* sell takes it away, and found it there.                                 *)
(***************************************************************************)
LEMMA FillMoves ==
    ASSUME Bookkeeping, NEW w \in Workers, NEW result \in {"ok", "err"},
           T!ExecFill(w, result), NEW req, req = orders[exec[w].order].req,
           req \in {BuyReq, SellReq}
    PROVE  /\ req = BuyReq => Position' = Position + Qty
           /\ req = SellReq => Position >= Qty /\ Position' = Position - Qty
<1>1. /\ req.portfolio = P /\ req.inst = S /\ req.qty = Qty
      /\ req = BuyReq => req.side = "buy"
      /\ req = SellReq => req.side = "sell"
  BY TwoRequests
<1>2. TP!ExecFill(w, result)
  BY DEF T!ExecFill, TP!ExecFill, T!Legs, TP!Legs, T!Leg, TP!Leg, T!Cost, TP!Cost,
         T!Wrap, TP!Wrap, T!StockDir, TP!StockDir, T!Unlocked, TP!Unlocked,
         T!ExecGoto, TP!ExecGoto, T!execUnchanged, TP!execUnchanged
<1>3. S \in TP!Assets
  BY TestAsset
<1>4. TP!Net(entries'[P], S) = IF req.side = "buy" THEN TP!Net(entries[P], S) + Qty
                               ELSE TP!Net(entries[P], S) - Qty
  BY <1>1, <1>2, <1>3, SameSums, BookAssumption, TP!FillEffect DEF Bookkeeping
<1>5. /\ Position = TP!Net(entries[P], S)
      /\ Position' = TP!Net(entries'[P], S)
  BY SameSums DEF Position
<1>6. ASSUME req = SellReq PROVE Position >= Qty
  <2>1. exec[w].pc = "commit"
    BY DEF T!ExecFill
  <2>2. ~TP!Insufficient(w)
    BY <2>1 DEF Bookkeeping, TP!CommitAccepted
  <2>3. ~(exec[w].hold[S] < Qty)
    BY <1>1, <1>6, <2>2 DEF TP!Insufficient
  <2>4. exec[w].hold = T!Holdings(P)
    BY <1>1, <2>1 DEF Bookkeeping, T!WritersHoldTheLock, T!InTx
  <2>5. exec[w].hold[S] = Position
    BY <2>4, TestAsset DEF T!Holdings, Position
  <2>6. Position \in Int /\ Qty \in Int
    BY PositionInt, LoadTestAssumption DEF Bookkeeping
  <2> QED
    BY <2>3, <2>5, <2>6
<1> QED
  BY <1>1, <1>4, <1>5, <1>6

\* A rejected sell found less than it asks for.
LEMMA RejectedForWant ==
    ASSUME Bookkeeping, NEW w \in Workers, T!ExecInsufficient(w),
           orders[exec[w].order].req = SellReq
    PROVE  Position < Qty
<1>1. exec[w].pc = "write" /\ T!Insufficient(w)
  BY DEF T!ExecInsufficient
<1>2. exec[w].hold = T!Holdings(P)
  BY <1>1, TwoRequests DEF Bookkeeping, T!WritersHoldTheLock, T!InTx
<1>3. exec[w].hold[S] = Position
  BY <1>2, TestAsset DEF T!Holdings, Position
<1> QED
  BY <1>1, <1>3, TwoRequests DEF T!Insufficient

\* Opening the test's portfolio does not change its position.
LEMMA CreateMoves ==
    ASSUME Bookkeeping, T!CreatePortfolio(P, Seed)
    PROVE  Position' = Position
<1>1. entries[P] = <<>>
  BY LoadTestAssumption DEF Bookkeeping, TP!OpenedFirst, T!CreatePortfolio
<1>2. TP!Net(entries[P], S) = 0
  BY <1>1, BookAssumption, TP!NetEmpty
<1>3. TP!CreatePortfolio(P, Seed)
  BY DEF T!CreatePortfolio, TP!CreatePortfolio, T!SeedEntry, TP!SeedEntry
<1>4. TP!Net(entries'[P], S) = 0
  BY <1>3, SameSums, TestAsset, LoadTestAssumption, BookAssumption, TP!SeedEffect
  DEF Bookkeeping
<1> QED
  BY <1>2, <1>4, SameSums DEF Position

\* The test buys and sells at the market, which is never out of its limit.
NoReject == \A w \in Workers : exec[w].pc # "reject"

\* Every order is one of the test's.
Known == \A o \in Orders : T!Placed(o) => orders[o].req \in {BuyReq, SellReq}

Done(o) == orders[o].status \in {"filled", "settled"}

\* Order o gets this status; nothing else about the orders changes.
Marked(o, status) ==
    /\ orders'[o].status = status
    /\ orders'[o].req = orders[o].req
    /\ \A q \in Orders : q # o => orders'[q] = orders[q]

\* The ways in which a step may touch the orders or the position.
Places(c, o) ==
    /\ ~T!Placed(o)
    /\ client[c].pc = "insert"
    /\ orders'[o].status = "pending"
    /\ orders'[o].req = client[c].req
    /\ \A q \in Orders : q # o => orders'[q] = orders[q]
    /\ Position' = Position

Rejects(o) ==
    /\ T!Placed(o)
    /\ ~Done(o)
    /\ Marked(o, "rejected")
    /\ orders[o].req = SellReq => Position < Qty
    /\ Position' = Position

Fills(o) ==
    /\ orders[o].status = "pending"
    /\ Marked(o, "filled")
    /\ orders[o].req = BuyReq => Position' = Position + Qty
    /\ orders[o].req = SellReq => Position >= Qty /\ Position' = Position - Qty

Settles(o) ==
    /\ orders[o].status = "filled"
    /\ Marked(o, "settled")
    /\ Position' = Position

Shifts ==
    \/ orders' = orders /\ Position' = Position
    \/ \E o \in Orders : Rejects(o) \/ Fills(o) \/ Settles(o)

\* The request a client has under way is its own, and was sent; a sell only
\* after the position was bought.
Bought == \E o \in Orders : Done(o) /\ orders[o].req = BuyReq

Asking ==
    \A c \in Clients : client[c].pc # "idle" =>
        /\ client[c].pc = "insert"
        /\ ids[c] = "sent"
        /\ client[c].req = RequestOf(c)
        /\ c # Buyer => Bought

\* A client goes on with its request, which has no answer yet.
Proceeds(c) ==
    /\ ids[c] \in {"unsent", "sent"}
    /\ \E v \in {"sent", NoOrder} : ids' = [ids EXCEPT ![c] = v]

Moves ==
    \/ Shifts /\ (ids' = ids \/ \E c \in Clients : Proceeds(c))
    \/ \E c \in Clients, o \in Orders : Submitted(c, o) /\ Places(c, o)

\* The position depends on the entries only.
LEMMA SamePosition == ASSUME entries' = entries PROVE Position' = Position
BY DEF Position

\* Changing one order's status.
LEMMA SetStatusMarks ==
    ASSUME T!TypeOK, NEW o \in Orders, NEW status, T!SetStatus(o, status)
    PROVE  Marked(o, status)
BY DEF T!TypeOK, T!SetStatus, T!OrderRow, Marked

\* No order of the test is cancelled.
NoneCancelled == \A o \in Orders : orders[o].status # "cancelled"

(***************************************************************************)
(* A step of a worker rejects, fills or settles the order it has in hand,  *)
(* or leaves the orders and the position alone.                            *)
(***************************************************************************)
LEMMA WorkerMoves ==
    ASSUME Bookkeeping, Verdicts, NoReject, Known, NoneCancelled, NEW w \in Workers,
           WorkerStep(w) \/ Abort(w) \/ Crash(w)
    PROVE  Shifts
<1>a. T!TypeOK
  BY DEF Bookkeeping
<1>1. ASSUME orders' = orders, entries' = entries PROVE Shifts
  BY <1>1, SamePosition DEF Shifts
<1>2. ASSUME exec[w].pc \in Active
      PROVE  /\ exec[w].order \in Orders /\ T!Placed(exec[w].order)
             /\ orders[exec[w].order].status = "pending"
             /\ orders[exec[w].order].req \in {BuyReq, SellReq}
  <2>1. exec[w].order \in Orders /\ T!Placed(exec[w].order)
    BY <1>a, <1>2 DEF T!TypeOK, Active
  <2>2. orders[exec[w].order].status \in {"pending", "cancelled"}
    BY <1>2 DEF Verdicts, Undecided
  <2> QED
    BY <2>1, <2>2 DEF Known, NoneCancelled
<1>3. CASE T!ExecInsufficient(w)
  <2>1. exec[w].pc \in Active /\ T!SetStatus(exec[w].order, "rejected") /\ entries' = entries
    BY <1>3 DEF T!ExecInsufficient, Active
  <2>2. Marked(exec[w].order, "rejected")
    BY <1>a, <1>2, <2>1, SetStatusMarks
  <2>3. Rejects(exec[w].order)
    BY <1>2, <1>3, <2>1, <2>2, RejectedForWant, SamePosition DEF Rejects, Done
  <2> QED
    BY <1>2, <2>1, <2>3 DEF Shifts
<1>4. ASSUME NEW result \in {"ok", "err"}, T!ExecFill(w, result) PROVE Shifts
  <2>1. exec[w].pc \in Active
    BY <1>4 DEF T!ExecFill, Active
  <2>2. PICK o \in Orders : o = exec[w].order /\ orders[o].status = "pending"
                            /\ orders[o].req \in {BuyReq, SellReq}
    BY <1>2, <2>1
  <2>3. orders' = [orders EXCEPT ![o] = [orders[o] EXCEPT !.status = "filled",
                                                         !.fill = exec[w].price]]
    BY <1>4, <2>2 DEF T!ExecFill
  <2>4. Marked(o, "filled")
    BY <1>a, <2>3 DEF T!TypeOK, T!OrderRow, Marked
  <2>5. Fills(o)
    BY <1>4, <2>2, <2>4, FillMoves DEF Fills
  <2> QED
    BY <2>5 DEF Shifts
<1>5. ASSUME NEW o \in Orders, T!Settle(w, o) PROVE Shifts
  <2>1. entries' = entries
    BY <1>5 DEF T!Settle
  <2>2. CASE orders[o].status = "filled"
    <3>1. T!SetStatus(o, "settled")
      BY <1>5, <2>2 DEF T!Settle
    <3> QED
      BY <1>a, <2>1, <2>2, <3>1, SetStatusMarks, SamePosition DEF Settles, Shifts
  <2>3. CASE orders[o].status # "filled"
    BY <1>1, <1>5, <2>1, <2>3 DEF T!Settle
  <2> QED
    BY <2>2, <2>3
<1>6. CASE \/ T!ExecBegin(w) \/ T!ExecLock(w) \/ T!ExecWrite(w) \/ T!ExecRefused(w)
           \/ T!ExecAbort(w) \/ T!ExecReturn(w) \/ T!ExecCrash(w)
  BY <1>1, <1>6 DEF T!ExecBegin, T!ExecLock, T!ExecWrite, T!ExecRefused, T!ExecAbort,
                    T!ExecReturn, T!ExecCrash
<1>7. CASE \E o \in Orders : StartExecute(w, o)
  BY <1>1, <1>7 DEF StartExecute, T!ExecSkip, T!ExecReadFails, T!ExecPriced
<1>8. CASE \/ Claim(w) \/ Finish(w) \/ UNCHANGED book \/ \E o \in Orders : SettleFails(w, o)
  BY <1>1, <1>8 DEF Claim, Finish, SettleFails, book
<1>9. ~T!ExecReject(w)
  BY DEF NoReject, T!ExecReject
<1> HIDE DEF Shifts
<1>10. CASE Handle(w)
  BY <1>3, <1>4, <1>5, <1>6, <1>7, <1>8, <1>9, <1>10, Zenon
  DEF Handle, StartSettle, Execute, Fill, Return
<1>11. CASE Crash(w)
  BY <1>6, <1>8, <1>11, Zenon DEF Crash
<1> QED
  BY <1>6, <1>8, <1>10, <1>11, Zenon DEF WorkerStep, Abort

(***************************************************************************)
(* So does every step of the test.                                         *)
(***************************************************************************)
LEMMA TestMoves ==
    ASSUME Bookkeeping, Verdicts, NoReject, Known, NoneCancelled, Asking,
           [TestNext]_testVars
    PROVE  Moves
<1>1. ASSUME orders' = orders, entries' = entries PROVE Shifts
  BY <1>1, SamePosition DEF Shifts
<1>2. CASE TestCreate
  <2>1. T!CreatePortfolio(P, Seed)
    BY <1>2 DEF TestCreate, CreatePortfolio
  <2>2. orders' = orders
    BY <2>1 DEF T!CreatePortfolio
  <2> QED
    BY <1>2, <2>1, <2>2, CreateMoves DEF TestCreate, Shifts, Moves
<1>3. ASSUME NEW c \in Clients, Submit(c) \/ SubmitFails(c) PROVE Moves
  <2>1. orders' = orders /\ entries' = entries
    BY <1>3 DEF Submit, SubmitFails, T!PlaceLookup, T!RequestFails, T!clientUnchanged
  <2>2. Proceeds(c)
    BY <1>3 DEF Submit, SubmitFails, T!RequestFails, Asking, Proceeds
  <2> QED
    BY <1>1, <2>1, <2>2 DEF Moves
<1>4. ASSUME NEW c \in Clients, NEW o \in Orders, Submitted(c, o) PROVE Moves
  <2>1. T!PlaceInsert(c, o)
    BY <1>4 DEF Submitted, Accept
  <2>2. /\ ~T!Placed(o) /\ client[c].pc = "insert" /\ entries' = entries
        /\ orders' = [orders EXCEPT ![o] = [status |-> "pending", key |-> client[c].key,
                                            req |-> client[c].req, fill |-> 0]]
    BY <2>1 DEF T!PlaceInsert, T!clientUnchanged
  <2>3. orders'[o].status = "pending" /\ orders'[o].req = client[c].req
        /\ \A q \in Orders : q # o => orders'[q] = orders[q]
    BY <2>2 DEF Bookkeeping, T!TypeOK
  <2> QED
    BY <1>4, <2>2, <2>3, SamePosition DEF Places, Moves
<1>5. CASE TestOnly \/ UNCHANGED testVars
  <2>1. UNCHANGED vars
    BY <1>5 DEF TestOnly, WaitFilled, Verdict, WaitResolved, testVars
  <2>2. ids' = ids
    BY <1>5 DEF TestOnly, WaitFilled, Verdict, WaitResolved, testVars
  <2> QED
    BY <1>1, <2>1, <2>2 DEF vars, book, Moves
<1>6. ASSUME \/ \E r \in Reapers : Reap(r)
             \/ \E j \in Jobs : Pass(j)
      PROVE  Shifts
  BY <1>1, <1>6 DEF Reap, Pass, book
<1> HIDE DEF Shifts
<1>7. CASE System
  <2>1. Shifts
    BY <1>6, <1>7, WorkerMoves, Zenon DEF System
  <2> QED
    BY <1>7, <2>1 DEF System, Moves
<1> HIDE DEF Moves
<1> QED
  BY <1>2, <1>3, <1>4, <1>5, <1>7, Zenon DEF TestNext, Script, TestOnly

-----------------------------------------------------------------------------
(* The inductive invariant.                                                *)

SoldOut == \E o \in Orders : Done(o) /\ orders[o].req = SellReq

\* Only the buy b was filled.
Holding(b) ==
    /\ Done(b) /\ orders[b].req = BuyReq
    /\ \A o \in Orders : Done(o) => o = b
    /\ Position = Qty

\* The buy b and the sell s were filled, and nothing else.
SoldBy(b, s) ==
    /\ Done(b) /\ orders[b].req = BuyReq
    /\ Done(s) /\ orders[s].req = SellReq
    /\ \A o \in Orders : Done(o) => o \in {b, s}
    /\ Position = 0

(***************************************************************************)
(* The position is bought once and sold once: three states, one after the  *)
(* other.                                                                  *)
(***************************************************************************)
Flow ==
    \/ Position = 0 /\ \A o \in Orders : ~Done(o)
    \/ \E b \in Orders : Holding(b)
    \/ \E b, s \in Orders : SoldBy(b, s)

\* A sell is placed once the position is bought, and rejected once it is sold.
Sells ==
    \A o \in Orders : T!Placed(o) /\ orders[o].req = SellReq =>
        /\ Bought
        /\ orders[o].status = "rejected" => SoldOut

PlacedOrders == {o \in Orders : T!Placed(o)}

(***************************************************************************)
(* Each order is some client's only one: f tells whose.  The client has    *)
(* its id, or has lost it.                                                 *)
(***************************************************************************)
OwnedBy(f) ==
    /\ \A o \in PlacedOrders : /\ f[o] \in Clients
                               /\ ids[f[o]] \in {o, NoOrder}
                               /\ orders[o].req = RequestOf(f[o])
    /\ \A o1, o2 \in PlacedOrders : f[o1] = f[o2] => o1 = o2
    /\ \A c \in Clients : ids[c] \in Orders =>
                             ids[c] \in PlacedOrders /\ f[ids[c]] = c

Owned == \E f : OwnedBy(f)

\* What was counted is so.
Answers ==
    \A c \in Sellers :
        /\ seen[c] = "filled" => ids[c] \in Orders /\ Done(ids[c])
        /\ seen[c] = "rejected" => ids[c] \in Orders /\ orders[ids[c]].status = "rejected"

\* Where the test is.
Steps ==
    /\ step \in {"create", "buy"} => \A c \in Sellers : seen[c] = "unseen"
    /\ step = "sell" => Bought
    /\ step = "failed" => ~Resolved
    /\ step = "passed" => Filled # {}

TestTypes ==
    /\ ids \in [Clients -> {"unsent", "sent", NoOrder} \cup Orders]
    /\ seen \in [Sellers -> {"unseen", "filled", "rejected", "neither"}]

\* The inductive invariant.
Testing ==
    /\ TestTypes
    /\ NoReject
    /\ Known
    /\ NoneCancelled
    /\ Asking
    /\ Flow
    /\ Sells
    /\ Owned
    /\ Answers
    /\ Steps

-----------------------------------------------------------------------------
(* It is kept by every step.                                               *)

\* An order belongs to one client: the same request of the buyer, the same order.
LEMMA OneBuy ==
    ASSUME Owned, NEW o1 \in Orders, NEW o2 \in Orders, T!Placed(o1), T!Placed(o2),
           orders[o1].req = BuyReq, orders[o2].req = BuyReq
    PROVE  o1 = o2
<1>1. PICK f : OwnedBy(f)
  BY DEF Owned
<1>2. o1 \in PlacedOrders /\ o2 \in PlacedOrders
  BY DEF PlacedOrders
<1>3. ASSUME NEW c, RequestOf(c) = BuyReq PROVE c = Buyer
  BY <1>3, TwoRequests DEF RequestOf
<1>4. f[o1] = Buyer /\ f[o2] = Buyer
  BY <1>1, <1>2, <1>3 DEF OwnedBy
<1> QED
  BY <1>1, <1>2, <1>4 DEF OwnedBy

\* What a step of the system or a new order leaves as it is.
DoneStays == \A o \in Orders : Done(o) => Done(o)' /\ orders'[o].req = orders[o].req

\* A filled order stays filled or becomes settled; a rejected one stays rejected.
LEMMA VerdictsStay ==
    ASSUME Moves
    PROVE  /\ DoneStays
           /\ \A o \in Orders : orders[o].status = "rejected" => orders'[o].status = "rejected"
<1>1. CASE orders' = orders
  BY <1>1 DEF DoneStays, Done
<1>2. ASSUME NEW c \in Clients, NEW o \in Orders, Places(c, o)
      PROVE  /\ DoneStays
             /\ \A q \in Orders : orders[q].status = "rejected" => orders'[q].status = "rejected"
  BY <1>2 DEF Places, DoneStays, Done, T!Placed
<1>3. ASSUME NEW o \in Orders, Rejects(o) \/ Fills(o) \/ Settles(o)
      PROVE  /\ DoneStays
             /\ \A q \in Orders : orders[q].status = "rejected" => orders'[q].status = "rejected"
  BY <1>3 DEF Rejects, Fills, Settles, Marked, DoneStays, Done
<1> QED
  BY <1>1, <1>2, <1>3 DEF Moves, Shifts

\* So what was bought or sold stays so.
LEMMA DealsStay ==
    ASSUME DoneStays
    PROVE  (Bought => Bought') /\ (SoldOut => SoldOut')
BY DEF DoneStays, Bought, SoldOut

\* A step that fills no order leaves the flow as it is.
LEMMA FlowKept ==
    ASSUME Flow, DoneStays, Position' = Position, \A o \in Orders : Done(o)' => Done(o)
    PROVE  Flow'
<1>1. CASE Position = 0 /\ \A o \in Orders : ~Done(o)
  BY <1>1 DEF Flow
<1>2. ASSUME NEW b \in Orders, Holding(b) PROVE Holding(b)'
  BY <1>2 DEF Holding, DoneStays
<1>3. ASSUME NEW b \in Orders, NEW s \in Orders, SoldBy(b, s) PROVE SoldBy(b, s)'
  BY <1>3 DEF SoldBy, DoneStays
<1> QED
  BY <1>1, <1>2, <1>3 DEF Flow

(***************************************************************************)
(* A fill takes the flow one state further: the buy only at first, since   *)
(* there is one, and a sell only while there is something to sell.         *)
(***************************************************************************)
LEMMA FlowGoesOn ==
    ASSUME T!TypeOK, Flow, Known, Owned, DoneStays, NEW o \in Orders, Fills(o)
    PROVE  Flow'
<1>a. Position \in Int /\ Qty \in Int /\ Qty > 0
  BY PositionInt, LoadTestAssumption
<1>b. /\ ~Done(o) /\ T!Placed(o) /\ Done(o)' /\ orders'[o].req = orders[o].req
      /\ \A q \in Orders : Done(q)' => Done(q) \/ q = o
  BY DEF Fills, Marked, Done, T!Placed
<1>c. \A b \in Orders : Done(b) => T!Placed(b)
  BY DEF Done, T!Placed
<1>1. CASE orders[o].req = BuyReq
  <2>1. Position' = Position + Qty
    BY <1>1 DEF Fills
  <2>2. ASSUME NEW b \in Orders, Done(b), orders[b].req = BuyReq PROVE FALSE
    <3>1. b = o
      BY <1>1, <1>b, <1>c, <2>2, OneBuy
    <3> QED
      BY <1>b, <2>2, <3>1
  <2>3. Position = 0 /\ \A q \in Orders : ~Done(q)
    BY <2>2 DEF Flow, Holding, SoldBy
  <2>4. Position' = Qty
    BY <1>a, <2>1, <2>3
  <2>5. Holding(o)'
    BY <1>1, <1>b, <2>3, <2>4 DEF Holding
  <2> QED
    BY <2>5 DEF Flow
<1>2. CASE orders[o].req = SellReq
  <2>1. Position >= Qty /\ Position' = Position - Qty
    BY <1>2 DEF Fills
  <2>2. Position # 0
    BY <1>a, <2>1
  <2>3. PICK b \in Orders : Holding(b)
    BY <2>2 DEF Flow, SoldBy
  <2>4. Position' = 0
    BY <1>a, <2>1, <2>3 DEF Holding
  <2>5. Done(b)' /\ orders'[b].req = BuyReq
    BY <2>3 DEF DoneStays, Holding
  <2>6. \A q \in Orders : Done(q)' => q \in {b, o}
    BY <1>b, <2>3 DEF Holding
  <2>7. SoldBy(b, o)'
    BY <1>2, <1>b, <2>4, <2>5, <2>6 DEF SoldBy
  <2> QED
    BY <2>7 DEF Flow
<1> QED
  BY <1>1, <1>2, <1>b DEF Known

\* The flow, over all steps.
LEMMA FlowInductive ==
    ASSUME T!TypeOK, Testing, Moves
    PROVE  Flow'
<1>a. DoneStays /\ Flow /\ Known /\ Owned
  BY VerdictsStay DEF Testing
<1>1. ASSUME NEW o \in Orders, Fills(o) PROVE Flow'
  BY <1>a, <1>1, FlowGoesOn
<1>2. CASE orders' = orders /\ Position' = Position
  BY <1>a, <1>2, FlowKept DEF Done
<1>3. ASSUME NEW c \in Clients, NEW o \in Orders, Places(c, o) PROVE Flow'
  <2>1. \A q \in Orders : Done(q)' => Done(q)
    BY <1>3 DEF Places, Done
  <2> QED
    BY <1>a, <1>3, <2>1, FlowKept DEF Places
<1>4. ASSUME NEW o \in Orders, Rejects(o) \/ Settles(o) PROVE Flow'
  <2>1. \A q \in Orders : Done(q)' => Done(q)
    BY <1>4 DEF Rejects, Settles, Marked, Done
  <2> QED
    BY <1>a, <1>4, <2>1, FlowKept DEF Rejects, Settles
<1> QED
  BY <1>1, <1>2, <1>3, <1>4 DEF Moves, Shifts

\* The rows of the orders, over all steps.
LEMMA RowsInductive ==
    ASSUME T!TypeOK, Testing, Moves
    PROVE  Known' /\ NoneCancelled' /\ Sells'
<1>a. /\ Known /\ NoneCancelled /\ Sells /\ Asking /\ Flow
      /\ Bought => Bought'
      /\ SoldOut => SoldOut'
  BY VerdictsStay, DealsStay DEF Testing
<1>1. CASE orders' = orders
  BY <1>a, <1>1 DEF Known, NoneCancelled, Sells, T!Placed
<1>2. ASSUME NEW c \in Clients, NEW o \in Orders, Places(c, o)
      PROVE  Known' /\ NoneCancelled' /\ Sells'
  <2>1. /\ orders'[o].req = RequestOf(c) /\ orders'[o].status = "pending"
        /\ \A q \in Orders : q # o => orders'[q] = orders[q]
        /\ c # Buyer => Bought
    BY <1>a, <1>2 DEF Places, Asking
  <2>2. RequestOf(c) \in {BuyReq, SellReq} /\ (RequestOf(c) = SellReq => c # Buyer)
    BY TwoRequests DEF RequestOf
  <2>3. Known'
    BY <1>a, <2>1, <2>2 DEF Known, T!Placed
  <2>4. NoneCancelled'
    BY <1>a, <2>1 DEF NoneCancelled
  <2>5. Sells'
    BY <1>a, <2>1, <2>2 DEF Sells, T!Placed
  <2> QED
    BY <2>3, <2>4, <2>5
<1>3. ASSUME NEW o \in Orders, Rejects(o) \/ Fills(o) \/ Settles(o)
      PROVE  Known' /\ NoneCancelled' /\ Sells'
  <2>1. /\ T!Placed(o) /\ orders'[o].req = orders[o].req
        /\ orders'[o].status \in {"rejected", "filled", "settled"}
        /\ \A q \in Orders : q # o => orders'[q] = orders[q]
        /\ orders'[o].status = "rejected" => Rejects(o)
    BY <1>3 DEF Rejects, Fills, Settles, Marked, T!Placed
  <2>2. Known'
    BY <1>a, <2>1 DEF Known, T!Placed
  <2>3. NoneCancelled'
    BY <1>a, <2>1 DEF NoneCancelled
  <2>4. ASSUME orders[o].req = SellReq, Rejects(o) PROVE SoldOut
    <3>1. Position < Qty /\ Position \in Int /\ Qty \in Int /\ Bought
      BY <1>a, <2>4, PositionInt, LoadTestAssumption DEF Rejects, Sells
    <3>2. \A b \in Orders : ~Holding(b)
      BY <3>1 DEF Holding
    <3>3. PICK b \in Orders : Done(b)
      BY <3>1 DEF Bought
    <3> QED
      BY <1>a, <3>2, <3>3 DEF Flow, SoldBy, SoldOut
  <2>5. Sells'
    BY <1>a, <2>1, <2>4 DEF Sells, T!Placed
  <2> QED
    BY <2>2, <2>3, <2>5
<1> QED
  BY <1>1, <1>2, <1>3 DEF Moves, Shifts

\* The strings that stand for no answer are no ids.
LEMMA NoAnswers == /\ "unsent" \notin Orders \cup {NoOrder} /\ "sent" \notin Orders \cup {NoOrder}
                   /\ NoOrder \notin Orders
<1>1. NoOrder \notin Orders
  BY BookAssumption DEF TP!TradingAssumption
<1> QED
  BY <1>1, LoadTestAssumption

(***************************************************************************)
(* Whose order is whose, over all steps: a new one is that of the client   *)
(* that submitted it, which had none.                                      *)
(***************************************************************************)
LEMMA OwnedInductive ==
    ASSUME Testing, Moves
    PROVE  Owned'
<1>a. ids \in [Clients -> {"unsent", "sent", NoOrder} \cup Orders] /\ Asking
  BY DEF Testing, TestTypes
<1>b. PICK f : OwnedBy(f)
  BY DEF Testing, Owned
<1>1. ASSUME Shifts, ids' = ids \/ \E c \in Clients : Proceeds(c) PROVE OwnedBy(f)'
  <2>1. /\ PlacedOrders' = PlacedOrders
        /\ \A o \in PlacedOrders : orders'[o].req = orders[o].req
    <3>1. CASE orders' = orders
      BY <3>1 DEF PlacedOrders, T!Placed
    <3>2. ASSUME NEW o \in Orders, Rejects(o) \/ Fills(o) \/ Settles(o)
          PROVE  /\ PlacedOrders' = PlacedOrders
                 /\ \A q \in PlacedOrders : orders'[q].req = orders[q].req
      BY <3>2 DEF Rejects, Fills, Settles, Marked, PlacedOrders, T!Placed
    <3> QED
      BY <1>1, <3>1, <3>2 DEF Shifts
  <2>2. ASSUME NEW c \in Clients, ids[c] \in Orders \cup {NoOrder} PROVE ids'[c] = ids[c]
    BY <1>1, <1>a, <2>2, NoAnswers DEF Proceeds
  <2>3. ASSUME NEW c \in Clients, ids'[c] \in Orders PROVE ids'[c] = ids[c]
    BY <1>1, <1>a, <2>3, NoAnswers DEF Proceeds
  <2>4. ASSUME NEW o \in PlacedOrders
        PROVE  /\ f[o] \in Clients /\ ids'[f[o]] \in {o, NoOrder}
               /\ orders'[o].req = RequestOf(f[o])
    BY <1>b, <2>1, <2>2 DEF OwnedBy, PlacedOrders
  <2>5. ASSUME NEW c \in Clients, ids'[c] \in Orders
        PROVE  ids'[c] \in PlacedOrders /\ f[ids'[c]] = c
    BY <1>b, <2>3, <2>5 DEF OwnedBy
  <2> QED
    BY <1>b, <2>1, <2>4, <2>5 DEF OwnedBy, RequestOf, BuyReq, SellReq, Request
<1>2. ASSUME NEW c \in Clients, NEW o \in Orders, Submitted(c, o), Places(c, o)
      PROVE  Owned'
  <2>1. /\ ids[c] = "sent" /\ o \notin PlacedOrders
        /\ orders'[o].req = RequestOf(c)
        /\ PlacedOrders' = PlacedOrders \cup {o}
        /\ \A q \in PlacedOrders : q # o /\ orders'[q] = orders[q]
    BY <1>a, <1>2 DEF Places, Asking, PlacedOrders, T!Placed
  <2>2. PICK id \in {o, NoOrder} : ids' = [ids EXCEPT ![c] = id]
    BY <1>2 DEF Submitted
  <2>3. /\ ids'[c] = id
        /\ \A d \in Clients : d # c => ids'[d] = ids[d]
    BY <1>a, <2>2
  <2>4. \A q \in PlacedOrders : f[q] \in Clients /\ f[q] # c
    BY <1>b, <2>1, NoAnswers DEF OwnedBy, PlacedOrders
  <2>5. PICK g : g[o] = c /\ \A q \in PlacedOrders : g[q] = f[q]
    <3> DEFINE h == [q \in PlacedOrders \cup {o} |-> IF q = o THEN c ELSE f[q]]
    <3>1. h[o] = c /\ \A q \in PlacedOrders : h[q] = f[q]
      BY <2>1
    <3> QED
      BY <3>1
  <2>6. ASSUME NEW q \in PlacedOrders \cup {o}
        PROVE  /\ g[q] \in Clients /\ ids'[g[q]] \in {q, NoOrder}
               /\ orders'[q].req = RequestOf(g[q])
    BY <1>b, <2>1, <2>2, <2>3, <2>4, <2>5 DEF OwnedBy
  <2>7. ASSUME NEW q \in PlacedOrders \cup {o}, NEW r \in PlacedOrders \cup {o}, g[q] = g[r]
        PROVE  q = r
    BY <1>b, <2>4, <2>5, <2>7 DEF OwnedBy
  <2>8. ASSUME NEW d \in Clients, ids'[d] \in Orders
        PROVE  ids'[d] \in PlacedOrders \cup {o} /\ g[ids'[d]] = d
    <3>1. CASE d = c
      BY <2>2, <2>3, <2>5, <2>8, <3>1, NoAnswers
    <3>2. CASE d # c
      BY <1>b, <2>3, <2>5, <2>8, <3>2 DEF OwnedBy
    <3> QED
      BY <3>1, <3>2
  <2>9. OwnedBy(g)'
    BY <2>1, <2>6, <2>7, <2>8 DEF OwnedBy, RequestOf, BuyReq, SellReq, Request
  <2> QED
    BY <2>9 DEF Owned
<1> QED
  BY <1>1, <1>2 DEF Moves, Owned

\* A step of the system, or of the test by itself, leaves the clients alone.
LEMMA ClientsStay ==
    ASSUME System \/ TestOnly \/ TestCreate \/ UNCHANGED testVars
    PROVE  client' = client /\ ids' = ids
<1>1. ASSUME NEW w \in Workers, WorkerStep(w) \/ Abort(w) \/ Crash(w)
      PROVE  client' = client
  <2>1. CASE \E o \in Orders : StartExecute(w, o) \/ StartSettle(w, o) \/ SettleFails(w, o)
    BY <2>1 DEF StartExecute, T!ExecSkip, T!ExecReadFails, T!ExecPriced, StartSettle,
                T!Settle, SettleFails, T!execUnchanged, book
  <2>2. CASE Execute(w)
    BY <2>2 DEF Execute, T!ExecReject, T!ExecBegin, T!ExecLock, T!ExecInsufficient,
                T!ExecWrite, T!ExecRefused, T!execUnchanged
  <2>3. CASE \/ \E result \in {"ok", "err"} : T!ExecFill(w, result)
             \/ T!ExecReturn(w) \/ T!ExecAbort(w) \/ T!ExecCrash(w)
    BY <2>3 DEF T!ExecFill, T!ExecReturn, T!ExecAbort, T!ExecCrash, T!execUnchanged
  <2>4. CASE Claim(w) \/ Finish(w) \/ UNCHANGED book
    BY <2>4 DEF Claim, Finish, book
  <2> QED
    BY <1>1, <2>1, <2>2, <2>3, <2>4, Zenon DEF WorkerStep, Handle, Fill, Return, Abort, Crash
<1>2. ASSUME (\E r \in Reapers : Reap(r)) \/ (\E j \in Jobs : Pass(j)) PROVE client' = client
  BY <1>2 DEF Reap, Pass, book
<1>3. CASE System
  BY <1>1, <1>2, <1>3, Zenon DEF System
<1>4. CASE TestOnly \/ UNCHANGED testVars
  BY <1>4 DEF TestOnly, WaitFilled, Verdict, WaitResolved, testVars, vars, book
<1>5. CASE TestCreate
  BY <1>5 DEF TestCreate, CreatePortfolio, T!CreatePortfolio
<1> QED
  BY <1>3, <1>4, <1>5

\* What the clients have under way, over all steps.
LEMMA AskingInductive ==
    ASSUME T!TypeOK, Testing, Moves, [TestNext]_testVars
    PROVE  Asking'
<1>a. /\ client \in [Clients -> T!ClientState]
      /\ ids \in [Clients -> {"unsent", "sent", NoOrder} \cup Orders]
      /\ Asking /\ Steps
      /\ Bought => Bought'
  BY VerdictsStay, DealsStay DEF T!TypeOK, Testing, TestTypes
<1>b. ASSUME NEW c \in Clients, \A d \in Clients : d # c => client'[d] = client[d] /\ ids'[d] = ids[d],
             client'[c].pc # "idle" =>
                /\ client'[c].pc = "insert" /\ ids'[c] = "sent"
                /\ client'[c].req = RequestOf(c)
                /\ c # Buyer => Bought
      PROVE  Asking'
  BY <1>a, <1>b DEF Asking, RequestOf, BuyReq, SellReq, Request
<1>1. CASE client' = client /\ ids' = ids
  BY <1>a, <1>1 DEF Asking, RequestOf, BuyReq, SellReq, Request
<1>2. ASSUME NEW c \in Clients, Submit(c) PROVE Asking'
  <2>1. /\ T!PlaceLookup(c, RequestOf(c), NoKey)
        /\ step = (IF c = Buyer THEN "buy" ELSE "sell")
        /\ ids' = [ids EXCEPT ![c] = "sent"]
    BY <1>2, SubmitsOwn
  <2>2. client' = [client EXCEPT ![c] = [T!IdleClient EXCEPT
                     !.pc = "insert", !.req = RequestOf(c), !.key = NoKey]]
    BY <2>1 DEF T!PlaceLookup
  <2>3. client'[c].pc = "insert" /\ client'[c].req = RequestOf(c)
    BY <1>a, <2>2 DEF T!IdleClient
  <2>4. c # Buyer => Bought
    BY <1>a, <2>1 DEF Steps
  <2>5. \A d \in Clients : d # c => client'[d] = client[d] /\ ids'[d] = ids[d]
    BY <1>a, <2>1, <2>2
  <2>6. ids'[c] = "sent"
    BY <1>a, <2>1
  <2> QED
    BY <1>b, <2>3, <2>4, <2>5, <2>6
<1>3. ASSUME NEW c \in Clients, SubmitFails(c) \/ \E o \in Orders : Submitted(c, o)
      PROVE  Asking'
  <2>1. T!ClientReturns(c) /\ \E id : ids' = [ids EXCEPT ![c] = id]
    BY <1>3 DEF SubmitFails, T!RequestFails, Submitted, Accept, T!PlaceInsert
  <2>2. client'[c].pc = "idle"
    BY <1>a, <2>1 DEF T!ClientReturns, T!IdleClient
  <2>3. \A d \in Clients : d # c => client'[d] = client[d] /\ ids'[d] = ids[d]
    BY <1>a, <2>1 DEF T!ClientReturns
  <2> QED
    BY <1>b, <2>2, <2>3
<1> HIDE DEF Asking
<1> QED
  BY <1>1, <1>2, <1>3, ClientsStay, Zenon DEF TestNext, Script, TestOnly

\* No market order is out of its limit.
LEMMA NoRejectInductive ==
    ASSUME T!TypeOK, NoReject, Known, [TestNext]_testVars
    PROVE  NoReject'
<1>a. exec \in [Workers -> T!ExecState]
  BY DEF T!TypeOK
<1>1. ASSUME exec' = exec PROVE NoReject'
  BY <1>1 DEF NoReject
<1>2. ASSUME NEW w \in Workers, exec'[w].pc # "reject",
             \A v \in Workers : v # w => exec'[v] = exec[v]
      PROVE  NoReject'
  BY <1>2 DEF NoReject
<1>3. ASSUME NEW w \in Workers, NEW o, NEW pc, NEW price, pc # "reject",
             T!Start(w, o, pc, price)
      PROVE  NoReject'
  BY <1>2, <1>3, StartMoves
<1>4. ASSUME NEW w \in Workers, NEW o \in Orders, StartExecute(w, o) PROVE NoReject'
  <2>1. CASE T!ExecSkip(w, o) \/ T!ExecReadFails(w, o)
    BY <1>3, <2>1 DEF T!ExecSkip, T!ExecReadFails
  <2>2. ASSUME NEW quote \in Prices, T!ExecPriced(w, o, quote) PROVE NoReject'
    <3>1. orders[o].req.type = "market"
      BY <2>2, TwoRequests DEF T!ExecPriced, T!Delivered, Known
    <3>2. T!Marketable(orders[o].req, quote)
      BY <3>1 DEF T!Marketable
    <3>3. \E price : T!Start(w, o, "begin", price)
      BY <2>2, <3>2 DEF T!ExecPriced
    <3> QED
      BY <1>3, <3>3
  <2> QED
    BY <1>4, <2>1, <2>2 DEF StartExecute
<1>5. ASSUME NEW w \in Workers, NEW o \in Orders, StartSettle(w, o) PROVE NoReject'
  BY <1>3, <1>5 DEF StartSettle, T!Settle
<1>6. ASSUME NEW w \in Workers, NEW pc, pc # "reject", T!ExecGoto(w, pc) PROVE NoReject'
  BY <1>2, <1>6, <1>a DEF T!ExecGoto, T!ExecState
<1>7. ASSUME NEW w \in Workers,
             \/ T!ExecReject(w) \/ T!ExecInsufficient(w) \/ T!ExecWrite(w)
             \/ T!ExecRefused(w) \/ T!ExecAbort(w)
             \/ \E result \in {"ok", "err"} : T!ExecFill(w, result)
      PROVE  NoReject'
  BY <1>6, <1>7 DEF T!ExecReject, T!ExecInsufficient, T!ExecWrite, T!ExecRefused,
                    T!ExecAbort, T!ExecFill
<1>8. ASSUME NEW w \in Workers, T!ExecBegin(w) PROVE NoReject'
  <2>1. exec' = [exec EXCEPT ![w] = [@ EXCEPT !.pc = "lock", !.at = clock]]
    BY <1>8 DEF T!ExecBegin
  <2>2. exec'[w].pc = "lock"
    BY <1>a, <2>1 DEF T!ExecState
  <2> QED
    BY <1>2, <1>a, <2>1, <2>2
<1>9. ASSUME NEW w \in Workers, T!ExecLock(w) PROVE NoReject'
  <2> DEFINE p == orders[exec[w].order].req.portfolio
             pc == IF T!Fits(T!Holdings(p)) THEN "write" ELSE "err"
  <2>1. exec' = [exec EXCEPT ![w] = [@ EXCEPT !.pc = pc, !.seq = seqCounter[p],
                                              !.hold = T!Holdings(p)]]
    BY <1>9 DEF T!ExecLock
  <2>2. pc # "reject"
    OBVIOUS
  <2> HIDE DEF p, pc
  <2>3. exec'[w].pc # "reject"
    BY <1>a, <2>1, <2>2 DEF T!ExecState
  <2> QED
    BY <1>2, <1>a, <2>1, <2>3
<1>10. ASSUME NEW w \in Workers, T!ExecReturn(w) \/ T!ExecCrash(w) PROVE NoReject'
  <2>1. exec' = [exec EXCEPT ![w] = T!IdleExec]
    BY <1>10 DEF T!ExecReturn, T!ExecCrash
  <2> QED
    BY <1>2, <1>a, <2>1 DEF T!IdleExec
<1>11. ASSUME \/ \E w \in Workers : \/ Claim(w) \/ Finish(w)
                                    \/ \E o \in Orders : SettleFails(w, o)
              \/ \E r \in Reapers : Reap(r)
              \/ \E j \in Jobs : Pass(j)
              \/ UNCHANGED book
       PROVE  NoReject'
  BY <1>1, <1>11 DEF Claim, Finish, SettleFails, Reap, Pass, book
<1>12. ASSUME \/ TestCreate
              \/ \E c \in Clients : \/ Submit(c) \/ SubmitFails(c)
                                    \/ \E o \in Orders : Submitted(c, o)
       PROVE  NoReject'
  <2>1. exec' = exec
    BY <1>12 DEF TestCreate, CreatePortfolio, T!CreatePortfolio, Submit, T!PlaceLookup,
                 SubmitFails, T!RequestFails, Submitted, Accept, T!PlaceInsert,
                 T!clientUnchanged
  <2> QED
    BY <1>1, <2>1
<1>13. ASSUME TestOnly \/ UNCHANGED testVars PROVE NoReject'
  <2>1. exec' = exec
    BY <1>13 DEF TestOnly, WaitFilled, Verdict, WaitResolved, testVars, vars, book
  <2> QED
    BY <1>1, <2>1
<1> HIDE DEF NoReject
<1>14. CASE System
  BY <1>4, <1>5, <1>7, <1>8, <1>9, <1>10, <1>11, <1>14, Zenon
  DEF System, WorkerStep, Handle, Execute, Fill, Return, Abort, Crash
<1> QED
  BY <1>12, <1>13, <1>14, Zenon DEF TestNext, Script, TestOnly

(***************************************************************************)
(* The verdict: when every sell got its id and its verdict, exactly one    *)
(* was filled.  One, because not all can have been rejected when nothing   *)
(* was sold, and the order that was sold is one of theirs; and not two,    *)
(* because there was one position to sell.                                 *)
(***************************************************************************)
LEMMA ResolvedSellsOnce ==
    ASSUME Testing, Resolved, Bought
    PROVE  Cardinality(Filled) = 1 /\ Position >= 0
<1>a. Flow /\ Sells /\ Answers /\ BuyReq # SellReq
  BY TwoRequests DEF Testing
<1>b. PICK f : OwnedBy(f)
  BY DEF Testing, Owned
<1>1. ASSUME NEW c \in Sellers
      PROVE  /\ ids[c] \in PlacedOrders /\ f[ids[c]] = c
             /\ orders[ids[c]].req = SellReq
  <2>1. ids[c] \in Orders
    BY <1>a DEF Resolved, Answers
  <2>2. c \in Clients /\ c # Buyer
    BY LoadTestAssumption
  <2> QED
    BY <1>b, <2>1, <2>2 DEF OwnedBy, RequestOf
<1>2. SoldOut
  <2>1. PICK c : c \in Sellers
    BY LoadTestAssumption
  <2>2. CASE seen[c] = "filled"
    BY <1>1, <1>a, <2>1, <2>2 DEF Answers, SoldOut
  <2>3. CASE seen[c] = "rejected"
    BY <1>1, <1>a, <2>1, <2>3 DEF Answers, Sells, PlacedOrders
  <2> QED
    BY <2>1, <2>2, <2>3 DEF Resolved
<1>3. PICK b \in Orders, s \in Orders : SoldBy(b, s)
  BY <1>2, <1>a DEF Flow, Holding, SoldOut
<1>4. s \in PlacedOrders /\ f[s] \in Sellers
  <2>1. s \in PlacedOrders
    BY <1>3 DEF SoldBy, PlacedOrders, Done, T!Placed
  <2>2. f[s] \in Clients /\ f[s] # Buyer
    BY <1>3, <1>a, <1>b, <2>1 DEF SoldBy, OwnedBy, RequestOf
  <2> QED
    BY <2>1, <2>2, LoadTestAssumption
<1>5. ids[f[s]] = s
  BY <1>1, <1>4, <1>b DEF OwnedBy
<1>6. seen[f[s]] = "filled"
  <2>1. orders[s].status # "rejected"
    BY <1>3 DEF SoldBy, Done
  <2> QED
    BY <1>4, <1>5, <1>a, <2>1 DEF Resolved, Answers
<1>7. ASSUME NEW c \in Filled PROVE c = f[s]
  <2>1. c \in Sellers /\ Done(ids[c])
    BY <1>a DEF Filled, Answers
  <2>2. ids[c] \in Orders /\ orders[ids[c]].req = SellReq
    BY <1>1, <2>1 DEF PlacedOrders
  <2>3. ids[c] = s
    BY <1>3, <1>a, <2>1, <2>2 DEF SoldBy
  <2> QED
    BY <1>1, <2>1, <2>3
<1>8. Filled = {f[s]}
  BY <1>4, <1>6, <1>7 DEF Filled
<1>9. Cardinality({f[s]}) = 1
  BY FS_Singleton
<1> QED
  BY <1>3, <1>8, <1>9 DEF SoldBy

(***************************************************************************)
(* When a sell was counted as filled, the position is sold out.            *)
(***************************************************************************)
LEMMA FilledMeansFlat ==
    ASSUME Testing, Filled # {}
    PROVE  Position = 0
<1>1. PICK c \in Sellers : seen[c] = "filled"
  BY DEF Filled
<1>2. ids[c] \in Orders /\ Done(ids[c])
  BY <1>1 DEF Testing, Answers
<1>3. PICK f : OwnedBy(f)
  BY DEF Testing, Owned
<1>4. c \in Clients /\ c # Buyer
  BY LoadTestAssumption
<1>5. orders[ids[c]].req = SellReq
  BY <1>2, <1>3, <1>4 DEF OwnedBy, RequestOf
<1>6. SoldOut
  BY <1>2, <1>5 DEF SoldOut
<1> QED
  BY <1>6, TwoRequests DEF Testing, Flow, Holding, SoldBy, SoldOut

\* What the test itself keeps, when the step is not one of its own.
LEMMA TestStays ==
    ASSUME [TestNext]_testVars
    PROVE  \/ step' = step /\ seen' = seen
           \/ TestCreate \/ WaitFilled \/ Verdict
           \/ \E c \in Sellers : WaitResolved(c)
BY Zenon DEF TestNext, Script, System, Submit, Submitted, SubmitFails, testVars

\* Seeing a status.
LEMMA WaitResolvedSees ==
    ASSUME TestTypes, NEW c \in Sellers, WaitResolved(c)
    PROVE  /\ step = "sell" /\ step' = step /\ ids' = ids /\ orders' = orders
           /\ seen' = [seen EXCEPT ![c] = seen'[c]]
           /\ seen'[c] \in {"filled", "rejected", "neither"}
           /\ seen'[c] = "filled" => ids[c] \in Orders /\ Done(ids[c])
           /\ seen'[c] = "rejected" => ids[c] \in Orders /\ orders[ids[c]].status = "rejected"
<1>1. PICK status \in {StatusOf(c), ""} : seen' = [seen EXCEPT ![c] = Counted(status)]
  BY DEF WaitResolved
<1>2. seen'[c] = Counted(status)
  BY <1>1 DEF TestTypes
<1>3. /\ Counted(status) \in {"filled", "rejected", "neither"}
      /\ Counted(status) = "filled" => status \in {"filled", "settled"}
      /\ Counted(status) = "rejected" => status = "rejected"
  BY DEF Counted
<1>4. ids[c] \in Orders \cup {NoOrder}
  BY DEF WaitResolved, Answered
<1>5. status \in {"filled", "settled", "rejected"} =>
         ids[c] \in Orders /\ orders[ids[c]].status = status
  BY <1>4 DEF StatusOf
<1>6. step = "sell" /\ step' = step /\ ids' = ids /\ orders' = orders
  BY DEF WaitResolved, vars, book
<1> QED
  BY <1>1, <1>2, <1>3, <1>5, <1>6 DEF Done

\* What was counted, over all steps.
LEMMA AnswersInductive ==
    ASSUME T!TypeOK, Testing, Moves, [TestNext]_testVars
    PROVE  Answers'
<1>a. /\ ids \in [Clients -> {"unsent", "sent", NoOrder} \cup Orders]
      /\ seen \in [Sellers -> {"unseen", "filled", "rejected", "neither"}]
      /\ Answers /\ Asking /\ DoneStays /\ TestTypes
      /\ \A o \in Orders : orders[o].status = "rejected" => orders'[o].status = "rejected"
      /\ Sellers \subseteq Clients
  BY VerdictsStay, LoadTestAssumption DEF Testing, TestTypes
<1>1. ASSUME NEW c \in Clients, ids[c] \in Orders PROVE ids'[c] = ids[c]
  <2>1. ASSUME ids' = ids \/ \E d \in Clients : Proceeds(d) PROVE ids'[c] = ids[c]
    BY <1>1, <1>a, <2>1, NoAnswers DEF Proceeds
  <2>2. ASSUME NEW d \in Clients, NEW o \in Orders, Submitted(d, o), Places(d, o)
        PROVE  ids'[c] = ids[c]
    <3>1. ids[d] = "sent"
      BY <1>a, <2>2 DEF Places, Asking
    <3>2. c # d
      BY <1>1, <3>1, NoAnswers
    <3> QED
      BY <1>a, <2>2, <3>2 DEF Submitted
  <2> QED
    BY <2>1, <2>2 DEF Moves
<1>2. CASE seen' = seen
  BY <1>1, <1>2, <1>a DEF Answers, DoneStays
<1>3. ASSUME NEW c \in Sellers, WaitResolved(c) PROVE Answers'
  <2>1. /\ ids' = ids /\ orders' = orders
        /\ \A d \in Sellers : d # c => seen'[d] = seen[d]
        /\ seen'[c] = "filled" => ids[c] \in Orders /\ Done(ids[c])
        /\ seen'[c] = "rejected" => ids[c] \in Orders /\ orders[ids[c]].status = "rejected"
    BY <1>3, <1>a, WaitResolvedSees
  <2> QED
    BY <1>a, <2>1 DEF Answers, Done
<1>4. TestCreate \/ WaitFilled \/ Verdict => seen' = seen
  BY DEF TestCreate, WaitFilled, Verdict
<1> QED
  BY <1>2, <1>3, <1>4, TestStays

\* Where the test is, over all steps.
LEMMA StepsInductive ==
    ASSUME T!TypeOK, Testing, Moves, [TestNext]_testVars
    PROVE  Steps'
<1>a. /\ Steps /\ TestTypes
      /\ Bought => Bought'
  BY VerdictsStay, DealsStay DEF Testing
<1>1. CASE step' = step /\ seen' = seen
  BY <1>a, <1>1 DEF Steps, Resolved, Filled
<1>2. CASE TestCreate
  <2>1. /\ \A c \in Sellers : seen'[c] = "unseen"
        /\ step' \in {"buy", "failed"}
    BY <1>a, <1>2 DEF TestCreate, Steps
  <2> QED
    BY <2>1, LoadTestAssumption DEF Steps, Resolved
<1>3. CASE WaitFilled
  <2>1. /\ \A c \in Sellers : seen'[c] = "unseen"
        /\ step' \in {"sell", "failed"}
        /\ step' = "sell" => StatusOf(Buyer) = "filled"
        /\ ids[Buyer] \in Orders \cup {NoOrder}
        /\ orders' = orders
    BY <1>a, <1>3 DEF WaitFilled, Steps, Answered, vars, book
  <2>2. ASSUME StatusOf(Buyer) = "filled" PROVE Bought
    <3>1. ids[Buyer] \in Orders /\ Done(ids[Buyer])
      BY <2>1, <2>2 DEF StatusOf, Done
    <3>2. PICK f : OwnedBy(f)
      BY DEF Testing, Owned
    <3>3. orders[ids[Buyer]].req = BuyReq
      BY <3>1, <3>2, LoadTestAssumption DEF OwnedBy, RequestOf
    <3> QED
      BY <3>1, <3>3 DEF Bought
  <2> QED
    BY <1>a, <2>1, <2>2, LoadTestAssumption DEF Steps, Resolved
<1>4. ASSUME NEW c \in Sellers, WaitResolved(c) PROVE Steps'
  BY <1>4, <1>a, WaitResolvedSees DEF Steps
<1>5. CASE Verdict
  <2>1. PICK position \in {0, T!Holdings(P)[S]} :
           step' = IF Cardinality(Filled) = 1 /\ position >= 0 THEN "passed" ELSE "failed"
    BY <1>5 DEF Verdict
  <2>2. step = "sell" /\ seen' = seen /\ Bought
    BY <1>5, <1>a DEF Verdict, Steps
  <2>3. Position = T!Holdings(P)[S]
    BY TestAsset DEF Position, T!Holdings
  <2>4. ASSUME Resolved PROVE step' = "passed"
    <3>1. Cardinality(Filled) = 1 /\ Position >= 0
      BY <2>2, <2>4, ResolvedSellsOnce
    <3> QED
      BY <2>1, <2>3, <3>1
  <2>5. ASSUME Filled = {} PROVE step' = "failed"
    <3>1. Cardinality(Filled) = 0
      BY <2>5, FS_EmptySet
    <3> QED
      BY <2>1, <3>1
  <2>6. step' \in {"passed", "failed"}
    BY <2>1
  <2>7. (Resolved' <=> Resolved) /\ Filled' = Filled
    BY <2>2 DEF Resolved, Filled
  <2> QED
    BY <2>4, <2>5, <2>6, <2>7 DEF Steps
<1> QED
  BY <1>1, <1>2, <1>3, <1>4, <1>5, TestStays

\* The test's own state is well typed.
LEMMA TypesInductive ==
    ASSUME TestTypes, [TestNext]_testVars
    PROVE  TestTypes'
<1>1. seen' \in [Sellers -> {"unseen", "filled", "rejected", "neither"}]
  <2>1. ASSUME NEW c \in Sellers, WaitResolved(c)
        PROVE  seen' \in [Sellers -> {"unseen", "filled", "rejected", "neither"}]
    BY <2>1, WaitResolvedSees DEF TestTypes
  <2>2. TestCreate \/ WaitFilled \/ Verdict => seen' = seen
    BY DEF TestCreate, WaitFilled, Verdict
  <2> QED
    BY <2>1, <2>2, TestStays DEF TestTypes
<1>2. ids' \in [Clients -> {"unsent", "sent", NoOrder} \cup Orders]
  <2>1. ASSUME NEW c \in Clients, NEW id \in {"sent", NoOrder} \cup Orders,
               ids' = [ids EXCEPT ![c] = id]
        PROVE  ids' \in [Clients -> {"unsent", "sent", NoOrder} \cup Orders]
    BY <2>1 DEF TestTypes
  <2>2. ASSUME NEW c \in Clients,
               Submit(c) \/ SubmitFails(c) \/ \E o \in Orders : Submitted(c, o)
        PROVE  \E id \in {"sent", NoOrder} \cup Orders : ids' = [ids EXCEPT ![c] = id]
    BY <2>2 DEF Submit, SubmitFails, Submitted
  <2>3. CASE ids' = ids
    BY <2>3 DEF TestTypes
  <2> QED
    BY <2>1, <2>2, <2>3, ClientsStay, Zenon DEF TestNext, Script, TestOnly
<1> QED
  BY <1>1, <1>2 DEF TestTypes

(***************************************************************************)
(* The inductive invariant of the load test, on top of those of the        *)
(* trading core and of the pipeline.                                       *)
(***************************************************************************)
LEMMA TestingInvariant ==
    "execute_order" \notin MayOverrun => (TestSpec => []Testing)
<1> SUFFICES ASSUME "execute_order" \notin MayOverrun PROVE TestSpec => []Testing
  OBVIOUS
<1>1. TestInit => Testing
  <2> SUFFICES ASSUME TestInit PROVE Testing
    OBVIOUS
  <2>1. /\ \A o \in Orders : orders[o].status = "none"
        /\ \A c \in Clients : client[c].pc = "idle" /\ ids[c] = "unsent"
        /\ \A w \in Workers : exec[w].pc = "idle"
        /\ \A c \in Sellers : seen[c] = "unseen"
        /\ entries[P] = <<>>
        /\ step = "create"
    BY LoadTestAssumption
    DEF TestInit, Init, T!Init, T!NoRow, T!IdleClient, T!IdleExec
  <2>2. TestTypes
    BY DEF TestTypes, TestInit
  <2>3. NoReject /\ Known /\ NoneCancelled /\ Asking /\ Sells /\ Answers /\ Steps
    BY <2>1 DEF NoReject, Known, NoneCancelled, Asking, Sells, Answers, Steps, T!Placed
  <2>4. Flow
    <3>1. Position = 0
      BY <2>1, BookAssumption, TP!NetEmpty, SameSums DEF Position
    <3> QED
      BY <2>1, <3>1 DEF Flow, Done
  <2>5. Owned
    <3>1. PlacedOrders = {}
      BY <2>1 DEF PlacedOrders, T!Placed
    <3>2. OwnedBy(<<>>)
      BY <2>1, <3>1, NoAnswers DEF OwnedBy
    <3> QED
      BY <3>2 DEF Owned
  <2> QED
    BY <2>2, <2>3, <2>4, <2>5 DEF Testing
<1>2. Bookkeeping /\ Verdicts /\ Testing /\ [TestNext]_testVars => Testing'
  <2> SUFFICES ASSUME Bookkeeping, Verdicts, Testing, [TestNext]_testVars PROVE Testing'
    OBVIOUS
  <2>1. T!TypeOK
    BY DEF Bookkeeping
  <2>2. Moves
    BY TestMoves DEF Testing
  <2>3. TestTypes' /\ NoReject'
    BY <2>1, TypesInductive, NoRejectInductive DEF Testing
  <2>4. Known' /\ NoneCancelled' /\ Sells' /\ Flow' /\ Owned'
    BY <2>1, <2>2, RowsInductive, FlowInductive, OwnedInductive
  <2>5. Asking' /\ Answers' /\ Steps'
    BY <2>1, <2>2, AskingInductive, AnswersInductive, StepsInductive
  <2> QED
    BY <2>3, <2>4, <2>5 DEF Testing
<1>3. Bookkeeping /\ Verdicts /\ Testing /\ [Script \/ System]_testVars => Testing'
  BY <1>2 DEF TestNext
<1>4. Spec => []Verdicts
  BY VerdictsInvariant
<1> QED
  BY <1>1, <1>3, <1>4, TestRunsPipeline, BookkeepingInvariant, PTL DEF TestSpec

(***************************************************************************)
(* The load test does not fail the system without cause: a run in which    *)
(* every sell got its id and its verdict does not fail, for any number of  *)
(* sells, workers, retries and crashes, while no lease runs out under a    *)
(* running ExecuteOrder.                                                   *)
(***************************************************************************)
THEOREM ResolvedRunPasses ==
    "execute_order" \notin MayOverrun => (TestSpec => []ResolvedTestPasses)
<1>1. Testing => ResolvedTestPasses
  BY DEF Testing, Steps, ResolvedTestPasses
<1> QED
  BY <1>1, TestingInvariant, PTL

(***************************************************************************)
(* Under the same assumption a test that passes has left no share behind,  *)
(* whatever answers were lost.                                             *)
(***************************************************************************)
THEOREM PassingRunIsFlat ==
    "execute_order" \notin MayOverrun => (TestSpec => []PassedMeansFlat)
<1>1. Testing => PassedMeansFlat
  <2> SUFFICES ASSUME Testing, step = "passed" PROVE T!Holdings(P)[S] = 0
    BY DEF PassedMeansFlat
  <2>1. Position = 0
    BY FilledMeansFlat DEF Testing, Steps
  <2> QED
    BY <2>1, TestAsset DEF T!Holdings, Position
<1> QED
  BY <1>1, TestingInvariant, PTL

=============================================================================
