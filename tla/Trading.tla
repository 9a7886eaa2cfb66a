------------------------------ MODULE Trading -------------------------------
(***************************************************************************)
(* The trading core: portfolios, the append-only entries table that        *)
(* balances are derived from, orders, and the code that runs against them  *)
(* concurrently: API handlers that place and cancel orders, and workers    *)
(* that execute and settle them.                                           *)
(*                                                                         *)
(* A handler is a sequence of steps, cut where it reads or writes shared   *)
(* state: every SQL statement outside a transaction, and inside one the    *)
(* acquisition of the portfolio's row lock, the writes and the commit.     *)
(* Which order a worker executes, and how often, is up to the job queue,   *)
(* which delivers at least once; module Pipeline puts the two together.    *)
(***************************************************************************)
EXTENDS Integers, Sequences, FiniteSets

CONSTANTS
    Portfolios,    \* portfolio ids
    Orders,        \* order ids
    Stocks,        \* instruments other than cash
    Cash,          \* the instrument "CASH"
    Workers,       \* worker goroutines
    Clients,       \* concurrent API requests
    Cancellers,    \* the clients that also cancel orders
    Readers,       \* concurrent requests for a portfolio's view
    Requests,      \* order requests clients submit
    Keys,          \* idempotency keys
    NoKey,         \* the empty idempotency key, stored as NULL
    NoRequest,     \* "no request in hand"
    NoOrder,       \* "no order in hand"
    NoPortfolio,   \* "no view in hand"
    NoView,        \* no view in the cache
    Free,          \* an unlocked portfolio row
    SeedTrade,     \* trade id of the seed entry
    Prices,        \* prices the market data provider may quote
    Seeds,         \* seed amounts
    Half,          \* machine integers are MachineInt, -Half..Half-1
    MaxClock       \* bound on the clock

Assets == Stocks \cup {Cash}

MachineInt == -Half .. Half-1
Amounts == 0 .. Half-1

ASSUME TradingAssumption ==
    /\ Cash \notin Stocks
    /\ NoOrder \notin Orders
    /\ NoPortfolio \notin Portfolios
    /\ NoRequest \notin Requests
    /\ SeedTrade \notin Orders
    /\ Free \notin Workers
    /\ NoKey \notin Keys
    /\ Cancellers \subseteq Clients
    /\ Requests \subseteq [portfolio : Portfolios, side : STRING, inst : Assets,
                           qty : MachineInt, type : STRING,
                           limit : MachineInt]
    /\ Prices \subseteq Amounts
    /\ Seeds \subseteq Amounts
    /\ Half \in Nat \ {0}
    /\ MaxClock \in Nat

VARIABLES
    opened,     \* portfolios that exist
    seqCounter, \* portfolios.seq_counter
    entries,    \* the event stream of each portfolio, in commit order
    orders,     \* the orders table
    settleJobs, \* orders with a settle job (written in the fill's transaction)
    lock,       \* holder of each portfolio's row lock
    exec,       \* each worker's ExecuteOrder call
    client,     \* each client's request
    conflicts,  \* keys whose submit was answered with a UNIQUE violation
    snapshot,   \* the cached view of each portfolio
    reader,     \* each reader's request
    clock       \* database time

vars == <<opened, seqCounter, entries, orders, settleJobs, lock, exec, client,
          conflicts, snapshot, reader, clock>>

-----------------------------------------------------------------------------
(* Machine integers and the derived view.                                  *)

\* int64 arithmetic: the result of an overflowing operation wraps around.
Wrap(x) == ((x + Half) % (2 * Half)) - Half

\* What an entry adds to the net quantity of an instrument.
Contribution(e, i) == IF e.inst = i THEN e.dir * e.qty ELSE 0

\* EntryRepository.Holdings: the sum over a stream, as a running total.
Net(s, i) ==
    LET total[k \in 0..Len(s)] ==
            IF k = 0 THEN 0 ELSE total[k - 1] + Contribution(s[k], i)
    IN  total[Len(s)]

Holdings(p) == [i \in Assets |-> Net(entries[p], i)]

\* SUM(...)::bigint fails when the sum is not a machine integer.
Fits(h) == \A i \in Assets : h[i] < Half

\* With as_of: only the entries whose created_at is not later than t.
HoldingsAsOf(p, t) ==
    LET UpTo(e) == e.at <= t
    IN  [i \in Assets |-> Net(SelectSeq(entries[p], UpTo), i)]

-----------------------------------------------------------------------------
(* Rows and local state.                                                   *)

NoRow == [status |-> "none", key |-> NoKey, req |-> NoRequest, fill |-> 0]

\* The program counters between taking the row lock and the commit.
InTx == {"write", "commit"}

\* No transaction has updated the order's row and not committed yet: an UPDATE
\* of the row by another connection waits for that.
OrderRowFree(o) == \A w \in Workers : exec[w].pc = "commit" => exec[w].order # o

Placed(o) == orders[o].status # "none"

SetStatus(o, status) == orders' = [orders EXCEPT ![o].status = status]

IdleExec == [pc |-> "idle", order |-> NoOrder, price |-> 0, at |-> 0,
             seq |-> 0, hold |-> [i \in Assets |-> 0]]

IdleClient == [pc |-> "idle", req |-> NoRequest, key |-> NoKey,
               order |-> NoOrder]

IdleReader == [portfolio |-> NoPortfolio, view |-> [i \in Assets |-> 0]]

ReaderReturns(r) == reader' = [reader EXCEPT ![r] = IdleReader]

ClientReturns(c) == client' = [client EXCEPT ![c] = IdleClient]

Init ==
    /\ opened = {}
    /\ seqCounter = [p \in Portfolios |-> 0]
    /\ entries = [p \in Portfolios |-> <<>>]
    /\ orders = [o \in Orders |-> NoRow]
    /\ settleJobs = {}
    /\ lock = [p \in Portfolios |-> Free]
    /\ exec = [w \in Workers |-> IdleExec]
    /\ client = [c \in Clients |-> IdleClient]
    /\ conflicts = {}
    /\ snapshot = [p \in Portfolios |-> NoView]
    /\ reader = [r \in Readers |-> IdleReader]
    /\ clock = 0

Tick ==
    /\ clock < MaxClock
    /\ clock' = clock + 1
    /\ UNCHANGED <<opened, seqCounter, entries, orders, settleJobs, lock, exec,
                   client, conflicts, snapshot, reader>>

-----------------------------------------------------------------------------
(* TradingService.CreatePortfolio: one transaction                         *)

\* trade stands for the order an entry was written for: the code draws a fresh
\* trade_id per trade, and no code reads it back.
SeedEntry(seed) ==
    [trade |-> SeedTrade, inst |-> Cash, dir |-> 1, qty |-> seed, price |-> 0,
     seq |-> 1, at |-> clock]

CreatePortfolio(p, seed) ==
    /\ p \notin opened
    /\ opened' = opened \cup {p}
    /\ entries' = [entries EXCEPT ![p] =
                     IF seed > 0 THEN <<SeedEntry(seed)>> ELSE <<>>]
    /\ seqCounter' = [seqCounter EXCEPT ![p] = IF seed > 0 THEN 1 ELSE 0]
    /\ UNCHANGED <<orders, settleJobs, lock, exec, client, conflicts, snapshot,
                   reader, clock>>

-----------------------------------------------------------------------------
(* TradingService.PlaceOrder                                               *)

\* An empty type has become "market" before this.
Valid(req) ==
    /\ req.side \in {"buy", "sell"}
    /\ req.type \in {"market", "limit"}
    /\ req.type = "limit" => req.limit > 0
    /\ req.qty > 0
    /\ req.inst # Cash

KeyTaken(key) == key # NoKey /\ \E o \in Orders : orders[o].key = key

clientUnchanged == <<opened, seqCounter, entries, settleJobs, lock, exec,
                     snapshot, reader, clock>>

\* The request is valid, its key is unknown and the portfolio exists: go on to
\* the insert.  In every other case PlaceOrder returns here, with an error or
\* with the original order, and nothing has changed.
PlaceLookup(c, req, key) ==
    /\ client[c].pc = "idle"
    /\ Valid(req)
    /\ ~KeyTaken(key)
    /\ req.portfolio \in opened
    /\ client' = [client EXCEPT ![c] = [IdleClient EXCEPT
                    !.pc = "insert", !.req = req, !.key = key]]
    /\ UNCHANGED <<orders, conflicts, clientUnchanged>>

\* Fault: no UNIQUE constraint on the key.
PlaceInsertNoUnique(c, o) ==
    LET req == client[c].req IN
    /\ client[c].pc = "insert"
    /\ ~Placed(o)
    /\ lock[req.portfolio] = Free
    /\ orders' = [orders EXCEPT ![o] =
                    [status |-> "pending", key |-> client[c].key, req |-> req,
                     fill |-> 0]]
    /\ ClientReturns(c)
    /\ UNCHANGED <<conflicts, clientUnchanged>>

\* The transaction that inserts the order (and its execute_order job).  The
\* foreign key makes it wait for the portfolio's row lock.
PlaceInsert(c, o) ==
    LET req == client[c].req IN
    /\ client[c].pc = "insert"
    /\ ~Placed(o)
    /\ lock[req.portfolio] = Free
    /\ ~KeyTaken(client[c].key)
    /\ orders' = [orders EXCEPT ![o] =
                    [status |-> "pending", key |-> client[c].key, req |-> req,
                     fill |-> 0]]
    /\ ClientReturns(c)
    /\ UNCHANGED <<conflicts, clientUnchanged>>

\* UNIQUE (idempotency_key) refuses the insert: the error goes to the client.
PlaceConflict(c) ==
    /\ client[c].pc = "insert"
    /\ KeyTaken(client[c].key)
    /\ conflicts' = conflicts \cup {client[c].key}
    /\ ClientReturns(c)
    /\ UNCHANGED <<orders, clientUnchanged>>

-----------------------------------------------------------------------------
(* TradingService.CancelOrder: a read that refuses orders which are not    *)
(* pending, then an unconditional update                                   *)

\* Fault: the order is not looked at.
CancelGetUnchecked(c, o) ==
    /\ client[c].pc = "idle"
    /\ client' = [client EXCEPT ![c] = [IdleClient EXCEPT
                    !.pc = "cancel", !.order = o]]
    /\ UNCHANGED <<orders, conflicts, clientUnchanged>>

CancelGet(c, o) ==
    /\ client[c].pc = "idle"
    /\ orders[o].status = "pending"
    /\ client' = [client EXCEPT ![c] = [IdleClient EXCEPT
                    !.pc = "cancel", !.order = o]]
    /\ UNCHANGED <<orders, conflicts, clientUnchanged>>

CancelSet(c) ==
    /\ client[c].pc = "cancel"
    /\ OrderRowFree(client[c].order)
    /\ SetStatus(client[c].order, "cancelled")
    /\ ClientReturns(c)
    /\ UNCHANGED <<conflicts, clientUnchanged>>

\* A statement fails or the request times out between the two steps.
RequestFails(c) ==
    /\ client[c].pc # "idle"
    /\ ClientReturns(c)
    /\ UNCHANGED <<orders, conflicts, clientUnchanged>>

-----------------------------------------------------------------------------
(* TradingService.ExecuteOrder                                             *)

execUnchanged == <<opened, client, conflicts, snapshot, reader, clock>>

\* The queue hands order o to worker w.
Delivered(w, o) ==
    /\ exec[w].pc = "idle"
    /\ Placed(o)

ExecGoto(w, pc) == exec' = [exec EXCEPT ![w].pc = pc]

Start(w, o, pc, price) ==
    exec' = [exec EXCEPT ![w] = [IdleExec EXCEPT !.pc = pc, !.order = o,
                                                 !.price = price]]

Unlocked(w) == [p \in Portfolios |-> IF lock[p] = w THEN Free ELSE lock[p]]

\* Idempotent no-op: the order is no longer pending.
ExecSkip(w, o) ==
    /\ Delivered(w, o)
    /\ orders[o].status # "pending"
    /\ Start(w, o, "ok", 0)
    /\ UNCHANGED <<orders, seqCounter, entries, settleJobs, lock, execUnchanged>>

\* Reading the order or looking up its price fails: retryable.
ExecReadFails(w, o) ==
    /\ Delivered(w, o)
    /\ Start(w, o, "err", 0)
    /\ UNCHANGED <<orders, seqCounter, entries, settleJobs, lock, execUnchanged>>

Marketable(req, quote) ==
    req.type = "limit" =>
        IF req.side = "buy" THEN quote <= req.limit ELSE quote >= req.limit

\* Fault: the status is not looked at.
ExecPricedAnyStatus(w, o, quote) ==
    LET req == orders[o].req IN
    /\ Delivered(w, o)
    /\ Start(w, o, IF Marketable(req, quote) THEN "begin" ELSE "reject",
             IF req.type = "limit" THEN req.limit ELSE quote)
    /\ UNCHANGED <<orders, seqCounter, entries, settleJobs, lock, execUnchanged>>

\* The order was pending when read, and is priced: a limit order at its limit.
ExecPriced(w, o, quote) ==
    LET req == orders[o].req IN
    /\ Delivered(w, o)
    /\ orders[o].status = "pending"
    /\ Start(w, o, IF Marketable(req, quote) THEN "begin" ELSE "reject",
             IF req.type = "limit" THEN req.limit ELSE quote)
    /\ UNCHANGED <<orders, seqCounter, entries, settleJobs, lock, execUnchanged>>

\* The limit is not marketable: an update of its own, outside a transaction.
ExecReject(w) ==
    /\ exec[w].pc = "reject"
    /\ OrderRowFree(exec[w].order)
    /\ SetStatus(exec[w].order, "rejected")
    /\ ExecGoto(w, "ok")
    /\ UNCHANGED <<seqCounter, entries, settleJobs, lock, execUnchanged>>

\* Fault: the order is marked filled outside the transaction, ahead of it.
ExecBeginFillsFirst(w) ==
    /\ exec[w].pc = "begin"
    /\ exec' = [exec EXCEPT ![w] = [@ EXCEPT !.pc = "lock", !.at = clock]]
    /\ orders' = [orders EXCEPT ![exec[w].order] =
                    [@ EXCEPT !.status = "filled", !.fill = exec[w].price]]
    /\ UNCHANGED <<seqCounter, entries, settleJobs, lock, execUnchanged>>

\* BEGIN: the created_at of everything the transaction inserts.
ExecBegin(w) ==
    /\ exec[w].pc = "begin"
    /\ exec' = [exec EXCEPT ![w] = [@ EXCEPT !.pc = "lock", !.at = clock]]
    /\ UNCHANGED <<orders, seqCounter, entries, settleJobs, lock, execUnchanged>>

\* Fault: a plain SELECT, which takes no lock and waits for none.
ExecLockNoWait(w) ==
    LET p == orders[exec[w].order].req.portfolio IN
    /\ exec[w].pc = "lock"
    /\ exec' = [exec EXCEPT ![w] = [@ EXCEPT
                    !.pc = "write", !.seq = seqCounter[p], !.hold = Holdings(p)]]
    /\ UNCHANGED <<orders, seqCounter, entries, settleJobs, lock, execUnchanged>>

\* SELECT ... FOR UPDATE returns the counter; then the holdings are summed.
\* A sum that does not fit a bigint is an error, and rolls back.
ExecLock(w) ==
    LET p == orders[exec[w].order].req.portfolio
        h == Holdings(p)
        fits == Fits(h)
    IN
    /\ exec[w].pc = "lock"
    /\ lock[p] = Free
    /\ lock' = IF fits THEN [lock EXCEPT ![p] = w] ELSE lock
    /\ exec' = [exec EXCEPT ![w] = [@ EXCEPT
                    !.pc = IF fits THEN "write" ELSE "err",
                    !.seq = seqCounter[p],
                    !.hold = h]]
    /\ UNCHANGED <<orders, seqCounter, entries, settleJobs, execUnchanged>>

\* order.Quantity * fillPrice
Cost(w) == Wrap(orders[exec[w].order].req.qty * exec[w].price)

Insufficient(w) ==
    LET req == orders[exec[w].order].req IN
    IF req.side = "buy" THEN exec[w].hold[Cash] < Cost(w)
    ELSE exec[w].hold[req.inst] < req.qty

Leg(w, inst, dir, qty, price, k) ==
    [trade |-> exec[w].order, inst |-> inst, dir |-> dir, qty |-> qty,
     price |-> price, seq |-> exec[w].seq + k, at |-> exec[w].at]

StockDir(req) == IF req.side = "buy" THEN 1 ELSE -1

\* Fault: both legs get the same sequence number.
LegsSameSeq(w) ==
    LET req == orders[exec[w].order].req IN
    << Leg(w, req.inst, StockDir(req), req.qty, exec[w].price, 1),
       Leg(w, Cash, -StockDir(req), Cost(w), 0, 1) >>

Legs(w) ==
    LET req == orders[exec[w].order].req IN
    << Leg(w, req.inst, StockDir(req), req.qty, exec[w].price, 1),
       Leg(w, Cash, -StockDir(req), Cost(w), 0, 2) >>

\* Entry.SignedValue
SignedValue(e) == Wrap(e.dir * (IF e.inst = Cash THEN e.qty
                                ELSE Wrap(e.qty * e.price)))

\* Fault: no CHECK (quantity > 0), so that a wrapped cost is inserted.
LegsBalance(legs) == Wrap(SignedValue(legs[1]) + SignedValue(legs[2])) = 0

\* The double-entry assertion, and CHECK (quantity > 0) on both inserts.
LegsAccepted(legs) ==
    /\ Wrap(SignedValue(legs[1]) + SignedValue(legs[2])) = 0
    /\ legs[1].qty > 0
    /\ legs[2].qty > 0

\* Not enough cash or shares: the transaction commits the rejection only.
ExecInsufficient(w) ==
    /\ exec[w].pc = "write"
    /\ Insufficient(w)
    /\ SetStatus(exec[w].order, "rejected")
    /\ ExecGoto(w, "ok")
    /\ lock' = Unlocked(w)
    /\ UNCHANGED <<seqCounter, entries, settleJobs, execUnchanged>>

\* The two legs, the counter, the status and the settle job are written, not
\* yet visible to others; then the cached view is dropped (a failing DEL is
\* ignored), ahead of the commit.
ExecWrite(w) ==
    LET p == orders[exec[w].order].req.portfolio IN
    /\ exec[w].pc = "write"
    /\ ~Insufficient(w)
    /\ LegsAccepted(Legs(w))
    /\ snapshot' \in {snapshot, [snapshot EXCEPT ![p] = NoView]}
    /\ ExecGoto(w, "commit")
    /\ UNCHANGED <<opened, seqCounter, entries, orders, settleJobs, lock, client,
                   conflicts, reader, clock>>

\* Fault: the cash leg is not inserted.
ExecFillOneLeg(w, result) ==
    LET o == exec[w].order
        p == orders[o].req.portfolio
    IN
    /\ exec[w].pc = "commit"
    /\ entries' = [entries EXCEPT ![p] = Append(@, Legs(w)[1])]
    /\ seqCounter' = [seqCounter EXCEPT ![p] = @ + 1]
    /\ orders' = [orders EXCEPT ![o] = [@ EXCEPT !.status = "filled",
                                                 !.fill = exec[w].price]]
    /\ settleJobs' = settleJobs \cup {o}
    /\ lock' = Unlocked(w)
    /\ ExecGoto(w, result)
    /\ UNCHANGED execUnchanged

\* Fault: the order's status is not updated with the fill.
ExecFillLeavesPending(w, result) ==
    LET p == orders[exec[w].order].req.portfolio IN
    /\ exec[w].pc = "commit"
    /\ entries' = [entries EXCEPT ![p] = @ \o Legs(w)]
    /\ seqCounter' = [seqCounter EXCEPT ![p] = @ + 2]
    /\ settleJobs' = settleJobs \cup {exec[w].order}
    /\ lock' = Unlocked(w)
    /\ ExecGoto(w, result)
    /\ UNCHANGED <<orders, execUnchanged>>

\* The fill commits.  result is "err" when the acknowledgement is lost.
ExecFill(w, result) ==
    LET o == exec[w].order
        p == orders[o].req.portfolio
    IN
    /\ exec[w].pc = "commit"
    /\ entries' = [entries EXCEPT ![p] = @ \o Legs(w)]
    /\ seqCounter' = [seqCounter EXCEPT ![p] = @ + 2]
    /\ orders' = [orders EXCEPT ![o] = [@ EXCEPT !.status = "filled",
                                                 !.fill = exec[w].price]]
    /\ settleJobs' = settleJobs \cup {o}
    /\ lock' = Unlocked(w)
    /\ ExecGoto(w, result)
    /\ UNCHANGED execUnchanged

\* The assertion or a CHECK fails: rollback.
ExecRefused(w) ==
    /\ exec[w].pc = "write"
    /\ ~Insufficient(w)
    /\ ~LegsAccepted(Legs(w))
    /\ ExecGoto(w, "err")
    /\ lock' = Unlocked(w)
    /\ UNCHANGED <<orders, seqCounter, entries, settleJobs, execUnchanged>>

\* Fault: the error path returns without a rollback.
ExecAbortKeepsLock(w) ==
    /\ exec[w].pc \in {"reject", "begin", "lock", "write", "commit"}
    /\ ExecGoto(w, "err")
    /\ UNCHANGED <<orders, seqCounter, entries, settleJobs, lock, execUnchanged>>

\* A statement fails: rollback.
ExecAbort(w) ==
    /\ exec[w].pc \in {"reject", "begin", "lock", "write", "commit"}
    /\ lock' = Unlocked(w)
    /\ ExecGoto(w, "err")
    /\ UNCHANGED <<orders, seqCounter, entries, settleJobs, execUnchanged>>

\* ExecuteOrder returns to Worker.process.
ExecReturn(w) ==
    /\ exec[w].pc \in {"ok", "err"}
    /\ exec' = [exec EXCEPT ![w] = IdleExec]
    /\ UNCHANGED <<orders, seqCounter, entries, settleJobs, lock, execUnchanged>>

\* The worker process dies; the database rolls its transaction back.
ExecCrash(w) ==
    /\ exec[w].pc # "idle"
    /\ exec' = [exec EXCEPT ![w] = IdleExec]
    /\ lock' = Unlocked(w)
    /\ UNCHANGED <<orders, seqCounter, entries, settleJobs, execUnchanged>>

-----------------------------------------------------------------------------
(* Worker.handleSettle, a day after the fill: requests are cut off after   *)
(* 30 seconds, so none that is still under way saw the order before it.    *)

Settle(w, o) ==
    /\ exec[w].pc = "idle"
    /\ o \in settleJobs
    /\ Placed(o)
    /\ \A v \in Workers : exec[v].order # o
    /\ \A c \in Clients : client[c].pc = "cancel" => client[c].order # o
    /\ IF orders[o].status = "filled" THEN SetStatus(o, "settled")
       ELSE orders' = orders
    /\ Start(w, o, "ok", 0)
    /\ UNCHANGED <<seqCounter, entries, settleJobs, lock, execUnchanged>>

-----------------------------------------------------------------------------
(* TradingService.Portfolio without as_of, when the cache has no view or   *)
(* cannot be read; a cached view is returned and changes nothing.          *)

ReadHoldings(r, p) ==
    /\ reader[r].portfolio = NoPortfolio
    /\ p \in opened
    /\ Fits(Holdings(p))
    /\ reader' = [reader EXCEPT ![r] = [portfolio |-> p, view |-> Holdings(p)]]
    /\ UNCHANGED <<opened, seqCounter, entries, orders, settleJobs, lock, exec,
                   client, conflicts, snapshot, clock>>

\* After pricing the positions: SetSnapshot.
ReadStore(r) ==
    /\ reader[r].portfolio # NoPortfolio
    /\ snapshot' = [snapshot EXCEPT ![reader[r].portfolio] = reader[r].view]
    /\ ReaderReturns(r)
    /\ UNCHANGED <<opened, seqCounter, entries, orders, settleJobs, lock, exec,
                   client, conflicts, clock>>

\* The request is cut off, or SetSnapshot fails, which is ignored.
ReadFails(r) ==
    /\ reader[r].portfolio # NoPortfolio
    /\ ReaderReturns(r)
    /\ UNCHANGED <<opened, seqCounter, entries, orders, settleJobs, lock, exec,
                   client, conflicts, snapshot, clock>>

\* The view's five seconds are over.
SnapshotExpires(p) ==
    /\ snapshot[p] # NoView
    /\ snapshot' = [snapshot EXCEPT ![p] = NoView]
    /\ UNCHANGED <<opened, seqCounter, entries, orders, settleJobs, lock, exec,
                   client, conflicts, reader, clock>>

-----------------------------------------------------------------------------
PlaceStep(c) ==
    \/ \E req \in Requests, key \in Keys \cup {NoKey} : PlaceLookup(c, req, key)
    \/ \E o \in Orders : PlaceInsert(c, o)
    \/ PlaceConflict(c)

CancelStep(c) == CancelSet(c) \/ \E o \in Orders : CancelGet(c, o)

StartStep(w) ==
    \E o \in Orders :
        \/ ExecSkip(w, o)
        \/ ExecReadFails(w, o)
        \/ \E quote \in Prices : ExecPriced(w, o, quote)
        \/ Settle(w, o)

ExecStep(w) ==
    \/ ExecReject(w)
    \/ ExecBegin(w)
    \/ ExecLock(w)
    \/ ExecInsufficient(w)
    \/ ExecWrite(w)
    \/ \E result \in {"ok", "err"} : ExecFill(w, result)
    \/ ExecRefused(w)
    \/ ExecReturn(w)

ReadStep(r) ==
    ReadStore(r) \/ ReadFails(r) \/ \E p \in Portfolios : ReadHoldings(r, p)

Next ==
    \/ Tick
    \/ \E p \in Portfolios, seed \in Seeds : CreatePortfolio(p, seed)
    \/ \E c \in Clients : PlaceStep(c) \/ RequestFails(c)
    \/ \E c \in Cancellers : CancelStep(c)
    \/ \E r \in Readers : ReadStep(r)
    \/ \E p \in Portfolios : SnapshotExpires(p)
    \/ \E w \in Workers :
          StartStep(w) \/ ExecStep(w) \/ ExecAbort(w) \/ ExecCrash(w)

Spec == Init /\ [][Next]_vars

-----------------------------------------------------------------------------
(* Properties *)

Entry == [trade : Orders \cup {SeedTrade}, inst : Assets, dir : {1, -1},
          qty : Amounts, price : MachineInt, seq : Nat, at : 0..MaxClock]

OrderRow == [status : {"none", "pending", "filled", "rejected", "cancelled",
                       "settled"},
             key : Keys \cup {NoKey}, req : Requests \cup {NoRequest},
             fill : MachineInt]

View == [Assets -> Int]

ExecState == [pc : {"idle", "reject", "begin", "lock", "ok", "err"} \cup InTx,
              order : Orders \cup {NoOrder}, price : MachineInt,
              at : 0..MaxClock, seq : Nat, hold : View]

ClientState == [pc : {"idle", "insert", "cancel"},
                req : Requests \cup {NoRequest}, key : Keys \cup {NoKey},
                order : Orders \cup {NoOrder}]

ReaderState == [portfolio : Portfolios \cup {NoPortfolio}, view : View]

(***************************************************************************)
(* Type correctness; the steps that use an order or a request have one.    *)
(***************************************************************************)
TypeOK ==
    /\ opened \subseteq Portfolios
    /\ seqCounter \in [Portfolios -> Nat]
    /\ entries \in [Portfolios -> Seq(Entry)]
    /\ orders \in [Orders -> OrderRow]
    /\ \A o \in Orders : Placed(o) => Valid(orders[o].req)
                                     /\ orders[o].req \in Requests
    /\ settleJobs \subseteq Orders
    /\ lock \in [Portfolios -> Workers \cup {Free}]
    /\ exec \in [Workers -> ExecState]
    /\ \A w \in Workers : exec[w].pc # "idle" =>
          exec[w].order \in Orders /\ Placed(exec[w].order)
    /\ client \in [Clients -> ClientState]
    /\ \A c \in Clients :
          /\ client[c].pc = "insert" => client[c].req \in Requests
                                        /\ Valid(client[c].req)
          /\ client[c].pc = "cancel" => client[c].order \in Orders
                                        /\ Placed(client[c].order)
    /\ conflicts \subseteq Keys
    /\ snapshot \in [Portfolios -> View \cup {NoView}]
    /\ reader \in [Readers -> ReaderState]
    /\ clock \in 0..MaxClock

(***************************************************************************)
(* The row lock: a transaction that has read the counter and the holdings  *)
(* holds its portfolio's lock, and what it read is still what is there.    *)
(* The insufficient-funds test and the sequence numbers rest on this.      *)
(***************************************************************************)
WritersHoldTheLock ==
    \A w \in Workers : exec[w].pc \in InTx =>
        LET p == orders[exec[w].order].req.portfolio IN
        /\ lock[p] = w
        /\ exec[w].hold = Holdings(p)
        /\ exec[w].seq = seqCounter[p]

(***************************************************************************)
(* Solvency: no interleaving of executions, duplicate deliveries, crashes, *)
(* cancellations or overflowing costs takes a derived balance below zero.  *)
(***************************************************************************)
Solvent == \A p \in Portfolios, i \in Assets : Holdings(p)[i] >= 0

(***************************************************************************)
(* The audit trail has no gap and no duplicate: the entries of a portfolio *)
(* are numbered 1, 2, 3, ... in the order they were committed, and the     *)
(* counter is the last number.                                             *)
(***************************************************************************)
DenseLedger ==
    \A p \in Portfolios :
        /\ seqCounter[p] = Len(entries[p])
        /\ \A k \in 1..Len(entries[p]) : entries[p][k].seq = k

StockLegOf(o, p, k) == entries[p][k].trade = o /\ entries[p][k].inst # Cash

Traded(o) ==
    \E p \in Portfolios : \E k \in 1..Len(entries[p]) : StockLegOf(o, p, k)

(***************************************************************************)
(* Double entry: every trade is a stock leg followed by a cash leg of the  *)
(* same order in the opposite direction, and the cash moved is exactly     *)
(* quantity times price, whenever that product fits a machine word.        *)
(***************************************************************************)
BalancedTrades ==
    \A p \in Portfolios : \A k \in 1..Len(entries[p]) :
        LET leg == entries[p][k] IN
        leg.inst # Cash =>
            /\ k < Len(entries[p])
            /\ LET cash == entries[p][k + 1] IN
               /\ cash.inst = Cash
               /\ cash.trade = leg.trade
               /\ cash.dir = -leg.dir
               /\ leg.qty * leg.price < Half => cash.qty = leg.qty * leg.price

(***************************************************************************)
(* An order that reads filled or settled was really traded, in its own     *)
(* portfolio, for its instrument, side, quantity and recorded fill price.  *)
(***************************************************************************)
FilledHasTrade ==
    \A o \in Orders : orders[o].status \in {"filled", "settled"} =>
        LET req == orders[o].req IN
        \E k \in 1..Len(entries[req.portfolio]) :
            LET e == entries[req.portfolio][k] IN
            /\ e.trade = o
            /\ e.inst = req.inst
            /\ e.dir = StockDir(req)
            /\ e.qty = req.qty
            /\ e.price = orders[o].fill

(***************************************************************************)
(* An order is filled at most once, however often it is delivered.         *)
(***************************************************************************)
FilledAtMostOnce ==
    \A o \in Orders, p, q \in Portfolios :
        \A k \in 1..Len(entries[p]), l \in 1..Len(entries[q]) :
            StockLegOf(o, p, k) /\ StockLegOf(o, q, l) => p = q /\ k = l

(***************************************************************************)
(* Cancellation is final: an order whose cancellation was acknowledged to  *)
(* the client is not traded.                                               *)
(***************************************************************************)
CancelledNeverTrades ==
    \A o \in Orders : orders[o].status = "cancelled" => ~Traded(o)

(***************************************************************************)
(* One order per idempotency key, whichever submits race; and a submit     *)
(* that was refused for its key can be repeated, since the order is there. *)
(***************************************************************************)
OneOrderPerKey ==
    /\ \A o1, o2 \in Orders :
          (orders[o1].key = orders[o2].key /\ orders[o1].key # NoKey) => o1 = o2
    /\ \A key \in conflicts : KeyTaken(key)

(***************************************************************************)
(* The point-in-time view shows states the portfolio was in: no balance is *)
(* negative as of any past time.                                           *)
(***************************************************************************)
PastIsSolvent ==
    \A p \in Portfolios, t \in 0..MaxClock, i \in Assets :
        t <= clock => HoldingsAsOf(p, t)[i] >= 0

(***************************************************************************)
(* A cached view may be late, but it is whole: it is the portfolio as it   *)
(* was before some trade or is now, never one that shows the shares of a   *)
(* trade without its cash, whatever readers, fills and lost deletes race.  *)
(***************************************************************************)
BetweenTrades(p, k) == k = 0 \/ entries[p][k].inst = Cash

CachedViewIsWhole ==
    \A p \in Portfolios : snapshot[p] # NoView =>
        \E k \in 0..Len(entries[p]) :
            /\ BetweenTrades(p, k)
            /\ snapshot[p] = [i \in Assets |-> Net(SubSeq(entries[p], 1, k), i)]

(***************************************************************************)
(* The derived balances behave as an account that only whole, affordable   *)
(* trades change.                                                          *)
(***************************************************************************)
Account == INSTANCE Ledger WITH bal <- [p \in Portfolios |-> Holdings(p)]

ImplementsLedger == Account!Spec

=============================================================================
