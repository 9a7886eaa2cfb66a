------------------------------ MODULE LoadTest ------------------------------
(***************************************************************************)
(* The load test's check of trading under concurrency, run against the     *)
(* pipeline: open a portfolio, buy a position, wait for the fill, sell the *)
(* whole position several times at once, wait for the verdicts, look at    *)
(* the position.  Any answer may get lost and any wait may run out; the    *)
(* test is over long before a trade is due for settlement.                 *)
(***************************************************************************)
EXTENDS Pipeline

CONSTANTS
    P, S,         \* the test's portfolio, and the stock it trades
    Seed, Qty,    \* its cash and the size of the position
    Buyer,        \* the client that buys
    Sellers       \* the clients that sell, at the same time

VARIABLES
    step,   \* where concurrencyTest is, or its verdict
    ids,    \* what placeOrder returned to each client
    seen    \* how the answer of waitResolved was counted for each sell

testVars == <<vars, step, ids, seen>>

Request(side) ==
    [portfolio |-> P, side |-> side, inst |-> S, qty |-> Qty, type |-> "market",
     limit |-> 0]

ASSUME LoadTestAssumption ==
    /\ P \in Portfolios /\ S \in Stocks /\ Seed \in Seeds /\ Qty \in Nat \ {0}
    /\ Request("buy") \in Requests /\ Request("sell") \in Requests
    /\ Buyer \in Clients
    /\ Sellers = Clients \ {Buyer} /\ Sellers # {}
    /\ {"unsent", "sent"} \cap (Orders \cup {NoOrder}) = {}

TestInit ==
    /\ Init
    /\ step = "create"
    /\ ids = [c \in Clients |-> "unsent"]
    /\ seen = [c \in Sellers |-> "unseen"]

-----------------------------------------------------------------------------
(* concurrencyTest *)

\* The answer has the new id, or is lost.
TestCreate ==
    /\ step = "create"
    /\ CreatePortfolio(P, Seed)
    /\ step' \in {"buy", "failed"}
    /\ UNCHANGED <<ids, seen>>

Turn(c) == step = (IF c = Buyer THEN "buy" ELSE "sell")

\* placeOrder, by every client whose turn it is.
Submit(c) ==
    /\ Turn(c)
    /\ ids[c] = "unsent"
    /\ T!PlaceLookup(c, Request(step), NoKey)
    /\ ids' = [ids EXCEPT ![c] = "sent"]
    /\ UNCHANGED <<queue, step, seen>>

Submitted(c, o) ==
    /\ Accept(c, o)
    /\ \E id \in {o, NoOrder} : ids' = [ids EXCEPT ![c] = id]
    /\ UNCHANGED <<step, seen>>

SubmitFails(c) ==
    /\ T!RequestFails(c)
    /\ ids' = [ids EXCEPT ![c] = NoOrder]
    /\ UNCHANGED <<queue, step, seen>>

Answered(c) == ids[c] \in Orders \cup {NoOrder}

\* orderStatus: the empty string without an id.
StatusOf(c) == IF ids[c] = NoOrder THEN "" ELSE orders[ids[c]].status

\* waitFilled, until it sees the fill or gives up.
WaitFilled ==
    /\ step = "buy"
    /\ Answered(Buyer)
    /\ step' = IF StatusOf(Buyer) = "filled" THEN "sell" ELSE "failed"
    /\ UNCHANGED <<vars, ids, seen>>

\* The switch that counts fills and rejections.
Counted(status) ==
    CASE status \in {"filled", "settled"} -> "filled"
      [] status = "rejected" -> "rejected"
      [] OTHER -> "neither"

\* waitResolved, until it sees a status other than pending, gives up, or
\* loses an answer and takes the empty string for a status.
WaitResolved(c) ==
    /\ step = "sell"
    /\ \A d \in Sellers : Answered(d)
    /\ seen[c] = "unseen"
    /\ \E status \in {StatusOf(c), ""} :
          seen' = [seen EXCEPT ![c] = Counted(status)]
    /\ UNCHANGED <<vars, step, ids>>

Filled == {c \in Sellers : seen[c] = "filled"}

\* The last request reads the position, or is lost and leaves it 0.
Verdict ==
    /\ step = "sell"
    /\ \A c \in Sellers : seen[c] # "unseen"
    /\ \E position \in {0, T!Holdings(P)[S]} :
          step' = IF Cardinality(Filled) = 1 /\ position >= 0
                  THEN "passed" ELSE "failed"
    /\ UNCHANGED <<vars, ids, seen>>

Script ==
    \/ TestCreate
    \/ \E c \in Clients :
          \/ Submit(c)
          \/ \E o \in Orders : Submitted(c, o)
          \/ SubmitFails(c)
    \/ WaitFilled
    \/ \E c \in Sellers : WaitResolved(c)
    \/ Verdict

TestOver == step \in {"passed", "failed"}

\* The system's own steps; none is of interest when the test is over.
System ==
    /\ ~TestOver
    /\ \/ \E w \in Workers : WorkerStep(w) \/ Abort(w) \/ Crash(w)
       \/ \E r \in Reapers : Reap(r)
       \/ \E j \in Jobs : Kind(j) = "execute_order" /\ Pass(j)
    /\ UNCHANGED <<step, ids, seen>>

TestSpec == TestInit /\ [][Script \/ System]_testVars

-----------------------------------------------------------------------------
(* Properties *)

Resolved == \A c \in Sellers : seen[c] \in {"filled", "rejected"}

(***************************************************************************)
(* The load test never fails the system without cause: when every sell got *)
(* its id and its verdict in time, exactly one was filled and the test     *)
(* passes.  Two fills of one position, a fill that reads rejected or a     *)
(* negative position would fail it.                                        *)
(***************************************************************************)
ResolvedTestPasses == Resolved => step # "failed"

(***************************************************************************)
(* A test that passes has left exactly zero shares, as its comment says    *)
(* and its condition does not ask: whatever answers were lost, nothing was *)
(* bought or sold twice.                                                   *)
(***************************************************************************)
PassedMeansFlat == step = "passed" => T!Holdings(P)[S] = 0

=============================================================================
