----------------------------- MODULE MarketData -----------------------------
(***************************************************************************)
(* The market data service: a read-through cache of quotes over a provider *)
(* whose prices move.  API requests ask for one quote, for the list of all *)
(* stocks or for the top movers; the poller forces refreshes.  One step is *)
(* one call of Redis or of the provider, and any number of requests may be *)
(* between two of them.                                                    *)
(***************************************************************************)
EXTENDS Integers, Sequences, FiniteSets, SequencesExt

CONSTANTS
    Symbols,     \* symbols asked for
    Universe,    \* the listed symbols, in the provider's order
    Rank,        \* the place of a symbol in alphabetical order
    PrevClose,   \* reference price of each listed symbol
    Prices,      \* live prices; zero stands for "no live data"
    Requests,    \* API request goroutines
    Pollers,     \* goroutines that run handlePollQuotes
    Limits,      \* limits that /stocks/trending may be asked for
    QuoteTtl,    \* how long a quote stays cached
    MaxDelay,    \* longest time from the provider's price to the cached quote
    MaxTime,     \* bound: the last instant of a behaviour
    NoQuote      \* nothing is cached

Tasks == Requests \cup Pollers

Listed == ToSet(Universe)

ASSUME MarketDataAssumption ==
    /\ Universe \in Seq(Symbols) /\ Universe # <<>> /\ IsInjective(Universe)
    /\ Rank \in [Symbols -> Nat]
    /\ \A s, t \in Symbols : Rank[s] = Rank[t] => s = t
    /\ PrevClose \in [Listed -> Nat \ {0}]
    /\ Prices \subseteq Nat
    /\ Limits \subseteq Nat
    /\ {QuoteTtl, MaxDelay, MaxTime} \subseteq Nat
    /\ Requests \cap Pollers = {}

VARIABLES
    cache,  \* the quote cached for each symbol
    clock,  \* the time
    task    \* each goroutine's program counter and local values

vars == <<cache, clock, task>>

-----------------------------------------------------------------------------
(* The provider.                                                           *)

\* What the provider may answer: the market moves freely.  Without live data
\* it falls back to the reference price, which only listed symbols have.
ProviderQuotes(s) ==
    {price \in Prices : price > 0} \cup
      (IF 0 \in Prices /\ s \in Listed THEN {PrevClose[s]} ELSE {})

-----------------------------------------------------------------------------
(* Ranking.                                                                *)

Abs(n) == IF n < 0 THEN -n ELSE n

\* A row of the list: a price beside the reference close.
Row(s, price) == [symbol |-> s, price |-> price,
                  prev |-> IF s \in Listed THEN PrevClose[s] ELSE price]

\* Fault: losers are ranked below winners.
MovesSigned(row, other) ==
    (row.price - row.prev) * other.prev > (other.price - other.prev) * row.prev

\* The day-change of row, in percent of its close, is the larger one.
Moves(row, other) ==
    Abs(row.price - row.prev) * other.prev
      > Abs(other.price - other.prev) * row.prev

Before(row, other) ==
    \/ Moves(row, other)
    \/ ~Moves(other, row) /\ Rank[row.symbol] < Rank[other.symbol]

\* The rows one before the other.
Sorted(rows) ==
    CHOOSE order \in [1 .. Cardinality(rows) -> rows] :
        \A i, j \in 1 .. Cardinality(rows) : i < j => Before(order[i], order[j])

\* The top movers, or, without a limit, the rows as they were collected.
Answer(rows, limit) ==
    LET sorted == Sorted(ToSet(rows)) IN
    IF limit = 0 THEN rows
    ELSE IF limit < Len(rows) THEN SubSeq(sorted, 1, limit)
    ELSE sorted

-----------------------------------------------------------------------------
(* The state.                                                              *)

Idle == [pc |-> "idle"]

\* A goroutine that has the symbols of todo still to ask for.
Asking(pc, todo, rows, limit) ==
    [pc |-> pc, todo |-> todo, rows |-> rows, limit |-> limit]

Init ==
    /\ cache = [s \in Symbols |-> NoQuote]
    /\ clock = 0
    /\ task = [t \in Tasks |-> Idle]

-----------------------------------------------------------------------------
(* One symbol after the other, through the cache.                          *)

\* GET /v1/quotes/{symbol}, and Refresh for the poller, ask for one symbol.
AskOne(t, s) ==
    /\ task[t].pc \in {"idle", "answered"}
    /\ task' = [task EXCEPT ![t] = Asking(IF t \in Pollers THEN "fetch" ELSE "get",
                                          <<s>>, <<>>, 0)]
    /\ UNCHANGED <<cache, clock>>

\* GET /v1/stocks and /v1/stocks/trending ask for all of them.
AskAll(t, limit) ==
    /\ t \in Requests
    /\ task[t].pc \in {"idle", "answered"}
    /\ task' = [task EXCEPT ![t] = Asking("get", Universe, <<>>, limit)]
    /\ UNCHANGED <<cache, clock>>

\* Fault: the end of the list is not noticed.
AdvancePastEnd(t, rows) ==
    LET rest == Tail(task[t].todo) IN
    task' = [task EXCEPT ![t] = Asking("get", rest, rows, @.limit)]

\* On to the next symbol, or to the answer.
Advance(t, rows) ==
    LET rest == Tail(task[t].todo) IN
    task' = [task EXCEPT ![t] =
               IF rest # <<>> THEN Asking("get", rest, rows, @.limit)
               ELSE IF t \in Pollers THEN Idle
               ELSE [pc |-> "answered", all |-> rows,
                     answer |-> Answer(rows, @.limit), limit |-> @.limit]]

\* GetQuote: an error of Redis is treated as a miss.
Hit(t) ==
    LET s == Head(task[t].todo) IN
    /\ task[t].pc = "get"
    /\ cache[s] # NoQuote
    /\ Advance(t, Append(task[t].rows, Row(s, cache[s].price)))
    /\ UNCHANGED <<cache, clock>>

Miss(t) ==
    /\ task[t].pc = "get"
    /\ task' = [task EXCEPT ![t].pc = "fetch"]
    /\ UNCHANGED <<cache, clock>>

Fetch(t) ==
    LET s == Head(task[t].todo) IN
    /\ task[t].pc = "fetch"
    /\ \E price \in ProviderQuotes(s) :
         task' = [task EXCEPT ![t] =
                    [pc |-> "store", todo |-> @.todo, rows |-> @.rows,
                     limit |-> @.limit, price |-> price, asOf |-> clock]]
    /\ UNCHANGED <<cache, clock>>

\* The provider fails or has no price: the symbol is skipped.
FetchFails(t) ==
    /\ task[t].pc = "fetch"
    /\ Advance(t, task[t].rows)
    /\ UNCHANGED <<cache, clock>>

\* Fault: the quote is cached for good.
LifetimeUnbounded == MaxTime + 1

Lifetime == QuoteTtl

Answered(t) == Append(task[t].rows, Row(Head(task[t].todo), task[t].price))

Store(t) ==
    LET s == Head(task[t].todo) IN
    /\ task[t].pc = "store"
    /\ cache' = [cache EXCEPT ![s] = [price |-> task[t].price, asOf |-> task[t].asOf,
                                      expires |-> clock + Lifetime]]
    /\ Advance(t, Answered(t))
    /\ UNCHANGED clock

\* SetQuote fails: a request answers all the same.
StoreFails(t) ==
    /\ task[t].pc = "store"
    /\ Advance(t, Answered(t))
    /\ UNCHANGED <<cache, clock>>

-----------------------------------------------------------------------------

\* Redis drops quotes whose time is over.  No fetched quote waits longer than
\* MaxDelay for its SetQuote.
Tick ==
    /\ clock < MaxTime
    /\ \A t \in Tasks : task[t].pc = "store" => clock - task[t].asOf < MaxDelay
    /\ clock' = clock + 1
    /\ cache' = [s \in Symbols |->
                   IF cache[s] # NoQuote /\ clock' > cache[s].expires
                     THEN NoQuote ELSE cache[s]]
    /\ UNCHANGED task

TaskStep(t) ==
    \/ \E s \in Symbols : AskOne(t, s)
    \/ \E limit \in Limits \cup {0} : AskAll(t, limit)
    \/ Hit(t) \/ Miss(t) \/ Fetch(t) \/ FetchFails(t) \/ Store(t) \/ StoreFails(t)

Next ==
    \/ \E t \in Tasks : TaskStep(t)
    \/ Tick

Spec == Init /\ [][Next]_vars

-----------------------------------------------------------------------------
(* Properties.                                                             *)

\* Quotes, cached or in hand, are prices the provider can give.
TypeOK ==
    LET Possible == UNION {ProviderQuotes(s) : s \in Symbols} IN
    /\ clock \in 0 .. MaxTime
    /\ cache \in [Symbols -> {NoQuote} \cup
                    [price : Possible, asOf : 0 .. clock, expires : Nat]]
    /\ \A t \in Tasks :
         /\ task[t].pc \in {"idle", "get", "fetch", "store", "answered"}
         /\ task[t].pc = "store" => task[t].price \in Possible
         /\ task[t].pc \in {"get", "fetch", "store"} => task[t].todo # <<>>

\* However requests and refreshes overwrite each other's quotes, a quote is
\* served for no longer than its time to live after it was taken, plus the
\* time a slow writer may sit on it.
CachedQuoteIsRecent ==
    \A s \in Symbols :
        cache[s] # NoQuote => clock - cache[s].asOf <= QuoteTtl + MaxDelay

\* The movers answered are the first ones of all that were collected: a row
\* is in place i exactly if i - 1 rows move more, or as much with a symbol
\* that sorts before it.
TrendingIsTop ==
    \A t \in Requests :
        (task[t].pc = "answered" /\ task[t].limit > 0) =>
            LET all == ToSet(task[t].all)
                answer == task[t].answer
                better(row) == {other \in all \ {row} :
                                  \/ Abs(other.price - other.prev) * row.prev
                                       > Abs(row.price - row.prev) * other.prev
                                  \/ /\ Abs(other.price - other.prev) * row.prev
                                          = Abs(row.price - row.prev) * other.prev
                                     /\ Rank[other.symbol] < Rank[row.symbol]}
            IN  /\ Len(answer) = IF task[t].limit < Cardinality(all)
                                   THEN task[t].limit ELSE Cardinality(all)
                /\ \A i \in 1 .. Len(answer) :
                     answer[i] \in all /\ Cardinality(better(answer[i])) = i - 1

=============================================================================
