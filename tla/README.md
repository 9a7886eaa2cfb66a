# Bourse: a TLA+ model of the trading platform

Bourse is a paper-trading backend in Go: an HTTP API and a pool of worker
processes over one Postgres database (ledger, orders, job queue, alerts) and one
Redis (rate-limit buckets, cached quotes, cached portfolio views). This directory
holds TLA+ modules of its core, the TLC configurations that check them on small
instances, and proofs, checked by TLAPS, of the theorems that matter most.

Paths below are relative to `src/Bourse/`.

## The system and where it is hard

| Part | State | Operations | What is hard |
| --- | --- | --- | --- |
| Job queue (`internal/repository/job_repository.go`) | tables `jobs`, `dead_letters` | Enqueue, Claim, Complete, Retry, MoveToDead, ReapExpired, Replay | statements commit one by one; MoveToDead and ReapExpired are two statements each; a lease may run out under a running worker |
| Worker (`internal/worker/worker.go`) | the claimed row in local memory | loop, process, reaper, four handlers | decisions from a stale copy; a crash between any two statements |
| Trading (`internal/service/trading_service.go`) | `portfolios`, `entries`, `orders` | CreatePortfolio, PlaceOrder, ExecuteOrder, CancelOrder, Portfolio | at-least-once delivery, row locks, lost commit acknowledgements, int64 overflow, cache filled by racing readers |
| Poller and alerts (`worker.go`, `internal/service/alert_service.go`) | `alerts`, the recurring `poll_quotes` job, `alert_webhook` jobs | seedPoller, handlePollQuotes, handleAlertWebhook, Create | check-then-enqueue at start-up; a chain that must re-arm itself for ever; enqueue and mark in two statements |
| Market data (`internal/service/marketdata_service.go`, `internal/cache`) | one cached quote per symbol | Quote, Stocks, Trending, Refresh | slow writers overwrite newer quotes |
| Rate limiter (`internal/ratelimit`, `internal/middleware`) | per key: configuration, bucket | Allow, SetConfig | time stamped before an atomic script; keys that expire; limits changed under way; fail-open |

The parts meet in these places: PlaceOrder inserts the order and its
`execute_order` job in one transaction; the queue delivers jobs to ExecuteOrder,
at least once and possibly twice at the same time; ExecuteOrder enqueues a
delayed `settle` job; the poll enqueues webhooks and the next poll; executions
and views take quotes from the market data service; every API request passes
the limiter first.

What makes each part correct: no accepted job is lost and every job ends; an
order trades at most once, a portfolio never goes negative and its audit trail is
dense and balanced; the poll never dies out and a crossed alert is told; quotes
are recent and the movers rightly ranked; a key gets its rate and no more, and
no less.

## Modules

| Module | Models | Notes |
| --- | --- | --- |
| `JobQueue` | queue, worker loop, reaper, replay | one step per SQL statement or handler return |
| `JobLifecycle` | what the queue promises of a job | abstract specification, refined by `JobQueue` |
| `JobQueueProofs` | | theorems about `JobQueue` |
| `Ledger` | what the trading core promises of balances | abstract specification |
| `Trading` | trading service, its tables and row locks, settle handler, view cache | one step per transaction boundary, lock or read whose result is used later; refines `Ledger` |
| `TradingProofs` | | theorems about `Trading` |
| `Pipeline` | an order's way through both: acceptance, its job, execution, settlement | composes `JobQueue` and `Trading` |
| `PipelineProofs` | | theorems about `Pipeline`, from those about its parts |
| `LoadTest` | `concurrencyTest` of `loadtest/main.go` | a client program run against `Pipeline` |
| `LoadTestProofs` | | theorems about `LoadTest`, from those about `Pipeline` |
| `Polling` | seedPoller, handlePollQuotes, handleAlertWebhook, alerts | uses the queue as its handlers see it |
| `PollingProofs` | | theorems about `Polling` |
| `MarketData` | quote cache, Quote, Stocks, Trending, Refresh | the provider's prices are any |
| `MarketDataProofs` | | theorems about `MarketData` |
| `RateLimiter` | both scripts, configuration, middleware | one API key; keys share nothing |
| `RateLimiterProofs` | | theorems about `RateLimiter` |
| `MC*` | | constants for TLC |

Operators headed `Fault:` are altered forms of the definition that follows them.
No specification uses them; they serve to show that a property notices the
mistake (`mutants` in PROJECT.json).

### JobQueue

`jobs` is a function from ids to rows (`absent` when there is none), `dead` the
ids in `dead_letters`. A lease is `held`, `expired` or `none` instead of a time;
`run_at` is `past` or `future`. `worker[w]` is the goroutine's program counter and
its copy of the row. MoveToDead is `BuryInsert` and `BuryDelete`; ReapExpired is
`ReapDead` and `ReapRequeue`; `Interrupt` is a crash or a failed statement at any
of the worker's steps. `Overruns` names the jobs whose handlers may outlive their
lease; properties about ownership speak of the other jobs (`Leased`), the rest of
all jobs. `InGap` is the case in which a lease that runs out between the reaper's
two statements gives a job whose attempts are used up one run more; the row's
`gaps` counts how often that happened, and `MaxGaps` bounds it.

### Trading

`entries[p]` is the committed event stream; holdings are never stored but folded
from it (`Net`), as EntryRepository.Holdings does. Machine words have `2 * Half`
values; `Wrap` is Go's multiplication and addition, `Fits` the cast of a SUM back
to bigint. ExecuteOrder is split where another process can get in between: status
read and price (`ExecPriced`), BEGIN (`ExecBegin`, which fixes `created_at`), the
row lock with holdings and counter (`ExecLock`), the inserts up to the commit
(`ExecWrite`), the commit itself (`ExecFill`), whose acknowledgement may be lost
(`result`). The transaction's own writes become visible at the commit, so they
are one step there. The view cache is filled by `ReadHoldings`/`ReadStore` and
dropped before the commit, as in the code. A quote is any member of `Prices`, or
the lookup fails.

### Pipeline

An order's `execute_order` job and its `settle` jobs are `<<kind, order, n>>`; the
two components keep their own variables and take steps together where the code
makes them one: `Accept` (one transaction inserts order and job), `Fill` (the
transaction of the fill inserts the settle job), `Return` (what the handler returns
decides between Complete, Retry and MoveToDead), `Crash` (the worker dies with its
transaction). A handler runs only for the job that its worker has in hand, so
redelivery and overlap are not assumed: they follow from leases, crashes, retries and
replays. `MayOverrun` names the kinds of jobs whose handler may outlive its lease.
`Pipeline` has no readers: nothing in it reads the cached view.

### LoadTest

`step` is where the test is, `ids` what placeOrder returned to each goroutine, `seen`
how each verdict was counted. `post` and `get` drop their errors, so every answer may
be lost and then reads as an empty id, an empty status or position 0; every wait may
run out. The test is over before a settle job is due (24 hours).

### Polling

`polls` gives each `poll_quotes` job's status; done jobs give their id back, but
only once no worker has it in hand. A process is down, seeding, idle or in a step
of a handler; its local values are the symbols left to refresh, the prices map
and the listed alerts. Crashes, failed statements, failed refreshes and leases
that run out under a running worker are faults and counted against `MaxFaults`.
A webhook waiting for its next attempt is `delayed`: polls are claimed past it, until
it comes due, and then it goes before all of them.

### MarketData

A goroutine works through a list of symbols: one for `/quotes/{symbol}` and for
Refresh, all for `/stocks` and `/stocks/trending`. `asOf` is the time of the
provider's answer; Redis drops a quote `QuoteTtl` after SetQuote. The day-change
is compared by cross-multiplication instead of in floating point.

### RateLimiter

Time is in milliseconds, `Second` of them to the second. GetConfig, the time stamp and
the script are separate steps: scripts run in any order, whatever their stamps, and two
requests of a millisecond may draw the same member (`Drawn`). A script on a key of the
other mode's type fails before it writes, and the middleware fails open.

The token script counts in doubles. The unit of tokens is the largest error that
one refill can make, and a millisecond at one token per second refills `Grain` of
them; `TokenRoundings` gives the errors a refill may make (one unit either way, none
when nothing is refilled, and none across a whole number of tokens after whole
seconds), `TokenResets` the waits that follow from a difference rounded too. The
script's arithmetic has no other rounding that matters: the error is far
below a token, and the model's grain far coarser than a double's.

History variables say what the limits are measured against. `grants.since[s]` counts the
requests let through with stamp `s` or a later one, those that passed over a bucket
of the other type included (`open` is the first stamp after them); `extra[s]` counts
what scripts gave beyond the limit since `s` (`Surplus`): the refill of an interval
that an overtaking script had refilled before, a refill rounded up, or a request whose
member was already in the window; `lost[s]` counts refills rounded down. `from` is when the
configuration was set, and `regime` remembers whether it has changed and whether a script
ran with an outdated one, upon which the history is given up.

## Runs

All runs finish within a few minutes on two cores.

| Run | Instance | Shows |
| --- | --- | --- |
| `JobQueueFaults` | 2 jobs (one overruns its lease, one is delayed), 2 workers, 1 reaper, 1 replay, at most 4 claims of a job, one last lease that runs out between the reaper's statements (`MaxGaps`) | `NoLostJob`, `BuryIsExclusive`, `OneTable`; ownership, attempts and finality of the job whose lease lasts (`LeaseExclusive`, `AttemptsWithinMax`, `DoneIsFinal`) and its life cycle (`ImplementsLifecycle`); `EveryJobResolved` and `ExpiredLeaseRecovered` under fairness |
| `Trading` | 2 orders; on one portfolio 2 workers with overlapping deliveries and a client that also cancels, on the other 2 clients with one key, 1 worker, 1 reader and a moving clock (`OneRace`) | `WritersHoldTheLock`, `Solvent`, `DenseLedger`, `BalancedTrades`, `FilledHasTrade`, `CachedViewIsWhole`, `OneOrderPerKey` |
| `Pipeline` | 1 order, 2 workers, 1 reaper, a client that also cancels, 2 attempts, 1 replay, costs beyond the machine word, leases that outlive the handlers | `FilledAtMostOnce`, `TradedReadsFilled`, `NoStrandedOrder`, `VerdictStands`, `ImplementsLedger`; `EveryOrderDecided` and `EveryFillSettled` under fairness |
| `LoadTest` | a buy and 2 concurrent sells of the position, 2 workers, 1 reaper, 1 job delivered twice (`FewRedelivered`) | `ResolvedTestPasses`, `PassedMeansFlat` |
| `RateLimiter` | 2 concurrent requests, 2 members, the default, a larger bucket and a window, 5 ms of 2 ms seconds, 3 requests let through under a configuration (`MaxGrants`) | `TokenMath`, `WindowMath`, `RefusalsAreFair`, `RetryAfterSuffices` |
| `Polling` | 2 processes, 1 alert, 2 prices, 1 fault | `PollerNeverDies`, `TriggeredHasWebhook`, `DoneWasReceived`, `CrossedAlertIsTold` |
| `MarketData` | 1 request, 1 poller, 2 symbols, 3 provider answers | `CachedQuoteIsRecent`, `TrendingIsTop` |

Five runs check what the code's own comments or documents say of it and find it
violated (`findings` in PROJECT.json):

| Run | Claim | What happens |
| --- | --- | --- |
| `PipelineDoubleFill` | "re-executing an order is a no-op" | a lease runs out under ExecuteOrder, the reaper requeues the job, a second worker runs it; the status is not looked at again under the lock and both fill |
| `TradingCancelRace` | "cancels an order that has not yet executed" | a fill between CancelOrder's read and write is overwritten with `cancelled` |
| `TradingPastView` | "holdings never go negative" in point-in-time views | entries carry the begin of their transaction and are ordered by commit |
| `JobQueuePoisoned` | the reaper requeues or dead-letters expired leases | a job left in both tables makes its first statement fail on every pass |
| `PollingDuplicates` | "exactly one recurring poll_quotes job" | two processes seed at the same time |

### Why the bounds are enough to be interesting

Every hazard listed needs at most two actors on one object, so two of each kind
appear wherever state is shared; attempts, replays and faults are bounded so that
each can be exhausted. Prices and seeds let one order be affordable and two not.
`OneRace` keeps the races of the `Trading` run apart: each
needs only some of the actors, and all of them at once would be beyond TLC.
`Half = 4` in `Pipeline` makes 2 * 2 wrap to a negative cost and 3 * 3 to a
small positive one. In `RateLimiter` a bucket is emptied, refilled, expires and is
created anew within `MaxTime`; `MaxDelay` is a whole second, by which the script lets
a key outlive a full bucket, and the window is longer than that. `Grain = 2` makes
an error half of what a millisecond refills, enough to take a client's token away. A rate of
zero is not among the configurations of the run; the theorems cover it. The `Polling` instance lists only the
symbol that its alert watches: symbols that no alert watches are refreshed and
ignored. One fault in a behaviour is enough to hit every statement of the
handlers once; combinations of faults are not explored there.

### Fairness

* `JobQueue`: worker loops and reaper tickers never stop (weak fairness). A lease
  expiry that keeps coinciding with a reaper pass and a requeue statement that
  keeps failing are transient (strong fairness). Handlers may fail for ever,
  crashes may go on for ever: attempts run out.
* `Pipeline`: the same for workers, reapers and time; Postgres grants a row lock in
  the order of arrival, hence strong fairness of `ExecLock`; the router cuts a
  request off after 30 seconds. Crashes, failing statements and lost
  acknowledgements may go on for ever.
* `Polling`: processes are restarted and keep running, the reaper comes round;
  faults are finitely many (`MaxFaults`), POSTs may always fail. A webhook that is due
  goes before every poll, so a worker that claims again and again claims it in the
  end (strong fairness of `ClaimHook`).

Deadlock is not checked where a behaviour may really end: the bounded clock and
the bounded numbers of orders and jobs are used up.

## Proofs

Proved by TLAPS for every value of the constants that satisfies the named
assumptions of the modules. Every invariant and every action property that a passing
run checks is a theorem, and so are the refinements of `JobLifecycle` and `Ledger`.

`JobQueueProofs`:

* `TypeCorrect`, including that a worker has a job in hand exactly when busy.
* `NothingIsLost`: an accepted job is in one of the tables, whatever expires or
  crashes. Inductive invariant `Safekeeping`: types, only enqueued ids appear, and
  `BuryIsExclusive`; without the last one a second worker's DELETE could follow an
  INSERT that failed. That one is the theorem `BuriesAreExclusive`.
* `LeaseIsExclusive`: for jobs whose lease outlives the work. `LeaseExclusive` is
  inductive together with the types: a held lease, the row `inflight`, the attempt
  number as copied and one owner go together.
@@* `DoneStaysDone` (an action property) and `TablesAreDisjoint` (if no worker is
  interrupted inside MoveToDead).

`TradingProofs`: the inductive invariant is `Books`, the conjunction of `TypeOK`,
`CommitAccepted` (legs at the commit passed the in-code assertion and the CHECK
constraint), `OpenedFirst` (no entries before the seed), `WritersHoldTheLock`,
`Solvent` and `DenseLedger`. The argument: the lock keeps the holdings and the
counter that a transaction read current, so the test made on them is true of the
ledger at the commit, and appending the two legs changes the sum of each asset by
what the test allowed (`NetAppend`, `FillEffect`). From it follow `TypeCorrect`,
`LockProtects`, `NeverOverdrawn`, `AuditTrailIsDense`, and `TradingImplementsLedger`:
every step is a step of `Ledger` or leaves the balances alone. Three more theorems
stand on `Books`:

* `FillsAreRecorded`: the ledger is append-only (`EntriesStay`), only four kinds of
  statements write an order's row (`OrderSteps`), and the one that marks it filled
  appends its legs in the same commit (`FillAtTheEnd`).
* `TradesBalance`: only a fill adds a stock leg, with its cash leg behind it; the
  strengthening `PricesOK` (an execution's price is a quote or a validated limit)
  makes a product below the word's edge one that does not wrap.
* `KeysAreUnique`: the strengthening `NoSpareKeys` says that a row not in use has no
  key, so that the insert, which looks at the constraint itself, is the only step
  that gives a row one.
* `ViewsAreWhole`: no cached view shows half a trade. The invariant `Views` says of each
  cached view, and of each one a reader still holds, that it is `Whole`: the sums over
  a prefix of the stream that ends in a cash leg or is empty. A stream itself always ends so
  (`EndsInCash`), and it only grows (`StreamsGrow`), so what was whole stays whole
  (`WholeStays`) however late it is stored.

These hold for
any number of workers, orders and deliveries, any word size, and with overlapping
deliveries and cancels.

`PipelineProofs`: `PipelineRunsTrading` and `PipelineRunsQueue` show that the
composition's behaviours are behaviours of its parts, so the parts' theorems hold of
it (`PipelineImplementsLedger` follows at once). Three invariants join them:

* `Deliveries`: a worker that executes an order has that order's job in hand. With
  `LeaseIsExclusive` an order whose lease lasts is in at most one execution.
* `Verdicts`: while an order is being executed, and has not been decided by that
  execution, it has no trade and reads pending (or cancelled). `NeverFilledTwice`,
  `StatusMatchesLedger` and `RedeliveryKeepsVerdict` follow; all three suppose that
  no lease runs out under ExecuteOrder, which `PipelineDoubleFill` shows to be needed.
* `Awaited`: a job whose order still waits for it is not done, nor held by a worker
  that is about to complete it. `NoOrderIsStranded` follows, with no assumption on
  leases: a job done with too early is always one whose order has moved on.

`LoadTestProofs`: `TestRunsPipeline` shows that the test, with the system it runs
against, is a behaviour of `Pipeline`, so `Books` and `Verdicts` hold while it runs.
Both theorems, `ResolvedRunPasses` and `PassingRunIsFlat`, suppose that no lease runs
out under ExecuteOrder (an order filled twice would rightly fail the test). The
inductive invariant is `Testing`; at its heart is `Flow`: either no order is done and
the position is 0, or the buy alone is done and the position is `Qty`, or the buy and
one sell are done and it is 0 again. `Sells` says that a sell is placed only when the
position was bought and rejected only when it is sold, `Owned` that each order is some
client's only one (which answer was lost is not recorded, so the owner is a
witness), `NoReject` that no order is turned down for a missing limit, `Answers` and
`Steps` what the test has counted. For any number of sells and workers.

`RateLimiterProofs`, for any configurations, any number of requests and any times:

* `LimiterTypes`, from `Sound`: types, stamps not in the future and not older than
  `MaxDelay`, no grant stamped after the last one, and finite sets of members.
* `TokenLimitHolds`: `TokenInv` says of every instant with a grant after it that the
  tokens granted since and the tokens left were paid for by a full burst and the
  refill up to the bucket's time; if the key is gone, the refill of a full bucket has passed
  for every request that may still come. The second half is why the key's lifetime
  has its extra second and why `MaxDelay` may not exceed it.
* `WindowLimitHolds`: `WindowInv` says that where the set has room, so has every window
  that ends at the request's stamp, and that the key outlives the window of its last grant.
  A limit whose window is shorter than a request may be under way (`MaxDelay`) limits
  no span at all; `WindowMath` leaves it out.
* `NoUnfairRefusal`: `NothingLost` is the converse of `TokenInv`: what is missing from
  the bucket was granted since some instant, and no member is there without its grant.
* `RetryAfterIsEnough` follows from `Sound` and the arithmetic of the rounding.

Three of them have the hypothesis `Orderly`, because a stamp that arrives behind a
newer one moves the bucket's time back, and `WindowLimitHolds` has `DistinctMembers`;
both are named among the limits below. The run takes them as constants too.

`PollingProofs`: the inductive invariant `Polled` holds `AttemptsInv`, `MarksHaveHooks`
(a worker about to mark an alert has enqueued its webhook), `Posted` (one about to
complete a webhook has an answered POST), `RunsOn` and the properties themselves.

* `PollingTypes` includes that a webhook's attempts exceed max_attempts by at most the
  faults that occurred. This is not inductive by itself: `Budget` counts, for each job, the
  attempts beyond the last, the delivery that is due and every worker that may still
  cause one, and bounds their sum by one more than the faults.
* `PollerStaysAlive`: from `RunsOn`, as the next poll is enqueued before its predecessor
  is completed and every failure leaves a queued or an expiring row.
* `NoAlertIsSwallowed`, `DoneMeansReceived`: the order of two statements, for any number
  of processes, alerts and faults.

`MarketDataProofs`: `Quoting` bounds the age of a quote while it is on its way
to the cache (`Sound`) and in it (`Fresh`), and says that no symbol is collected twice
(`NoRepeat`). From it `MarketDataTypes`, `QuotesAreRecent` and `TrendingIsRight`. For
the last one, movement, then symbol, is shown to be a total order of the rows (by
cross-multiplication), the sorted list to exist and to be unique in each place, for every
list of distinct symbols. `Sorted` is stated as a choice of the ordered list and not
as an algorithm: Go's `sort.Slice` is a library.

Only model-checked: all liveness (`EveryJobResolved`, `ExpiredLeaseRecovered`,
`EveryOrderDecided`, `EveryFillSettled`, `CrossedAlertIsTold`), which is outside the
prover's reach, as is what recursive definitions compute for every input.

Assumptions on constants worth knowing: the request list of the load test contains its
own two requests and its sellers are all clients but the buyer; `Universe` is a list
of distinct symbols, as the literal `nseUniverse` in `internal/marketdata/marketdata.go`
is; processes are finitely many; `MaxDelay` of the limiter is at most a second.

## Limits the models make visible

* `quantity * price` wraps in int64, and so does the in-code assertion, so
  `BalancedTrades` (exact cost) says nothing of a cost beyond the word; in the run
  `Trading` one request's cost wraps to a negative number, which the CHECK on
  quantities refuses. Solvency and the refinement of
  `Ledger` hold beyond it.
* A submit that loses the race for its key gets the constraint's error, not the
  original order; repeating it returns the order (second part of `OneOrderPerKey`).
* A cached view can be stored after the trade that should have dropped it; it is
  out of date for up to its five seconds, but always whole.
* A lease that runs out between the reaper's two statements gives a job one claim
  beyond its maximum (`GapExpiry`).
* `TokenMath` needs stamps to reach Redis in order (`Orderly`): an older stamp sets
  the bucket's time back, and the interval is credited twice. `WindowMath` needs
  members to differ (`DistinctMembers`). With rate 0 the bucket is full again after
  an idle second. After a change of mode the old bucket makes every script fail,
  and requests pass, until it expires.
* Webhooks and alerts may be sent twice (redelivery, a failed MarkTriggered, two
  pollers); `processed_keys` exists but nothing uses it.

## Not modelled

Providers' price formula and HTTP (external input); JSON, routing and error
mapping; Stats, ListDead, History and other pure reads; configuration, connection
set-up and `main`; `rateLimitTest` of the load test (floating-point wall-clock
arithmetic over 500 requests; the bound it tests is `TokenMath`); the browser front end. In `RateLimiter`, the
Remaining header, rates that are not whole numbers, negative settings and clocks
that differ between hosts. Redis losing its data and Postgres losing a commit are
outside the fault model.

## Plan

1. Done: `JobQueue`, `Trading` and their composition `Pipeline`, with the abstract
   specifications `JobLifecycle` and `Ledger`; `LoadTest`, `Polling`, `MarketData` and
   `RateLimiter`. All are checked, and all their safety properties proved.
2. Next: `Polling` with two alerts and two faults; the life of an order (pending, then
   filled, rejected or cancelled, then settled) as an abstract specification that
   `Pipeline` refines when no lease runs out under ExecuteOrder; the joint
   behaviour of the poller and `JobQueue`.
