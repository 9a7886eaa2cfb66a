------------------------------ MODULE Polling -------------------------------
(***************************************************************************)
(* The recurring quote poll and the price alerts: worker processes that    *)
(* seed the poll when they start, run it, re-arm it, and post the webhooks *)
(* it enqueues; clients that create alerts; a market that moves.           *)
(*                                                                         *)
(* The queue underneath is that of module JobQueue, seen from its          *)
(* handlers: a claimed job comes back when its worker has lost it or its   *)
(* lease runs out, and Complete and Retry go by the job's id alone.  Each  *)
(* process has one worker goroutine; two goroutines of one process behave  *)
(* as two processes do.  One step is one statement, one upstream call or   *)
(* one POST.  A poll has a million attempts and is never dead-lettered.    *)
(***************************************************************************)
EXTENDS Integers, FiniteSets

CONSTANTS
    Processes,     \* worker processes
    Polls,         \* ids of poll_quotes jobs; an id is used again once done
    Alerts,        \* ids of alerts
    MaxHooks,      \* bound: webhook jobs an alert is given
    HookAttempts,  \* max_attempts of a webhook job
    Symbols,       \* ticker symbols
    Universe,      \* the symbols the provider lists
    Traded,        \* the symbols that appear in the ledger
    Prices,        \* market prices
    AlertBodies,   \* bodies clients may send to POST /v1/alerts
    NoAlert,       \* no such row
    NoPrice,       \* no entry in the handler's map of prices
    NoJob,         \* no job in hand
    MaxFaults      \* bound: crashes, failed calls and overrun leases

Hooks == Alerts \X (1 .. MaxHooks)

\* An empty symbol is one that is not in Symbols; the URL is left out.
Valid(body) ==
    /\ body.symbol \in Symbols
    /\ body.direction \in {"above", "below"}
    /\ body.threshold > 0

\* A row of the alerts table.
AlertRow(body, triggered) ==
    [symbol |-> body.symbol, direction |-> body.direction,
     threshold |-> body.threshold, triggered |-> triggered]

AlertRows == {AlertRow(body, triggered) :
                body \in {b \in AlertBodies : Valid(b)}, triggered \in BOOLEAN}

ASSUME PollingAssumption ==
    /\ IsFiniteSet(Processes)
    /\ Universe \subseteq Symbols /\ Traded \subseteq Symbols
    /\ Prices \subseteq Nat
    /\ HookAttempts \in Nat \ {0} /\ MaxHooks \in Nat /\ MaxFaults \in Nat
    /\ NoPrice \notin Prices
    /\ NoJob \notin Polls \cup Hooks
    /\ NoAlert \notin AlertRows

VARIABLES
    polls,     \* the poll_quotes jobs: free (no row, or done), queued, inflight
    hooks,     \* the alert_webhook jobs
    alerts,    \* the alerts table
    market,    \* the provider's price of each symbol
    proc,      \* each process' program counter and local values
    received,  \* history: webhook jobs whose POST was answered with 2xx
    seeded,    \* history: a poll has been enqueued
    faults     \* faults so far

vars == <<polls, hooks, alerts, market, proc, received, seeded, faults>>

-----------------------------------------------------------------------------
(* The state.                                                              *)

PollPcs == {"symbols", "refresh", "list", "fire", "mark", "rearm", "complete",
            "retry"}
HookPcs == {"post", "hookComplete", "hookRetry"}
SeedPcs == {"check", "seed"}

Locals == [pc : PollPcs \cup HookPcs \cup SeedPcs \cup {"down", "idle"},
           job : Polls \cup Hooks \cup {NoJob}, attempt : Nat,
           todo : SUBSET (Symbols \cup Alerts),
           prices : [Symbols -> Prices \cup {NoPrice}], active : SUBSET Alerts]

Local(pc, job) == [pc |-> pc, job |-> job, attempt |-> 0, todo |-> {},
                   prices |-> [s \in Symbols |-> NoPrice], active |-> {}]

NoHook == [status |-> "free", attempts |-> 0, price |-> NoPrice]

Init ==
    /\ polls = [p \in Polls |-> "free"]
    /\ hooks = [h \in Hooks |-> NoHook]
    /\ alerts = [a \in Alerts |-> NoAlert]
    /\ market \in [Symbols -> Prices]
    /\ proc = [w \in Processes |-> Local("down", NoJob)]
    /\ received = {}
    /\ seeded = FALSE
    /\ faults = 0

Active == {p \in Polls : polls[p] # "free"}

InHand == {proc[w].job : w \in Processes}

ActiveAlerts == {a \in Alerts : alerts[a] # NoAlert /\ ~alerts[a].triggered}

Goto(w, pc) == proc' = [proc EXCEPT ![w].pc = pc]

\* Fault: the worker goes on with the finished job still in hand.
LeaveInHand(w) == proc' = [proc EXCEPT ![w] = Local("idle", @.job)]

Leave(w) == proc' = [proc EXCEPT ![w] = Local("idle", NoJob)]

\* The insert of a poll with an id of its own (which one makes no difference).
EnqueuePoll ==
    LET unused == Polls \ (Active \cup InHand) IN
    /\ unused # {}
    /\ polls' = [polls EXCEPT ![CHOOSE p \in unused : TRUE] = "queued"]
    /\ seeded' = TRUE

-----------------------------------------------------------------------------
(* Start-up.                                                               *)

Start(w) ==
    /\ proc[w].pc = "down"
    /\ Goto(w, "check")
    /\ UNCHANGED <<polls, hooks, alerts, market, received, seeded, faults>>

HasActive(w) ==
    /\ proc[w].pc = "check"
    /\ Goto(w, IF Active = {} THEN "seed" ELSE "idle")
    /\ UNCHANGED <<polls, hooks, alerts, market, received, seeded, faults>>

Seed(w) ==
    /\ proc[w].pc = "seed"
    /\ EnqueuePoll
    /\ Goto(w, "idle")
    /\ UNCHANGED <<hooks, alerts, market, received, faults>>

-----------------------------------------------------------------------------
(* Claiming.  Webhooks have the higher priority.  One that waits for its   *)
(* next attempt (delayed) holds nobody up before its run_at, and is first  *)
(* in line from then on: it comes due when it is claimed, not before.      *)

QueuedHooks == {h \in Hooks : hooks[h].status = "queued"}

DelayedHooks == {h \in Hooks : hooks[h].status = "delayed"}

ClaimHook(w) ==
    /\ proc[w].pc = "idle"
    /\ \E h \in QueuedHooks \cup DelayedHooks :
         /\ hooks' = [hooks EXCEPT ![h].status = "inflight",
                                   ![h].attempts = @ + 1]
         /\ proc' = [proc EXCEPT ![w] =
                       [Local("post", h) EXCEPT !.attempt = hooks[h].attempts + 1]]
    /\ UNCHANGED <<polls, alerts, market, received, seeded, faults>>

ClaimPoll(w) ==
    /\ proc[w].pc = "idle"
    /\ QueuedHooks = {}
    /\ \E p \in Polls :
         /\ polls[p] = "queued"
         /\ polls' = [polls EXCEPT ![p] = "inflight"]
         /\ proc' = [proc EXCEPT ![w] = Local("symbols", p)]
    /\ UNCHANGED <<hooks, alerts, market, received, seeded, faults>>

-----------------------------------------------------------------------------
(* handlePollQuotes.                                                       *)

\* Fault: the symbols of the alerts are left out.
SymbolsListedOrTraded == Universe \cup Traded

SymbolsToRefresh == Universe \cup Traded \cup {alerts[a].symbol : a \in ActiveAlerts}

ReadSymbols(w) ==
    /\ proc[w].pc = "symbols"
    /\ proc' = [proc EXCEPT ![w].pc = "refresh", ![w].todo = SymbolsToRefresh]
    /\ UNCHANGED <<polls, hooks, alerts, market, received, seeded, faults>>

\* The map is walked in no particular order.  A symbol whose fetch fails, or
\* whose quote cannot be cached, is left out.
Refresh(w) ==
    /\ proc[w].pc = "refresh"
    /\ \E s \in proc[w].todo :
         proc' = [proc EXCEPT ![w].todo = @ \ {s}, ![w].prices[s] = market[s]]
    /\ UNCHANGED <<polls, hooks, alerts, market, received, seeded, faults>>

RefreshFails(w) ==
    /\ proc[w].pc = "refresh"
    /\ faults < MaxFaults
    /\ faults' = faults + 1
    /\ \E s \in proc[w].todo : proc' = [proc EXCEPT ![w].todo = @ \ {s}]
    /\ UNCHANGED <<polls, hooks, alerts, market, received, seeded>>

ListActive(w) ==
    /\ proc[w].pc = "refresh" /\ proc[w].todo = {}
    /\ proc' = [proc EXCEPT ![w].pc = "fire", ![w].active = ActiveAlerts]
    /\ UNCHANGED <<polls, hooks, alerts, market, received, seeded, faults>>

Crosses(body, price) ==
    /\ price # NoPrice
    /\ \/ body.direction = "above" /\ price >= body.threshold
       \/ body.direction = "below" /\ price <= body.threshold

Crossed(w) == {a \in proc[w].active :
                 Crosses(alerts[a], proc[w].prices[alerts[a].symbol])}

\* The next webhook job of an alert has an id of its own.
IsNextHook(h, a) ==
    /\ h[1] = a
    /\ hooks[h] = NoHook
    /\ \A n \in 1 .. h[2] - 1 : hooks[<<a, n>>] # NoHook

\* Fault: the alert is marked before its webhook is enqueued.
FireMarksFirst(w) ==
    /\ proc[w].pc = "fire"
    /\ \E a \in Crossed(w), h \in Hooks :
         /\ IsNextHook(h, a)
         /\ \/ /\ ~alerts[a].triggered
               /\ alerts' = [alerts EXCEPT ![a].triggered = TRUE]
               /\ UNCHANGED <<hooks, proc>>
            \/ /\ alerts[a].triggered
               /\ hooks' = [hooks EXCEPT ![h] =
                              [status |-> "queued", attempts |-> 0,
                               price |-> proc[w].prices[alerts[a].symbol]]]
               /\ proc' = [proc EXCEPT ![w].active = @ \ {a}]
               /\ UNCHANGED alerts
    /\ UNCHANGED <<polls, market, received, seeded, faults>>

\* Enqueue the webhook of one crossed alert; MarkTriggered comes next.
Fire(w) ==
    /\ proc[w].pc = "fire"
    /\ \E a \in Crossed(w), h \in Hooks :
         /\ IsNextHook(h, a)
         /\ hooks' = [hooks EXCEPT ![h] =
                        [status |-> "queued", attempts |-> 0,
                         price |-> proc[w].prices[alerts[a].symbol]]]
         /\ proc' = [proc EXCEPT ![w].pc = "mark", ![w].todo = {a},
                                 ![w].active = @ \ {a}]
    /\ UNCHANGED <<polls, alerts, market, received, seeded, faults>>

\* The enqueue fails: on to the next alert, this one stays active.
FireFails(w) ==
    /\ proc[w].pc = "fire"
    /\ faults < MaxFaults
    /\ faults' = faults + 1
    /\ \E a \in Crossed(w) : proc' = [proc EXCEPT ![w].active = @ \ {a}]
    /\ UNCHANGED <<polls, hooks, alerts, market, received, seeded>>

MarkTriggered(w) ==
    /\ proc[w].pc = "mark"
    /\ alerts' = [a \in Alerts |-> IF a \in proc[w].todo
                                     THEN [alerts[a] EXCEPT !.triggered = TRUE]
                                     ELSE alerts[a]]
    /\ proc' = [proc EXCEPT ![w].pc = "fire", ![w].todo = {}]
    /\ UNCHANGED <<polls, hooks, market, received, seeded, faults>>

\* Its error is ignored.
MarkFails(w) ==
    /\ proc[w].pc = "mark"
    /\ faults < MaxFaults
    /\ faults' = faults + 1
    /\ proc' = [proc EXCEPT ![w].pc = "fire", ![w].todo = {}]
    /\ UNCHANGED <<polls, hooks, alerts, market, received, seeded>>

Fired(w) ==
    /\ proc[w].pc = "fire" /\ Crossed(w) = {}
    /\ proc' = [proc EXCEPT ![w] = Local("rearm", @.job)]
    /\ UNCHANGED <<polls, hooks, alerts, market, received, seeded, faults>>

Rearm(w) ==
    /\ proc[w].pc = "rearm"
    /\ EnqueuePoll
    /\ Goto(w, "complete")
    /\ UNCHANGED <<hooks, alerts, market, received, faults>>

\* Fault: a failed re-arm is logged and the poll completed all the same.
ErrorPcQuiet(pc) == IF pc = "rearm" THEN "complete" ELSE "retry"

\* Where a failed statement of the handler leads: it returns the error.
ErrorPc(pc) == "retry"

PollFails(w) ==
    /\ proc[w].pc \in {"symbols", "refresh", "rearm"}
    /\ proc[w].pc = "refresh" => proc[w].todo = {}
    /\ faults < MaxFaults
    /\ faults' = faults + 1
    /\ proc' = [proc EXCEPT ![w] = Local(ErrorPc(@.pc), @.job)]
    /\ UNCHANGED <<polls, hooks, alerts, market, received, seeded>>

Complete(w) ==
    /\ proc[w].pc = "complete"
    /\ polls' = [polls EXCEPT ![proc[w].job] = "free"]
    /\ Leave(w)
    /\ UNCHANGED <<hooks, alerts, market, received, seeded, faults>>

Retry(w) ==
    /\ proc[w].pc = "retry"
    /\ polls' = [polls EXCEPT ![proc[w].job] = "queued"]
    /\ Leave(w)
    /\ UNCHANGED <<hooks, alerts, market, received, seeded, faults>>

-----------------------------------------------------------------------------
(* handleAlertWebhook and what process does with its outcome.              *)

PostOk(w) ==
    /\ proc[w].pc = "post"
    /\ received' = received \cup {proc[w].job}
    /\ Goto(w, "hookComplete")
    /\ UNCHANGED <<polls, hooks, alerts, market, seeded, faults>>

\* The receiver cannot be reached or answers with another status.
PostFails(w) ==
    /\ proc[w].pc = "post"
    /\ Goto(w, "hookRetry")
    /\ UNCHANGED <<polls, hooks, alerts, market, received, seeded, faults>>

\* The row, once it is dead-lettered, is no longer there to be updated.
SetHook(h, status) ==
    hooks' = [hooks EXCEPT ![h].status = IF @ = "dead" THEN @ ELSE status]

HookComplete(w) ==
    /\ proc[w].pc = "hookComplete"
    /\ SetHook(proc[w].job, "done")
    /\ Leave(w)
    /\ UNCHANGED <<polls, alerts, market, received, seeded, faults>>

\* Fault: a webhook whose attempts are used up is marked done.
HookRetryDone(w) ==
    /\ proc[w].pc = "hookRetry"
    /\ SetHook(proc[w].job,
               IF proc[w].attempt >= HookAttempts THEN "done" ELSE "delayed")
    /\ Leave(w)
    /\ UNCHANGED <<polls, alerts, market, received, seeded, faults>>

\* Decided from the attempt number that Claim returned.
HookRetry(w) ==
    /\ proc[w].pc = "hookRetry"
    /\ SetHook(proc[w].job,
               IF proc[w].attempt >= HookAttempts THEN "dead" ELSE "delayed")
    /\ Leave(w)
    /\ UNCHANGED <<polls, alerts, market, received, seeded, faults>>

-----------------------------------------------------------------------------
(* Faults of the queue, and the rest of the world.                         *)

\* A statement of seedPoller, or the one that reports a job's outcome, fails:
\* it is logged and the worker goes on without it.
StatementFails(w) ==
    /\ proc[w].pc \in SeedPcs \cup {"complete", "retry", "hookComplete",
                                    "hookRetry"}
    /\ faults < MaxFaults
    /\ faults' = faults + 1
    /\ Leave(w)
    /\ UNCHANGED <<polls, hooks, alerts, market, received, seeded>>

Crash(w) ==
    /\ proc[w].pc # "down"
    /\ faults < MaxFaults
    /\ faults' = faults + 1
    /\ proc' = [proc EXCEPT ![w] = Local("down", NoJob)]
    /\ UNCHANGED <<polls, hooks, alerts, market, received, seeded>>

\* The reaper requeues a job whose lease is over: nobody has it any more, or,
\* as a fault, its worker is still at work.
Overrun(job) ==
    IF job \in InHand THEN faults < MaxFaults /\ faults' = faults + 1
                      ELSE UNCHANGED faults

ReapPoll(p) ==
    /\ polls[p] = "inflight"
    /\ Overrun(p)
    /\ polls' = [polls EXCEPT ![p] = "queued"]
    /\ UNCHANGED <<hooks, alerts, market, proc, received, seeded>>

ReapHook(h) ==
    /\ hooks[h].status = "inflight"
    /\ Overrun(h)
    /\ SetHook(h, IF hooks[h].attempts >= HookAttempts THEN "dead" ELSE "queued")
    /\ UNCHANGED <<polls, alerts, market, proc, received, seeded>>

CreateAlert(a, body) ==
    /\ alerts[a] = NoAlert
    /\ Valid(body)
    /\ alerts' = [alerts EXCEPT ![a] = AlertRow(body, FALSE)]
    /\ UNCHANGED <<polls, hooks, market, proc, received, seeded, faults>>

MarketMoves(s) ==
    /\ \E price \in Prices \ {market[s]} : market' = [market EXCEPT ![s] = price]
    /\ UNCHANGED <<polls, hooks, alerts, proc, received, seeded, faults>>

-----------------------------------------------------------------------------

SeedStep(w) == Start(w) \/ HasActive(w) \/ Seed(w)

PollStep(w) ==
    \/ ReadSymbols(w) \/ Refresh(w) \/ ListActive(w) \/ Fire(w)
    \/ MarkTriggered(w) \/ Fired(w) \/ Rearm(w) \/ Complete(w) \/ Retry(w)

HookStep(w) == PostOk(w) \/ PostFails(w) \/ HookComplete(w) \/ HookRetry(w)

FaultStep(w) ==
    \/ RefreshFails(w) \/ FireFails(w) \/ MarkFails(w) \/ PollFails(w)
    \/ StatementFails(w) \/ Crash(w)

WorkerStep(w) ==
    SeedStep(w) \/ ClaimHook(w) \/ ClaimPoll(w) \/ PollStep(w) \/ HookStep(w)

ReapStep == (\E p \in Polls : ReapPoll(p)) \/ (\E h \in Hooks : ReapHook(h))

\* A job that no worker has in hand any more.
ReapLost ==
    \/ \E p \in Polls \ InHand : ReapPoll(p)
    \/ \E h \in Hooks \ InHand : ReapHook(h)

Next ==
    \/ \E w \in Processes : WorkerStep(w) \/ FaultStep(w)
    \/ ReapStep
    \/ \E a \in Alerts, body \in AlertBodies : CreateAlert(a, body)
    \/ \E s \in Symbols : MarketMoves(s)

Spec == Init /\ [][Next]_vars

\* Workers keep running and are restarted, and the reaper comes round; faults
\* are finitely many.  A webhook goes before every poll once it is due, so a
\* worker that claims for ever does not pass it over for ever.
Fairness ==
    /\ \A w \in Processes : WF_vars(WorkerStep(w))
    /\ SF_vars(\E w \in Processes : ClaimHook(w))
    /\ WF_vars(ReapLost)

FairSpec == Spec /\ Fairness

-----------------------------------------------------------------------------
(* Properties.                                                             *)

\* A worker has a job of the kind it is working on in hand, and none while it
\* starts or looks for work.
TypeOK ==
    /\ polls \in [Polls -> {"free", "queued", "inflight"}]
    /\ hooks \in [Hooks -> [status : {"free", "queued", "delayed", "inflight",
                                       "done", "dead"},
                            attempts : 0 .. HookAttempts + MaxFaults,
                            price : Prices \cup {NoPrice}]]
    /\ alerts \in [Alerts -> AlertRows \cup {NoAlert}]
    /\ market \in [Symbols -> Prices]
    /\ proc \in [Processes -> Locals]
    /\ \A w \in Processes :
         /\ proc[w].pc \in PollPcs => proc[w].job \in Polls
         /\ proc[w].pc \in HookPcs => proc[w].job \in Hooks
         /\ proc[w].pc \in SeedPcs \cup {"down", "idle"} => proc[w].job = NoJob
         /\ proc[w].active \subseteq {a \in Alerts : alerts[a] # NoAlert}
    /\ received \subseteq Hooks
    /\ seeded \in BOOLEAN
    /\ faults \in 0 .. MaxFaults

\* Once a poll has been enqueued there is always one queued or in flight,
\* whatever fails, crashes or is delivered twice: the poll re-arms itself
\* before it is completed, and a poll that could not re-arm is not completed.
PollerNeverDies == seeded => Active # {}

\* An alert that will never be listed again has a webhook job with a price
\* that crosses its threshold: the job is inserted before the mark is set.
TriggeredHasWebhook ==
    \A a \in Alerts :
        (alerts[a] # NoAlert /\ alerts[a].triggered) =>
            \E h \in Hooks : h[1] = a /\ Crosses(alerts[a], hooks[h].price)

\* A webhook job is finished only if its POST went through or its attempts
\* are used up.
DoneWasReceived ==
    \A h \in Hooks : hooks[h].status = "done" => h \in received

Crossing(a) ==
    alerts[a] # NoAlert /\ Crosses(alerts[a], market[alerts[a].symbol])

Told(a) == \E h \in Hooks : h[1] = a /\ (h \in received \/ hooks[h].status = "dead")

\* If the market stays beyond an alert's threshold, the alert's receiver is
\* told, or an operator finds the webhook among the dead letters.
CrossedAlertIsTold ==
    \A a \in Alerts : <>[]Crossing(a) => <>Told(a)

\* The polls that will re-arm: queued, or in flight and not past the re-arm.
Recurring ==
    Active \ {proc[w].job : w \in {v \in Processes : proc[v].pc = "complete"}}

\* There is at most one recurring poll, as seedPoller is meant to ensure.
OneRecurringPoll == Cardinality(Recurring) <= 1

=============================================================================
