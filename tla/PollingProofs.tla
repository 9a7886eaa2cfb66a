--------------------------- MODULE PollingProofs ----------------------------
(***************************************************************************)
(* Theorems about Polling, for every number of worker processes, polls,    *)
(* alerts and faults: the poll that does not die out, the webhook behind   *)
(* every triggered alert, and the attempts a webhook can use up.           *)
(***************************************************************************)
EXTENDS Polling, FiniteSetTheorems, TLAPS

-----------------------------------------------------------------------------
(* A process' local values.                                                *)

Pcs == PollPcs \cup HookPcs \cup SeedPcs \cup {"down", "idle"}

\* The alerts that clients have created.
Existing == {a \in Alerts : alerts[a] # NoAlert}

\* Local values that TypeOK allows.
Fits(e) ==
    /\ e \in Locals
    /\ e.pc \in PollPcs => e.job \in Polls
    /\ e.pc \in HookPcs => e.job \in Hooks
    /\ e.pc \in SeedPcs \cup {"down", "idle"} => e.job = NoJob
    /\ e.active \subseteq Existing

\* A process' values in a state that TypeOK allows.
LEMMA ProcFits ==
    ASSUME TypeOK, NEW w \in Processes
    PROVE  /\ proc \in [Processes -> Locals] /\ Fits(proc[w]) /\ proc[w] \in Locals
           /\ proc[w].pc \in Pcs /\ proc[w].job \in Polls \cup Hooks \cup {NoJob}
           /\ proc[w].attempt \in Nat
           /\ proc[w].prices \in [Symbols -> Prices \cup {NoPrice}]
           /\ proc[w].active \subseteq Existing
           /\ proc[w].todo \subseteq Symbols \cup Alerts
<1>1. proc \in [Processes -> Locals] /\ proc[w] \in Locals
  BY DEF TypeOK
<1>2. Fits(proc[w])
  BY <1>1 DEF TypeOK, Fits, Existing
<1> QED
  BY <1>1, <1>2 DEF Locals, Fits, Pcs

\* The values of a process that starts on a job.
LEMMA LocalFields ==
    ASSUME NEW pc \in Pcs, NEW job \in Polls \cup Hooks \cup {NoJob}
    PROVE  /\ Local(pc, job) \in Locals
           /\ Local(pc, job).pc = pc /\ Local(pc, job).job = job
           /\ Local(pc, job).attempt = 0
           /\ Local(pc, job).todo = {} /\ Local(pc, job).active = {}
  BY DEF Local, Locals, Pcs

(***************************************************************************)
(* What a step of process w means for the rest: it leaves the others'      *)
(* values alone, its own fit, and only the steps named here bring it to    *)
(* the program counters that matter.                                       *)
(***************************************************************************)
Effect(w, e) ==
    /\ proc' = [proc EXCEPT ![w] = e]
    /\ Fits(e)
    /\ e.pc \in HookPcs =>
         \/ ClaimHook(w)
         \/ /\ proc[w].pc \in HookPcs
            /\ e.job = proc[w].job /\ e.attempt = proc[w].attempt
    /\ e.pc = "complete" => Rearm(w)
    /\ e.pc = "mark" => Fire(w)
    /\ e.pc = "hookComplete" => PostOk(w)

\* A step that moves the program counter only.
LEMMA GotoEffect ==
    ASSUME TypeOK, NEW w \in Processes, NEW pc \in Pcs, Goto(w, pc),
           pc \in PollPcs => proc[w].job \in Polls,
           pc \in HookPcs => proc[w].pc \in HookPcs,
           pc \in SeedPcs \cup {"down", "idle"} => proc[w].job = NoJob,
           pc = "complete" => Rearm(w), pc # "mark", pc = "hookComplete" => PostOk(w)
    PROVE  \E e : Effect(w, e)
<1> DEFINE e == [proc[w] EXCEPT !.pc = pc]
<1>1. proc' = [proc EXCEPT ![w] = e]
  BY ProcFits DEF Goto
<1>2. /\ e.pc = pc /\ e.job = proc[w].job /\ e.attempt = proc[w].attempt
      /\ e.active = proc[w].active /\ e \in Locals
  BY ProcFits DEF Locals, Pcs
<1>3. proc[w].pc \in HookPcs => proc[w].job \in Hooks
  BY ProcFits DEF Fits
<1> HIDE DEF e
<1>4. Fits(e)
  BY <1>2, <1>3, ProcFits DEF Fits
<1> QED
  BY <1>1, <1>2, <1>4 DEF Effect

\* A step that starts anew, with or without a job.
LEMMA LocalEffect ==
    ASSUME TypeOK, NEW w \in Processes, NEW pc \in Pcs \ (HookPcs \cup {"complete", "mark"}),
           NEW job \in Polls \cup Hooks \cup {NoJob},
           proc' = [proc EXCEPT ![w] = Local(pc, job)],
           pc \in PollPcs => job \in Polls,
           pc \in SeedPcs \cup {"down", "idle"} => job = NoJob
    PROVE  \E e : Effect(w, e)
<1> DEFINE e == Local(pc, job)
<1>1. /\ proc' = [proc EXCEPT ![w] = e] /\ e \in Locals /\ e.pc = pc /\ e.job = job
      /\ e.active = {}
  BY LocalFields
<1> HIDE DEF e
<1>2. Fits(e)
  BY <1>1 DEF Fits
<1> QED
  BY <1>1, <1>2 DEF Effect, HookPcs

\* A step inside a poll: the job stays in hand.
LEMMA PollEffect ==
    ASSUME TypeOK, NEW w \in Processes, proc[w].pc \in PollPcs,
           NEW e \in Locals, proc' = [proc EXCEPT ![w] = e],
           e.pc \in PollPcs \ {"complete"}, e.job = proc[w].job,
           e.active \subseteq Existing, e.pc = "mark" => Fire(w)
    PROVE  \E f : Effect(w, f)
<1>1. proc[w].job \in Polls
  BY ProcFits DEF Fits
<1>2. e.pc \notin HookPcs \cup SeedPcs \cup {"down", "idle"} /\ e.pc # "hookComplete"
  BY DEF PollPcs, HookPcs, SeedPcs
<1>3. Fits(e)
  BY <1>1, <1>2 DEF Fits
<1> QED
  BY <1>2, <1>3 DEF Effect

\* Every step of a worker has such an effect.
LEMMA WorkerEffect ==
    ASSUME TypeOK, NEW w \in Processes, WorkerStep(w) \/ FaultStep(w)
    PROVE  \E e : Effect(w, e)
<1>a. /\ proc \in [Processes -> Locals] /\ proc[w] \in Locals /\ Fits(proc[w])
      /\ proc[w].active \subseteq Existing /\ proc[w].active \subseteq Alerts
      /\ proc[w].todo \subseteq Symbols \cup Alerts
      /\ proc[w].prices \in [Symbols -> Prices \cup {NoPrice}]
      /\ proc[w].pc \in Pcs
  BY ProcFits DEF Existing
<1>b. proc[w].pc \in PollPcs => proc[w].job \in Polls
  BY <1>a DEF Fits
<1>c. proc[w].pc \in SeedPcs \cup {"down", "idle"} => proc[w].job = NoJob
  BY <1>a DEF Fits
<1>d. ASSUME NEW e, e \in Locals, proc' = [proc EXCEPT ![w] = e], proc[w].pc \in PollPcs,
             e.pc \in PollPcs \ {"complete"}, e.job = proc[w].job,
             e.active \subseteq Existing, e.pc = "mark" => Fire(w)
      PROVE  \E f : Effect(w, f)
  BY <1>d, PollEffect
<1>e. /\ {"symbols", "refresh", "list", "fire", "mark", "rearm", "retry"} \subseteq PollPcs
      /\ PollPcs \cap (HookPcs \cup SeedPcs \cup {"down", "idle"}) = {}
      /\ "complete" \in PollPcs
  BY DEF PollPcs, HookPcs, SeedPcs
<1>1. CASE SeedStep(w)
  <2>1. \E pc \in {"check", "seed", "idle"} : Goto(w, pc) /\ proc[w].pc \in SeedPcs \cup {"down"}
    BY <1>1 DEF SeedStep, Start, HasActive, Seed, SeedPcs
  <2>2. PICK pc \in {"check", "seed", "idle"} : Goto(w, pc)
    BY <2>1
  <2>3. pc \in Pcs /\ pc \notin PollPcs \cup HookPcs /\ pc \notin {"complete", "mark", "hookComplete"}
    BY DEF Pcs, PollPcs, HookPcs, SeedPcs
  <2> QED
    BY <1>c, <2>1, <2>2, <2>3, GotoEffect
<1>2. CASE ClaimHook(w)
  <2>1. PICK h \in Hooks :
          proc' = [proc EXCEPT ![w] = [Local("post", h) EXCEPT !.attempt = hooks[h].attempts + 1]]
        /\ h \in QueuedHooks \cup DelayedHooks
    BY <1>2 DEF ClaimHook, QueuedHooks, DelayedHooks
  <2>2. hooks[h].attempts + 1 \in Nat
    <3>1. /\ hooks[h].attempts \in 0 .. HookAttempts + MaxFaults
          /\ HookAttempts \in Nat /\ MaxFaults \in Nat
      BY PollingAssumption DEF TypeOK
    <3> QED
      BY <3>1
  <2> DEFINE n == hooks[h].attempts + 1
             e == [Local("post", h) EXCEPT !.attempt = n]
  <2> HIDE DEF n
  <2>3. e \in Locals /\ e.pc = "post" /\ e.job = h /\ e.active = {}
    BY <2>2 DEF Local, Locals, HookPcs, n
  <2>4. proc' = [proc EXCEPT ![w] = e]
    BY <2>1 DEF n
  <2> HIDE DEF e
  <2>5. Fits(e)
    BY <2>3 DEF Fits, HookPcs, PollPcs, SeedPcs
  <2> QED
    BY <1>2, <2>3, <2>4, <2>5 DEF Effect
<1>3. CASE ClaimPoll(w)
  <2>1. PICK p \in Polls : proc' = [proc EXCEPT ![w] = Local("symbols", p)]
    BY <1>3 DEF ClaimPoll
  <2> QED
    BY <2>1, LocalEffect DEF Pcs, PollPcs, HookPcs, SeedPcs
<1>4. CASE ReadSymbols(w)
  <2> DEFINE e == [proc[w] EXCEPT !.pc = "refresh", !.todo = SymbolsToRefresh]
  <2>1. SymbolsToRefresh \subseteq Symbols
    <3>1. \A a \in ActiveAlerts : alerts[a].symbol \in Symbols
      BY DEF TypeOK, ActiveAlerts, AlertRows, AlertRow, Valid
    <3> QED
      BY <3>1, PollingAssumption DEF SymbolsToRefresh
  <2>2. proc' = [proc EXCEPT ![w] = e] /\ proc[w].pc = "symbols"
    BY <1>4, <1>a DEF ReadSymbols
  <2>3. /\ e \in Locals /\ e.pc = "refresh" /\ e.job = proc[w].job
        /\ e.active = proc[w].active
    BY <1>a, <2>1 DEF Locals, PollPcs
  <2> HIDE DEF e
  <2> QED
    BY <1>a, <1>d, <1>e, <2>2, <2>3
<1>5. CASE Refresh(w)
  <2>1. PICK s \in proc[w].todo :
          proc' = [proc EXCEPT ![w].todo = @ \ {s}, ![w].prices[s] = market[s]]
    BY <1>5 DEF Refresh
  <2>a. proc[w].pc = "refresh"
    BY <1>5 DEF Refresh
  <2> DEFINE prices == [proc[w].prices EXCEPT ![s] = market[s]]
             e == [proc[w] EXCEPT !.todo = @ \ {s}, !.prices = prices]
  <2>2. prices \in [Symbols -> Prices \cup {NoPrice}]
    BY <1>a DEF TypeOK
  <2>3. proc' = [proc EXCEPT ![w] = e]
    BY <1>a, <2>1
  <2> HIDE DEF prices
  <2>4. /\ e \in Locals /\ e.pc = proc[w].pc /\ e.job = proc[w].job
        /\ e.active = proc[w].active
    BY <1>a, <2>2 DEF Locals
  <2> HIDE DEF e
  <2> QED
    BY <1>a, <1>d, <1>e, <2>a, <2>3, <2>4
<1>6. CASE RefreshFails(w)
  <2>1. PICK s \in proc[w].todo : proc' = [proc EXCEPT ![w].todo = @ \ {s}]
    BY <1>6 DEF RefreshFails
  <2>a. proc[w].pc = "refresh"
    BY <1>6 DEF RefreshFails
  <2> DEFINE e == [proc[w] EXCEPT !.todo = @ \ {s}]
  <2>3. proc' = [proc EXCEPT ![w] = e]
    BY <1>a, <2>1
  <2>4. /\ e \in Locals /\ e.pc = proc[w].pc /\ e.job = proc[w].job
        /\ e.active = proc[w].active
    BY <1>a DEF Locals
  <2> HIDE DEF e
  <2> QED
    BY <1>a, <1>d, <1>e, <2>a, <2>3, <2>4
<1>7. CASE ListActive(w)
  <2> DEFINE e == [proc[w] EXCEPT !.pc = "fire", !.active = ActiveAlerts]
  <2>1. ActiveAlerts \subseteq Existing /\ ActiveAlerts \subseteq Alerts
    BY DEF ActiveAlerts, Existing
  <2>2. proc' = [proc EXCEPT ![w] = e] /\ proc[w].pc = "refresh"
    BY <1>7, <1>a DEF ListActive
  <2>3. /\ e \in Locals /\ e.pc = "fire" /\ e.job = proc[w].job /\ e.active = ActiveAlerts
    BY <1>a, <2>1 DEF Locals, PollPcs
  <2> HIDE DEF e
  <2> QED
    BY <1>d, <1>e, <2>1, <2>2, <2>3
<1>8. CASE Fire(w)
  <2>1. PICK a \in Crossed(w) :
          proc' = [proc EXCEPT ![w].pc = "mark", ![w].todo = {a}, ![w].active = @ \ {a}]
    BY <1>8 DEF Fire
  <2>a. proc[w].pc = "fire" /\ a \in Alerts
    BY <1>8, <1>a DEF Fire, Crossed
  <2> DEFINE e == [proc[w] EXCEPT !.pc = "mark", !.todo = {a}, !.active = @ \ {a}]
  <2>3. proc' = [proc EXCEPT ![w] = e]
    BY <1>a, <2>1
  <2>4. /\ e \in Locals /\ e.pc = "mark" /\ e.job = proc[w].job
        /\ e.active = proc[w].active \ {a}
    BY <1>a, <2>a DEF Locals, PollPcs
  <2> HIDE DEF e
  <2> QED
    BY <1>8, <1>a, <1>d, <1>e, <2>a, <2>3, <2>4
<1>9. CASE FireFails(w)
  <2>1. PICK a \in Crossed(w) : proc' = [proc EXCEPT ![w].active = @ \ {a}]
    BY <1>9 DEF FireFails
  <2>a. proc[w].pc = "fire"
    BY <1>9 DEF FireFails
  <2> DEFINE e == [proc[w] EXCEPT !.active = @ \ {a}]
  <2>3. proc' = [proc EXCEPT ![w] = e]
    BY <1>a, <2>1
  <2>4. /\ e \in Locals /\ e.pc = proc[w].pc /\ e.job = proc[w].job
        /\ e.active = proc[w].active \ {a}
    BY <1>a DEF Locals
  <2> HIDE DEF e
  <2> QED
    BY <1>a, <1>d, <1>e, <2>a, <2>3, <2>4
<1>10. CASE MarkTriggered(w) \/ MarkFails(w)
  <2> DEFINE e == [proc[w] EXCEPT !.pc = "fire", !.todo = {}]
  <2>2. proc' = [proc EXCEPT ![w] = e] /\ proc[w].pc = "mark"
    BY <1>10, <1>a DEF MarkTriggered, MarkFails
  <2>3. /\ e \in Locals /\ e.pc = "fire" /\ e.job = proc[w].job /\ e.active = proc[w].active
    BY <1>a DEF Locals, PollPcs
  <2> HIDE DEF e
  <2> QED
    BY <1>a, <1>d, <1>e, <2>2, <2>3
<1>11. CASE Fired(w) \/ PollFails(w)
  <2>1. \E pc \in {"rearm", "retry"} : proc' = [proc EXCEPT ![w] = Local(pc, proc[w].job)]
    BY <1>11 DEF Fired, PollFails, ErrorPc
  <2>2. proc[w].pc \in {"symbols", "refresh", "rearm", "fire"}
    BY <1>11 DEF Fired, PollFails
  <2>3. proc[w].job \in Polls
    BY <1>b, <1>e, <2>2
  <2>4. \A pc \in {"rearm", "retry"} : pc \in Pcs \ (HookPcs \cup {"complete", "mark"})
    BY DEF Pcs, PollPcs, HookPcs
  <2> QED
    BY <1>e, <2>1, <2>3, <2>4, LocalEffect
<1>12. CASE Rearm(w)
  <2>1. Goto(w, "complete") /\ proc[w].pc = "rearm"
    BY <1>12 DEF Rearm
  <2>2. "complete" \in Pcs /\ "complete" \notin HookPcs \cup SeedPcs \cup {"down", "idle"}
    BY DEF Pcs, PollPcs, HookPcs, SeedPcs
  <2> QED
    BY <1>12, <1>b, <1>e, <2>1, <2>2, GotoEffect
<1>13. CASE \/ Complete(w) \/ Retry(w) \/ HookComplete(w) \/ HookRetry(w)
            \/ StatementFails(w) \/ Crash(w)
  <2>1. \E pc \in {"idle", "down"} : proc' = [proc EXCEPT ![w] = Local(pc, NoJob)]
    BY <1>13 DEF Complete, Retry, HookComplete, HookRetry, StatementFails, Crash, Leave
  <2>2. \A pc \in {"idle", "down"} : pc \in Pcs \ (PollPcs \cup HookPcs \cup {"complete", "mark"})
    BY DEF Pcs, PollPcs, HookPcs
  <2> QED
    BY <2>1, <2>2, LocalEffect
<1>14. CASE PostOk(w) \/ PostFails(w)
  <2>1. PICK pc \in {"hookComplete", "hookRetry"} :
          Goto(w, pc) /\ (pc = "hookComplete" => PostOk(w))
    BY <1>14 DEF PostOk, PostFails
  <2>2. proc[w].pc \in HookPcs
    BY <1>14 DEF PostOk, PostFails, HookPcs
  <2>3. pc \in Pcs /\ pc \notin PollPcs \cup SeedPcs \cup {"down", "idle"}
        /\ pc \notin {"complete", "mark"}
    BY DEF Pcs, PollPcs, HookPcs, SeedPcs
  <2> QED
    BY <2>1, <2>2, <2>3, GotoEffect
<1> QED
  BY <1>1, <1>2, <1>3, <1>4, <1>5, <1>6, <1>7, <1>8, <1>9, <1>10, <1>11, <1>12, <1>13, <1>14
  DEF WorkerStep, FaultStep, PollStep, HookStep

-----------------------------------------------------------------------------
(* The alerts.                                                             *)

\* The alert has a webhook job with a price that crosses its threshold.
HasHook(a) == \E h \in Hooks : h[1] = a /\ Crosses(alerts[a], hooks[h].price)

\* An alert that is about to be marked exists and has its webhook.
MarksHaveHooks ==
    \A w \in Processes :
        proc[w].pc = "mark" =>
            \A a \in proc[w].todo : a \in Existing /\ HasHook(a)

\* What may become of an alert: created by a client, or marked with its
\* webhook in place; the rest of an existing row is never written.
AlertMoves(a) ==
    \/ alerts'[a] = alerts[a]
    \/ /\ a \notin Existing
       /\ alerts'[a] \in AlertRows /\ ~alerts'[a].triggered
    \/ /\ a \in Existing /\ HasHook(a)
       /\ alerts'[a] = [alerts[a] EXCEPT !.triggered = TRUE]
       /\ UNCHANGED hooks

\* A valid body gives a row of the table, and marking a row gives another.
LEMMA RowFields ==
    ASSUME NEW body \in AlertBodies, Valid(body), NEW t \in BOOLEAN
    PROVE  /\ AlertRow(body, t) \in AlertRows
           /\ AlertRow(body, t).triggered = t
           /\ [AlertRow(body, t) EXCEPT !.triggered = TRUE] = AlertRow(body, TRUE)
<1>1. AlertRow(body, t) \in AlertRows
  <2> DEFINE valid == {b \in AlertBodies : Valid(b)}
  <2>1. body \in valid
    OBVIOUS
  <2>2. AlertRows = {AlertRow(b, u) : b \in valid, u \in BOOLEAN}
    BY DEF AlertRows
  <2> HIDE DEF valid
  <2> QED
    BY <2>1, <2>2
<1>2. AlertRow(body, t).triggered = t
  BY Zenon DEF AlertRow
<1>3. ASSUME NEW v PROVE [AlertRow(body, t) EXCEPT !.triggered = v] = AlertRow(body, v)
  BY DEF AlertRow
<1> QED
  BY <1>1, <1>2, <1>3

\* The alerts change in no other way.
LEMMA AlertSteps ==
    ASSUME TypeOK, MarksHaveHooks, [Next]_vars
    PROVE  /\ DOMAIN alerts' = Alerts /\ alerts' = [a \in Alerts |-> alerts'[a]]
           /\ \A a \in Alerts : AlertMoves(a)
<1>a. alerts \in [Alerts -> AlertRows \cup {NoAlert}]
  BY DEF TypeOK
<1>1. ASSUME UNCHANGED alerts
      PROVE  /\ DOMAIN alerts' = Alerts /\ alerts' = [a \in Alerts |-> alerts'[a]]
             /\ \A a \in Alerts : AlertMoves(a)
  BY <1>1, <1>a DEF AlertMoves
<1>2. ASSUME NEW w \in Processes, MarkTriggered(w)
      PROVE  /\ DOMAIN alerts' = Alerts /\ alerts' = [a \in Alerts |-> alerts'[a]]
             /\ \A a \in Alerts : AlertMoves(a)
  <2>1. /\ alerts' = [a \in Alerts |-> IF a \in proc[w].todo
                                         THEN [alerts[a] EXCEPT !.triggered = TRUE]
                                         ELSE alerts[a]]
        /\ UNCHANGED hooks /\ proc[w].pc = "mark"
    BY <1>2 DEF MarkTriggered
  <2>2. \A a \in proc[w].todo : a \in Existing /\ HasHook(a)
    BY <2>1 DEF MarksHaveHooks
  <2> QED
    BY <2>1, <2>2 DEF AlertMoves
<1>3. ASSUME NEW b \in Alerts, NEW body \in AlertBodies, CreateAlert(b, body)
      PROVE  /\ DOMAIN alerts' = Alerts /\ alerts' = [a \in Alerts |-> alerts'[a]]
             /\ \A a \in Alerts : AlertMoves(a)
  <2> DEFINE row == AlertRow(body, FALSE)
  <2>1. b \notin Existing /\ Valid(body) /\ alerts' = [alerts EXCEPT ![b] = row]
    BY <1>3 DEF CreateAlert, Existing
  <2>2. row \in AlertRows /\ ~row.triggered
    BY <2>1, RowFields
  <2> HIDE DEF row
  <2> QED
    BY <1>a, <2>1, <2>2 DEF AlertMoves
<1>4. CASE UNCHANGED vars
  BY <1>1, <1>4 DEF vars
<1>5. ASSUME NEW w \in Processes, WorkerStep(w) \/ FaultStep(w), ~MarkTriggered(w)
      PROVE  UNCHANGED alerts
  BY <1>5 DEF WorkerStep, FaultStep, SeedStep, PollStep, HookStep, Start, HasActive, Seed,
     ClaimHook, ClaimPoll, ReadSymbols, Refresh, ListActive, Fire, Fired, Rearm, Complete,
     Retry, PostOk, PostFails, HookComplete, HookRetry, RefreshFails, FireFails, MarkFails,
     PollFails, StatementFails, Crash
<1>6. CASE ReapStep \/ \E s \in Symbols : MarketMoves(s)
  BY <1>1, <1>6 DEF ReapStep, ReapPoll, ReapHook, MarketMoves
<1> QED
  BY <1>1, <1>2, <1>3, <1>4, <1>5, <1>6 DEF Next

\* An existing alert stays what it is; whether a price crosses its threshold
\* does not depend on the mark.
LEMMA AlertStays ==
    ASSUME TypeOK, NEW a \in Alerts, AlertMoves(a)
    PROVE  /\ alerts'[a] \in AlertRows \cup {NoAlert}
           /\ a \in Existing => /\ alerts'[a] # NoAlert
                                /\ \A p : Crosses(alerts[a], p) => Crosses(alerts'[a], p)
           /\ (alerts'[a] # NoAlert /\ alerts'[a].triggered) =>
                 a \in Existing /\ (alerts[a].triggered \/ (HasHook(a) /\ UNCHANGED hooks))
<1>a. alerts[a] \in AlertRows \cup {NoAlert}
  BY DEF TypeOK
<1>1. CASE alerts'[a] = alerts[a]
  BY <1>1, <1>a DEF Existing
<1>2. CASE a \notin Existing /\ alerts'[a] \in AlertRows /\ ~alerts'[a].triggered
  BY <1>2
<1>3. CASE /\ a \in Existing /\ HasHook(a) /\ UNCHANGED hooks
           /\ alerts'[a] = [alerts[a] EXCEPT !.triggered = TRUE]
  <2>1. PICK body \in {b \in AlertBodies : Valid(b)}, t \in BOOLEAN :
          alerts[a] = AlertRow(body, t)
    BY <1>3, <1>a DEF Existing, AlertRows
  <2>2. alerts'[a] = AlertRow(body, TRUE)
    BY <1>3, <2>1, RowFields
  <2>3. alerts'[a] \in AlertRows
    BY <2>2, RowFields
  <2>4. \A p : Crosses(alerts[a], p) => Crosses(alerts'[a], p)
    BY <2>1, <2>2 DEF Crosses, AlertRow
  <2> QED
    BY <1>3, <2>3, <2>4, PollingAssumption
<1> QED
  BY <1>1, <1>2, <1>3 DEF AlertMoves

-----------------------------------------------------------------------------
(* The webhook jobs.                                                       *)

Statuses == {"free", "queued", "delayed", "inflight", "done", "dead"}

\* A job with one of these is delivered once more.
Awaiting == {"queued", "delayed"}

USE DEF Statuses, Awaiting

HookRows == [status : Statuses,
             attempts : Nat, price : Prices \cup {NoPrice}]

\* A webhook job's row in a state that TypeOK allows.
LEMMA HookFields ==
    ASSUME TypeOK
    PROVE  /\ hooks \in [Hooks -> HookRows]
           /\ \A h \in Hooks : /\ hooks[h] \in HookRows /\ hooks[h].attempts \in Nat
                               /\ hooks[h].price \in Prices \cup {NoPrice}
<1>1. HookAttempts \in Nat /\ MaxFaults \in Nat
  BY PollingAssumption
<1>2. \A n \in 0 .. HookAttempts + MaxFaults : n \in Nat
  BY <1>1
<1> QED
  BY <1>2 DEF TypeOK, HookRows

\* An update of the status that spares dead letters.
LEMMA SetHookEffect ==
    ASSUME TypeOK, NEW h \in Hooks, NEW s \in {"queued", "delayed", "done", "dead"}, SetHook(h, s)
    PROVE  \E r \in HookRows :
               /\ hooks' = [hooks EXCEPT ![h] = r]
               /\ r.status = IF hooks[h].status = "dead" THEN "dead" ELSE s
               /\ r.attempts = hooks[h].attempts /\ r.price = hooks[h].price
<1> DEFINE t == IF hooks[h].status = "dead" THEN "dead" ELSE s
           r == [hooks[h] EXCEPT !.status = t]
<1>1. hooks' = [hooks EXCEPT ![h] = r]
  BY HookFields DEF SetHook
<1>2. r \in HookRows /\ r.status = t /\ r.attempts = hooks[h].attempts
      /\ r.price = hooks[h].price
  BY HookFields DEF HookRows
<1> HIDE DEF r
<1> QED
  BY <1>1, <1>2

\* A claim counts an attempt, and the worker has its number.
LEMMA ClaimEffect ==
    ASSUME TypeOK, NEW w \in Processes, ClaimHook(w)
    PROVE  /\ proc[w].pc = "idle"
           /\ UNCHANGED <<polls, alerts, market, received, seeded, faults>>
           /\ \E h \in Hooks : \E r \in HookRows :
                /\ hooks' = [hooks EXCEPT ![h] = r] /\ hooks[h].status \in Awaiting
                /\ r.status = "inflight" /\ r.attempts = hooks[h].attempts + 1
                /\ r.price = hooks[h].price
                /\ proc'[w].job = h /\ proc'[w].attempt = r.attempts
<1>1. PICK h \in QueuedHooks \cup DelayedHooks :
        /\ hooks' = [hooks EXCEPT ![h].status = "inflight", ![h].attempts = @ + 1]
        /\ proc' = [proc EXCEPT ![w] =
                      [Local("post", h) EXCEPT !.attempt = hooks[h].attempts + 1]]
  BY DEF ClaimHook
<1>2. h \in Hooks /\ hooks[h].status \in Awaiting
  BY DEF QueuedHooks, DelayedHooks
<1> DEFINE n == hooks[h].attempts + 1
           r == [hooks[h] EXCEPT !.status = "inflight", !.attempts = n]
           e == [Local("post", h) EXCEPT !.attempt = n]
<1>3. n \in Nat
  BY <1>2, HookFields
<1>4. hooks' = [hooks EXCEPT ![h] = r]
  BY <1>1, <1>2, HookFields
<1>5. proc'[w] = e
  BY <1>1, ProcFits
<1> HIDE DEF n
<1>6. r \in HookRows /\ r.status = "inflight" /\ r.attempts = n /\ r.price = hooks[h].price
  BY <1>2, <1>3, HookFields DEF HookRows
<1>7. e.job = h /\ e.attempt = n
  BY DEF Local
<1> HIDE DEF r, e
<1>8. proc[w].pc = "idle" /\ UNCHANGED <<polls, alerts, market, received, seeded, faults>>
  BY DEF ClaimHook
<1> QED
  BY <1>2, <1>4, <1>5, <1>6, <1>7, <1>8 DEF n

\* A webhook job is created with the price that crossed the threshold.
LEMMA FireEffect ==
    ASSUME TypeOK, NEW w \in Processes, Fire(w)
    PROVE  /\ UNCHANGED <<polls, alerts, market, received, seeded, faults>>
           /\ \E h \in Hooks : \E r \in HookRows :
                /\ hooks' = [hooks EXCEPT ![h] = r] /\ hooks[h] = NoHook
                /\ r.status = "queued" /\ r.attempts = 0
                /\ h[1] \in Existing /\ Crosses(alerts[h[1]], r.price)
                /\ proc'[w].todo = {h[1]}
<1>1. PICK a \in Crossed(w), h \in Hooks :
        /\ h[1] = a /\ hooks[h] = NoHook
        /\ hooks' = [hooks EXCEPT ![h] = [status |-> "queued", attempts |-> 0,
                                          price |-> proc[w].prices[alerts[a].symbol]]]
        /\ proc' = [proc EXCEPT ![w].pc = "mark", ![w].todo = {a}, ![w].active = @ \ {a}]
  BY DEF Fire, IsNextHook
<1>2. a \in Existing /\ a \in Alerts /\ Crosses(alerts[a], proc[w].prices[alerts[a].symbol])
  BY ProcFits DEF Crossed, Existing
<1>3. alerts[a].symbol \in Symbols
  BY <1>2 DEF TypeOK, Existing, AlertRows, AlertRow, Valid
<1> DEFINE p == proc[w].prices[alerts[a].symbol]
           r == [status |-> "queued", attempts |-> 0, price |-> p]
<1>4. p \in Prices \cup {NoPrice}
  BY <1>3, ProcFits
<1> HIDE DEF p
<1>5. r \in HookRows /\ r.status = "queued" /\ r.attempts = 0 /\ r.price = p
  BY <1>4 DEF HookRows
<1>6. hooks' = [hooks EXCEPT ![h] = r]
  BY <1>1 DEF p
<1>7. proc'[w].todo = {a}
  <2> DEFINE e == [proc[w] EXCEPT !.pc = "mark", !.todo = {a}, !.active = @ \ {a}]
  <2>1. proc' = [proc EXCEPT ![w] = e]
    BY <1>1, ProcFits
  <2>2. e.todo = {a}
    BY ProcFits DEF Locals
  <2> HIDE DEF e
  <2> QED
    BY <2>1, <2>2, ProcFits
<1>8. UNCHANGED <<polls, alerts, market, received, seeded, faults>>
  BY DEF Fire
<1> HIDE DEF r
<1> QED
  BY <1>1, <1>2, <1>5, <1>6, <1>7, <1>8 DEF p

\* The steps that write webhook jobs.
LEMMA HookWriters ==
    ASSUME [Next]_vars
    PROVE  \/ UNCHANGED hooks
           \/ \E w \in Processes : Fire(w) \/ ClaimHook(w) \/ HookComplete(w) \/ HookRetry(w)
           \/ \E h \in Hooks : ReapHook(h)
<1>1. ASSUME NEW w \in Processes, WorkerStep(w) \/ FaultStep(w),
             ~(Fire(w) \/ ClaimHook(w) \/ HookComplete(w) \/ HookRetry(w))
      PROVE  UNCHANGED hooks
  BY <1>1 DEF WorkerStep, FaultStep, SeedStep, PollStep, HookStep, Start, HasActive, Seed,
     ClaimPoll, ReadSymbols, Refresh, ListActive, MarkTriggered, Fired, Rearm, Complete,
     Retry, PostOk, PostFails, RefreshFails, FireFails, MarkFails, PollFails,
     StatementFails, Crash
<1>2. ASSUME UNCHANGED vars \/ (\E p \in Polls : ReapPoll(p)) \/ (\E s \in Symbols : MarketMoves(s))
      PROVE  UNCHANGED hooks
  BY <1>2 DEF vars, ReapPoll, MarketMoves
<1>3. ASSUME NEW a \in Alerts, NEW body \in AlertBodies, CreateAlert(a, body)
      PROVE  UNCHANGED hooks
  BY <1>3 DEF CreateAlert
<1> QED
  BY <1>1, <1>2, <1>3 DEF Next, ReapStep

\* What a worker does to the job it has in hand.
LEMMA OutcomeEffect ==
    ASSUME TypeOK, NEW w \in Processes, HookComplete(w) \/ HookRetry(w)
    PROVE  /\ UNCHANGED <<polls, alerts, market, received, seeded, faults>>
           /\ proc[w].pc \in HookPcs /\ proc[w].job \in Hooks
           /\ proc' = [proc EXCEPT ![w] = Local("idle", NoJob)]
           /\ \E r \in HookRows :
                /\ hooks' = [hooks EXCEPT ![proc[w].job] = r]
                /\ r.attempts = hooks[proc[w].job].attempts
                /\ r.price = hooks[proc[w].job].price
                /\ r.status \in {"delayed", "done", "dead"}
                /\ r.status \in Awaiting => HookRetry(w) /\ proc[w].attempt < HookAttempts
                /\ r.status = "done" => HookComplete(w)
<1>1. /\ proc[w].pc \in HookPcs
      /\ UNCHANGED <<polls, alerts, market, received, seeded, faults>>
      /\ proc' = [proc EXCEPT ![w] = Local("idle", NoJob)]
  BY DEF HookComplete, HookRetry, HookPcs, Leave
<1>2. proc[w].job \in Hooks /\ proc[w].attempt \in Nat /\ HookAttempts \in Nat
  BY <1>1, ProcFits, PollingAssumption DEF Fits
<1>3. CASE HookComplete(w)
  <2>1. SetHook(proc[w].job, "done")
    BY <1>3 DEF HookComplete
  <2> QED
    BY <1>1, <1>2, <1>3, <2>1, SetHookEffect
<1>4. CASE HookRetry(w)
  <2> DEFINE s == IF proc[w].attempt >= HookAttempts THEN "dead" ELSE "delayed"
  <2>1. SetHook(proc[w].job, s)
    BY <1>4 DEF HookRetry
  <2>2. s \in {"delayed", "dead"} /\ (s = "delayed" => proc[w].attempt < HookAttempts)
    BY <1>2
  <2> HIDE DEF s
  <2> QED
    BY <1>1, <1>2, <1>4, <2>1, <2>2, SetHookEffect
<1> QED
  BY <1>3, <1>4

\* What the reaper does to a job whose lease is over.
LEMMA ReapEffect ==
    ASSUME TypeOK, NEW h \in Hooks, ReapHook(h)
    PROVE  /\ UNCHANGED <<polls, alerts, market, proc, received, seeded>>
           /\ hooks[h].status = "inflight"
           /\ IF h \in InHand THEN faults < MaxFaults /\ faults' = faults + 1
                              ELSE UNCHANGED faults
           /\ \E r \in HookRows :
                /\ hooks' = [hooks EXCEPT ![h] = r]
                /\ r.attempts = hooks[h].attempts /\ r.price = hooks[h].price
                /\ r.status \in {"queued", "dead"}
                /\ r.status \in Awaiting => hooks[h].attempts < HookAttempts
<1> DEFINE s == IF hooks[h].attempts >= HookAttempts THEN "dead" ELSE "queued"
<1>1. SetHook(h, s) /\ hooks[h].status = "inflight"
  BY DEF ReapHook
<1>2. s \in {"queued", "dead"} /\ (s = "queued" => hooks[h].attempts < HookAttempts)
  BY HookFields, PollingAssumption
<1>3. /\ UNCHANGED <<polls, alerts, market, proc, received, seeded>>
      /\ IF h \in InHand THEN faults < MaxFaults /\ faults' = faults + 1
                         ELSE UNCHANGED faults
  BY DEF ReapHook, Overrun
<1> HIDE DEF s
<1> QED
  BY <1>1, <1>2, <1>3, SetHookEffect

-----------------------------------------------------------------------------
(* The attempts of a webhook job.                                          *)

\* The workers that may still requeue the job, whatever the reaper does.
Holders(h) == {w \in Processes : /\ proc[w].pc \in HookPcs /\ proc[w].job = h
                                 /\ proc[w].attempt < HookAttempts}

\* The last attempts the job has used, from max_attempts on.
Used(h) == IF hooks[h].attempts < HookAttempts THEN 0
           ELSE hooks[h].attempts - HookAttempts + 1

\* Whether another delivery of the job is to come.
Waiting(h) == IF hooks[h].status \in Awaiting THEN 1 ELSE 0

\* Every attempt past the last one, every delivery to come and every
\* worker that may cause one takes a fault.
Budget(h) == Used(h) + Waiting(h) + Cardinality(Holders(h)) <= 1 + faults

\* A job that a worker has in hand has been enqueued.
InHandExists ==
    \A w \in Processes : proc[w].pc \in HookPcs => hooks[proc[w].job].status # "free"

\* The part of the inductive invariant about attempts.
AttemptsInv == InHandExists /\ \A h \in Hooks : Budget(h)

\* The holders are finitely many, as the processes are.
LEMMA HoldersFinite ==
    ASSUME NEW h
    PROVE  IsFiniteSet(Holders(h)) /\ Cardinality(Holders(h)) \in Nat
<1>1. Holders(h) \in SUBSET Processes /\ IsFiniteSet(Processes)
  BY PollingAssumption DEF Holders
<1> QED
  BY <1>1, FS_Subset, FS_CardinalityType

\* The steps of the workers alone change what is in hand.
LEMMA ProcSteps ==
    ASSUME TypeOK, [Next]_vars
    PROVE  \/ UNCHANGED proc
           \/ \E w \in Processes : \E e : (WorkerStep(w) \/ FaultStep(w)) /\ Effect(w, e)
<1>1. CASE UNCHANGED vars \/ ReapStep \/ \E s \in Symbols : MarketMoves(s)
  BY <1>1 DEF vars, ReapStep, ReapPoll, ReapHook, MarketMoves
<1>2. ASSUME NEW a \in Alerts, NEW body \in AlertBodies, CreateAlert(a, body)
      PROVE  UNCHANGED proc
  BY <1>2 DEF CreateAlert
<1> QED
  BY <1>1, <1>2, WorkerEffect DEF Next

\* A worker becomes a holder by its claim only.
LEMMA HolderSteps ==
    ASSUME TypeOK, [Next]_vars, NEW h \in Hooks, NEW v \in Holders(h)'
    PROVE  v \in Processes /\ (v \in Holders(h) \/ ClaimHook(v))
<1>1. v \in Processes
  BY DEF Holders
<1>2. CASE UNCHANGED proc
  BY <1>2 DEF Holders
<1>3. ASSUME NEW w \in Processes, NEW e, Effect(w, e)
      PROVE  v \in Holders(h) \/ ClaimHook(v)
  <2>1. CASE v = w
    <3>1. proc'[v] = e
      BY <1>1, <1>3, <2>1, ProcFits DEF Effect
    <3> QED
      BY <1>1, <1>3, <2>1, <3>1 DEF Effect, Holders
  <2>2. CASE v # w
    <3>1. proc'[v] = proc[v]
      BY <1>1, <1>3, <2>2, ProcFits DEF Effect
    <3> QED
      BY <3>1 DEF Holders
  <2> QED
    BY <2>1, <2>2
<1> QED
  BY <1>1, <1>2, <1>3, ProcSteps

\* A claim is made by one idle worker; the others stay what they are.
LEMMA OneClaims ==
    ASSUME TypeOK, NEW w \in Processes, ClaimHook(w), NEW v \in Processes, ClaimHook(v)
    PROVE  v = w
<1>1. PICK f \in QueuedHooks \cup DelayedHooks :
        proc' = [proc EXCEPT ![w] = [Local("post", f) EXCEPT !.attempt = hooks[f].attempts + 1]]
  BY DEF ClaimHook
<1>2. PICK g \in QueuedHooks \cup DelayedHooks :
        proc' = [proc EXCEPT ![v] = [Local("post", g) EXCEPT !.attempt = hooks[g].attempts + 1]]
  BY DEF ClaimHook
<1>3. proc'[w].pc = "post" /\ proc[w].pc = "idle"
  <2> DEFINE n == hooks[f].attempts + 1
  <2>1. proc'[w] = [Local("post", f) EXCEPT !.attempt = n]
    BY <1>1, ProcFits
  <2> HIDE DEF n
  <2>2. proc'[w].pc = "post"
    BY <2>1 DEF Local
  <2> QED
    BY <2>2 DEF ClaimHook
<1>4. v # w => proc'[w] = proc[w]
  BY <1>2, ProcFits
<1> QED
  BY <1>3, <1>4

\* InHandExists is kept: a claimed job's row is in flight, and rows stay.
LEMMA InHandInductive ==
    ASSUME TypeOK, InHandExists, [Next]_vars
    PROVE  InHandExists'
<1>1. ASSUME NEW h \in Hooks, hooks[h].status # "free" PROVE hooks'[h].status # "free"
  <2>1. ASSUME NEW g \in Hooks, NEW r, hooks' = [hooks EXCEPT ![g] = r], r.status # "free"
        PROVE  hooks'[h].status # "free"
    BY <1>1, <2>1, HookFields
  <2> QED
    BY <1>1, <2>1, HookWriters, FireEffect, ClaimEffect, OutcomeEffect, ReapEffect
<1> SUFFICES ASSUME NEW v \in Processes, proc'[v].pc \in HookPcs
             PROVE  hooks'[proc'[v].job].status # "free"
  BY DEF InHandExists
<1>2. CASE ClaimHook(v)
  <2>1. PICK h \in Hooks, r \in HookRows :
          hooks' = [hooks EXCEPT ![h] = r] /\ r.status = "inflight" /\ proc'[v].job = h
    BY <1>2, ClaimEffect
  <2> QED
    BY <2>1, HookFields
<1>3. CASE proc'[v] = proc[v]
  <2>1. proc[v].job \in Hooks /\ hooks[proc[v].job].status # "free"
    BY <1>3, ProcFits DEF InHandExists, Fits
  <2> QED
    BY <1>1, <1>3, <2>1
<1>4. ASSUME NEW e, Effect(v, e), ~ClaimHook(v)
      PROVE  hooks'[proc'[v].job].status # "free"
  <2>1. proc'[v] = e
    BY <1>4, ProcFits DEF Effect
  <2>2. proc[v].pc \in HookPcs /\ proc'[v].job = proc[v].job
    BY <1>4, <2>1 DEF Effect
  <2>3. proc[v].job \in Hooks /\ hooks[proc[v].job].status # "free"
    BY <2>2, ProcFits DEF InHandExists, Fits
  <2> QED
    BY <1>1, <2>2, <2>3
<1>5. ASSUME NEW w \in Processes, NEW e, Effect(w, e), w # v
      PROVE  proc'[v] = proc[v]
  BY <1>5, ProcFits DEF Effect
<1> QED
  BY <1>2, <1>3, <1>4, <1>5, ProcSteps

\* Faults are counted up.
LEMMA FaultSteps ==
    ASSUME TypeOK, [Next]_vars
    PROVE  faults' \in 0 .. MaxFaults /\ faults \in Nat /\ faults' \in Nat /\ faults <= faults'
<1>a. faults \in 0 .. MaxFaults /\ MaxFaults \in Nat
  BY PollingAssumption DEF TypeOK
<1>b. ASSUME faults' = faults \/ (faults < MaxFaults /\ faults' = faults + 1)
      PROVE  faults' \in 0 .. MaxFaults /\ faults \in Nat /\ faults' \in Nat /\ faults <= faults'
  BY <1>a, <1>b
<1>1. ASSUME NEW w \in Processes, WorkerStep(w) PROVE UNCHANGED faults
  BY <1>1 DEF WorkerStep, SeedStep, PollStep, HookStep, Start, HasActive, Seed, ClaimHook,
     ClaimPoll, ReadSymbols, Refresh, ListActive, Fire, MarkTriggered, Fired, Rearm, Complete,
     Retry, PostOk, PostFails, HookComplete, HookRetry
<1>2. ASSUME NEW w \in Processes, FaultStep(w) PROVE faults < MaxFaults /\ faults' = faults + 1
  BY <1>2 DEF FaultStep, RefreshFails, FireFails, MarkFails, PollFails, StatementFails, Crash
<1>3. ASSUME ReapStep PROVE faults' = faults \/ (faults < MaxFaults /\ faults' = faults + 1)
  BY <1>3 DEF ReapStep, ReapPoll, ReapHook, Overrun
<1>4. ASSUME UNCHANGED vars \/ \E s \in Symbols : MarketMoves(s) PROVE UNCHANGED faults
  BY <1>4 DEF vars, MarketMoves
<1>5. ASSUME NEW a \in Alerts, NEW body \in AlertBodies, CreateAlert(a, body)
      PROVE  UNCHANGED faults
  BY <1>5 DEF CreateAlert
<1> QED
  BY <1>b, <1>1, <1>2, <1>3, <1>4, <1>5 DEF Next

\* A job whose row does not change, or is not queued for another attempt,
\* stays within its budget.
LEMMA QuietBudget ==
    ASSUME TypeOK, [Next]_vars, NEW h \in Hooks, Budget(h), Holders(h)' \subseteq Holders(h),
           hooks'[h].attempts = hooks[h].attempts,
           hooks'[h].status \in Awaiting => hooks[h].status \in Awaiting
    PROVE  Budget(h)'
<1> DEFINE c == Cardinality(Holders(h))
           d == Cardinality(Holders(h)')
<1>1. Used(h)' = Used(h) /\ Used(h) \in Nat
  BY HookFields, PollingAssumption DEF Used
<1>2. Waiting(h)' <= Waiting(h) /\ Waiting(h) \in Nat /\ Waiting(h)' \in Nat
  BY DEF Waiting
<1>3. c \in Nat /\ d \in Nat /\ d <= c
  BY HoldersFinite, FS_Subset, FS_CardinalityType
<1>4. d = Cardinality(Holders(h))'
  OBVIOUS
<1>5. Used(h) + Waiting(h) + c <= 1 + faults /\ faults <= faults' /\ faults \in Nat /\ faults' \in Nat
  BY FaultSteps DEF Budget
<1> HIDE DEF c, d
<1>6. Used(h)' + Waiting(h)' + d <= 1 + faults'
  BY <1>1, <1>2, <1>3, <1>5
<1> QED
  BY <1>4, <1>6 DEF Budget

(***************************************************************************)
(* Every job stays within its budget.  Each case of a written row weighs   *)
(* what the job gains (an attempt, a delivery, a holder) against what it   *)
(* gives up or the fault it takes.                                         *)
(***************************************************************************)
LEMMA BudgetInductive ==
    ASSUME TypeOK, AttemptsInv, [Next]_vars, NEW h \in Hooks
    PROVE  Budget(h)'
<1> DEFINE c == Cardinality(Holders(h))
           d == Cardinality(Holders(h)')
           n == hooks[h].attempts
<1>a. /\ HookAttempts \in Nat \ {0} /\ n \in Nat
      /\ faults \in Nat /\ faults' \in Nat /\ faults <= faults' /\ c \in Nat
  BY PollingAssumption, HookFields, FaultSteps, HoldersFinite
<1>b. Budget(h)
  BY DEF AttemptsInv
<1>c. /\ Used(h) = (IF n < HookAttempts THEN 0 ELSE n - HookAttempts + 1)
      /\ Waiting(h) = (IF hooks[h].status \in Awaiting THEN 1 ELSE 0)
      /\ Used(h) + Waiting(h) + c <= 1 + faults
  BY <1>b DEF Used, Waiting, Budget
<1>d. Holders(h)' \subseteq Holders(h) => d \in Nat /\ d <= c
  BY HoldersFinite, FS_Subset, FS_CardinalityType
<1>e. d = Cardinality(Holders(h))'
  OBVIOUS
<1>1. ASSUME hooks'[h] = hooks[h], \A w \in Processes : ClaimHook(w) => proc'[w].job # h
      PROVE  Budget(h)'
  <2>1. Holders(h)' \subseteq Holders(h)
    BY <1>1, HolderSteps DEF Holders
  <2> QED
    BY <1>1, <1>b, <2>1, QuietBudget
<1>2. ASSUME NEW w \in Processes, Fire(w) PROVE Budget(h)'
  <2>1. PICK g \in Hooks, r \in HookRows :
          /\ hooks' = [hooks EXCEPT ![g] = r] /\ hooks[g] = NoHook
          /\ r.status = "queued" /\ r.attempts = 0
    BY <1>2, FireEffect
  <2>2. \A v \in Processes : ~ClaimHook(v)
    BY <1>2, <2>1, ClaimEffect, HookFields DEF Fire, NoHook
  <2>3. CASE h # g
    BY <1>1, <2>1, <2>2, <2>3, HookFields
  <2>4. CASE h = g
    <3>1. hooks'[h].status = "queued" /\ hooks'[h].attempts = 0
      BY <2>1, <2>4, HookFields
    <3>2. Holders(h) = {}
      BY <2>1, <2>4 DEF AttemptsInv, InHandExists, Holders, NoHook
    <3>3. Holders(h)' = {}
      BY <2>2, <3>2, HolderSteps
    <3>4. d \in Nat /\ d <= 0
      BY <3>3, FS_EmptySet
    <3>5. Used(h)' \in Nat /\ Used(h)' <= 0 /\ Waiting(h)' \in Nat /\ Waiting(h)' <= 1
      BY <1>a, <3>1 DEF Used, Waiting
    <3> HIDE DEF c, d, n
    <3>6. Used(h)' + Waiting(h)' + d <= 1 + faults'
      BY <1>a, <3>4, <3>5
    <3> QED
      BY <1>e, <3>6 DEF Budget, d
  <2> QED
    BY <2>3, <2>4
<1>3. ASSUME NEW w \in Processes, ClaimHook(w) PROVE Budget(h)'
  <2>1. PICK g \in Hooks, r \in HookRows :
          /\ hooks' = [hooks EXCEPT ![g] = r] /\ hooks[g].status \in Awaiting
          /\ r.status = "inflight" /\ r.attempts = hooks[g].attempts + 1
          /\ proc'[w].job = g /\ proc'[w].attempt = r.attempts
    BY <1>3, ClaimEffect
  <2>2. \A v \in Processes : ClaimHook(v) => v = w
    BY <1>3, OneClaims
  <2>3. CASE h # g
    BY <1>1, <2>1, <2>2, <2>3, HookFields
  <2>4. CASE h = g
    <3>1. hooks'[h].status = "inflight" /\ hooks'[h].attempts = n + 1
      BY <2>1, <2>4, HookFields
    <3>2. Holders(h)' \subseteq Holders(h) \cup {w}
      BY <2>2, HolderSteps
    <3>3. w \notin Holders(h)
      BY <1>3, ClaimEffect DEF Holders, HookPcs
    <3>4. n + 1 >= HookAttempts => w \notin Holders(h)'
      <4>1. proc'[w].attempt = n + 1
        BY <2>1, <2>4
      <4> HIDE DEF n
      <4>2. n + 1 >= HookAttempts => ~(n + 1 < HookAttempts)
        BY <1>a
      <4> QED
        BY <4>1, <4>2 DEF Holders
    <3>5. /\ d \in Nat /\ d <= c + 1
          /\ n + 1 >= HookAttempts => d <= c
      <4>1. /\ IsFiniteSet(Holders(h) \cup {w})
            /\ Cardinality(Holders(h) \cup {w}) = c + 1
        BY <3>3, HoldersFinite, FS_AddElement
      <4>2. d \in Nat /\ d <= c + 1
        BY <3>2, <4>1, <1>a, FS_Subset, FS_CardinalityType
      <4>3. n + 1 >= HookAttempts => Holders(h)' \subseteq Holders(h)
        BY <3>2, <3>4
      <4> QED
        BY <1>d, <4>2, <4>3
    <3>6. /\ Used(h)' \in Nat /\ Waiting(h)' \in Nat /\ Waiting(h)' <= 0
          /\ n + 1 < HookAttempts => Used(h)' <= 0
          /\ n + 1 >= HookAttempts => Used(h)' <= Used(h) + 1
      <4> HIDE DEF n
      <4> QED
        BY <1>a, <1>c, <3>1 DEF Used, Waiting
    <3>7. hooks[h].status \in Awaiting /\ Used(h) \in Nat
      <4> HIDE DEF n
      <4> QED
        BY <1>a, <1>c, <2>1, <2>4
    <3> HIDE DEF c, d, n
    <3>8. Used(h) + 1 + c <= 1 + faults
      BY <1>c, <3>7
    <3>9. Used(h)' + Waiting(h)' + d <= 1 + faults'
      <4>1. CASE n + 1 < HookAttempts
        BY <1>a, <3>5, <3>6, <3>7, <3>8, <4>1
      <4>2. CASE n + 1 >= HookAttempts
        BY <1>a, <3>5, <3>6, <3>7, <3>8, <4>2
      <4> QED
        BY <1>a, <4>1, <4>2
    <3> QED
      BY <1>e, <3>9 DEF Budget, d
  <2> QED
    BY <2>3, <2>4
<1>4. ASSUME NEW w \in Processes, HookComplete(w) \/ HookRetry(w) PROVE Budget(h)'
  <2> DEFINE g == proc[w].job
  <2>1. /\ g \in Hooks /\ proc[w].pc \in HookPcs
        /\ proc' = [proc EXCEPT ![w] = Local("idle", NoJob)]
    BY <1>4, OutcomeEffect
  <2>2. PICK r \in HookRows :
          /\ hooks' = [hooks EXCEPT ![g] = r] /\ r.attempts = hooks[g].attempts
          /\ r.status \in Awaiting => HookRetry(w) /\ proc[w].attempt < HookAttempts
    BY <1>4, OutcomeEffect
  <2>3. proc'[w].pc = "idle"
    BY <2>1, ProcFits DEF Local
  <2>4. \A v \in Processes : ~ClaimHook(v)
    <3>1. proc[w].pc # "idle"
      BY <2>1 DEF HookPcs
    <3>2. ASSUME NEW v \in Processes, ClaimHook(v) PROVE FALSE
      <4>1. PICK f \in Hooks : proc'[v].job = f
        BY <3>2, ClaimEffect
      <4>2. v = w => proc'[v].job = NoJob
        BY <2>1, ProcFits DEF Local
      <4>3. v # w => proc'[v] = proc[v]
        BY <2>1, ProcFits
      <4>4. proc[v].pc = "idle"
        BY <3>2, ClaimEffect
      <4>5. proc[v].job = NoJob
        BY <4>4, ProcFits DEF Fits
      <4> QED
        BY <4>1, <4>2, <4>3, <4>5, PollingAssumption
    <3> QED
      BY <3>2
  <2>5. Holders(h)' \subseteq Holders(h)
    BY <2>4, HolderSteps
  <2> HIDE DEF g
  <2>6. CASE h # g
    BY <1>1, <2>2, <2>4, <2>6, HookFields
  <2>7. CASE h = g /\ r.status \notin Awaiting
    BY <1>b, <2>2, <2>5, <2>7, QuietBudget, HookFields
  <2>8. CASE h = g /\ r.status \in Awaiting
    <3>1. w \in Holders(h) /\ w \notin Holders(h)'
      BY <2>1, <2>2, <2>3, <2>8 DEF Holders, HookPcs, g
    <3>2. d \in Nat /\ d <= c - 1
      <4>1. /\ IsFiniteSet(Holders(h) \ {w})
            /\ Cardinality(Holders(h) \ {w}) = c - 1
        BY <3>1, HoldersFinite, FS_RemoveElement
      <4>2. Holders(h)' \subseteq Holders(h) \ {w}
        BY <2>5, <3>1
      <4> QED
        BY <4>1, <4>2, FS_Subset, FS_CardinalityType
    <3>3. hooks'[h].attempts = n
      BY <2>2, <2>8, HookFields
    <3>4. Used(h)' = Used(h) /\ Waiting(h)' \in {0, 1}
      BY <3>3 DEF Used, Waiting
    <3>5. Used(h) \in Nat /\ Waiting(h) \in {0, 1}
      <4> HIDE DEF n
      <4> QED
        BY <1>a, <1>c
    <3> HIDE DEF c, d
    <3>6. Used(h)' + Waiting(h)' + d <= 1 + faults'
      BY <1>a, <1>c, <3>2, <3>4, <3>5
    <3> QED
      BY <1>e, <3>6 DEF Budget, d
  <2> QED
    BY <2>6, <2>7, <2>8
<1>5. ASSUME NEW g \in Hooks, ReapHook(g) PROVE Budget(h)'
  <2>1. /\ UNCHANGED proc /\ hooks[g].status = "inflight"
        /\ IF g \in InHand THEN faults < MaxFaults /\ faults' = faults + 1
                           ELSE UNCHANGED faults
    BY <1>5, ReapEffect
  <2>2. PICK r \in HookRows :
          /\ hooks' = [hooks EXCEPT ![g] = r] /\ r.attempts = hooks[g].attempts
          /\ r.status \in Awaiting => hooks[g].attempts < HookAttempts
    BY <1>5, ReapEffect
  <2>3. Holders(h)' = Holders(h)
    BY <2>1 DEF Holders
  <2>4. \A v \in Processes : ~ClaimHook(v)
    BY <2>1, ClaimEffect, ProcFits, PollingAssumption DEF Fits
  <2>5. CASE h # g
    BY <1>1, <2>2, <2>4, <2>5, HookFields
  <2>6. CASE h = g /\ r.status \notin Awaiting
    BY <1>b, <2>2, <2>3, <2>6, QuietBudget, HookFields
  <2>7. CASE h = g /\ r.status \in Awaiting
    <3>1. hooks'[h].attempts = n /\ n < HookAttempts
      BY <2>2, <2>7, HookFields
    <3>2. Used(h)' = 0 /\ Waiting(h)' \in {0, 1} /\ d = c
      BY <2>3, <3>1 DEF Used, Waiting
    <3>3. Used(h) = 0 /\ Waiting(h) = 0
      BY <1>c, <2>1, <2>7, <3>1
    <3>4. CASE h \in InHand
      <4>1. faults' = faults + 1
        BY <2>1, <2>7, <3>4
      <4> HIDE DEF c, d
      <4>2. Used(h)' + Waiting(h)' + d <= 1 + faults'
        BY <1>a, <1>c, <3>2, <3>3, <4>1
      <4> QED
        BY <1>e, <4>2 DEF Budget, d
    <3>5. CASE h \notin InHand
      <4>1. Holders(h) = {}
        BY <3>5 DEF Holders, InHand
      <4>2. c = 0
        BY <4>1, FS_EmptySet
      <4> HIDE DEF c, d
      <4>3. Used(h)' + Waiting(h)' + d <= 1 + faults'
        BY <1>a, <3>2, <4>2
      <4> QED
        BY <1>e, <4>3 DEF Budget, d
    <3> QED
      BY <3>4, <3>5
  <2> QED
    BY <2>5, <2>6, <2>7
<1>6. CASE UNCHANGED hooks
  <2>1. \A v \in Processes : ~ClaimHook(v)
    BY <1>6, ClaimEffect, HookFields
  <2> QED
    BY <1>1, <1>6, <2>1
<1> QED
  BY <1>2, <1>3, <1>4, <1>5, <1>6, HookWriters

(***************************************************************************)
(* What a step may do to the row of a webhook job: its price is set once,  *)
(* and only the worker that completes it makes it done.                    *)
(***************************************************************************)
HookMoves(h) ==
    /\ hooks'[h] \in HookRows
    /\ hooks'[h].price = hooks[h].price \/ hooks[h] = NoHook
    /\ (hooks'[h].status = "done" /\ hooks[h].status # "done") =>
          \E w \in Processes : HookComplete(w) /\ proc[w].job = h

\* Webhook jobs change in no other way.
LEMMA HookSteps ==
    ASSUME TypeOK, [Next]_vars
    PROVE  /\ DOMAIN hooks' = Hooks /\ hooks' = [h \in Hooks |-> hooks'[h]]
           /\ \A h \in Hooks : HookMoves(h)
<1>1. CASE UNCHANGED hooks
  BY <1>1, HookFields DEF HookMoves
<1>2. ASSUME NEW g \in Hooks, NEW r \in HookRows, hooks' = [hooks EXCEPT ![g] = r],
             r.price = hooks[g].price \/ hooks[g] = NoHook,
             r.status = "done" => \E w \in Processes : HookComplete(w) /\ proc[w].job = g
      PROVE  /\ DOMAIN hooks' = Hooks /\ hooks' = [h \in Hooks |-> hooks'[h]]
             /\ \A h \in Hooks : HookMoves(h)
  <2>1. DOMAIN hooks' = Hooks /\ hooks' = [h \in Hooks |-> hooks'[h]]
    BY <1>2, HookFields
  <2>2. ASSUME NEW h \in Hooks, h # g PROVE HookMoves(h)
    BY <1>2, <2>2, HookFields DEF HookMoves
  <2>3. hooks'[g] = r
    BY <1>2, HookFields
  <2>4. HookMoves(g)
    BY <1>2, <2>3 DEF HookMoves
  <2> QED
    BY <2>1, <2>2, <2>4
<1>3. ASSUME NEW w \in Processes, Fire(w)
      PROVE  \E g \in Hooks : \E r \in HookRows :
                hooks' = [hooks EXCEPT ![g] = r] /\ hooks[g] = NoHook /\ r.status # "done"
  BY <1>3, FireEffect
<1>4. ASSUME NEW w \in Processes, ClaimHook(w)
      PROVE  \E g \in Hooks : \E r \in HookRows :
                /\ hooks' = [hooks EXCEPT ![g] = r] /\ r.price = hooks[g].price
                /\ r.status # "done"
  BY <1>4, ClaimEffect
<1>5. ASSUME NEW g \in Hooks, ReapHook(g)
      PROVE  \E r \in HookRows :
                /\ hooks' = [hooks EXCEPT ![g] = r] /\ r.price = hooks[g].price
                /\ r.status # "done"
  BY <1>5, ReapEffect
<1>6. ASSUME NEW w \in Processes, HookComplete(w) \/ HookRetry(w)
      PROVE  \E g \in Hooks : \E r \in HookRows :
                /\ hooks' = [hooks EXCEPT ![g] = r] /\ r.price = hooks[g].price
                /\ r.status = "done" => HookComplete(w) /\ proc[w].job = g
  <2> DEFINE g == proc[w].job
  <2>1. g \in Hooks
    BY <1>6, OutcomeEffect
  <2>2. PICK r \in HookRows :
          /\ hooks' = [hooks EXCEPT ![g] = r] /\ r.price = hooks[g].price
          /\ r.status = "done" => HookComplete(w)
    BY <1>6, OutcomeEffect
  <2> QED
    BY <2>1, <2>2
<1> QED
  BY <1>1, <1>2, <1>3, <1>4, <1>5, <1>6, HookWriters

\* An alert keeps its webhook: the price of an enqueued job is not written
\* again, and a row that is not there has none that crosses a threshold.
LEMMA HookKept ==
    ASSUME TypeOK, MarksHaveHooks, [Next]_vars, NEW a \in Existing, HasHook(a)
    PROVE  a \in Existing' /\ HasHook(a)'
<1>1. PICK h \in Hooks : h[1] = a /\ Crosses(alerts[a], hooks[h].price)
  BY DEF HasHook
<1>2. hooks'[h].price = hooks[h].price
  BY <1>1, HookSteps DEF HookMoves, Crosses, NoHook
<1>3. a \in Alerts /\ AlertMoves(a)
  BY AlertSteps DEF Existing
<1>4. alerts'[a] # NoAlert /\ Crosses(alerts'[a], hooks'[h].price)
  BY <1>1, <1>2, <1>3, AlertStays
<1> QED
  BY <1>1, <1>3, <1>4 DEF HasHook, Existing

-----------------------------------------------------------------------------
(* The recurring poll.                                                     *)

PollRows == [Polls -> {"free", "queued", "inflight"}]

\* A process' step on the polls: a new one is enqueued, by a start or a
\* re-arm, or none is freed but by the worker that completes it.
PollMoves ==
    \/ \E w \in Processes : EnqueuePoll /\ (Seed(w) \/ Rearm(w))
    \/ /\ UNCHANGED seeded
       /\ \A p \in Polls : (polls[p] # "free" /\ polls'[p] = "free") =>
            \E w \in Processes : Complete(w) /\ proc[w].job = p

\* The polls change in no other way.
LEMMA PollSteps ==
    ASSUME TypeOK, [Next]_vars
    PROVE  polls' \in PollRows /\ PollMoves /\ seeded' \in BOOLEAN
<1>a. polls \in PollRows /\ seeded \in BOOLEAN
  BY DEF TypeOK, PollRows
<1>b. ASSUME NEW p \in Polls, NEW s \in {"queued", "inflight"},
             polls' = [polls EXCEPT ![p] = s], UNCHANGED seeded
      PROVE  polls' \in PollRows /\ PollMoves /\ seeded' \in BOOLEAN
  BY <1>a, <1>b DEF PollRows, PollMoves
<1>c. ASSUME UNCHANGED <<polls, seeded>>
      PROVE  polls' \in PollRows /\ PollMoves /\ seeded' \in BOOLEAN
  BY <1>a, <1>c DEF PollMoves
<1>1. ASSUME NEW w \in Processes, Seed(w) \/ Rearm(w)
      PROVE  polls' \in PollRows /\ PollMoves /\ seeded' \in BOOLEAN
  <2>1. EnqueuePoll
    BY <1>1 DEF Seed, Rearm
  <2>2. \E p \in Polls : polls' = [polls EXCEPT ![p] = "queued"] /\ seeded' = TRUE
    BY <2>1 DEF EnqueuePoll
  <2> QED
    BY <1>1, <1>a, <2>1, <2>2 DEF PollMoves, PollRows
<1>2. ASSUME NEW w \in Processes, ClaimPoll(w)
      PROVE  polls' \in PollRows /\ PollMoves /\ seeded' \in BOOLEAN
  BY <1>2, <1>b DEF ClaimPoll
<1>3. ASSUME NEW w \in Processes, Complete(w)
      PROVE  polls' \in PollRows /\ PollMoves /\ seeded' \in BOOLEAN
  <2>1. polls' = [polls EXCEPT ![proc[w].job] = "free"] /\ UNCHANGED seeded
    BY <1>3 DEF Complete
  <2>2. polls' \in PollRows
    BY <1>a, <2>1 DEF PollRows
  <2>3. \A p \in Polls : (polls[p] # "free" /\ polls'[p] = "free") => proc[w].job = p
    BY <1>a, <2>1 DEF PollRows
  <2> QED
    BY <1>3, <1>a, <2>1, <2>2, <2>3 DEF PollMoves
<1>4. ASSUME NEW w \in Processes, Retry(w)
      PROVE  polls' \in PollRows /\ PollMoves /\ seeded' \in BOOLEAN
  <2>1. polls' = [polls EXCEPT ![proc[w].job] = "queued"] /\ UNCHANGED seeded
        /\ proc[w].pc \in PollPcs
    BY <1>4 DEF Retry, PollPcs
  <2>2. proc[w].job \in Polls
    BY <2>1, ProcFits DEF Fits
  <2> QED
    BY <1>b, <2>1, <2>2
<1>5. ASSUME NEW p \in Polls, ReapPoll(p)
      PROVE  polls' \in PollRows /\ PollMoves /\ seeded' \in BOOLEAN
  BY <1>5, <1>b DEF ReapPoll
<1>6. ASSUME NEW w \in Processes, WorkerStep(w) \/ FaultStep(w),
             ~(Seed(w) \/ Rearm(w) \/ ClaimPoll(w) \/ Complete(w) \/ Retry(w))
      PROVE  UNCHANGED <<polls, seeded>>
  BY <1>6 DEF WorkerStep, FaultStep, SeedStep, PollStep, HookStep, Start, HasActive,
     ClaimHook, ReadSymbols, Refresh, ListActive, Fire, MarkTriggered, Fired, PostOk,
     PostFails, HookComplete, HookRetry, RefreshFails, FireFails, MarkFails, PollFails,
     StatementFails, Crash
<1>7. ASSUME UNCHANGED vars \/ (\E h \in Hooks : ReapHook(h)) \/ (\E s \in Symbols : MarketMoves(s))
      PROVE  UNCHANGED <<polls, seeded>>
  BY <1>7 DEF vars, ReapHook, MarketMoves
<1>8. ASSUME NEW a \in Alerts, NEW body \in AlertBodies, CreateAlert(a, body)
      PROVE  UNCHANGED <<polls, seeded>>
  BY <1>8 DEF CreateAlert
<1> QED
  BY <1>c, <1>1, <1>2, <1>3, <1>4, <1>5, <1>6, <1>7, <1>8 DEF Next, ReapStep

\* Once seeded, there is a poll that will still re-arm.
RunsOn == seeded => Recurring # {}

\* RunsOn is kept: a poll leaves Recurring by a re-arm only, and the poll
\* that the re-arm enqueues takes its place.
LEMMA RunsOnInductive ==
    ASSUME TypeOK, RunsOn, [Next]_vars
    PROVE  RunsOn'
<1>a. polls \in PollRows /\ polls' \in PollRows /\ proc \in [Processes -> Locals]
  BY PollSteps DEF TypeOK, PollRows
<1>1. ASSUME NEW w \in Processes, EnqueuePoll, Seed(w) \/ Rearm(w)
      PROVE  Recurring' # {}
  <2>1. PICK p \in Polls \ (Active \cup InHand) : polls' = [polls EXCEPT ![p] = "queued"]
    BY <1>1 DEF EnqueuePoll
  <2>2. \E pc : Goto(w, pc)
    BY <1>1 DEF Seed, Rearm
  <2>3. \A v \in Processes : proc'[v].job = proc[v].job
    BY <1>a, <2>2 DEF Goto, Locals
  <2>4. p \in Active'
    BY <1>a, <2>1 DEF Active, PollRows
  <2>5. \A v \in Processes : proc'[v].job # p
    BY <2>1, <2>3 DEF InHand
  <2> QED
    BY <2>4, <2>5 DEF Recurring
<1>2. ASSUME UNCHANGED seeded, seeded', \A w \in Processes : ~Rearm(w),
             \A p \in Polls : (polls[p] # "free" /\ polls'[p] = "free") =>
               \E w \in Processes : Complete(w) /\ proc[w].job = p
      PROVE  Recurring' # {}
  <2>1. PICK p \in Recurring : TRUE
    BY <1>2 DEF RunsOn
  <2>2. /\ p \in Polls /\ polls[p] # "free"
        /\ \A v \in Processes : proc[v].pc = "complete" => proc[v].job # p
    BY <2>1 DEF Recurring, Active
  <2>3. polls'[p] # "free"
    BY <1>2, <2>2 DEF Complete
  <2>4. ASSUME NEW v \in Processes, proc'[v].pc = "complete" PROVE proc'[v].job # p
    <3>1. CASE proc'[v] = proc[v]
      BY <2>2, <2>4, <3>1
    <3>2. ASSUME NEW w \in Processes, NEW e, Effect(w, e) PROVE proc'[v] = proc[v]
      <4>1. e.pc # "complete"
        BY <1>2, <3>2 DEF Effect
      <4> QED
        BY <1>a, <2>4, <3>2, <4>1 DEF Effect
    <3> QED
      BY <3>1, <3>2, ProcSteps
  <2> QED
    BY <2>2, <2>3, <2>4 DEF Recurring, Active
<1> QED
  BY <1>1, <1>2, PollSteps DEF RunsOn, PollMoves, Rearm

-----------------------------------------------------------------------------
(* The alerts' webhooks.                                                   *)

\* MarksHaveHooks is kept: a process comes to the mark by enqueueing the
\* webhook, and what it relies on is not taken back by the others.
LEMMA MarksInductive ==
    ASSUME TypeOK, MarksHaveHooks, [Next]_vars
    PROVE  MarksHaveHooks'
<1> SUFFICES ASSUME NEW v \in Processes, proc'[v].pc = "mark", NEW a \in proc'[v].todo
             PROVE  a \in Existing' /\ HasHook(a)'
  BY DEF MarksHaveHooks
<1>1. CASE proc'[v] = proc[v]
  BY <1>1, HookKept DEF MarksHaveHooks
<1>2. CASE Fire(v)
  <2>1. PICK h \in Hooks, r \in HookRows :
          /\ hooks' = [hooks EXCEPT ![h] = r] /\ UNCHANGED alerts
          /\ h[1] \in Existing /\ Crosses(alerts[h[1]], r.price)
          /\ proc'[v].todo = {h[1]}
    BY <1>2, FireEffect
  <2>2. a = h[1] /\ hooks'[h] = r
    BY <2>1, HookFields
  <2>3. a \in Existing' /\ Crosses(alerts'[a], hooks'[h].price)
    BY <2>1, <2>2 DEF Existing
  <2> QED
    BY <2>2, <2>3 DEF HasHook
<1>3. ASSUME NEW w \in Processes, NEW e, Effect(w, e)
      PROVE  proc'[v] = proc[v] \/ Fire(v)
  <2>1. proc'[v] = IF v = w THEN e ELSE proc[v]
    BY <1>3, ProcFits DEF Effect
  <2> QED
    BY <1>3, <2>1 DEF Effect
<1> QED
  BY <1>1, <1>2, <1>3, ProcSteps

\* An alert is marked with its webhook in place, which then stays.
LEMMA TriggeredInductive ==
    ASSUME TypeOK, MarksHaveHooks, TriggeredHasWebhook, [Next]_vars
    PROVE  TriggeredHasWebhook'
<1> SUFFICES ASSUME NEW a \in Alerts, alerts'[a] # NoAlert, alerts'[a].triggered
             PROVE  HasHook(a)'
  BY DEF TriggeredHasWebhook, HasHook
<1>1. AlertMoves(a)
  BY AlertSteps
<1>2. a \in Existing /\ (alerts[a].triggered \/ HasHook(a))
  BY <1>1, AlertStays
<1>3. HasHook(a)
  BY <1>2 DEF TriggeredHasWebhook, HasHook, Existing
<1> QED
  BY <1>2, <1>3, HookKept

\* A job that a worker is about to complete has been received.
Posted == \A w \in Processes : proc[w].pc = "hookComplete" => proc[w].job \in received

\* Receipts are of webhook jobs, and are not taken back.
LEMMA ReceivedSteps ==
    ASSUME TypeOK, [Next]_vars
    PROVE  received \subseteq received' /\ received' \subseteq Hooks
<1>a. received \subseteq Hooks
  BY DEF TypeOK
<1>1. ASSUME NEW w \in Processes, PostOk(w)
      PROVE  received \subseteq received' /\ received' \subseteq Hooks
  <2>1. proc[w].pc \in HookPcs /\ received' = received \cup {proc[w].job}
    BY <1>1 DEF PostOk, HookPcs
  <2> QED
    BY <1>a, <2>1, ProcFits DEF Fits
<1>2. ASSUME NEW w \in Processes, WorkerStep(w) \/ FaultStep(w), ~PostOk(w)
      PROVE  UNCHANGED received
  BY <1>2 DEF WorkerStep, FaultStep, SeedStep, PollStep, HookStep, Start, HasActive, Seed,
     ClaimHook, ClaimPoll, ReadSymbols, Refresh, ListActive, Fire, MarkTriggered, Fired,
     Rearm, Complete, Retry, PostFails, HookComplete, HookRetry, RefreshFails, FireFails,
     MarkFails, PollFails, StatementFails, Crash
<1>3. ASSUME UNCHANGED vars \/ ReapStep \/ \E s \in Symbols : MarketMoves(s)
      PROVE  UNCHANGED received
  BY <1>3 DEF vars, ReapStep, ReapPoll, ReapHook, MarketMoves
<1>4. ASSUME NEW a \in Alerts, NEW body \in AlertBodies, CreateAlert(a, body)
      PROVE  UNCHANGED received
  BY <1>4 DEF CreateAlert
<1> QED
  BY <1>a, <1>1, <1>2, <1>3, <1>4 DEF Next

\* Posted is kept: a worker comes to the completion by the answer to its
\* POST, for the job it has in hand.
LEMMA PostedInductive ==
    ASSUME TypeOK, Posted, [Next]_vars
    PROVE  Posted'
<1> SUFFICES ASSUME NEW v \in Processes, proc'[v].pc = "hookComplete"
             PROVE  proc'[v].job \in received'
  BY DEF Posted
<1>1. CASE proc'[v] = proc[v]
  BY <1>1, ReceivedSteps DEF Posted
<1>2. CASE PostOk(v)
  <2>1. proc'[v].job = proc[v].job
    BY <1>2, ProcFits DEF PostOk, Goto, Locals
  <2> QED
    BY <1>2, <2>1 DEF PostOk
<1>3. ASSUME NEW w \in Processes, NEW e, Effect(w, e)
      PROVE  proc'[v] = proc[v] \/ PostOk(v)
  <2>1. proc'[v] = IF v = w THEN e ELSE proc[v]
    BY <1>3, ProcFits DEF Effect
  <2> QED
    BY <1>3, <2>1 DEF Effect
<1> QED
  BY <1>1, <1>2, <1>3, ProcSteps

\* DoneWasReceived follows: only the completion makes a job done.
LEMMA DoneInductive ==
    ASSUME TypeOK, Posted, DoneWasReceived, [Next]_vars
    PROVE  DoneWasReceived'
<1> SUFFICES ASSUME NEW h \in Hooks, hooks'[h].status = "done"
             PROVE  h \in received
  BY ReceivedSteps DEF DoneWasReceived
<1>1. CASE hooks[h].status = "done"
  BY <1>1 DEF DoneWasReceived
<1>2. CASE hooks[h].status # "done"
  <2>1. PICK w \in Processes : HookComplete(w) /\ proc[w].job = h
    BY <1>2, HookSteps DEF HookMoves
  <2> QED
    BY <2>1 DEF HookComplete, Posted
<1> QED
  BY <1>1, <1>2

-----------------------------------------------------------------------------
(* The types.                                                              *)

\* A job within its budget has used at most one attempt per fault more than
\* its max_attempts.
LEMMA AttemptsBounded ==
    ASSUME TypeOK, AttemptsInv, [Next]_vars, NEW h \in Hooks
    PROVE  hooks'[h].attempts \in 0 .. HookAttempts + MaxFaults
<1> DEFINE n == hooks'[h].attempts
           d == Cardinality(Holders(h)')
<1>1. n \in Nat /\ HookAttempts \in Nat /\ MaxFaults \in Nat
  BY HookSteps, PollingAssumption DEF HookMoves, HookRows
<1>2. faults' \in Nat /\ faults' <= MaxFaults
  BY <1>1, FaultSteps
<1>3. d \in Nat
  <2>1. Holders(h)' \subseteq Processes /\ IsFiniteSet(Processes)
    BY PollingAssumption DEF Holders
  <2> QED
    BY <2>1, FS_Subset, FS_CardinalityType
<1>4. Used(h)' + Waiting(h)' + d <= 1 + faults'
  BY BudgetInductive DEF Budget
<1>5. Used(h)' = (IF n < HookAttempts THEN 0 ELSE n - HookAttempts + 1) /\ Waiting(h)' \in {0, 1}
  BY DEF Used, Waiting
<1> HIDE DEF n, d
<1>6. n <= HookAttempts + MaxFaults
  BY <1>1, <1>2, <1>3, <1>4, <1>5
<1> QED
  BY <1>1, <1>6 DEF n

\* TypeOK is kept.
LEMMA TypeInductive ==
    ASSUME TypeOK, AttemptsInv, MarksHaveHooks, [Next]_vars
    PROVE  TypeOK'
<1>1. polls' \in [Polls -> {"free", "queued", "inflight"}] /\ seeded' \in BOOLEAN
  BY PollSteps DEF PollRows
<1>2. hooks' \in [Hooks -> [status : Statuses,
                            attempts : 0 .. HookAttempts + MaxFaults,
                            price : Prices \cup {NoPrice}]]
  <2>1. DOMAIN hooks' = Hooks /\ hooks' = [h \in Hooks |-> hooks'[h]]
    BY HookSteps
  <2>2. ASSUME NEW h \in Hooks
        PROVE  hooks'[h] \in [status : Statuses,
                              attempts : 0 .. HookAttempts + MaxFaults,
                              price : Prices \cup {NoPrice}]
    <3>1. hooks'[h] \in HookRows
      BY HookSteps DEF HookMoves
    <3>2. hooks'[h].attempts \in 0 .. HookAttempts + MaxFaults
      BY AttemptsBounded
    <3> QED
      BY <3>1, <3>2 DEF HookRows
  <2> QED
    BY <2>1, <2>2
<1>3. alerts' \in [Alerts -> AlertRows \cup {NoAlert}]
  <2>1. DOMAIN alerts' = Alerts /\ alerts' = [a \in Alerts |-> alerts'[a]]
    BY AlertSteps
  <2>2. \A a \in Alerts : alerts'[a] \in AlertRows \cup {NoAlert}
    BY AlertSteps, AlertStays
  <2> QED
    BY <2>1, <2>2
<1>4. market' \in [Symbols -> Prices]
  <2>1. market \in [Symbols -> Prices]
    BY DEF TypeOK
  <2>2. ASSUME NEW w \in Processes, WorkerStep(w) \/ FaultStep(w)
        PROVE  UNCHANGED market
    BY <2>2 DEF WorkerStep, FaultStep, SeedStep, PollStep, HookStep, Start, HasActive, Seed,
       ClaimHook, ClaimPoll, ReadSymbols, Refresh, ListActive, Fire, MarkTriggered, Fired,
       Rearm, Complete, Retry, PostOk, PostFails, HookComplete, HookRetry, RefreshFails,
       FireFails, MarkFails, PollFails, StatementFails, Crash
  <2>3. ASSUME UNCHANGED vars \/ ReapStep PROVE UNCHANGED market
    BY <2>3 DEF vars, ReapStep, ReapPoll, ReapHook
  <2>4. ASSUME NEW a \in Alerts, NEW body \in AlertBodies, CreateAlert(a, body)
        PROVE  UNCHANGED market
    BY <2>4 DEF CreateAlert
  <2>5. ASSUME NEW s \in Symbols, MarketMoves(s) PROVE market' \in [Symbols -> Prices]
    BY <2>1, <2>5 DEF MarketMoves
  <2> QED
    BY <2>1, <2>2, <2>3, <2>4, <2>5 DEF Next
<1>5. Existing \subseteq Existing'
  BY AlertSteps, AlertStays DEF Existing
<1>6. proc' \in [Processes -> Locals] /\ \A w \in Processes : Fits(proc'[w])
  <2>a. proc \in [Processes -> Locals] /\ \A w \in Processes : Fits(proc[w])
    BY ProcFits DEF TypeOK
  <2>1. CASE UNCHANGED proc
    BY <2>a, <2>1
  <2>2. ASSUME NEW w \in Processes, NEW e, Effect(w, e)
        PROVE  proc' \in [Processes -> Locals] /\ \A v \in Processes : Fits(proc'[v])
    <3>1. proc' = [proc EXCEPT ![w] = e] /\ Fits(e)
      BY <2>2 DEF Effect
    <3>2. e \in Locals
      BY <3>1 DEF Fits
    <3>3. \A v \in Processes : proc'[v] = IF v = w THEN e ELSE proc[v]
      BY <2>a, <3>1
    <3>4. \A v \in Processes : Fits(proc'[v])
      BY <2>a, <3>1, <3>3
    <3>5. proc' \in [Processes -> Locals]
      BY <2>a, <3>1, <3>2
    <3> QED
      BY <3>4, <3>5
  <2> QED
    BY <2>1, <2>2, ProcSteps
<1>7. received' \subseteq Hooks /\ faults' \in 0 .. MaxFaults
  BY ReceivedSteps, FaultSteps
<1>8. ASSUME NEW w \in Processes
      PROVE  /\ proc'[w].pc \in PollPcs => proc'[w].job \in Polls
             /\ proc'[w].pc \in HookPcs => proc'[w].job \in Hooks
             /\ proc'[w].pc \in SeedPcs \cup {"down", "idle"} => proc'[w].job = NoJob
             /\ proc'[w].active \subseteq {a \in Alerts : alerts'[a] # NoAlert}
  <2>1. Fits(proc'[w])
    BY <1>6
  <2>2. proc'[w].active \subseteq Existing'
    BY <1>5, <2>1 DEF Fits
  <2> QED
    BY <2>1, <2>2 DEF Fits, Existing
<1> QED
  BY <1>1, <1>2, <1>3, <1>4, <1>6, <1>7, <1>8 DEF TypeOK

-----------------------------------------------------------------------------
(* The inductive invariant.                                                *)

Polled ==
    /\ TypeOK /\ AttemptsInv /\ MarksHaveHooks /\ Posted /\ RunsOn
    /\ TriggeredHasWebhook /\ DoneWasReceived

\* It holds before any process is started.
LEMMA PolledInit ==
    ASSUME Init
    PROVE  Polled
<1>a. /\ HookAttempts \in Nat \ {0} /\ MaxFaults \in Nat /\ NoPrice \notin Prices
      /\ NoAlert \notin AlertRows
  BY PollingAssumption
<1>b. \A h \in Hooks : hooks[h] = NoHook
  BY DEF Init
<1>c. \A w \in Processes : proc[w] = Local("down", NoJob)
  BY DEF Init
<1>d. "down" \in Pcs /\ "down" \notin PollPcs \cup HookPcs \cup SeedPcs
      /\ "down" \notin {"mark", "complete", "hookComplete"}
  BY DEF Pcs, PollPcs, HookPcs, SeedPcs
<1>e. \A w \in Processes : /\ proc[w] \in Locals /\ proc[w].pc = "down"
                           /\ proc[w].job = NoJob /\ proc[w].active = {}
  BY <1>c, <1>d, LocalFields
<1>1. TypeOK
  <2>1. hooks \in [Hooks -> [status : Statuses,
                             attempts : 0 .. HookAttempts + MaxFaults,
                             price : Prices \cup {NoPrice}]]
    <3>1. 0 \in 0 .. HookAttempts + MaxFaults
      BY <1>a
    <3> QED
      BY <3>1 DEF Init, NoHook
  <2>2. proc \in [Processes -> Locals]
    BY <1>e DEF Init
  <2>3. polls \in [Polls -> {"free", "queued", "inflight"}] /\ market \in [Symbols -> Prices]
        /\ alerts \in [Alerts -> AlertRows \cup {NoAlert}] /\ received \subseteq Hooks
        /\ seeded \in BOOLEAN
    BY DEF Init
  <2>4. faults \in 0 .. MaxFaults
    BY <1>a DEF Init
  <2> QED
    BY <1>d, <1>e, <2>1, <2>2, <2>3, <2>4 DEF TypeOK
<1>2. AttemptsInv
  <2>1. InHandExists
    BY <1>d, <1>e DEF InHandExists
  <2>2. ASSUME NEW h \in Hooks PROVE Budget(h)
    <3>1. Holders(h) = {}
      BY <1>d, <1>e DEF Holders
    <3>2. Cardinality(Holders(h)) = 0
      BY <3>1, FS_EmptySet
    <3>3. Used(h) = 0 /\ Waiting(h) = 0
      BY <1>a, <1>b DEF Used, Waiting, NoHook
    <3>4. faults = 0
      BY DEF Init
    <3> QED
      BY <3>2, <3>3, <3>4 DEF Budget
  <2> QED
    BY <2>1, <2>2 DEF AttemptsInv
<1>3. MarksHaveHooks /\ Posted
  BY <1>e DEF MarksHaveHooks, Posted
<1>4. RunsOn /\ TriggeredHasWebhook
  BY DEF Init, RunsOn, TriggeredHasWebhook
<1>5. DoneWasReceived
  BY <1>b DEF DoneWasReceived, NoHook
<1> QED
  BY <1>1, <1>2, <1>3, <1>4, <1>5 DEF Polled

\* Every step keeps it.
LEMMA PolledInductive ==
    ASSUME Polled, [Next]_vars
    PROVE  Polled'
<1>1. TypeOK /\ AttemptsInv /\ MarksHaveHooks /\ Posted /\ RunsOn
      /\ TriggeredHasWebhook /\ DoneWasReceived
  BY DEF Polled
<1>2. TypeOK' /\ MarksHaveHooks' /\ Posted' /\ RunsOn' /\ TriggeredHasWebhook' /\ DoneWasReceived'
  BY <1>1, TypeInductive, MarksInductive, PostedInductive, RunsOnInductive,
     TriggeredInductive, DoneInductive
<1>3. InHandExists'
  BY <1>1, InHandInductive DEF AttemptsInv
<1>4. \A h \in Hooks : Budget(h)'
  BY <1>1, BudgetInductive
<1>5. AttemptsInv'
  BY <1>3, <1>4 DEF AttemptsInv
<1> QED
  BY <1>2, <1>5 DEF Polled

\* It holds in every state.
LEMMA PolledHolds == Spec => []Polled
<1>1. Init => Polled
  BY PolledInit
<1>2. Polled /\ [Next]_vars => Polled'
  BY PolledInductive
<1> QED
  BY <1>1, <1>2, PTL DEF Spec

-----------------------------------------------------------------------------
(* The theorems.                                                           *)

\* Every worker has a job of the kind it works on in hand, and a webhook
\* uses at most one attempt per fault beyond its max_attempts.
THEOREM PollingTypes == Spec => []TypeOK
<1>1. Polled => TypeOK
  BY DEF Polled
<1> QED
  BY <1>1, PolledHolds, PTL

\* Once a poll has been enqueued there is always one queued or in flight,
\* however many workers crash, fail or run the same poll twice.
THEOREM PollerStaysAlive == Spec => []PollerNeverDies
<1>1. Polled => PollerNeverDies
  BY DEF Polled, RunsOn, PollerNeverDies, Recurring
<1> QED
  BY <1>1, PolledHolds, PTL

\* An alert that will never be listed again has a webhook whose price
\* crosses its threshold: MarkTriggered comes after the enqueue.
THEOREM NoAlertIsSwallowed == Spec => []TriggeredHasWebhook
<1>1. Polled => TriggeredHasWebhook
  BY DEF Polled
<1> QED
  BY <1>1, PolledHolds, PTL

\* A webhook job is done only when its receiver has answered a POST of it.
THEOREM DoneMeansReceived == Spec => []DoneWasReceived
<1>1. Polled => DoneWasReceived
  BY DEF Polled
<1> QED
  BY <1>1, PolledHolds, PTL
=============================================================================
