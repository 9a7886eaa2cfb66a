-------------------------- MODULE RateLimiterProofs -------------------------
(***************************************************************************)
(* Theorems about RateLimiter, for every number of requests, every set of  *)
(* configurations and every bound on time: the limits that both modes      *)
(* keep, and what a refusal tells its client.                              *)
(***************************************************************************)
EXTENDS RateLimiter, FiniteSetTheorems, TLAPS

-----------------------------------------------------------------------------
(* Arithmetic.                                                             *)

\* The product of naturals is a natural.
LEMMA ProductNat == ASSUME NEW a \in Nat, NEW b \in Nat PROVE a * b \in Nat
  OBVIOUS

\* A product distributes over sums and differences.
LEMMA ProductSplits ==
    ASSUME NEW a \in Int, NEW b \in Int, NEW c \in Int
    PROVE  a * (b + c) = a * b + a * c /\ a * (b - c) = a * b - a * c
  OBVIOUS

\* A product with a natural is monotonic.
LEMMA ProductGrows ==
    ASSUME NEW a \in Nat, NEW b \in Int, NEW c \in Int, b <= c
    PROVE  a * b \in Int /\ a * c \in Int /\ a * b <= a * c
  OBVIOUS

\* Ceil rounds up.
LEMMA CeilRoundsUp ==
    ASSUME NEW a \in Nat, NEW b \in Nat \ {0}
    PROVE  Ceil(a, b) \in Nat /\ a <= b * Ceil(a, b)
<1> DEFINE q == (a + b - 1) \div b
<1>1. q \in Nat /\ a + b - 1 < b * q + b
  OBVIOUS
<1>2. b * q \in Nat
  BY <1>1
<1> HIDE DEF q
<1>3. a <= b * q
  BY <1>1, <1>2
<1> QED
  BY <1>1, <1>3 DEF q, Ceil

\* The greater and the lesser of two numbers.
LEMMA Bounds ==
    ASSUME NEW a \in Int, NEW b \in Int
    PROVE  /\ Greater(a, b) \in {a, b} /\ a <= Greater(a, b) /\ b <= Greater(a, b)
           /\ Lesser(a, b) \in {a, b} /\ Lesser(a, b) <= a /\ Lesser(a, b) <= b
  BY DEF Greater, Lesser

-----------------------------------------------------------------------------
(* Types.                                                                  *)

\* The times of a behaviour are naturals, and so is the unit of tokens.
LEMMA TimesNat == /\ Times \subseteq Nat /\ 0 \in Times /\ Second \in Nat \ {0}
                  /\ MaxTime \in Nat /\ MaxDelay \in Nat
                  /\ Grain \in Nat \ {0} /\ Token \in Nat \ {0}
<1>1. /\ Second \in Nat /\ Second # 0 /\ Grain \in Nat /\ Grain # 0
      /\ MaxTime \in Nat /\ MaxDelay \in Nat
  BY RateLimiterAssumption
<1>2. Token \in Nat /\ Token # 0
  <2>1. 1 * Second <= Grain * Second /\ Second * Grain = Grain * Second
    BY <1>1
  <2> QED
    BY <1>1, <2>1, ProductNat DEF Token
<1> QED
  BY <1>1, <1>2 DEF Times

(***************************************************************************)
(* The fields of a configuration, whatever the administrator left out.     *)
(***************************************************************************)
LEMMA ConfigFields ==
    ASSUME NEW c \in Configs
    PROVE  /\ c.mode \in {"token", "sliding"}
           /\ c.rate \in Nat /\ c.burst \in Nat /\ c.window \in Nat
           /\ Capacity(c) \in Nat /\ Flow(c) \in Nat
           /\ c.mode = "sliding" => c.window > 0
<1>1. Second \in Nat \ {0} /\ Token \in Nat \ {0} /\ Grain \in Nat \ {0}
  BY TimesNat
<1>2. ASSUME NEW x \in Nat PROVE x * Token \in Nat /\ x * Grain \in Nat
  BY <1>1, ProductNat
<1>3. CASE c = Default
  <2>1. IsConfig(c) /\ c.mode = "token"
    BY <1>3, RateLimiterAssumption
  <2> QED
    BY <1>2, <2>1 DEF IsConfig, Capacity, Flow
<1>4. CASE \E b \in Inputs : c = Normalise(b)
  <2>1. PICK b \in Inputs : c = Normalise(b)
    BY <1>4
  <2>2. IsConfig(b)
    BY RateLimiterAssumption
  <2>3. /\ c.mode = IF b.mode = "" THEN "token" ELSE b.mode
        /\ c.window = IF b.window = 0 THEN Second ELSE b.window
        /\ c.rate = b.rate /\ c.burst = b.burst
    BY <2>1, <2>2 DEF Normalise, IsConfig
  <2>4. /\ b.mode \in {"", "token", "sliding"}
        /\ b.rate \in Nat /\ b.burst \in Nat /\ b.window \in Nat
    BY <2>2 DEF IsConfig
  <2>5. Capacity(c) \in Nat /\ Flow(c) \in Nat
    BY <1>2, <2>3, <2>4 DEF Capacity, Flow
  <2>6. c.mode \in {"token", "sliding"}
    BY <2>3, <2>4
  <2>7. c.window \in Nat /\ c.window > 0
    <3>1. CASE b.window = 0
      <4>1. c.window = Second
        BY <2>3, <3>1
      <4>2. Second \in Nat /\ Second > 0
        BY <1>1
      <4> QED
        BY <4>1, <4>2
    <3>2. CASE b.window # 0
      <4> DEFINE x == b.window
      <4>1. x \in Nat /\ x # 0 /\ c.window = x
        BY <2>3, <2>4, <3>2
      <4> HIDE DEF x
      <4> QED
        BY <4>1
    <3> QED
      BY <3>1, <3>2
  <2> QED
    BY <2>3, <2>4, <2>5, <2>6, <2>7
<1> QED
  BY <1>3, <1>4 DEF Configs

\* The configuration in force is one of them.
LEMMA ConfigInForce == TypeOK => GetConfig \in Configs
  BY DEF TypeOK, GetConfig, Configs

\* The two kinds of buckets.
BucketOK ==
    \/ bucket = NoBucket
    \/ /\ bucket.kind = "hash"
       /\ bucket.expires \in Nat
       /\ bucket.ts \in 0 .. clock
       /\ \E c \in Configs : bucket.tokens \in 0 .. Capacity(c)
    \/ /\ bucket.kind = "zset"
       /\ bucket.expires \in Nat
       /\ bucket.members \subseteq [score : 0 .. clock, tag : Tags]

ReqStates == {Ended(pc) : pc \in IdlePcs} \cup Requesting \cup Stamped

History == [since : [Times -> Nat], extra : [Times -> Nat], lost : [Times -> Nat],
            from : 0 .. clock, open : 0 .. clock + 1]

\* What a request holds when it is stamped.
LEMMA StampedFields ==
    ASSUME TypeOK, NEW r \in Requests
    PROVE  /\ req[r].pc = "config" => req[r].cfg \in Configs
           /\ req[r].pc = "stamped" =>
                 /\ req[r].cfg \in Configs /\ req[r].now \in Times
                 /\ req[r].tag \in Tags
<1>1. req[r] \in {Ended(pc) : pc \in IdlePcs} \cup Requesting \cup Stamped
  BY DEF TypeOK
<1> QED
  BY <1>1 DEF Ended, IdlePcs, Requesting, Stamped

\* A step of a request that leaves everything but its own record alone, and
\* stamps it with the present time or not at all.
Aside ==
    /\ UNCHANGED <<config, bucket, clock, grants, regime>>
    /\ req' \in [Requests -> ReqStates]
    /\ \A q \in Requests : req'[q].pc = "stamped" => \/ req'[q] = req[q]
                                                     \/ req'[q].now = clock

(***************************************************************************)
(* What goes on aside: a request that reads, is stamped or finds no Redis. *)
(***************************************************************************)
LEMMA Asides ==
    ASSUME TypeOK, NEW r \in Requests, ReadConfig(r) \/ Stamp(r) \/ FailOpen(r)
    PROVE  Aside /\ req'[r].pc # "refused" /\ \A q \in Requests \ {r} : req'[q] = req[q]
<1>a. req \in [Requests -> ReqStates] /\ clock \in Times
  BY DEF TypeOK, ReqStates
<1>b. UNCHANGED <<config, bucket, clock, grants, regime>>
  BY DEF ReadConfig, Stamp, FailOpen
<1>1. ASSUME NEW e \in ReqStates, e.pc # "refused", e.pc = "stamped" => e.now = clock,
             req' = [req EXCEPT ![r] = e]
      PROVE  /\ Aside /\ req'[r].pc # "refused"
             /\ \A q \in Requests \ {r} : req'[q] = req[q]
  BY <1>a, <1>b, <1>1 DEF Aside
<1>2. CASE ReadConfig(r)
  <2> DEFINE e == [pc |-> "config", cfg |-> GetConfig]
  <2>1. e \in ReqStates /\ e.pc = "config"
    BY ConfigInForce DEF ReqStates, Requesting
  <2>2. req' = [req EXCEPT ![r] = e]
    BY <1>2 DEF ReadConfig
  <2> HIDE DEF e
  <2> QED
    BY <1>1, <2>1, <2>2
<1>3. CASE Stamp(r)
  <2>1. req[r].cfg \in Configs
    BY <1>3, StampedFields DEF Stamp
  <2>2. PICK tag \in Tags :
           req' = [req EXCEPT ![r] = [pc |-> "stamped", cfg |-> req[r].cfg,
                                      now |-> clock, tag |-> tag]]
    <3>1. Drawn(req[r].cfg) \subseteq Tags
      BY RateLimiterAssumption DEF Drawn
    <3> QED
      BY <1>3, <3>1 DEF Stamp
  <2> DEFINE e == [pc |-> "stamped", cfg |-> req[r].cfg, now |-> clock, tag |-> tag]
  <2>3. e \in ReqStates /\ e.pc = "stamped" /\ e.now = clock
    BY <1>a, <2>1, <2>2 DEF ReqStates, Stamped
  <2>4. req' = [req EXCEPT ![r] = e]
    BY <2>2
  <2> HIDE DEF e
  <2> QED
    BY <1>1, <2>3, <2>4
<1>4. CASE FailOpen(r)
  <2>1. Ended("idle") \in ReqStates /\ Ended("idle").pc = "idle"
    BY DEF Ended, ReqStates, IdlePcs
  <2> QED
    BY <1>1, <1>4, <2>1 DEF FailOpen
<1> QED
  BY <1>2, <1>3, <1>4

\* Every step is one of five kinds.
LEMMA Steps ==
    ASSUME TypeOK, [Next]_vars
    PROVE  \/ Aside
           \/ \E r \in Requests : RunScript(r) \/ WrongType(r)
           \/ \E c \in Inputs : SetConfig(c)
           \/ Tick
<1>1. CASE UNCHANGED vars
  BY <1>1 DEF vars, Aside, TypeOK, ReqStates
<1> QED
  BY <1>1, Asides DEF Next

-----------------------------------------------------------------------------
(* The history.                                                            *)

\* The script of r, which decides on the configuration in force, adds to the
\* history whether it let r through, with what surplus, and whether it
\* rounded a refill down.
Tally(h, now, allowed, surplus, dropped) ==
    /\ h \in History
    /\ h.from = grants.from /\ h.open = grants.open
    /\ \A s \in Times :
          /\ h.since[s] = IF allowed /\ s <= now THEN grants.since[s] + 1
                                                ELSE grants.since[s]
          /\ h.extra[s] = IF grants.since[s] > 0 THEN grants.extra[s] + surplus
                                                ELSE grants.extra[s]
          /\ h.lost[s] = IF dropped /\ s <= now THEN grants.lost[s] + 1
                                               ELSE grants.lost[s]

\* One more up to a stamp.
LEMMA CountedFields ==
    ASSUME NEW counts \in [Times -> Nat], NEW now \in Times
    PROVE  /\ Counted(counts, now) \in [Times -> Nat]
           /\ \A s \in Times : Counted(counts, now)[s]
                                  = IF s <= now THEN counts[s] + 1 ELSE counts[s]
  BY DEF Counted

\* The fields of the history.
LEMMA HistoryFields ==
    ASSUME TypeOK
    PROVE  /\ grants.since \in [Times -> Nat] /\ grants.extra \in [Times -> Nat]
           /\ grants.lost \in [Times -> Nat] /\ clock \in Times /\ clock \in Nat
           /\ grants.from \in 0 .. clock /\ grants.open \in 0 .. clock + 1
           /\ grants \in History
  BY TimesNat DEF TypeOK, History

(***************************************************************************)
(* What a script adds to the history.                                      *)
(***************************************************************************)
LEMMA RecordedFields ==
    ASSUME TypeOK, NEW q, q.now \in Times, NEW err \in {-1, 0, 1}, NEW allowed \in BOOLEAN,
           allowed = Script(bucket, q.cfg, q.now, q.tag, err).allowed, NEW surplus \in Nat,
           surplus = Surplus(bucket, q.cfg, q.now, q.tag, err)
    PROVE  Tally(Recorded(grants, q, err), q.now, allowed, surplus, err < 0 /\ regime = "fresh")
<1> DEFINE now == q.now
           dropped == err < 0 /\ regime = "fresh"
           since == IF allowed THEN Counted(grants.since, now) ELSE grants.since
           extra == [s \in Times |-> IF grants.since[s] > 0 THEN grants.extra[s] + surplus
                                                           ELSE grants.extra[s]]
           lost == IF dropped THEN Counted(grants.lost, now) ELSE grants.lost
           h == [grants EXCEPT !.since = since, !.extra = extra, !.lost = lost]
<1>1. Recorded(grants, q, err) = h
  BY Zenon DEF Recorded
<1>2. since \in [Times -> Nat] /\ extra \in [Times -> Nat] /\ lost \in [Times -> Nat]
  <2>1. since \in [Times -> Nat] /\ lost \in [Times -> Nat]
    BY HistoryFields, CountedFields, Zenon
  <2>2. \A s \in Times : grants.extra[s] \in Nat /\ grants.extra[s] + surplus \in Nat
    BY HistoryFields
  <2> QED
    BY <2>1, <2>2
<1>3. \A s \in Times :
         /\ since[s] = IF allowed /\ s <= now THEN grants.since[s] + 1 ELSE grants.since[s]
         /\ extra[s] = IF grants.since[s] > 0 THEN grants.extra[s] + surplus
                                              ELSE grants.extra[s]
         /\ lost[s] = IF dropped /\ s <= now THEN grants.lost[s] + 1 ELSE grants.lost[s]
  BY HistoryFields, CountedFields
<1> HIDE DEF since, extra, lost, dropped, now
<1>4. /\ h \in History /\ h.from = grants.from /\ h.open = grants.open
      /\ h.since = since /\ h.extra = extra /\ h.lost = lost
  BY <1>2, HistoryFields DEF History
<1> HIDE DEF h
<1>5. Tally(h, now, allowed, surplus, dropped)
  BY <1>3, <1>4 DEF Tally
<1> QED
  BY <1>1, <1>5 DEF now, dropped

-----------------------------------------------------------------------------
(* The scripts.                                                            *)

\* A request is not stamped in the future, nor longer under way than it may.
StampsOK ==
    \A r \in InFlight : req[r].now <= clock /\ clock <= req[r].now + MaxDelay

\* The kinds of buckets differ, and no bucket has only its kind.
LEMMA BucketKinds ==
    ASSUME TypeOK
    PROVE  /\ bucket.kind \in {"none", "hash", "zset"}
           /\ bucket = NoBucket <=> bucket.kind = "none"
           /\ bucket.kind = "hash" => /\ bucket.tokens \in Nat /\ bucket.ts \in 0 .. clock
                                      /\ bucket.ts \in Nat /\ bucket.expires \in Nat
           /\ bucket.kind = "zset" => /\ bucket.expires \in Nat
                                      /\ bucket.members \subseteq [score : 0 .. clock, tag : Tags]
<1>1. \A c \in Configs : 0 .. Capacity(c) \subseteq Nat
  BY ConfigFields
<1> QED
  BY <1>1, HistoryFields DEF TypeOK, NoBucket

\* What a bucket refills once more when a script stamped now runs.
Late(now) ==
    LET since == IF bucket.kind = "none" THEN clock - Second ELSE bucket.ts
    IN  Greater(0, since - now)

\* What passed from the last script to the one stamped now.
Passed(now) == IF bucket.kind = "none" THEN 0 ELSE Greater(0, now - bucket.ts)

(***************************************************************************)
(* A refill: x tokens, between none and the burst, with the error err.     *)
(***************************************************************************)
Refill(c, now, err, x) ==
    /\ bucket.kind \in {"none", "hash"} /\ err \in {-1, 0, 1} /\ x \in 0 .. Capacity(c)
    /\ bucket.kind = "none" => err = 0 /\ x = Capacity(c)
    /\ bucket.kind = "hash" =>
          /\ x = Lesser(Capacity(c), Flow(c) * Passed(now) + bucket.tokens + err)
          /\ Flow(c) * Passed(now) = 0 => err = 0

LEMMA RefillTyped ==
    ASSUME TypeOK, NEW c \in Configs, NEW now \in Times, c.mode = "token",
           bucket.kind \in {"none", "hash"}, NEW err \in Roundings(bucket, c, now), NEW tag
    PROVE  /\ Refill(c, now, err, Refilled(bucket, c, now, err))
           /\ Late(now) \in Nat /\ Passed(now) \in Nat
           /\ Flow(c) * Late(now) \in Nat /\ Flow(c) * Passed(now) \in Nat
           /\ Surplus(bucket, c, now, tag, err) = Greater(0, err) + Flow(c) * Late(now)
           /\ Surplus(bucket, c, now, tag, err) \in Nat
<1> DEFINE x == Refilled(bucket, c, now, err)
<1>1. /\ Capacity(c) \in Nat /\ Flow(c) \in Nat /\ now \in Nat /\ clock \in Nat
      /\ Second \in Nat
  BY ConfigFields, TimesNat, HistoryFields
<1>2. /\ bucket.kind = "none" <=> bucket = NoBucket
      /\ bucket.kind = "hash" => bucket.tokens \in Nat /\ bucket.ts \in Nat
  BY BucketKinds
<1>3. Late(now) \in Nat /\ Passed(now) \in Nat
  BY <1>1, <1>2 DEF Late, Passed, Greater
<1>4. Flow(c) * Late(now) \in Nat /\ Flow(c) * Passed(now) \in Nat /\ Flow(c) * 0 = 0
  BY <1>1, <1>3, ProductNat
<1>5. Elapsed(bucket, now) = Passed(now)
  BY <1>2 DEF Elapsed, Passed
<1>6. err \in {-1, 0, 1} /\ (Flow(c) * Passed(now) = 0 => err = 0)
  BY <1>5 DEF Roundings, TokenRoundings, Earned
<1>7. Exact(bucket, c, now) = Flow(c) * Passed(now)
                                + (IF bucket.kind = "none" THEN Capacity(c) ELSE bucket.tokens)
  BY <1>2, <1>5 DEF Exact, Earned
<1>8. bucket.kind = "none" => err = 0 /\ x = Capacity(c)
  <2> SUFFICES ASSUME bucket.kind = "none" PROVE err = 0 /\ x = Capacity(c)
    OBVIOUS
  <2>1. Flow(c) * Passed(now) = 0
    BY <1>4 DEF Passed
  <2> QED
    BY <1>1, <1>6, <1>7, <2>1 DEF Refilled, Lesser
<1>9. bucket.kind = "hash" => /\ x = Lesser(Capacity(c), Flow(c) * Passed(now) + bucket.tokens + err)
                              /\ x \in 0 .. Capacity(c)
  <2> DEFINE f == Flow(c) * Passed(now)
  <2> SUFFICES ASSUME bucket.kind = "hash"
               PROVE  /\ x = Lesser(Capacity(c), f + bucket.tokens + err)
                      /\ x \in 0 .. Capacity(c)
    OBVIOUS
  <2>1. x = Lesser(Capacity(c), f + bucket.tokens + err)
    BY <1>7 DEF Refilled
  <2>2. f \in Nat /\ (f = 0 => err = 0) /\ err \in {-1, 0, 1}
    BY <1>4, <1>6
  <2> HIDE DEF f, x
  <2> QED
    BY <1>1, <1>2, <2>1, <2>2 DEF Lesser
<1>10. Surplus(bucket, c, now, tag, err) = Greater(0, err) + Flow(c) * Late(now)
  BY <1>2 DEF Surplus, Late
<1>11. Surplus(bucket, c, now, tag, err) \in Nat
  BY <1>4, <1>6, <1>10 DEF Greater
<1> HIDE DEF x
<1>12. Refill(c, now, err, x)
  BY <1>1, <1>6, <1>8, <1>9 DEF Refill
<1> QED
  BY <1>3, <1>4, <1>10, <1>11, <1>12 DEF x

\* What a script of r leaves of the history, if r decides on the
\* configuration in force, and what it leaves otherwise.
Accounted(r, allowed, surplus, dropped) ==
    /\ req[r].cfg = GetConfig =>
          Tally(grants', req[r].now, allowed, surplus, dropped) /\ regime' = regime
    /\ req[r].cfg # GetConfig => grants' = NoGrants(0) /\ regime' = "mixed"

\* What a script leaves of a request.
Answered(r, allowed) ==
    /\ UNCHANGED <<config, clock>>
    /\ req' \in [Requests -> ReqStates]
    /\ req'[r].pc = IF allowed THEN "idle" ELSE "refused"
    /\ \A q \in Requests \ {r} : req'[q] = req[q]

(***************************************************************************)
(* A script in token mode.                                                 *)
(***************************************************************************)
TokenRan(r, err, x) ==
    LET c == req[r].cfg
        now == req[r].now
    IN  /\ Refill(c, now, err, x)
        /\ bucket'.kind = "hash"
        /\ bucket'.tokens = IF x >= Token THEN x - Token ELSE x
        /\ bucket'.ts = now
        /\ bucket'.expires = clock + TokenTtl(c)
        /\ Answered(r, x >= Token)
        /\ Accounted(r, x >= Token, Greater(0, err) + Flow(c) * Late(now),
                     err < 0 /\ regime = "fresh")

LEMMA TokenRun ==
    ASSUME TypeOK, NEW r \in Requests, RunScript(r), req[r].cfg.mode = "token"
    PROVE  \E err, x : TokenRan(r, err, x)
<1> DEFINE q == req[r]
           c == q.cfg
           now == q.now
<1>a. c \in Configs /\ now \in Times /\ bucket.kind \in {"none", "hash"}
  BY StampedFields DEF RunScript, Kind
<1>b. req \in [Requests -> ReqStates] /\ \A pc \in IdlePcs : Ended(pc) \in ReqStates
  BY DEF TypeOK, ReqStates
<1> DEFINE result(err) == Script(bucket, c, now, q.tag, err)
<1>1. PICK err \in Roundings(bucket, c, now) :
         /\ bucket' = result(err).bucket
         /\ req' = [req EXCEPT ![r] = Ended(IF result(err).allowed THEN "idle" ELSE "refused")]
         /\ Account(r, Recorded(grants, q, err))
  BY DEF RunScript
<1> DEFINE x == Refilled(bucket, c, now, err)
           ok == x >= Token
           tokens == IF ok THEN x - Token ELSE x
           b == [kind |-> "hash", tokens |-> tokens, ts |-> now,
                 expires |-> clock + TokenTtl(c)]
           resets == TokenResets(c, tokens)
           surplus == Surplus(bucket, c, now, q.tag, err)
<1>2. result(err) = [allowed |-> ok, resets |-> resets, bucket |-> b]
  BY DEF Script, TokenBucket
<1> HIDE DEF result
<1>3. result(err).allowed = ok /\ result(err).bucket = b
  <2> HIDE DEF ok, b, resets
  <2> QED
    BY <1>2
<1>4. /\ Refill(c, now, err, x) /\ surplus = Greater(0, err) + Flow(c) * Late(now)
      /\ surplus \in Nat
  BY <1>a, RefillTyped
<1>5. /\ b.kind = "hash" /\ b.tokens = tokens /\ b.ts = now
      /\ b.expires = clock + TokenTtl(c)
  OBVIOUS
<1>6. UNCHANGED <<config, clock>>
  BY DEF RunScript
<1>7. Answered(r, ok)
  <2> DEFINE e == Ended(IF ok THEN "idle" ELSE "refused")
  <2>1. e \in ReqStates /\ e.pc = IF ok THEN "idle" ELSE "refused"
    BY <1>b DEF IdlePcs, Ended
  <2>2. req' = [req EXCEPT ![r] = e]
    BY <1>1, <1>3
  <2> HIDE DEF e, ok
  <2> QED
    BY <1>b, <1>6, <2>1, <2>2 DEF Answered
<1>8. Accounted(r, ok, surplus, err < 0 /\ regime = "fresh")
  <2>1. err \in {-1, 0, 1} /\ ok \in BOOLEAN
    BY <1>4 DEF Refill
  <2>2. Tally(Recorded(grants, q, err), now, ok, surplus, err < 0 /\ regime = "fresh")
    <3>1. ok = Script(bucket, q.cfg, q.now, q.tag, err).allowed
      BY <1>3 DEF result
    <3> HIDE DEF ok, surplus, q
    <3>2. q.now \in Times /\ surplus = Surplus(bucket, q.cfg, q.now, q.tag, err)
      BY <1>a DEF surplus
    <3> QED
      BY <1>4, <2>1, <3>1, <3>2, RecordedFields
  <2> QED
    BY <1>1, <2>2 DEF Account, Accounted
<1> HIDE DEF x, ok, b, surplus, tokens
<1>9. bucket' = b
  BY <1>1, <1>3
<1> QED
  BY <1>4, <1>5, <1>7, <1>8, <1>9 DEF TokenRan, ok, tokens

\* The members of the window's bucket, and parts of them.
Members == IF bucket.kind = "zset" THEN bucket.members ELSE {}

From(M, s) == {m \in M : m.score >= s}
Within(M, t, c) == {m \in M : m.score > t - c.window}

Member(r) == [score |-> req[r].now, tag |-> req[r].tag]

(***************************************************************************)
(* A script in sliding mode, K the members that it counts.                 *)
(***************************************************************************)
SlidingRan(r, K) ==
    LET c == req[r].cfg
        ok == Cardinality(K) < c.rate
    IN  /\ K = Within(Members, req[r].now, c)
        /\ bucket.kind \in {"none", "zset"} /\ bucket'.kind \in {"none", "zset"}
        /\ bucket'.kind = "none" => bucket' = NoBucket
        /\ bucket'.kind = "zset" => bucket'.expires = clock + c.window
        /\ Members' = IF ok THEN K \cup {Member(r)} ELSE K
        /\ Answered(r, ok)
        /\ Accounted(r, ok, IF ok /\ Member(r) \in K THEN 1 ELSE 0, FALSE)

LEMMA SlidingRun ==
    ASSUME TypeOK, NEW r \in Requests, RunScript(r), req[r].cfg.mode = "sliding"
    PROVE  \E K : SlidingRan(r, K)
<1> DEFINE q == req[r]
           c == q.cfg
           now == q.now
           K == Within(Members, now, c)
<1>a. c \in Configs /\ now \in Times /\ bucket.kind \in {"none", "zset"}
  BY StampedFields DEF RunScript, Kind
<1>b. req \in [Requests -> ReqStates] /\ \A pc \in IdlePcs : Ended(pc) \in ReqStates
  BY DEF TypeOK, ReqStates
<1>c. InWindow(bucket, c, now) = K
  BY <1>a, BucketKinds DEF InWindow, Members, Within
<1> DEFINE result == Script(bucket, c, now, q.tag, 0)
<1>1. /\ bucket' = result.bucket
      /\ req' = [req EXCEPT ![r] = Ended(IF result.allowed THEN "idle" ELSE "refused")]
      /\ Account(r, Recorded(grants, q, 0))
      /\ UNCHANGED <<config, clock>>
  <2>1. Roundings(bucket, c, now) = {0}
    BY DEF Roundings
  <2> QED
    BY <2>1 DEF RunScript
<1> DEFINE ok == Cardinality(K) < c.rate
           M == IF ok THEN K \cup {Member(r)} ELSE K
           b == IF M = {} THEN NoBucket
                ELSE [kind |-> "zset", members |-> M, expires |-> clock + c.window]
           resets == {Ceil(c.window, Second)}
           surplus == IF ok /\ Member(r) \in K THEN 1 ELSE 0
<1>2. result = [allowed |-> ok, resets |-> resets, bucket |-> b]
  BY <1>c, Zenon DEF Script, SlidingWindow, HasRoom, Member
<1>3. result.allowed = ok /\ result.bucket = b
  <2> HIDE DEF result, ok, b, resets
  <2> QED
    BY <1>2
<1>4. Surplus(bucket, c, now, q.tag, 0) = surplus
  <2> HIDE DEF K
  <2> QED
    BY <1>c, <1>3 DEF Surplus, Member
<1>7. Answered(r, ok)
  <2> DEFINE e == Ended(IF ok THEN "idle" ELSE "refused")
  <2>1. e \in ReqStates /\ e.pc = IF ok THEN "idle" ELSE "refused"
    BY <1>b DEF IdlePcs, Ended
  <2>2. req' = [req EXCEPT ![r] = e]
    BY <1>1, <1>3
  <2> HIDE DEF e, ok
  <2> QED
    BY <1>b, <1>1, <2>1, <2>2 DEF Answered
<1>8. Accounted(r, ok, surplus, FALSE)
  <2>1. ok \in BOOLEAN /\ surplus \in Nat
    OBVIOUS
  <2>2. Tally(Recorded(grants, q, 0), now, ok, surplus, 0 < 0 /\ regime = "fresh")
    <3>1. ok = Script(bucket, q.cfg, q.now, q.tag, 0).allowed
      BY <1>3 DEF result
    <3> HIDE DEF ok, surplus, q
    <3>2. q.now \in Times /\ surplus = Surplus(bucket, q.cfg, q.now, q.tag, 0)
      BY <1>a, <1>4 DEF q
    <3> QED
      BY <2>1, <3>1, <3>2, RecordedFields
  <2>3. (0 < 0 /\ regime = "fresh") = FALSE
    OBVIOUS
  <2>4. Tally(Recorded(grants, q, 0), now, ok, surplus, FALSE)
    BY <2>2, <2>3
  <2> QED
    BY <1>1, <2>4 DEF Account, Accounted
<1>9. bucket' = b
  BY <1>1, <1>3
<1> HIDE DEF K, ok, surplus
<1>10. /\ bucket'.kind \in {"none", "zset"} /\ (bucket'.kind = "none" => bucket' = NoBucket)
       /\ (bucket'.kind = "zset" => bucket'.expires = clock + c.window)
       /\ Members' = M
  <2>1. CASE M = {}
    BY <1>9, <2>1 DEF NoBucket, Members
  <2>2. CASE M # {}
    BY <1>9, <2>2 DEF Members
  <2> QED
    BY <2>1, <2>2
<1> QED
  BY <1>a, <1>7, <1>8, <1>10 DEF SlidingRan, K, ok, surplus

(***************************************************************************)
(* A request that the other mode's bucket lets through.                    *)
(***************************************************************************)
Passes(r) ==
    LET now == req[r].now
    IN  /\ bucket.kind \in {"hash", "zset"} /\ bucket.kind # Kind(req[r].cfg)
        /\ bucket' = bucket
        /\ Answered(r, TRUE)
        /\ req[r].cfg # GetConfig => grants' = NoGrants(0) /\ regime' = "mixed"
        /\ req[r].cfg = GetConfig =>
              /\ regime' = regime
              /\ grants'.since \in [Times -> Nat]
              /\ \A s \in Times : grants'.since[s] = IF s <= now THEN grants.since[s] + 1
                                                                ELSE grants.since[s]
              /\ grants'.extra = grants.extra /\ grants'.lost = grants.lost
              /\ grants'.from = grants.from
              /\ grants'.open = Greater(grants.open, now + 1)

LEMMA WrongTypePasses ==
    ASSUME TypeOK, NEW r \in Requests, WrongType(r)
    PROVE  Passes(r)
<1>a. req[r].now \in Times /\ req \in [Requests -> ReqStates]
  BY StampedFields DEF WrongType, TypeOK, ReqStates
<1>1. Answered(r, TRUE)
  <2>1. Ended("idle") \in ReqStates /\ Ended("idle").pc = "idle"
    BY DEF ReqStates, IdlePcs, Ended
  <2> QED
    BY <1>a, <2>1 DEF WrongType, Answered
<1> DEFINE h == [grants EXCEPT !.since = Counted(grants.since, req[r].now),
                               !.open = Greater(grants.open, req[r].now + 1)]
<1>2. /\ h.since = Counted(grants.since, req[r].now) /\ h.extra = grants.extra
      /\ h.lost = grants.lost /\ h.from = grants.from
      /\ h.open = Greater(grants.open, req[r].now + 1)
  BY HistoryFields DEF History
<1>3. Account(r, h)
  BY DEF WrongType
<1>4. /\ bucket.kind \in {"hash", "zset"} /\ bucket.kind # Kind(req[r].cfg)
      /\ bucket' = bucket
  BY BucketKinds DEF WrongType
<1> HIDE DEF h
<1>5. CASE req[r].cfg = GetConfig
  <2>1. grants' = h /\ regime' = regime
    BY <1>3, <1>5 DEF Account
  <2>2. /\ h.since \in [Times -> Nat]
        /\ \A s \in Times : h.since[s] = IF s <= req[r].now THEN grants.since[s] + 1
                                                           ELSE grants.since[s]
    <3> DEFINE now == req[r].now
               since == grants.since
    <3>1. now \in Times /\ since \in [Times -> Nat] /\ h.since = Counted(since, now)
      BY <1>a, <1>2, HistoryFields
    <3> HIDE DEF now, since
    <3>2. /\ h.since \in [Times -> Nat]
          /\ \A s \in Times : h.since[s] = IF s <= now THEN since[s] + 1 ELSE since[s]
      BY <3>1, CountedFields
    <3> QED
      BY <3>2 DEF now, since
  <2> QED
    BY <1>1, <1>2, <1>4, <1>5, <2>1, <2>2 DEF Passes
<1>6. CASE req[r].cfg # GetConfig
  BY <1>1, <1>3, <1>4, <1>6 DEF Passes, Account
<1> QED
  BY <1>5, <1>6

-----------------------------------------------------------------------------
(* Type correctness.                                                       *)

\* The time to live of a bucket.
LEMMA TtlTyped == ASSUME NEW c \in Configs PROVE TokenTtl(c) \in Nat /\ Ttl(c) \in Nat
<1>1. /\ c.burst \in Nat /\ c.rate \in Nat /\ c.window \in Nat /\ Second \in Nat
      /\ c.burst * Second \in Nat
  BY ConfigFields, TimesNat, ProductNat
<1>2. c.rate > 0 => Ceil(c.burst * Second, c.rate) \in Nat
  BY <1>1, CeilRoundsUp
<1>3. TokenTtl(c) \in Nat
  BY <1>1, <1>2 DEF TokenTtl
<1> QED
  BY <1>1, <1>3 DEF Ttl

\* A run script is one of the two.
LEMMA ScriptRuns ==
    ASSUME TypeOK, NEW r \in Requests, RunScript(r)
    PROVE  /\ req[r].cfg \in Configs /\ req[r].now \in Times /\ req[r].tag \in Tags
           /\ req[r].pc = "stamped"
           /\ \/ req[r].cfg.mode = "token" /\ \E err, x : TokenRan(r, err, x)
              \/ req[r].cfg.mode = "sliding" /\ \E K : SlidingRan(r, K)
<1>1. req[r].pc = "stamped"
  BY DEF RunScript
<1>2. req[r].cfg \in Configs /\ req[r].cfg.mode \in {"token", "sliding"}
  BY <1>1, StampedFields, ConfigFields
<1> QED
  BY <1>1, <1>2, StampedFields, TokenRun, SlidingRun

\* What a script and a request past the wrong type leave alike.
LEMMA Decides ==
    ASSUME TypeOK, StampsOK, NEW r \in Requests, RunScript(r) \/ WrongType(r)
    PROVE  /\ \E ok \in BOOLEAN : Answered(r, ok)
           /\ UNCHANGED <<config, clock>>
           /\ req[r].pc = "stamped" /\ req[r].now \in Times /\ req[r].cfg \in Configs
           /\ req[r].now <= clock /\ clock <= req[r].now + MaxDelay
           /\ grants' \in History /\ regime' \in {regime, "mixed"}
           /\ regime' # "mixed" => /\ req[r].cfg = GetConfig /\ regime' = regime
                                   /\ grants'.from = grants.from
                                   /\ \A s \in Times : grants'.since[s] > grants.since[s]
                                                         => s <= req[r].now
<1>1. /\ req[r].pc = "stamped" /\ req[r].now \in Times /\ req[r].cfg \in Configs
      /\ req[r].now <= clock /\ clock <= req[r].now + MaxDelay
  BY StampedFields DEF RunScript, WrongType, StampsOK, InFlight
<1>2. NoGrants(0) \in History
  BY HistoryFields DEF NoGrants, None, History
<1>a. /\ \A s \in Times : ~(grants.since[s] > grants.since[s]) /\ grants.since[s] \in Nat
      /\ TRUE \in BOOLEAN
  BY HistoryFields
<1>3. ASSUME NEW ok \in BOOLEAN, NEW surplus, NEW dropped, Answered(r, ok),
             Accounted(r, ok, surplus, dropped)
      PROVE  /\ UNCHANGED <<config, clock>>
             /\ grants' \in History /\ regime' \in {regime, "mixed"}
             /\ regime' # "mixed" => /\ req[r].cfg = GetConfig /\ regime' = regime
                                     /\ grants'.from = grants.from
                                     /\ \A s \in Times : grants'.since[s] > grants.since[s]
                                                           => s <= req[r].now
  <2>1. CASE req[r].cfg = GetConfig
    BY <1>3, <1>a, <2>1 DEF Answered, Accounted, Tally
  <2>2. CASE req[r].cfg # GetConfig
    BY <1>2, <1>3, <2>2 DEF Answered, Accounted
  <2> QED
    BY <2>1, <2>2
<1>4. CASE RunScript(r)
  <2>1. CASE \E err, x : TokenRan(r, err, x)
    <3>1. PICK err, x : TokenRan(r, err, x)
      BY <2>1
    <3>2. (x >= Token) \in BOOLEAN
      OBVIOUS
    <3>3. /\ Answered(r, x >= Token)
          /\ Accounted(r, x >= Token, Greater(0, err) + Flow(req[r].cfg) * Late(req[r].now),
                       err < 0 /\ regime = "fresh")
      BY <3>1 DEF TokenRan
    <3> QED
      BY <1>1, <1>3, <3>2, <3>3
  <2>2. CASE \E K : SlidingRan(r, K)
    <3>1. PICK K : SlidingRan(r, K)
      BY <2>2
    <3> DEFINE ok == Cardinality(K) < req[r].cfg.rate
    <3>2. ok \in BOOLEAN
      OBVIOUS
    <3>3. Answered(r, ok) /\ Accounted(r, ok, IF ok /\ Member(r) \in K THEN 1 ELSE 0, FALSE)
      BY <3>1 DEF SlidingRan
    <3> QED
      BY <1>1, <1>3, <3>2, <3>3
  <2> QED
    BY <1>4, <2>1, <2>2, ScriptRuns
<1>5. CASE WrongType(r)
  <2>1. Passes(r) /\ Answered(r, TRUE) /\ UNCHANGED <<config, clock>>
    BY <1>5, WrongTypePasses DEF Passes, Answered
  <2>2. CASE req[r].cfg # GetConfig
    BY <1>1, <1>2, <1>a, <2>1, <2>2 DEF Passes
  <2>3. CASE req[r].cfg = GetConfig
    <3>1. /\ grants'.open \in 0 .. clock + 1 /\ grants'.from \in 0 .. clock
          /\ grants'.since \in [Times -> Nat] /\ grants'.extra \in [Times -> Nat]
          /\ grants'.lost \in [Times -> Nat]
      <4> DEFINE now == req[r].now
                 open == grants.open
      <4>1. grants'.open = Greater(open, now + 1)
        BY <2>1, <2>3 DEF Passes
      <4>2. now \in Nat /\ now <= clock /\ open \in 0 .. clock + 1 /\ clock \in Nat
        BY <1>1, HistoryFields, TimesNat
      <4>3. Greater(open, now + 1) \in 0 .. clock + 1
        <5> HIDE DEF now, open
        <5> QED
          BY <4>2 DEF Greater
      <4>4. /\ grants'.from = grants.from /\ grants'.since \in [Times -> Nat]
            /\ grants'.extra = grants.extra /\ grants'.lost = grants.lost
        BY <2>1, <2>3 DEF Passes
      <4> QED
        BY <4>1, <4>3, <4>4, HistoryFields
    <3>2. grants' = [grants EXCEPT !.since = grants'.since, !.open = grants'.open]
      <4>1. Account(r, [grants EXCEPT !.since = Counted(@, req[r].now),
                                      !.open = Greater(@, req[r].now + 1)])
        BY <1>5 DEF WrongType
      <4>2. grants' = [grants EXCEPT !.since = Counted(@, req[r].now),
                                     !.open = Greater(@, req[r].now + 1)]
        BY <2>3, <4>1 DEF Account
      <4> QED
        BY <4>2, HistoryFields DEF History
    <3>3. grants' \in History
      BY <3>1, <3>2, HistoryFields DEF History
    <3>4. \A s \in Times : grants'.since[s] > grants.since[s] => s <= req[r].now
      BY <1>a, <2>1, <2>3 DEF Passes
    <3> QED
      BY <1>1, <1>a, <2>1, <2>3, <3>3, <3>4 DEF Passes
  <2> QED
    BY <2>2, <2>3
<1> QED
  BY <1>4, <1>5

\* A configuration stays in force until the administrator sends another.
LEMMA ConfigKept ==
    ASSUME TypeOK, StampsOK, [Next]_vars
    PROVE  GetConfig' = GetConfig \/ (\E c \in Inputs : SetConfig(c))
<1>1. ASSUME NEW r \in Requests, RunScript(r) \/ WrongType(r) PROVE config' = config
  BY <1>1, Decides
<1> QED
  BY <1>1, Steps DEF GetConfig, Aside, Tick

(***************************************************************************)
(* Stamps are never in the future, nor too old.                            *)
(***************************************************************************)
LEMMA StampsInductive ==
    ASSUME TypeOK, StampsOK, [Next]_vars
    PROVE  StampsOK'
<1>a. clock \in Nat /\ MaxDelay \in Nat
  BY HistoryFields, TimesNat
<1>1. ASSUME Aside PROVE StampsOK'
  BY <1>1, <1>a DEF Aside, StampsOK, InFlight
<1>2. ASSUME NEW r \in Requests, RunScript(r) \/ WrongType(r) PROVE StampsOK'
  <2>1. PICK ok \in BOOLEAN : Answered(r, ok)
    BY <1>2, Decides
  <2>2. req'[r].pc # "stamped"
    BY <2>1 DEF Answered
  <2> QED
    BY <2>1, <2>2 DEF Answered, StampsOK, InFlight
<1>3. ASSUME Tick PROVE StampsOK'
  <2> SUFFICES ASSUME NEW r \in InFlight
               PROVE  req[r].now <= clock' /\ clock' <= req[r].now + MaxDelay
    BY <1>3 DEF Tick, StampsOK, InFlight
  <2>1. /\ req[r].now <= clock /\ clock - req[r].now < MaxDelay /\ clock' = clock + 1
        /\ req[r].now \in Nat
    BY <1>3, StampedFields, TimesNat DEF Tick, StampsOK, InFlight
  <2> DEFINE now == req[r].now
  <2> HIDE DEF now
  <2> QED
    BY <1>a, <2>1 DEF now
<1>4. ASSUME NEW c \in Inputs, SetConfig(c) PROVE StampsOK'
  BY <1>4 DEF SetConfig, StampsOK, InFlight
<1> QED
  BY <1>1, <1>2, <1>3, <1>4, Steps

(***************************************************************************)
(* A script leaves a bucket of its mode, with the tokens its burst allows  *)
(* or with members no younger than the present.                            *)
(***************************************************************************)
LEMMA BucketTyped ==
    ASSUME TypeOK, StampsOK, NEW r \in Requests, RunScript(r)
    PROVE  BucketOK'
<1> DEFINE c == req[r].cfg
           now == req[r].now
<1>a. /\ c \in Configs /\ now \in 0 .. clock /\ req[r].tag \in Tags
      /\ clock' = clock /\ clock \in Nat
  <2>1. /\ c \in Configs /\ now \in Nat /\ req[r].tag \in Tags /\ clock \in Nat
        /\ now <= clock /\ clock' = clock
    BY ScriptRuns, Decides, HistoryFields, TimesNat
  <2> HIDE DEF now, c
  <2> QED
    BY <2>1
<1>b. /\ c.window \in Nat /\ Capacity(c) \in Nat /\ TokenTtl(c) \in Nat
      /\ Token \in Nat \ {0}
  BY <1>a, ConfigFields, TtlTyped, TimesNat
<1>1. ASSUME NEW err, NEW x, TokenRan(r, err, x) PROVE BucketOK'
  <2>1. /\ bucket'.kind = "hash" /\ bucket'.ts = now
        /\ bucket'.tokens = IF x >= Token THEN x - Token ELSE x
        /\ bucket'.expires = clock + TokenTtl(c)
        /\ x \in 0 .. Capacity(c)
    BY <1>1 DEF TokenRan, Refill
  <2>2. bucket'.tokens \in 0 .. Capacity(c) /\ bucket'.expires \in Nat
    BY <1>a, <1>b, <2>1
  <2> HIDE DEF c, now
  <2> QED
    BY <1>a, <2>1, <2>2 DEF BucketOK
<1>2. ASSUME NEW K, SlidingRan(r, K) PROVE BucketOK'
  <2>1. /\ bucket'.kind \in {"none", "zset"}
        /\ bucket'.kind = "none" => bucket' = NoBucket
        /\ bucket'.kind = "zset" => bucket'.expires = clock + c.window
        /\ Members' \in {K, K \cup {Member(r)}}
        /\ K \subseteq Members
    BY <1>2 DEF SlidingRan, Within
  <2>2. K \cup {Member(r)} \subseteq [score : 0 .. clock, tag : Tags]
    BY <1>a, <2>1, BucketKinds DEF Members, Member
  <2>3. Members' \subseteq [score : 0 .. clock, tag : Tags]
    BY <2>1, <2>2
  <2>4. bucket'.kind = "zset" => Members' = bucket'.members
    BY DEF Members
  <2> HIDE DEF c, now
  <2> QED
    BY <1>a, <1>b, <2>1, <2>3, <2>4 DEF BucketOK, c
<1> QED
  BY <1>1, <1>2, ScriptRuns

(***************************************************************************)
(* Types are kept, since no stamp is younger than the present.             *)
(***************************************************************************)
LEMMA TypeInductive ==
    ASSUME TypeOK, StampsOK, [Next]_vars
    PROVE  TypeOK'
<1> DEFINE Good == /\ config' \in {Unset} \cup Configs /\ clock' \in Times
                   /\ BucketOK' /\ req' \in [Requests -> ReqStates]
                   /\ grants' \in History' /\ regime' \in {"fresh", "changed", "mixed"}
<1>a. /\ config \in {Unset} \cup Configs /\ clock \in Times /\ BucketOK
      /\ req \in [Requests -> ReqStates] /\ grants \in History
      /\ regime \in {"fresh", "changed", "mixed"} /\ MaxTime \in Nat
  BY TimesNat DEF TypeOK, BucketOK, ReqStates, History
<1>1. ASSUME Aside PROVE Good
  BY <1>1, <1>a DEF Aside, BucketOK, History
<1>2. ASSUME NEW r \in Requests, RunScript(r) \/ WrongType(r) PROVE Good
  <2>1. /\ UNCHANGED <<config, clock>> /\ req' \in [Requests -> ReqStates]
        /\ grants' \in History /\ regime' \in {"fresh", "changed", "mixed"}
    BY <1>2, <1>a, Decides DEF Answered
  <2>2. grants' \in History'
    BY <2>1 DEF History
  <2>3. BucketOK'
    BY <1>2, <1>a, <2>1, BucketTyped DEF WrongType, BucketOK
  <2> QED
    BY <1>a, <2>1, <2>2, <2>3
<1>3. ASSUME NEW c \in Inputs, SetConfig(c) PROVE Good
  <2>1. config' \in Configs /\ UNCHANGED <<bucket, clock, req>> /\ regime' = "changed"
    BY <1>3 DEF SetConfig, Configs
  <2>2. grants' \in History
    BY <1>3, <1>a, TimesNat DEF SetConfig, NoGrants, None, History
  <2> QED
    BY <1>a, <2>1, <2>2 DEF BucketOK, History
<1>4. ASSUME Tick PROVE Good
  <2>1. /\ clock' = clock + 1 /\ clock' \in Times /\ UNCHANGED <<config, req, grants, regime>>
        /\ bucket' = NoBucket \/ bucket' = bucket
    BY <1>4, <1>a DEF Tick, Times
  <2>2. 0 .. clock \subseteq 0 .. clock' /\ 0 .. clock + 1 \subseteq 0 .. clock' + 1
    BY <1>a, <2>1, TimesNat
  <2>3. [score : 0 .. clock, tag : Tags] \subseteq [score : 0 .. clock', tag : Tags]
    BY <2>2
  <2>4. BucketOK'
    BY <1>a, <2>1, <2>2, <2>3 DEF BucketOK
  <2>5. grants' \in History'
    BY <1>a, <2>1, <2>2 DEF History
  <2> QED
    BY <1>a, <2>1, <2>4, <2>5
<1>5. Good
  BY <1>1, <1>2, <1>3, <1>4, Steps
<1> QED
  BY <1>5 DEF TypeOK, BucketOK, ReqStates, History

-----------------------------------------------------------------------------
(* The life of a bucket.                                                   *)

\* The bucket lives, and was left by the script of some configuration.
Alive ==
    bucket.kind # "none" =>
        /\ clock <= bucket.expires
        /\ \E c \in Configs : bucket.expires <= clock + Ttl(c)

\* A bucket of the other mode is older than the configuration.
Foreign ==
    (regime # "mixed" /\ bucket.kind \notin {"none", Kind(GetConfig)}) =>
        \E c \in Configs : bucket.expires <= grants.from + Ttl(c)

\* Requests pass unchecked only while a bucket of the other mode lives.
Opens ==
    regime # "mixed" =>
        \/ grants.open = 0
        \/ \E c \in Configs : grants.open <= grants.from + Ttl(c) + 1

\* Nothing is granted to stamps to come.
GrantsPast == regime # "mixed" => \A s \in Times : grants.since[s] > 0 => s <= clock

\* No configuration was changed yet, and the bucket is of its mode.
Own == regime = "fresh" => bucket.kind \in {"none", Kind(GetConfig)}

\* The set of members is finite.
MembersFinite == IsFiniteSet(Members)

Sound == /\ TypeOK /\ StampsOK /\ Alive /\ Foreign /\ Opens /\ GrantsPast /\ Own
         /\ MembersFinite

\* A script leaves a bucket of its mode.
LEMMA ScriptLeaves ==
    ASSUME TypeOK, StampsOK, NEW r \in Requests, RunScript(r)
    PROVE  /\ bucket.kind \in {"none", Kind(req[r].cfg)}
           /\ bucket'.kind \in {"none", Kind(req[r].cfg)}
           /\ bucket'.kind # "none" => bucket'.expires = clock + Ttl(req[r].cfg)
           /\ regime' # "mixed" => grants'.open = grants.open
<1>1. ASSUME NEW err, NEW x, req[r].cfg.mode = "token", TokenRan(r, err, x)
      PROVE  /\ bucket'.kind = "hash" /\ bucket'.expires = clock + Ttl(req[r].cfg)
             /\ Kind(req[r].cfg) = "hash"
             /\ regime' # "mixed" => grants'.open = grants.open
  BY <1>1 DEF TokenRan, Ttl, Kind, Accounted, Tally
<1>2. ASSUME NEW K, req[r].cfg.mode = "sliding", SlidingRan(r, K)
      PROVE  /\ bucket'.kind \in {"none", "zset"} /\ Kind(req[r].cfg) = "zset"
             /\ bucket'.kind = "zset" => bucket'.expires = clock + Ttl(req[r].cfg)
             /\ regime' # "mixed" => grants'.open = grants.open
  BY <1>2 DEF SlidingRan, Ttl, Kind, Accounted, Tally
<1> QED
  BY <1>1, <1>2, ScriptRuns DEF RunScript

\* What the clock does to the bucket.
LEMMA TickEffect ==
    ASSUME TypeOK, Tick
    PROVE  /\ clock' = clock + 1 /\ clock \in Nat /\ clock' \in Times
           /\ UNCHANGED <<config, req, grants, regime>> /\ GetConfig' = GetConfig
           /\ \/ bucket' = bucket /\ (bucket.kind # "none" => clock' <= bucket.expires)
              \/ /\ bucket' = NoBucket /\ bucket'.kind = "none"
                 /\ bucket.kind # "none" /\ clock' > bucket.expires
<1>1. /\ clock' = clock + 1 /\ clock < MaxTime /\ clock \in Nat /\ MaxTime \in Nat
      /\ UNCHANGED <<config, req, grants, regime>>
      /\ bucket' = IF bucket # NoBucket /\ clock' > bucket.expires THEN NoBucket ELSE bucket
  BY HistoryFields, TimesNat DEF Tick
<1>2. bucket.kind # "none" => bucket # NoBucket /\ bucket.expires \in Nat
  BY BucketKinds
<1>3. NoBucket.kind = "none" /\ (bucket = NoBucket <=> bucket.kind = "none")
  BY BucketKinds DEF NoBucket
<1>4. clock' \in Times
  BY <1>1 DEF Times
<1> QED
  BY <1>1, <1>2, <1>3, <1>4 DEF GetConfig

\* What the administrator does to the history.
LEMMA SetEffect ==
    ASSUME TypeOK, NEW c \in Inputs, SetConfig(c)
    PROVE  /\ UNCHANGED <<bucket, clock, req>> /\ regime' = "changed"
           /\ grants'.from = clock /\ grants'.open = 0
           /\ \A s \in Times : /\ grants'.since[s] = 0 /\ grants'.extra[s] = 0
                               /\ grants'.lost[s] = 0
  BY DEF SetConfig, NoGrants, None

(***************************************************************************)
(* The bucket's life, as long as requests act on the configuration in      *)
(* force.                                                                  *)
(***************************************************************************)
LEMMA LifeInductive ==
    ASSUME TypeOK, StampsOK, Alive, Foreign, Opens, GrantsPast, Own, [Next]_vars
    PROVE  Alive' /\ Foreign' /\ Opens' /\ GrantsPast' /\ Own'
<1> DEFINE Goal == Alive' /\ Foreign' /\ Opens' /\ GrantsPast' /\ Own'
<1>a. /\ clock \in Nat /\ grants.from \in Nat /\ grants.open \in Nat
      /\ \A s \in Times : grants.since[s] \in Nat
  BY HistoryFields
<1>b. \A c \in Configs : Ttl(c) \in Nat
  BY TtlTyped
<1>c. bucket.kind # "none" => bucket.expires \in Nat
  BY BucketKinds
<1>1. ASSUME Aside PROVE Goal
  BY <1>1 DEF Aside, Alive, Foreign, Opens, GrantsPast, Own, GetConfig
<1>2. ASSUME NEW r \in Requests, RunScript(r) \/ WrongType(r) PROVE Goal
  <2> DEFINE now == req[r].now
             c == req[r].cfg
  <2>a. /\ config' = config /\ clock' = clock /\ c \in Configs /\ now \in Times
        /\ now <= clock /\ GetConfig' = GetConfig /\ regime' \in {regime, "mixed"}
        /\ regime' # "mixed" => /\ c = GetConfig /\ regime' = regime
                                /\ grants'.from = grants.from
    BY <1>2, Decides DEF GetConfig
  <2>b. now \in Nat /\ grants' \in History
    BY <1>2, <2>a, Decides, TimesNat
  <2>1. GrantsPast'
    <3> SUFFICES ASSUME regime' # "mixed", NEW s \in Times, grants'.since[s] > 0
                 PROVE  s <= clock
      BY <2>a DEF GrantsPast
    <3>1. grants'.since[s] > grants.since[s] => s <= now
      BY <1>2, Decides
    <3>2. grants'.since[s] \in Nat /\ grants.since[s] \in Nat /\ s \in Nat
      BY <1>a, <2>b, TimesNat DEF History
    <3>3. CASE grants'.since[s] > grants.since[s]
      <4> HIDE DEF now
      <4> QED
        BY <1>a, <2>a, <2>b, <3>1, <3>2, <3>3
    <3>4. CASE ~(grants'.since[s] > grants.since[s])
      <4>1. grants.since[s] > 0
        BY <3>2, <3>4
      <4> QED
        BY <2>a, <4>1 DEF GrantsPast
    <3> QED
      BY <3>3, <3>4
  <2>2. CASE RunScript(r)
    <3>1. /\ bucket'.kind \in {"none", Kind(c)}
          /\ bucket'.kind # "none" => bucket'.expires = clock + Ttl(c)
          /\ regime' # "mixed" => grants'.open = grants.open
      BY <2>2, ScriptLeaves
    <3>2. Alive'
      <4> SUFFICES ASSUME bucket'.kind # "none"
                   PROVE  clock <= bucket'.expires /\ bucket'.expires <= clock + Ttl(c)
        BY <2>a DEF Alive
      <4> DEFINE ttl == Ttl(c)
      <4>1. ttl \in Nat /\ bucket'.expires = clock + ttl
        BY <1>b, <2>a, <3>1
      <4> HIDE DEF ttl
      <4>2. clock <= bucket'.expires /\ bucket'.expires <= clock + ttl
        BY <1>a, <4>1
      <4> QED
        BY <4>2 DEF ttl
    <3>3. Foreign' /\ Own'
      BY <2>a, <3>1 DEF Foreign, Own
    <3>4. Opens'
      BY <2>a, <3>1 DEF Opens
    <3> QED
      BY <2>1, <3>2, <3>3, <3>4
  <2>3. CASE WrongType(r)
    <3>1. bucket' = bucket /\ bucket.kind # "none" /\ bucket.kind # Kind(c)
      BY <2>3, BucketKinds DEF WrongType
    <3>2. Alive' /\ Foreign' /\ Own'
      BY <2>a, <3>1 DEF Alive, Foreign, Own
    <3>3. Opens'
      <4> SUFFICES ASSUME regime' # "mixed"
                   PROVE  \/ grants'.open = 0
                          \/ \E b \in Configs : grants'.open <= grants.from + Ttl(b) + 1
        BY <2>a DEF Opens
      <4>1. grants'.open = Greater(grants.open, now + 1)
        BY <2>3, <2>a, WrongTypePasses DEF Passes
      <4>2. PICK b \in Configs : bucket.expires <= grants.from + Ttl(b)
        BY <2>a, <3>1 DEF Foreign
      <4>3. clock <= bucket.expires /\ bucket.expires \in Nat
        BY <1>c, <3>1 DEF Alive
      <4>4. now + 1 <= grants.from + Ttl(b) + 1
        <5> DEFINE ttl == Ttl(b)
                   from == grants.from
                   expires == bucket.expires
        <5>1. ttl \in Nat /\ from \in Nat /\ expires \in Nat /\ now <= clock /\ clock <= expires
              /\ expires <= from + ttl
          BY <1>a, <1>b, <2>a, <4>2, <4>3
        <5> HIDE DEF ttl, from, expires, now
        <5>2. now + 1 <= from + ttl + 1
          BY <1>a, <2>b, <5>1
        <5> QED
          BY <5>2 DEF ttl, from
      <4>5. CASE grants'.open = now + 1
        BY <4>4, <4>5
      <4>6. CASE grants'.open = grants.open
        BY <2>a, <4>6 DEF Opens
      <4> QED
        BY <4>1, <4>5, <4>6 DEF Greater
    <3> QED
      BY <2>1, <3>2, <3>3
  <2> QED
    BY <1>2, <2>2, <2>3
<1>3. ASSUME NEW c \in Inputs, SetConfig(c) PROVE Goal
  <2>1. Alive' /\ Opens' /\ GrantsPast' /\ Own'
    BY <1>3, <1>a, SetEffect DEF Alive, Opens, GrantsPast, Own
  <2>2. Foreign'
    BY <1>3, SetEffect DEF Alive, Foreign
  <2> QED
    BY <2>1, <2>2
<1>4. ASSUME Tick PROVE Goal
  <2>1. /\ clock' = clock + 1 /\ UNCHANGED <<grants, regime>> /\ GetConfig' = GetConfig
        /\ \/ bucket' = bucket /\ (bucket.kind # "none" => clock' <= bucket.expires)
           \/ bucket'.kind = "none"
    BY <1>4, TickEffect
  <2>2. Alive'
    <3> SUFFICES ASSUME bucket'.kind # "none"
                 PROVE  /\ clock' <= bucket'.expires
                        /\ \E c \in Configs : bucket'.expires <= clock' + Ttl(c)
      BY DEF Alive
    <3>1. bucket' = bucket /\ clock' <= bucket.expires /\ bucket.expires \in Nat
      BY <1>c, <2>1
    <3>2. PICK c \in Configs : bucket.expires <= clock + Ttl(c)
      BY <3>1 DEF Alive
    <3>3. Ttl(c) \in Nat /\ bucket.expires <= clock' + Ttl(c)
      BY <1>a, <1>b, <2>1, <3>1, <3>2
    <3> QED
      BY <3>1, <3>3
  <2>3. Foreign' /\ Own'
    BY <2>1 DEF Foreign, Own
  <2>4. Opens'
    BY <2>1 DEF Opens
  <2>5. GrantsPast'
    BY <1>a, <2>1, TimesNat DEF GrantsPast
  <2> QED
    BY <2>2, <2>3, <2>4, <2>5
<1> QED
  BY <1>1, <1>2, <1>3, <1>4, Steps

\* Parts of a finite set of members are finite.
LEMMA PartsFinite ==
    ASSUME NEW M, IsFiniteSet(M), NEW t, NEW c
    PROVE  IsFiniteSet(From(M, t)) /\ IsFiniteSet(Within(M, t, c))
  BY FS_Subset DEF From, Within

\* The set of members stays finite.
LEMMA FiniteInductive ==
    ASSUME TypeOK, StampsOK, MembersFinite, [Next]_vars
    PROVE  MembersFinite'
<1>1. ASSUME bucket' = bucket PROVE MembersFinite'
  BY <1>1 DEF MembersFinite, Members
<1>2. ASSUME bucket'.kind # "zset" PROVE MembersFinite'
  BY <1>2, FS_EmptySet DEF MembersFinite, Members
<1>3. ASSUME NEW r \in Requests, RunScript(r) PROVE MembersFinite'
  <2>1. ASSUME NEW err, NEW x, TokenRan(r, err, x) PROVE MembersFinite'
    BY <1>2, <2>1 DEF TokenRan
  <2>2. ASSUME NEW K, SlidingRan(r, K) PROVE MembersFinite'
    <3>1. K = Within(Members, req[r].now, req[r].cfg) /\ Members' \in {K, K \cup {Member(r)}}
      BY <2>2 DEF SlidingRan
    <3>2. IsFiniteSet(K)
      BY <3>1, PartsFinite DEF MembersFinite
    <3> QED
      BY <3>1, <3>2, FS_AddElement DEF MembersFinite
  <2> QED
    BY <1>3, <2>1, <2>2, ScriptRuns
<1> QED
  BY <1>1, <1>2, <1>3, Steps, TickEffect DEF Aside, WrongType, SetConfig

\* Where every request was checked, none that passed unchecked is counted.
LEMMA CheckedOpens ==
    ASSUME NEW open \in Nat, NEW from \in Nat, NEW s \in Nat,
           open = 0 \/ \E c \in Configs : open <= from + Ttl(c) + 1,
           s >= open \/ \A c \in Configs : s > from + Ttl(c)
    PROVE  s >= open
<1>1. ASSUME NEW c \in Configs, open <= from + Ttl(c) + 1, s > from + Ttl(c)
      PROVE  s >= open
  BY <1>1, TtlTyped
<1> QED
  BY <1>1

-----------------------------------------------------------------------------
(* Token mode keeps its limit.                                             *)

\* A refill from t to now pays for itself, but for its error and for what
\* was refilled past now before: n has been spent, e was too much before.
LEMMA RefillPays ==
    ASSUME NEW n \in Nat, NEW cap \in Nat, NEW have \in Nat, NEW t \in Nat, NEW s \in Nat,
           NEW now \in Nat, NEW f \in Nat, NEW err \in {-1, 0, 1}, NEW e \in Nat,
           n + Lesser(cap, have) <= cap + f * (t - s) + e
    PROVE  n + Lesser(cap, f * Greater(0, now - t) + have + err)
             <= cap + f * (now - s) + (e + (Greater(0, err) + f * Greater(0, t - now)))
<1> DEFINE p == Greater(0, now - t)
           l == Greater(0, t - now)
<1>1. p \in Nat /\ l \in Nat /\ (t - s) + p = (now - s) + l
  BY DEF Greater
<1> HIDE DEF p, l
<1>2. f * (t - s) + f * p = f * (now - s) + f * l /\ f * p \in Nat /\ f * l \in Nat
  <2>1. f * ((t - s) + p) = f * (t - s) + f * p /\ f * ((now - s) + l) = f * (now - s) + f * l
    BY <1>1, ProductSplits
  <2> QED
    BY <1>1, <2>1, ProductNat
<1> DEFINE P == f * p
           Q == f * l
           A == f * (t - s)
           B == f * (now - s)
<1>3. A \in Int /\ B \in Int /\ P \in Nat /\ Q \in Nat /\ A + P = B + Q
  BY <1>2
<1> HIDE DEF P, Q, A, B
<1>4. ASSUME n + Lesser(cap, have) <= cap + A + e
      PROVE  n + Lesser(cap, P + have + err) <= cap + B + (e + (Greater(0, err) + Q))
  BY <1>3, <1>4 DEF Lesser, Greater
<1> QED
  BY <1>4 DEF P, Q, A, B, p, l

\* A bucket that is full again pays for what was spent until a second ago.
LEMMA FullPays ==
    ASSUME NEW n \in Nat, NEW s \in Nat, NEW now \in Nat, NEW past \in Int, NEW f \in Nat,
           NEW e \in Nat, n <= f * (past - s) + e
    PROVE  n <= f * (now - s) + (e + f * Greater(0, past - now))
<1> DEFINE l == Greater(0, past - now)
<1>1. l \in Nat /\ past - s <= (now - s) + l
  BY DEF Greater
<1> HIDE DEF l
<1>2. f * (past - s) <= f * ((now - s) + l) /\ f * ((now - s) + l) = f * (now - s) + f * l
  BY <1>1, ProductGrows, ProductSplits
<1>3. f * (past - s) \in Int /\ f * (now - s) \in Int /\ f * l \in Int
  BY <1>1
<1> DEFINE A == f * (past - s)
           B == f * (now - s)
           C == f * l
<1> HIDE DEF A, B, C
<1>4. n <= A + e /\ A <= B + C /\ A \in Int /\ B \in Int /\ C \in Int
  BY <1>2, <1>3 DEF A, B, C
<1>5. n <= B + (e + C)
  BY <1>4
<1> QED
  BY <1>5 DEF B, C, l

\* When its key expires the bucket has been full for a second.
LEMMA TtlPays ==
    ASSUME NEW c \in Configs, c.rate > 0
    PROVE  Capacity(c) <= Flow(c) * (TokenTtl(c) - Second)
<1> DEFINE full == Ceil(c.burst * Second, c.rate)
<1>1. /\ c.burst \in Nat /\ c.rate \in Nat \ {0} /\ Second \in Nat /\ Grain \in Nat
      /\ c.burst * Second \in Nat
  BY ConfigFields, TimesNat, ProductNat
<1>2. full \in Nat /\ c.burst * Second <= c.rate * full
  BY <1>1, CeilRoundsUp
<1>3. TokenTtl(c) - Second = full
  BY <1>1, <1>2 DEF TokenTtl
<1> DEFINE burst == c.burst
           rate == c.rate
<1> HIDE DEF full, burst, rate
<1>4. Grain * (burst * Second) <= Grain * (rate * full)
  <2>1. burst * Second \in Nat /\ rate * full \in Nat
    BY <1>1, <1>2, ProductNat DEF burst, rate
  <2> QED
    BY <1>1, <1>2, <2>1, ProductGrows DEF burst, rate
<1>5. Grain * (burst * Second) = burst * (Second * Grain)
  BY <1>1 DEF burst
<1>6. Grain * (rate * full) = (rate * Grain) * full
  BY <1>1, <1>2 DEF rate
<1>7. burst * (Second * Grain) <= (rate * Grain) * full
  BY <1>4, <1>5, <1>6
<1> QED
  BY <1>3, <1>7 DEF Capacity, Flow, Token, burst, rate

\* A bucket that expires pays until a second ago.
LEMMA ExpiryPays ==
    ASSUME NEW n \in Nat, NEW cap \in Nat, NEW have \in Nat, NEW t \in Nat, NEW s \in Nat,
           NEW f \in Nat, NEW e \in Nat, NEW ttl \in Nat, NEW past \in Int,
           n + Lesser(cap, have) <= cap + f * (t - s) + e,
           cap <= f * (ttl - Second), t + (ttl - Second) <= past
    PROVE  n <= f * (past - s) + e
<1>1. Second \in Nat
  BY TimesNat
<1> DEFINE d == ttl - Second
<1>2. d \in Int /\ (t - s) + d <= past - s
  BY <1>1
<1>3. cap <= f * d /\ t + d <= past
  OBVIOUS
<1> HIDE DEF d
<1>4. f * ((t - s) + d) <= f * (past - s) /\ f * ((t - s) + d) = f * (t - s) + f * d
  BY <1>2, ProductGrows, ProductSplits
<1> DEFINE A == f * (t - s)
           B == f * d
           C == f * (past - s)
<1>5. A \in Int /\ B \in Int /\ C \in Int /\ A + B <= C /\ cap <= B
  BY <1>2, <1>3, <1>4
<1> HIDE DEF A, B, C
<1>6. ASSUME n + Lesser(cap, have) <= cap + A + e PROVE n <= C + e
  BY <1>5, <1>6 DEF Lesser
<1> QED
  BY <1>6 DEF A, C

Metered == regime # "mixed" /\ GetConfig.mode = "token" /\ GetConfig.rate > 0

\* Grants since s are paid for, with what the bucket still holds.
PaidFor(s) ==
    LET c == GetConfig
        spent == grants.since[s] * Token
    IN  IF bucket.kind = "hash"
          THEN /\ spent + Lesser(Capacity(c), bucket.tokens)
                    <= Capacity(c) + Flow(c) * (bucket.ts - s) + grants.extra[s]
               /\ bucket.ts + TokenTtl(c) <= bucket.expires
          ELSE spent <= Flow(c) * ((clock - Second) - s) + grants.extra[s]

TokenInv ==
    Metered => \A s \in Times :
                  (s >= grants.open /\ grants.since[s] > 0) => PaidFor(s)

(***************************************************************************)
(* What a script finds in the bucket is paid for, and so is what it leaves.*)
(***************************************************************************)
LEMMA ScriptPays ==
    ASSUME TypeOK, StampsOK, TokenInv, NEW r \in Requests, RunScript(r),
           NEW err, NEW x, TokenRan(r, err, x), Metered', NEW s \in Times,
           s >= grants.open, grants'.since[s] > 0
    PROVE  PaidFor(s)'
<1> DEFINE c == GetConfig
           now == req[r].now
           cap == Capacity(c)
           f == Flow(c)
           n == grants.since[s] * Token
           e == grants.extra[s]
           surplus == Greater(0, err) + f * Late(now)
<1>1. /\ req[r].cfg = c /\ regime' = regime /\ GetConfig' = c /\ clock' = clock
      /\ now \in Times /\ now <= clock /\ c \in Configs /\ Metered
  BY Decides DEF Metered, GetConfig
<1>2. /\ cap \in Nat /\ f \in Nat /\ Token \in Nat /\ Token > 0 /\ s \in Nat /\ now \in Nat
      /\ grants.since[s] \in Nat /\ e \in Nat /\ n \in Nat /\ clock \in Nat /\ Second \in Nat
  <2>1. Token \in Nat \ {0} /\ grants.since[s] \in Nat
    BY TimesNat, HistoryFields
  <2> QED
    BY <1>1, <2>1, ConfigFields, TimesNat, HistoryFields, ProductNat
<1>3. /\ Refill(c, now, err, x) /\ bucket'.kind = "hash" /\ bucket'.ts = now
      /\ bucket'.tokens = IF x >= Token THEN x - Token ELSE x
      /\ bucket'.expires = clock + TokenTtl(c)
      /\ Tally(grants', now, x >= Token, surplus, err < 0 /\ regime = "fresh")
  BY <1>1 DEF TokenRan, Accounted
<1>4. /\ grants'.since[s] = IF x >= Token /\ s <= now THEN grants.since[s] + 1
                                                      ELSE grants.since[s]
      /\ grants'.extra[s] = IF grants.since[s] > 0 THEN e + surplus ELSE e
  BY <1>3 DEF Tally
<1>5. err \in {-1, 0, 1} /\ x \in 0 .. cap /\ bucket.kind \in {"none", "hash"}
  BY <1>3 DEF Refill
<1>6. grants.since[s] > 0 => n + x <= cap + f * (now - s) + (e + surplus)
  <2> SUFFICES ASSUME grants.since[s] > 0
               PROVE  n + x <= cap + f * (now - s) + (e + surplus)
    OBVIOUS
  <2>1. PaidFor(s)
    BY <1>1 DEF TokenInv
  <2>2. CASE bucket.kind = "none"
    <3> DEFINE past == clock - Second
    <3>1. x = cap /\ err = 0 /\ Late(now) = Greater(0, past - now)
      BY <1>3, <2>2 DEF Refill, Late
    <3>2. n <= f * (past - s) + e /\ past \in Int
      BY <1>2, <2>1, <2>2 DEF PaidFor
    <3> HIDE DEF past, n, e, f, cap, now
    <3>3. n <= f * (now - s) + (e + f * Greater(0, past - now))
      BY <1>2, <3>2, FullPays
    <3>4. surplus = f * Greater(0, past - now)
      <4>1. Greater(0, past - now) \in Nat
        BY <1>2, <3>2 DEF Greater
      <4>2. f * Greater(0, past - now) \in Nat /\ Greater(0, err) = 0
        BY <1>2, <3>1, <4>1, ProductNat DEF Greater
      <4> QED
        BY <3>1, <4>2
    <3>5. f * (now - s) \in Int /\ surplus \in Int
      BY <1>2, <3>2, <3>4 DEF Greater
    <3> DEFINE A == f * (now - s)
    <3>6. n <= A + (e + surplus) /\ A \in Int
      BY <3>3, <3>4, <3>5
    <3> HIDE DEF A, surplus
    <3>7. n + x <= cap + A + (e + surplus)
      BY <1>2, <3>1, <3>5, <3>6
    <3> QED
      BY <3>7 DEF A
  <2>3. CASE bucket.kind = "hash"
    <3> DEFINE t == bucket.ts
               have == bucket.tokens
    <3>1. t \in Nat /\ have \in Nat
      BY <2>3, BucketKinds
    <3>2. x = Lesser(cap, f * Greater(0, now - t) + have + err)
      BY <1>3, <2>3 DEF Refill, Passed
    <3>3. surplus = Greater(0, err) + f * Greater(0, t - now)
      BY <2>3 DEF Late
    <3>4. n + Lesser(cap, have) <= cap + f * (t - s) + e
      BY <2>1, <2>3 DEF PaidFor
    <3> HIDE DEF n, e, f, cap, now, surplus, t, have
    <3>5. n + Lesser(cap, f * Greater(0, now - t) + have + err)
            <= cap + f * (now - s) + (e + (Greater(0, err) + f * Greater(0, t - now)))
      <4>1. err \in {-1, 0, 1}
        BY <1>5
      <4> QED
        BY <1>2, <3>1, <3>4, <4>1, RefillPays, Zenon
    <3> QED
      BY <3>2, <3>3, <3>5
  <2> QED
    BY <1>5, <2>2, <2>3
<1>7. surplus \in Nat /\ f * (now - s) \in Int /\ (s <= now => f * (now - s) \in Nat)
  <2>1. Late(now) \in Nat
    <3>1. bucket.kind = "hash" => bucket.ts \in Nat
      BY BucketKinds
    <3> HIDE DEF now
    <3> QED
      BY <1>2, <1>5, <3>1 DEF Late, Greater
  <2>2. f * Late(now) \in Nat /\ Greater(0, err) \in Nat
    BY <1>2, <1>5, <2>1, ProductNat DEF Greater
  <2>3. surplus \in Nat
    BY <2>2
  <2>4. f * (now - s) \in Int /\ (s <= now => f * (now - s) \in Nat)
    <3> HIDE DEF f, now
    <3>1. s <= now => now - s \in Nat
      BY <1>2
    <3>2. now - s \in Int
      BY <1>2
    <3> QED
      BY <1>2, <3>1, <3>2, ProductNat, ProductGrows
  <2> QED
    BY <2>3, <2>4
<1>8. /\ grants'.since[s] * Token + Lesser(cap, bucket'.tokens)
           <= cap + f * (now - s) + grants'.extra[s]
  <2> DEFINE A == f * (now - s)
             k == grants.since[s]
             tokens == bucket'.tokens
             k1 == grants'.since[s]
             e1 == grants'.extra[s]
  <2>1. n = k * Token /\ (k + 1) * Token = k * Token + Token /\ k * Token \in Nat
    BY <1>2
  <2>2. k1 * Token = IF x >= Token /\ s <= now THEN n + Token ELSE n
    BY <1>4, <2>1
  <2>3. k = 0 => n = 0
    BY <1>2
  <2>4. /\ k1 > 0 /\ k \in Nat /\ A \in Int /\ (s <= now => A \in Nat)
        /\ k1 = IF x >= Token /\ s <= now THEN k + 1 ELSE k
        /\ e1 = IF k > 0 THEN e + surplus ELSE e
        /\ k > 0 => n + x <= cap + A + (e + surplus)
        /\ tokens = IF x >= Token THEN x - Token ELSE x
    BY <1>2, <1>3, <1>4, <1>6, <1>7
  <2> DEFINE spent == k1 * Token
  <2> HIDE DEF A, k, tokens, k1, e1, n, e, surplus, cap, now, f, spent
  <2>5. Lesser(cap, tokens) <= x /\ (x >= Token => Lesser(cap, tokens) <= x - Token)
        /\ Lesser(cap, tokens) \in Int
    BY <1>2, <1>5, <2>4 DEF Lesser
  <2>6. spent + Lesser(cap, tokens) <= cap + A + e1
    <3>1. CASE k > 0
      BY <1>2, <1>5, <1>7, <2>2, <2>4, <2>5, <3>1 DEF spent
    <3>2. CASE k = 0
      BY <1>2, <1>5, <1>7, <2>2, <2>3, <2>4, <2>5, <3>2 DEF spent
    <3> QED
      BY <2>4, <3>1, <3>2
  <2> QED
    BY <2>6 DEF spent, A, e1, tokens, k1
<1>9. now + TokenTtl(c) <= bucket'.expires
  <2> DEFINE ttl == TokenTtl(c)
  <2>1. ttl \in Nat /\ bucket'.expires = clock + ttl
    BY <1>1, <1>3, TtlTyped
  <2> HIDE DEF ttl, now
  <2> QED
    BY <1>1, <1>2, <2>1 DEF ttl, now
<1> QED
  BY <1>1, <1>3, <1>8, <1>9 DEF PaidFor

\* The requests between two stamps are counted in whole numbers.
LEMMA BetweenTyped ==
    ASSUME TypeOK, NEW s \in Times, NEW e \in s .. MaxTime
    PROVE  /\ e \in Times /\ s <= e /\ s \in Nat /\ e \in Nat
           /\ Between(s, e) \in Int /\ Between(s, e) <= grants.since[s]
           /\ grants.since[s] \in Nat
           /\ e < MaxTime => e + 1 \in Times /\ grants.since[e + 1] \in Nat
<1>1. s \in Nat /\ MaxTime \in Nat /\ s \in 0 .. MaxTime
  BY TimesNat DEF Times
<1>2. e \in Times /\ s <= e /\ e \in Nat /\ (e < MaxTime => e + 1 \in Times)
  BY <1>1 DEF Times
<1>3. grants.since[s] \in Nat /\ (e < MaxTime => grants.since[e + 1] \in Nat)
  BY <1>2, HistoryFields
<1> QED
  BY <1>1, <1>2, <1>3 DEF Between

\* A request with a stamp outside of an interval does not change its count.
LEMMA BetweenKept ==
    ASSUME TypeOK, NEW s \in Times, NEW e \in s .. MaxTime, NEW now \in Times, NEW ok \in BOOLEAN,
           \A t \in Times : grants'.since[t] = IF ok /\ t <= now THEN grants.since[t] + 1
                                                               ELSE grants.since[t],
           ~ok \/ now < s \/ now > e
    PROVE  Between(s, e)' = Between(s, e)
<1>1. /\ e \in Times /\ s <= e /\ s \in Nat /\ e \in Nat /\ grants.since[s] \in Nat
      /\ e < MaxTime => e + 1 \in Times /\ grants.since[e + 1] \in Nat
  BY BetweenTyped
<1>2. now \in Nat /\ now <= MaxTime /\ MaxTime \in Nat
  BY TimesNat DEF Times
<1>3. CASE ~ok \/ now < s
  <2>1. grants'.since[s] = grants.since[s]
    BY <1>1, <1>2, <1>3
  <2>2. e < MaxTime => grants'.since[e + 1] = grants.since[e + 1]
    BY <1>1, <1>2, <1>3
  <2> QED
    BY <2>1, <2>2 DEF Between
<1>4. CASE ok /\ now > e
  <2>1. grants'.since[s] = grants.since[s] + 1 /\ e < MaxTime
    BY <1>1, <1>2, <1>4
  <2>2. grants'.since[e + 1] = grants.since[e + 1] + 1
    BY <1>1, <1>2, <1>4, <2>1
  <2> QED
    BY <1>1, <2>1, <2>2 DEF Between
<1> QED
  BY <1>3, <1>4

\* Requests since s that are paid for keep the limit.
LEMMA PaidKeeps ==
    ASSUME NEW n \in Int, NEW k \in Nat, n <= k, NEW spent, spent = k * Token, NEW rest \in Nat,
           NEW cap \in Nat, NEW f \in Nat, NEW s \in Nat, NEW now \in Nat, NEW e \in Nat,
           NEW extra \in Nat, now <= e, spent + rest <= cap + f * (now - s) + extra
    PROVE  n * Token <= cap + f * (e - s) + extra
<1>1. Token \in Nat
  BY TimesNat
<1>2. Token * n <= Token * k /\ Token * n = n * Token /\ Token * k = k * Token
  BY <1>1, ProductGrows
<1>3. f * (now - s) <= f * (e - s) /\ f * (now - s) \in Int /\ f * (e - s) \in Int
  BY ProductGrows
<1> DEFINE A == f * (now - s)
           B == f * (e - s)
           m == n * Token
<1>4. m \in Int /\ spent \in Int /\ m <= spent
  BY <1>1, <1>2
<1> HIDE DEF A, B, m
<1>5. m <= cap + B + extra
  BY <1>3, <1>4 DEF A, B
<1> QED
  BY <1>5 DEF m, B

(***************************************************************************)
(* A script keeps the limit of token mode.                                 *)
(***************************************************************************)
LEMMA ScriptKeepsTokenMath ==
    ASSUME Sound, TypeOK', TokenInv, TokenMath, NEW r \in Requests, RunScript(r)
    PROVE  TokenInv' /\ TokenMath'
<1> DEFINE c == GetConfig
           now == req[r].now
<1> USE DEF Sound
<1> SUFFICES ASSUME Metered' PROVE TokenInv' /\ TokenMath'
  BY DEF TokenInv, TokenMath, Metered
<1>1. /\ req[r].cfg = c /\ regime' = regime /\ GetConfig' = c /\ clock' = clock
      /\ now \in Times /\ c \in Configs /\ Metered /\ c.mode = "token"
  BY Decides DEF Metered, GetConfig
<1>2. PICK err, x : TokenRan(r, err, x)
  BY <1>1, ScriptRuns
<1> DEFINE surplus == Greater(0, err) + Flow(c) * Late(now)
           ok == x >= Token
<1>3. Tally(grants', now, ok, surplus, err < 0 /\ regime = "fresh") /\ Refill(c, now, err, x)
  BY <1>1, <1>2 DEF TokenRan, Accounted
<1>4. TokenInv'
  <2> SUFFICES ASSUME NEW s \in Times, s >= grants'.open, grants'.since[s] > 0
               PROVE  PaidFor(s)'
    BY DEF TokenInv
  <2>1. grants'.open = grants.open
    BY <1>3 DEF Tally
  <2> QED
    BY <1>2, <2>1, ScriptPays
<1>5. TokenMath'
  <2> SUFFICES ASSUME NEW s \in Times, Checked(s)', NEW e \in s .. MaxTime
               PROVE  Between(s, e)' * Token
                        <= Capacity(c) + Flow(c) * (e - s) + grants'.extra[s]
    BY <1>1 DEF TokenMath, Metered
  <2>1. grants'.open = grants.open /\ grants'.from = grants.from
    BY <1>3 DEF Tally
  <2>2. Checked(s) /\ s >= grants.open
    <3>1. Checked(s)
      BY <2>1 DEF Checked
    <3>2. s \in Nat /\ grants.open \in Nat /\ grants.from \in Nat
      BY HistoryFields, TimesNat
    <3> QED
      BY <1>1, <3>1, <3>2, CheckedOpens DEF Checked, Opens, Metered
  <2>3. /\ e \in Nat /\ s \in Nat /\ now \in Nat /\ grants.since[s] \in Nat
        /\ grants.extra[s] \in Nat /\ grants'.extra[s] \in Nat /\ grants'.since[s] \in Nat
    <3>1. grants' \in History
      BY <1>3 DEF Tally
    <3> QED
      BY <1>1, <3>1, BetweenTyped, HistoryFields, TimesNat DEF History
  <2>4. Capacity(c) \in Nat /\ Flow(c) \in Nat /\ Token \in Nat
    BY <1>1, ConfigFields, TimesNat
  <2>5. CASE ~ok \/ now < s \/ now > e
    <3>1. Between(s, e)' = Between(s, e)
      <4>1. \A t \in Times : grants'.since[t] = IF ok /\ t <= now THEN grants.since[t] + 1
                                                                 ELSE grants.since[t]
        BY <1>3 DEF Tally
      <4>2. ok \in BOOLEAN
        OBVIOUS
      <4> HIDE DEF ok, now
      <4> QED
        BY <1>1, <2>5, <4>1, <4>2, BetweenKept
    <3>2. Between(s, e) * Token <= Capacity(c) + Flow(c) * (e - s) + grants.extra[s]
      BY <1>1, <2>2 DEF TokenMath, Metered
    <3>3. grants.extra[s] <= grants'.extra[s]
      <4>1. grants'.extra[s] = IF grants.since[s] > 0 THEN grants.extra[s] + surplus
                                                     ELSE grants.extra[s]
        BY <1>3 DEF Tally
      <4>2. surplus \in Nat
        <5>1. Late(now) \in Nat /\ err \in {-1, 0, 1}
          <6>1. bucket.kind \in {"none", "hash"} /\ err \in {-1, 0, 1}
            BY <1>3 DEF Refill
          <6>2. /\ bucket.kind = "hash" => bucket.ts \in Nat
                /\ clock \in Nat /\ Second \in Nat
            BY BucketKinds, HistoryFields, TimesNat
          <6> HIDE DEF now
          <6> QED
            BY <2>3, <6>1, <6>2 DEF Late, Greater
        <5> QED
          BY <2>4, <5>1, ProductNat DEF Greater
      <4> HIDE DEF surplus
      <4> QED
        BY <2>3, <4>1, <4>2
    <3>4. Between(s, e) \in Int
      BY BetweenTyped
    <3> DEFINE m == Between(s, e) * Token
               b == Flow(c) * (e - s)
    <3>5. m \in Int /\ b \in Int
      BY <2>3, <2>4, <3>4
    <3> HIDE DEF m, b
    <3>6. m <= Capacity(c) + b + grants'.extra[s]
      BY <2>3, <2>4, <3>2, <3>3, <3>5 DEF m, b
    <3> QED
      BY <3>1, <3>6 DEF m, b
  <2>6. CASE ok /\ s <= now /\ now <= e
    <3>1. grants'.since[s] = grants.since[s] + 1
      BY <1>3, <2>6 DEF Tally
    <3>2. PaidFor(s)' /\ bucket'.kind = "hash" /\ bucket'.ts = now /\ bucket'.tokens = x - Token
      <4>1. grants'.since[s] > 0
        BY <2>3, <3>1
      <4> QED
        BY <1>2, <2>2, <2>6, <4>1, ScriptPays DEF TokenRan
    <3> DEFINE rest == Lesser(Capacity(c), bucket'.tokens)
               k == grants'.since[s]
               spent == k * Token
               extra == grants'.extra[s]
               n == Between(s, e)'
    <3>3. spent + rest <= Capacity(c) + Flow(c) * (now - s) + extra
      BY <1>1, <3>2 DEF PaidFor
    <3>4. rest \in Nat
      <4>1. x \in 0 .. Capacity(c)
        BY <1>3 DEF Refill
      <4> QED
        BY <2>4, <2>6, <3>2, <4>1 DEF Lesser
    <3>5. n \in Int /\ n <= k
      <4>1. e < MaxTime => grants'.since[e + 1] \in Nat
        <5>1. grants' \in History /\ (e < MaxTime => e + 1 \in Times)
          BY <1>3, BetweenTyped DEF Tally
        <5> QED
          BY <5>1 DEF History
      <4> QED
        BY <2>3, <4>1 DEF Between
    <3>6. now <= e
      BY <2>6
    <3> HIDE DEF rest, k, extra, n, now
    <3>7. spent = k * Token /\ k \in Nat /\ extra \in Nat /\ now \in Nat
      BY <2>3 DEF k, extra, now
    <3> HIDE DEF spent
    <3>8. n * Token <= Capacity(c) + Flow(c) * (e - s) + extra
      BY <2>3, <2>4, <3>3, <3>4, <3>5, <3>6, <3>7, PaidKeeps, Zenon
    <3> QED
      BY <3>8 DEF n, extra
  <2>7. ok \in BOOLEAN /\ (~ok \/ now < s \/ now > e \/ (ok /\ s <= now /\ now <= e))
    <3> HIDE DEF now
    <3> QED
      BY <2>3
  <2> QED
    BY <2>5, <2>6, <2>7
<1> QED
  BY <1>4, <1>5

(***************************************************************************)
(* A request that passes unchecked says nothing of what follows its stamp. *)
(***************************************************************************)
LEMMA PassesAside ==
    ASSUME Sound, NEW r \in Requests, WrongType(r), regime' # "mixed"
    PROVE  /\ GetConfig' = GetConfig /\ regime' = regime /\ UNCHANGED <<bucket, clock>>
           /\ grants'.open >= grants.open /\ grants'.extra = grants.extra
           /\ grants.open \in Nat /\ grants'.open \in Nat
           /\ \A s \in Times : s >= grants'.open => grants'.since[s] = grants.since[s]
           /\ \A s \in Times : Checked(s)' =>
                 /\ Checked(s)
                 /\ \A e \in s .. MaxTime : Between(s, e)' = Between(s, e)
<1> USE DEF Sound
<1> DEFINE now == req[r].now
<1>1. /\ UNCHANGED <<config, clock, bucket>> /\ GetConfig' = GetConfig /\ regime' = regime
      /\ now \in Times /\ now \in Nat /\ now <= clock /\ clock \in Nat
      /\ req[r].cfg = GetConfig /\ req[r].cfg \in Configs /\ Passes(r)
  <2>1. UNCHANGED <<config, clock, bucket>>
    BY Decides DEF WrongType
  <2> QED
    BY <2>1, Decides, WrongTypePasses, TimesNat, HistoryFields DEF GetConfig
<1> DEFINE open1 == grants'.open
           from == grants.from
<1>2. /\ \A s \in Times : grants'.since[s] = IF s <= now THEN grants.since[s] + 1
                                                       ELSE grants.since[s]
      /\ grants'.extra = grants.extra /\ grants'.from = from
      /\ open1 = Greater(grants.open, now + 1) /\ grants.open \in Nat /\ from \in Nat
  BY <1>1, HistoryFields DEF Passes
<1>3. open1 \in Nat /\ open1 >= grants.open /\ open1 >= now + 1
  <2> DEFINE open == grants.open
  <2>1. open \in Nat /\ open1 = Greater(open, now + 1)
    BY <1>2
  <2> HIDE DEF open, open1, now
  <2> QED
    BY <1>1, <2>1 DEF Greater, open
<1>4. \E b \in Configs : now <= from + Ttl(b)
  <2>1. bucket.kind \notin {"none", Kind(GetConfig)} /\ bucket.expires \in Nat
    BY <1>1, BucketKinds DEF Passes
  <2>2. PICK b \in Configs : bucket.expires <= from + Ttl(b)
    BY <1>1, <2>1 DEF Foreign
  <2>3. clock <= bucket.expires
    BY <2>1 DEF Alive
  <2>4. Ttl(b) \in Nat
    BY TtlTyped
  <2> DEFINE expires == bucket.expires
             ttl == Ttl(b)
  <2> HIDE DEF expires, ttl, now, from
  <2>5. now <= from + ttl
    <3>1. expires \in Nat /\ ttl \in Nat /\ expires <= from + ttl /\ clock <= expires
      BY <2>1, <2>2, <2>3, <2>4 DEF expires, ttl
    <3> QED
      BY <1>1, <1>2, <3>1
  <2> QED
    BY <2>5 DEF ttl
<1>5. ASSUME NEW s \in Times, Checked(s)' PROVE s > now /\ Checked(s)
  <2>0. s \in Nat
    BY TimesNat
  <2>1. s >= open1 \/ \A c \in Configs : s > from + Ttl(c)
    BY <1>2, <1>5 DEF Checked
  <2>2. CASE s >= open1
    <3> HIDE DEF open1, now
    <3>1. s > now /\ s >= grants.open
      BY <1>1, <1>2, <1>3, <2>0, <2>2
    <3> QED
      BY <3>1 DEF Checked
  <2>3. CASE \A c \in Configs : s > from + Ttl(c)
    <3>1. PICK b \in Configs : now <= from + Ttl(b)
      BY <1>4
    <3>2. s > from + Ttl(b) /\ Ttl(b) \in Nat
      BY <2>3, TtlTyped
    <3>3. s > now
      <4> HIDE DEF now, from
      <4> QED
        BY <1>1, <1>2, <2>0, <3>1, <3>2
    <3> QED
      BY <2>3, <3>3 DEF Checked
  <2> QED
    BY <2>1, <2>2, <2>3
<1>6. ASSUME NEW s \in Times, Checked(s)', NEW e \in s .. MaxTime
      PROVE  Between(s, e)' = Between(s, e)
  <2>1. now < s
    <3> HIDE DEF now
    <3> QED
      BY <1>1, <1>5, <1>6, TimesNat
  <2>2. \A t \in Times : grants'.since[t] = IF TRUE /\ t <= now THEN grants.since[t] + 1
                                                              ELSE grants.since[t]
    BY <1>2
  <2> HIDE DEF now
  <2> QED
    BY <1>1, <2>1, <2>2, BetweenKept
<1>7. ASSUME NEW s \in Times, s >= open1 PROVE grants'.since[s] = grants.since[s]
  <2>1. s \in Nat
    BY TimesNat
  <2>2. ~(s <= now)
    <3> HIDE DEF open1, now
    <3> QED
      BY <1>1, <1>3, <1>7, <2>1
  <2> QED
    BY <1>2, <2>2
<1> QED
  BY <1>1, <1>2, <1>3, <1>5, <1>6, <1>7

(***************************************************************************)
(* The clock, and a key that expires, keep what is paid for.               *)
(***************************************************************************)
LEMMA TickPays ==
    ASSUME Sound, TokenInv, Tick
    PROVE  TokenInv'
<1> USE DEF Sound
<1> DEFINE c == GetConfig
<1>1. /\ clock' = clock + 1 /\ clock \in Nat /\ UNCHANGED <<grants, regime>>
      /\ GetConfig' = c
      /\ \/ bucket' = bucket
         \/ /\ bucket'.kind = "none" /\ bucket.kind # "none" /\ clock' > bucket.expires
  BY TickEffect
<1> SUFFICES ASSUME Metered, NEW s \in Times, s >= grants.open, grants.since[s] > 0
             PROVE  PaidFor(s)'
  BY <1>1 DEF TokenInv, Metered
<1>2. /\ c \in Configs /\ c.rate > 0 /\ Capacity(c) \in Nat /\ Flow(c) \in Nat
      /\ Second \in Nat /\ s \in Nat /\ grants.extra[s] \in Nat
      /\ grants.since[s] * Token \in Nat /\ TokenTtl(c) \in Nat
  <2>1. grants.since[s] \in Nat /\ Token \in Nat
    BY HistoryFields, TimesNat
  <2> QED
    BY <2>1, ConfigInForce, ConfigFields, HistoryFields, TimesNat, TtlTyped, ProductNat
    DEF Metered
<1> DEFINE n == grants.since[s] * Token
           f == Flow(c)
           e == grants.extra[s]
           past == clock - Second
           next == clock' - Second
<1>3. PaidFor(s)
  BY DEF TokenInv
<1>4. ASSUME n <= f * (past - s) + e PROVE n <= f * (next - s) + e
  <2>1. past - s <= next - s /\ past - s \in Int /\ next - s \in Int
    BY <1>1, <1>2
  <2>2. n \in Nat /\ f \in Nat /\ e \in Nat
    BY <1>2
  <2> DEFINE a == past - s
             b == next - s
  <2> HIDE DEF n, f, e, past, next, a, b
  <2>3. f * a <= f * b /\ f * a \in Int /\ f * b \in Int
    BY <2>1, <2>2, ProductGrows DEF a, b
  <2> DEFINE A == f * a
             B == f * b
  <2> HIDE DEF A, B
  <2>4. n <= B + e
    BY <1>4, <2>2, <2>3 DEF A, B, a
  <2> QED
    BY <2>4 DEF B, b
<1>5. CASE bucket' = bucket /\ bucket.kind = "hash"
  BY <1>1, <1>3, <1>5 DEF PaidFor
<1>6. CASE bucket' = bucket /\ bucket.kind # "hash"
  <2>1. n <= f * (past - s) + e
    BY <1>3, <1>6 DEF PaidFor
  <2>2. n <= f * (next - s) + e
    BY <1>4, <2>1
  <2> HIDE DEF f
  <2> QED
    BY <1>1, <1>6, <2>2 DEF PaidFor, f
<1>7. CASE bucket'.kind = "none" /\ bucket.kind # "none" /\ clock' > bucket.expires
  <2>1. CASE bucket.kind = "hash"
    <3> DEFINE t == bucket.ts
               have == bucket.tokens
               cap == Capacity(c)
               ttl == TokenTtl(c)
               expires == bucket.expires
    <3>1. n + Lesser(cap, have) <= cap + f * (t - s) + e /\ t + ttl <= expires
      BY <1>3, <2>1 DEF PaidFor
    <3>2. t \in Nat /\ have \in Nat /\ expires \in Nat
      BY <2>1, BucketKinds
    <3>3. cap <= f * (ttl - Second)
      BY <1>2, TtlPays
    <3>4. n \in Nat /\ f \in Nat /\ e \in Nat /\ cap \in Nat /\ ttl \in Nat
      BY <1>2
    <3>5. clock' > expires /\ clock' \in Nat
      BY <1>1, <1>7
    <3> HIDE DEF t, have, cap, ttl, expires, n, f, e
    <3>6. next \in Int /\ t + (ttl - Second) <= next
      <4> DEFINE later == clock'
      <4>1. later \in Nat /\ later > expires /\ next = later - Second
        BY <3>5
      <4> HIDE DEF later, next
      <4> QED
        BY <1>2, <3>1, <3>2, <3>4, <4>1
    <3> HIDE DEF next
    <3>7. n <= f * (next - s) + e
      BY <1>2, <3>1, <3>2, <3>3, <3>4, <3>6, ExpiryPays, Zenon
    <3> QED
      BY <1>1, <1>7, <3>7 DEF PaidFor, n, f, e, next
  <2>2. CASE bucket.kind # "hash"
    <3>1. n <= f * (past - s) + e
      BY <1>3, <2>2 DEF PaidFor
    <3>2. n <= f * (next - s) + e
      BY <1>4, <3>1
    <3> HIDE DEF f
    <3> QED
      BY <1>1, <1>7, <3>2 DEF PaidFor, f
  <2> QED
    BY <2>1, <2>2
<1> QED
  BY <1>1, <1>5, <1>6, <1>7

(***************************************************************************)
(* Token mode keeps its limit.                                             *)
(***************************************************************************)
LEMMA TokenInductive ==
    ASSUME Sound, TypeOK', TokenInv, TokenMath, [Next]_vars
    PROVE  TokenInv' /\ TokenMath'
<1> USE DEF Sound
<1>1. ASSUME Aside PROVE TokenInv' /\ TokenMath'
  BY <1>1 DEF Aside, TokenInv, TokenMath, Metered, PaidFor, Between, Checked, GetConfig
<1>2. ASSUME NEW r \in Requests, RunScript(r) PROVE TokenInv' /\ TokenMath'
  BY <1>2, ScriptKeepsTokenMath
<1>3. ASSUME NEW r \in Requests, WrongType(r) PROVE TokenInv' /\ TokenMath'
  <2> SUFFICES ASSUME Metered' PROVE TokenInv' /\ TokenMath'
    BY DEF TokenInv, TokenMath, Metered
  <2>1. /\ GetConfig' = GetConfig /\ regime' = regime /\ UNCHANGED <<bucket, clock>>
        /\ grants'.open >= grants.open /\ grants'.extra = grants.extra
        /\ grants.open \in Nat /\ grants'.open \in Nat
        /\ \A s \in Times : s >= grants'.open => grants'.since[s] = grants.since[s]
        /\ \A s \in Times : Checked(s)' =>
              /\ Checked(s)
              /\ \A e \in s .. MaxTime : Between(s, e)' = Between(s, e)
    BY <1>3, PassesAside DEF Metered
  <2>2. Metered
    BY <2>1 DEF Metered
  <2>3. TokenInv'
    <3> SUFFICES ASSUME NEW s \in Times, s >= grants'.open, grants'.since[s] > 0
                 PROVE  PaidFor(s)'
      BY DEF TokenInv
    <3>1. grants'.since[s] = grants.since[s] /\ s >= grants.open
      BY <2>1, TimesNat
    <3>2. PaidFor(s)
      BY <2>2, <3>1 DEF TokenInv
    <3> QED
      BY <2>1, <3>1, <3>2 DEF PaidFor
  <2>4. TokenMath'
    BY <2>1, <2>2 DEF TokenMath, Metered
  <2> QED
    BY <2>3, <2>4
<1>4. ASSUME NEW c \in Inputs, SetConfig(c) PROVE TokenInv' /\ TokenMath'
  <2>1. TokenInv'
    BY <1>4, SetEffect DEF TokenInv
  <2>2. TokenMath'
    <3> SUFFICES ASSUME NEW s \in Times, NEW e \in s .. MaxTime
                 PROVE  Between(s, e)' * Token
                          <= Capacity(GetConfig') + Flow(GetConfig') * (e - s) + grants'.extra[s]
      BY DEF TokenMath
    <3>1. Between(s, e)' = 0 /\ grants'.extra[s] = 0
      BY <1>4, BetweenTyped, SetEffect DEF Between
    <3>2. GetConfig' \in Configs
      <4>1. config' \in Configs /\ Default \in Configs
        BY <1>4 DEF SetConfig, Configs
      <4> QED
        BY <4>1 DEF GetConfig
    <3>3. Capacity(GetConfig') \in Nat /\ Flow(GetConfig') \in Nat
      BY <3>2, ConfigFields
    <3>4. e - s \in Nat /\ Token \in Nat
      BY BetweenTyped, TimesNat
    <3>5. Flow(GetConfig') * (e - s) \in Nat
      BY <3>3, <3>4, ProductNat
    <3> QED
      BY <3>1, <3>3, <3>4, <3>5
  <2> QED
    BY <2>1, <2>2
<1>5. ASSUME Tick PROVE TokenInv' /\ TokenMath'
  <2>1. TokenMath'
    BY <1>5, TickEffect DEF TokenMath, Between, Checked
  <2> QED
    BY <1>5, <2>1, TickPays
<1> QED
  BY <1>1, <1>2, <1>3, <1>4, <1>5, Steps

-----------------------------------------------------------------------------
(* Sliding mode keeps its limit.                                           *)

Windowed == regime # "mixed" /\ GetConfig.mode = "sliding"

\* What was granted since a, in a window that is still open, is held in the
\* bucket.
Held(a) == grants.since[a] <= Cardinality(From(Members, a)) + grants.extra[a]

OpenHeld ==
    \A a \in Times : (a >= grants.open /\ a > clock - GetConfig.window) => Held(a)

\* The bucket lives as long as the windows of its grants.
OutlivesWindow ==
    bucket.kind = "zset" =>
        \A s \in Times : (s >= grants.open /\ grants.since[s] > 0)
                            => s + GetConfig.window <= bucket.expires

WindowInv == Windowed => OpenHeld /\ OutlivesWindow

\* How many members there are since a, if a script adds m to K.
LEMMA CountsMember ==
    ASSUME NEW K, IsFiniteSet(K), NEW m, NEW a \in Nat, m.score \in Nat
    PROVE  /\ Cardinality(From(K, a)) \in Nat
           /\ (m \in K \/ ~(m.score >= a)) =>
                 Cardinality(From(K \cup {m}, a)) = Cardinality(From(K, a))
           /\ (m \notin K /\ m.score >= a) =>
                 Cardinality(From(K \cup {m}, a)) = Cardinality(From(K, a)) + 1
           /\ (m \in K /\ m.score >= a) => Cardinality(From(K, a)) >= 1
<1>1. IsFiniteSet(From(K, a))
  BY PartsFinite
<1>2. Cardinality(From(K, a)) \in Nat
  BY <1>1, FS_CardinalityType
<1>3. ASSUME m \in K \/ ~(m.score >= a) PROVE From(K \cup {m}, a) = From(K, a)
  BY <1>3 DEF From
<1>4. ASSUME m \notin K, m.score >= a
      PROVE  From(K \cup {m}, a) = From(K, a) \cup {m} /\ m \notin From(K, a)
  BY <1>4 DEF From
<1>5. ASSUME m \notin K, m.score >= a
      PROVE  Cardinality(From(K \cup {m}, a)) = Cardinality(From(K, a)) + 1
  BY <1>1, <1>4, <1>5, FS_AddElement
<1>6. ASSUME m \in K, m.score >= a PROVE Cardinality(From(K, a)) >= 1
  <2>1. From(K, a) # {}
    BY <1>6 DEF From
  <2>2. Cardinality(From(K, a)) # 0
    BY <1>1, <2>1, FS_EmptySet
  <2> QED
    BY <1>2, <2>2
<1> QED
  BY <1>2, <1>3, <1>5, <1>6

\* The scores of members are naturals.
LEMMA MemberScores == ASSUME TypeOK PROVE \A m \in Members : m.score \in Nat
  BY BucketKinds, HistoryFields DEF Members

(***************************************************************************)
(* A script in sliding mode, in what its proofs need.                      *)
(***************************************************************************)
LEMMA SlidingStep ==
    ASSUME Sound, NEW r \in Requests, RunScript(r), regime' # "mixed",
           GetConfig'.mode = "sliding"
    PROVE  /\ req[r].cfg = GetConfig /\ regime' = regime /\ GetConfig' = GetConfig
           /\ clock' = clock /\ clock \in Nat /\ req[r].now \in Times /\ req[r].now \in Nat
           /\ req[r].now <= clock /\ clock <= req[r].now + MaxDelay /\ MaxDelay \in Nat
           /\ GetConfig \in Configs /\ GetConfig.window \in Nat /\ GetConfig.rate \in Nat
           /\ GetConfig.window > 0 /\ GetConfig.mode = "sliding"
           /\ Member(r).score = req[r].now
           /\ \E K : SlidingRan(r, K) /\ IsFiniteSet(K)
<1> USE DEF Sound
<1>1. /\ req[r].cfg = GetConfig /\ regime' = regime /\ GetConfig' = GetConfig
      /\ clock' = clock /\ req[r].now \in Times
      /\ req[r].now <= clock /\ clock <= req[r].now + MaxDelay /\ GetConfig \in Configs
  BY Decides DEF GetConfig
<1>2. PICK K : SlidingRan(r, K)
  BY <1>1, ScriptRuns
<1>3. IsFiniteSet(K)
  BY <1>2, PartsFinite DEF SlidingRan, MembersFinite
<1> QED
  BY <1>1, <1>2, <1>3, ConfigFields, HistoryFields, TimesNat DEF Member

(***************************************************************************)
(* A script holds in the bucket what it grants, or counts it as a surplus. *)
(***************************************************************************)
LEMMA ScriptHolds ==
    ASSUME Sound, NEW r \in Requests, RunScript(r), regime' # "mixed",
           GetConfig'.mode = "sliding", NEW a \in Times, a > clock - GetConfig.window, Held(a)
    PROVE  Held(a)'
<1> DEFINE c == GetConfig
           now == req[r].now
           m == Member(r)
<1> USE DEF Sound
<1>1. /\ req[r].cfg = c /\ now \in Nat /\ now <= clock /\ clock \in Nat /\ c.window \in Nat
      /\ m.score = now /\ a \in Nat
  BY SlidingStep, TimesNat
<1>2. PICK K : SlidingRan(r, K) /\ IsFiniteSet(K)
  BY SlidingStep
<1> DEFINE ok == Cardinality(K) < c.rate
           surplus == IF ok /\ m \in K THEN 1 ELSE 0
           k == grants.since[a]
           e == grants.extra[a]
           n == Cardinality(From(K, a))
           n1 == Cardinality(From(Members', a))
<1>3. /\ Tally(grants', now, ok, surplus, FALSE)
      /\ Members' = IF ok THEN K \cup {m} ELSE K
      /\ K = Within(Members, now, c)
  BY <1>1, <1>2, SlidingStep DEF SlidingRan, Accounted
<1>4. /\ grants'.since[a] = IF ok /\ a <= now THEN k + 1 ELSE k
      /\ grants'.extra[a] = IF k > 0 THEN e + surplus ELSE e
      /\ k \in Nat /\ e \in Nat
  BY <1>3, HistoryFields DEF Tally
<1>5. From(K, a) = From(Members, a)
  <2>1. ASSUME NEW x \in Members, x.score >= a PROVE x.score > now - c.window
    <3> DEFINE w == c.window
               score == x.score
    <3>1. score \in Nat /\ w \in Nat /\ score >= a /\ a > clock - w
      BY <1>1, <2>1, MemberScores
    <3> HIDE DEF w, score, now
    <3> QED
      BY <1>1, <3>1 DEF w, score
  <2> HIDE DEF now, c
  <2> QED
    BY <1>3, <2>1 DEF From, Within
<1>6. k <= n + e
  BY <1>5 DEF Held
<1>7. /\ n \in Nat
      /\ n1 = IF ok /\ m \notin K /\ now >= a THEN n + 1 ELSE n
      /\ (m \in K /\ now >= a) => n >= 1
  <2>1. /\ n \in Nat
        /\ (m \in K \/ ~(now >= a)) => Cardinality(From(K \cup {m}, a)) = n
        /\ (m \notin K /\ now >= a) => Cardinality(From(K \cup {m}, a)) = n + 1
        /\ (m \in K /\ now >= a) => n >= 1
    <3>1. m.score = now /\ now \in Nat /\ IsFiniteSet(K) /\ a \in Nat
      BY <1>1, <1>2
    <3> HIDE DEF m, now
    <3>2. m.score \in Nat
      BY <3>1
    <3>3. /\ Cardinality(From(K, a)) \in Nat
          /\ (m \in K \/ ~(m.score >= a)) =>
                Cardinality(From(K \cup {m}, a)) = Cardinality(From(K, a))
          /\ (m \notin K /\ m.score >= a) =>
                Cardinality(From(K \cup {m}, a)) = Cardinality(From(K, a)) + 1
          /\ (m \in K /\ m.score >= a) => Cardinality(From(K, a)) >= 1
      BY <3>1, <3>2, CountsMember, Zenon
    <3> QED
      BY <3>1, <3>3
  <2>2. n1 = IF ok THEN Cardinality(From(K \cup {m}, a)) ELSE n
    BY <1>3
  <2> HIDE DEF m, now, ok, n, n1
  <2> QED
    BY <2>1, <2>2
<1>8. grants'.since[a] <= n1 + grants'.extra[a]
  <2> DEFINE k1 == grants'.since[a]
             e1 == grants'.extra[a]
  <2>1. /\ k \in Nat /\ e \in Nat /\ n \in Nat /\ k <= n + e /\ a \in Nat /\ now \in Nat
    BY <1>1, <1>4, <1>6, <1>7
  <2>2. ASSUME ok /\ m \in K PROVE k1 <= n1 + e1
    <3>1. /\ k1 = IF a <= now THEN k + 1 ELSE k
          /\ e1 = IF k > 0 THEN e + 1 ELSE e
          /\ n1 = n /\ (now >= a => n >= 1)
      BY <1>4, <1>7, <2>2
    <3> HIDE DEF k1, e1, n1, n, k, e, now
    <3> QED
      BY <2>1, <3>1
  <2>3. ASSUME ok /\ m \notin K PROVE k1 <= n1 + e1
    <3>1. /\ k1 = IF a <= now THEN k + 1 ELSE k
          /\ e1 = IF k > 0 THEN e + 0 ELSE e
          /\ n1 = IF now >= a THEN n + 1 ELSE n
      BY <1>4, <1>7, <2>3
    <3> HIDE DEF k1, e1, n1, n, k, e, now
    <3> QED
      BY <2>1, <3>1
  <2>4. ASSUME ~ok PROVE k1 <= n1 + e1
    <3>1. /\ k1 = k /\ e1 = (IF k > 0 THEN e + 0 ELSE e) /\ n1 = n
      BY <1>4, <1>7, <2>4
    <3> HIDE DEF k1, e1, n1, n, k, e, now
    <3> QED
      BY <2>1, <3>1
  <2>5. k1 <= n1 + e1
    BY <2>2, <2>3, <2>4
  <2> QED
    BY <2>5 DEF k1, e1
<1> QED
  BY <1>8 DEF Held

(***************************************************************************)
(* A script that lets a request through finds room in its window.          *)
(***************************************************************************)
LEMMA ScriptFindsRoom ==
    ASSUME Sound, NEW r \in Requests, RunScript(r), regime' # "mixed",
           GetConfig'.mode = "sliding", NEW s \in Times, s > clock - GetConfig.window, Held(s),
           NEW K, SlidingRan(r, K), Cardinality(K) < GetConfig.rate
    PROVE  grants.since[s] + 1 <= GetConfig.rate + grants.extra[s]
<1> DEFINE c == GetConfig
           now == req[r].now
           n == Cardinality(From(Members, s))
           k == Cardinality(K)
<1> USE DEF Sound
<1>1. /\ req[r].cfg = c /\ now \in Nat /\ now <= clock /\ clock \in Nat
      /\ c.window \in Nat /\ c.rate \in Nat /\ s \in Nat
      /\ grants.since[s] \in Nat /\ grants.extra[s] \in Nat
  BY SlidingStep, HistoryFields, TimesNat
<1>2. K = Within(Members, now, c)
  BY <1>1 DEF SlidingRan
<1>3. From(Members, s) \subseteq K
  <2>1. ASSUME NEW x \in Members, x.score >= s PROVE x.score > now - c.window
    <3> DEFINE w == c.window
               score == x.score
    <3>1. score \in Nat /\ w \in Nat /\ score >= s /\ s > clock - w
      BY <1>1, <2>1, MemberScores
    <3> HIDE DEF w, score, now
    <3> QED
      BY <1>1, <3>1 DEF w, score
  <2> HIDE DEF now, c
  <2> QED
    BY <1>2, <2>1 DEF From, Within
<1>4. n <= k /\ n \in Nat /\ k \in Nat
  <2>1. IsFiniteSet(K) /\ IsFiniteSet(From(Members, s))
    BY <1>2, PartsFinite DEF MembersFinite
  <2> QED
    BY <1>3, <2>1, FS_Subset, FS_CardinalityType
<1>5. grants.since[s] <= n + grants.extra[s] /\ k < c.rate
  BY DEF Held
<1> HIDE DEF n, k
<1> QED
  BY <1>1, <1>4, <1>5

(***************************************************************************)
(* A script keeps the limit of sliding mode.                               *)
(***************************************************************************)
LEMMA ScriptKeepsWindowMath ==
    ASSUME Sound, TypeOK', GrantsPast', WindowInv, WindowMath, NEW r \in Requests, RunScript(r)
    PROVE  WindowInv' /\ WindowMath'
<1> DEFINE c == GetConfig
           now == req[r].now
           w == c.window
<1> USE DEF Sound
<1> SUFFICES ASSUME Windowed' PROVE WindowInv' /\ WindowMath'
  BY DEF WindowInv, WindowMath, Windowed
<1>0. regime' # "mixed" /\ GetConfig'.mode = "sliding"
  BY DEF Windowed
<1>1. /\ req[r].cfg = c /\ regime' = regime /\ GetConfig' = c /\ clock' = clock
      /\ clock \in Nat /\ now \in Times /\ now \in Nat /\ now <= clock
      /\ clock <= now + MaxDelay /\ MaxDelay \in Nat
      /\ c \in Configs /\ w \in Nat /\ w > 0 /\ c.rate \in Nat /\ c.mode = "sliding"
      /\ Windowed
  BY <1>0, SlidingStep DEF Windowed
<1>2. PICK K : SlidingRan(r, K)
  BY <1>0, SlidingStep
<1> DEFINE ok == Cardinality(K) < c.rate
           surplus == IF ok /\ Member(r) \in K THEN 1 ELSE 0
<1>3. /\ Tally(grants', now, ok, surplus, FALSE)
      /\ bucket'.kind = "zset" => bucket'.expires = clock + w
  BY <1>1, <1>2 DEF SlidingRan, Accounted
<1>4. grants'.open = grants.open /\ grants'.from = grants.from /\ grants' \in History
  BY <1>3 DEF Tally
<1>5. OpenHeld /\ OutlivesWindow
  BY <1>1 DEF WindowInv
<1>6. OpenHeld'
  <2> SUFFICES ASSUME NEW a \in Times, a >= grants.open, a > clock - w PROVE Held(a)'
    BY <1>1, <1>4 DEF OpenHeld
  <2>1. Held(a)
    BY <1>5 DEF OpenHeld
  <2> QED
    BY <1>0, <2>1, ScriptHolds
<1>7. OutlivesWindow'
  <2> SUFFICES ASSUME bucket'.kind = "zset", NEW s \in Times, grants'.since[s] > 0
               PROVE  s + w <= bucket'.expires
    BY <1>1 DEF OutlivesWindow
  <2>1. s <= clock /\ s \in Nat
    BY <1>0, <1>1, TimesNat DEF GrantsPast
  <2> HIDE DEF w
  <2> QED
    BY <1>1, <1>3, <2>1
<1>8. WindowMath'
  <2> SUFFICES ASSUME w > MaxDelay, NEW s \in Times, Checked(s)',
                      NEW e, e = Lesser(MaxTime, s + w - MaxDelay - 1)
               PROVE  Between(s, e)' <= c.rate + grants'.extra[s]
    BY <1>1 DEF WindowMath
  <2>1. Checked(s) /\ s >= grants.open
    <3>1. Checked(s)
      BY <1>4 DEF Checked
    <3>2. s \in Nat /\ grants.open \in Nat /\ grants.from \in Nat
      BY HistoryFields, TimesNat
    <3> QED
      BY <1>1, <3>1, <3>2, CheckedOpens DEF Checked, Opens, Windowed
  <2>2. s \in Nat /\ s <= MaxTime /\ MaxTime \in Nat
    BY TimesNat DEF Times
  <2>3. e \in s .. MaxTime /\ e <= s + w - MaxDelay - 1
    <3> HIDE DEF w
    <3> QED
      BY <1>1, <2>2 DEF Lesser
  <2>4. /\ grants'.extra[s] = IF grants.since[s] > 0 THEN grants.extra[s] + surplus
                                                    ELSE grants.extra[s]
        /\ grants.extra[s] \in Nat /\ grants.since[s] \in Nat
    BY <1>3, HistoryFields DEF Tally
  <2>5. grants.extra[s] <= grants'.extra[s] /\ grants'.extra[s] \in Nat
    <3>1. surplus \in Nat
      OBVIOUS
    <3> HIDE DEF surplus
    <3> QED
      BY <2>4, <3>1
  <2>6. CASE ~ok \/ now < s \/ now > e
    <3>1. Between(s, e)' = Between(s, e)
      <4>1. \A t \in Times : grants'.since[t] = IF ok /\ t <= now THEN grants.since[t] + 1
                                                                 ELSE grants.since[t]
        BY <1>3 DEF Tally
      <4>2. ok \in BOOLEAN
        OBVIOUS
      <4> HIDE DEF ok, now
      <4> QED
        BY <1>1, <2>3, <2>6, <4>1, <4>2, BetweenKept
    <3>2. Between(s, e) <= c.rate + grants.extra[s]
      BY <1>1, <2>1 DEF WindowMath, Windowed
    <3>3. Between(s, e) \in Int
      BY <2>3, BetweenTyped
    <3> DEFINE n == Between(s, e)
               rate == c.rate
               old == grants.extra[s]
               new == grants'.extra[s]
    <3>4. n \in Int /\ n <= rate + old /\ old <= new /\ rate \in Nat /\ old \in Nat /\ new \in Nat
      BY <1>1, <2>4, <2>5, <3>2, <3>3
    <3> HIDE DEF n, rate, old, new
    <3>5. n <= rate + new
      BY <3>4
    <3> QED
      BY <3>1, <3>5 DEF n, rate, new
  <2>7. CASE ok /\ s <= now /\ now <= e
    <3>1. s > clock - w
      <4> HIDE DEF w, now
      <4> QED
        BY <1>1, <2>2, <2>3, <2>7
    <3>2. Held(s)
      BY <1>5, <2>1, <3>1 DEF OpenHeld
    <3>3. grants.since[s] + 1 <= c.rate + grants.extra[s]
      BY <1>0, <1>2, <2>7, <3>1, <3>2, ScriptFindsRoom
    <3>4. grants'.since[s] = grants.since[s] + 1
      BY <1>3, <2>7 DEF Tally
    <3>5. Between(s, e)' <= grants'.since[s] /\ Between(s, e)' \in Int
      <4>1. grants'.since[s] \in Nat
        BY <2>4, <3>4
      <4>2. e < MaxTime => grants'.since[e + 1] \in Nat
        <5>1. e < MaxTime => e + 1 \in Times
          BY <2>3, BetweenTyped
        <5> QED
          BY <1>4, <5>1 DEF History
      <4> QED
        BY <4>1, <4>2 DEF Between
    <3> DEFINE n == Between(s, e)'
               rate == c.rate
               old == grants.extra[s]
               new == grants'.extra[s]
               k == grants.since[s]
    <3>6. /\ n \in Int /\ n <= k + 1 /\ k + 1 <= rate + old /\ old <= new
          /\ rate \in Nat /\ old \in Nat /\ new \in Nat /\ k \in Nat
      BY <1>1, <2>4, <2>5, <3>3, <3>4, <3>5
    <3> HIDE DEF n, rate, old, new, k
    <3>7. n <= rate + new
      BY <3>6
    <3> QED
      BY <3>7 DEF n, rate, new
  <2>8. e \in Nat
    BY <2>3, BetweenTyped
  <2>9. ~ok \/ now < s \/ now > e \/ (ok /\ s <= now /\ now <= e)
    <3> HIDE DEF now
    <3> QED
      BY <1>1, <2>2, <2>8
  <2> QED
    BY <2>6, <2>7, <2>9
<1> QED
  BY <1>6, <1>7, <1>8 DEF WindowInv

(***************************************************************************)
(* The clock and the expiry of the key drop no member of an open window.   *)
(***************************************************************************)
LEMMA TickHolds ==
    ASSUME Sound, WindowInv, Tick
    PROVE  WindowInv'
<1> USE DEF Sound
<1> DEFINE w == GetConfig.window
<1>1. /\ clock' = clock + 1 /\ clock \in Nat /\ UNCHANGED <<grants, regime>>
      /\ GetConfig' = GetConfig
      /\ \/ bucket' = bucket
         \/ /\ bucket'.kind = "none" /\ bucket.kind # "none" /\ clock' > bucket.expires
  BY TickEffect
<1> SUFFICES ASSUME Windowed PROVE OpenHeld' /\ OutlivesWindow'
  BY <1>1 DEF WindowInv, Windowed
<1>2. OpenHeld /\ OutlivesWindow
  BY DEF WindowInv
<1>3. w \in Nat
  BY ConfigInForce, ConfigFields
<1>4. OutlivesWindow'
  BY <1>1, <1>2 DEF OutlivesWindow
<1>5. OpenHeld'
  <2> SUFFICES ASSUME NEW a \in Times, a >= grants.open, a > clock' - w PROVE Held(a)'
    BY <1>1 DEF OpenHeld
  <2>1. a \in Nat /\ grants.since[a] \in Nat /\ grants.extra[a] \in Nat
    BY HistoryFields, TimesNat
  <2>2. a > clock - w
    <3> HIDE DEF w
    <3> QED
      BY <1>1, <1>3, <2>1
  <2>3. Held(a)
    BY <1>2, <2>2 DEF OpenHeld
  <2>4. CASE Members' = Members
    BY <1>1, <2>3, <2>4 DEF Held
  <2>5. CASE bucket'.kind = "none" /\ bucket.kind = "zset" /\ clock' > bucket.expires
    <3>1. grants.since[a] = 0
      <4>1. grants.since[a] > 0 => a + w <= bucket.expires
        BY <1>2, <2>5 DEF OutlivesWindow
      <4>2. bucket.expires \in Nat
        BY <2>5, BucketKinds
      <4> DEFINE expires == bucket.expires
                 k == grants.since[a]
      <4>3. expires \in Nat /\ k \in Nat /\ (k > 0 => a + w <= expires)
        BY <2>1, <4>1, <4>2
      <4>5. clock + 1 > expires
        BY <1>1, <2>5
      <4>6. a > clock + 1 - w
        <5> HIDE DEF w
        <5> QED
          BY <1>1, <1>3, <2>1
      <4> HIDE DEF expires, w, k
      <4>4. k = 0
        BY <1>1, <1>3, <2>1, <4>3, <4>5, <4>6
      <4> QED
        BY <4>4 DEF k
    <3>2. Members' = {}
      BY <2>5 DEF Members
    <3>3. Cardinality(From(Members', a)) = 0
      <4>1. From(Members', a) = {}
        BY <3>2 DEF From
      <4> QED
        BY <4>1, FS_EmptySet
    <3> QED
      BY <1>1, <2>1, <3>1, <3>3 DEF Held
  <2>6. Members' = Members \/ (bucket'.kind = "none" /\ bucket.kind = "zset"
                                 /\ clock' > bucket.expires)
    BY <1>1 DEF Members
  <2> QED
    BY <2>4, <2>5, <2>6
<1> QED
  BY <1>4, <1>5

(***************************************************************************)
(* Sliding mode keeps its limit.                                           *)
(***************************************************************************)
LEMMA WindowInductive ==
    ASSUME Sound, Sound', WindowInv, WindowMath, [Next]_vars
    PROVE  WindowInv' /\ WindowMath'
<1> USE DEF Sound
<1>1. ASSUME Aside PROVE WindowInv' /\ WindowMath'
  BY <1>1 DEF Aside, WindowInv, WindowMath, Windowed, OpenHeld, OutlivesWindow, Held,
              Members, Between, Checked, GetConfig
<1>2. ASSUME NEW r \in Requests, RunScript(r) PROVE WindowInv' /\ WindowMath'
  BY <1>2, ScriptKeepsWindowMath
<1>3. ASSUME NEW r \in Requests, WrongType(r) PROVE WindowInv' /\ WindowMath'
  <2> SUFFICES ASSUME Windowed' PROVE WindowInv' /\ WindowMath'
    BY DEF WindowInv, WindowMath, Windowed
  <2>1. /\ GetConfig' = GetConfig /\ regime' = regime /\ UNCHANGED <<bucket, clock>>
        /\ grants'.open >= grants.open /\ grants'.extra = grants.extra
        /\ grants.open \in Nat /\ grants'.open \in Nat
        /\ \A s \in Times : s >= grants'.open => grants'.since[s] = grants.since[s]
        /\ \A s \in Times : Checked(s)' =>
              /\ Checked(s)
              /\ \A e \in s .. MaxTime : Between(s, e)' = Between(s, e)
    BY <1>3, PassesAside DEF Windowed
  <2>2. Windowed /\ OpenHeld /\ OutlivesWindow /\ Members' = Members
    BY <2>1 DEF Windowed, WindowInv, Members
  <2>3. \A s \in Times : s >= grants'.open => s >= grants.open
    BY <2>1, TimesNat
  <2>4. OpenHeld'
    <3> SUFFICES ASSUME NEW a \in Times, a >= grants'.open, a > clock - GetConfig.window
                 PROVE  Held(a)'
      BY <2>1 DEF OpenHeld
    <3>1. Held(a)
      BY <2>2, <2>3 DEF OpenHeld
    <3> QED
      BY <2>1, <2>2, <3>1 DEF Held
  <2>5. OutlivesWindow'
    BY <2>1, <2>2, <2>3 DEF OutlivesWindow
  <2>6. WindowMath'
    <3> SUFFICES ASSUME GetConfig.window > MaxDelay, NEW s \in Times, Checked(s)',
                        NEW e, e = Lesser(MaxTime, s + GetConfig.window - MaxDelay - 1)
                 PROVE  Between(s, e)' <= GetConfig.rate + grants'.extra[s]
      BY <2>1 DEF WindowMath
    <3>1. e \in s .. MaxTime
      <4> DEFINE w == GetConfig.window
      <4>1. w \in Nat /\ MaxDelay \in Nat /\ w > MaxDelay
        BY ConfigInForce, ConfigFields, TimesNat
      <4>2. s \in Nat /\ s <= MaxTime /\ MaxTime \in Nat
        BY TimesNat DEF Times
      <4> HIDE DEF w
      <4>3. Lesser(MaxTime, s + w - MaxDelay - 1) \in s .. MaxTime
        BY <4>1, <4>2 DEF Lesser
      <4> QED
        BY <4>3 DEF w
    <3>2. Between(s, e) <= GetConfig.rate + grants.extra[s]
      BY <2>1, <2>2 DEF WindowMath, Windowed
    <3> QED
      BY <2>1, <3>1, <3>2
  <2> QED
    BY <2>4, <2>5, <2>6 DEF WindowInv
<1>4. ASSUME NEW c \in Inputs, SetConfig(c) PROVE WindowInv' /\ WindowMath'
  <2>1. \A s \in Times : /\ grants'.since[s] = 0 /\ grants'.extra[s] = 0
    BY <1>4, SetEffect
  <2>2. OpenHeld'
    <3> SUFFICES ASSUME NEW a \in Times PROVE Held(a)'
      BY DEF OpenHeld
    <3>1. Cardinality(From(Members', a)) \in Nat
      BY PartsFinite, FS_CardinalityType DEF MembersFinite
    <3> QED
      BY <2>1, <3>1 DEF Held
  <2>3. OutlivesWindow'
    BY <2>1 DEF OutlivesWindow
  <2>4. WindowMath'
    <3> SUFFICES ASSUME NEW s \in Times, GetConfig'.window > MaxDelay,
                        NEW e, e = Lesser(MaxTime, s + GetConfig'.window - MaxDelay - 1)
                 PROVE  Between(s, e)' <= GetConfig'.rate + grants'.extra[s]
      BY DEF WindowMath
    <3>1. GetConfig' \in Configs
      BY <1>4 DEF SetConfig, Configs, GetConfig
    <3>2. GetConfig'.rate \in Nat /\ GetConfig'.window \in Nat /\ MaxDelay \in Nat
      BY <3>1, ConfigFields, TimesNat
    <3>3. e \in s .. MaxTime
      <4> DEFINE w == GetConfig'.window
      <4>1. s \in Nat /\ s <= MaxTime /\ MaxTime \in Nat
        BY TimesNat DEF Times
      <4> HIDE DEF w
      <4>2. w > MaxDelay => Lesser(MaxTime, s + w - MaxDelay - 1) \in s .. MaxTime
        BY <3>2, <4>1 DEF Lesser, w
      <4> QED
        BY <4>2 DEF w
    <3>4. Between(s, e)' = 0
      BY <2>1, <3>3, BetweenTyped DEF Between
    <3> QED
      BY <2>1, <3>2, <3>4
  <2> QED
    BY <2>2, <2>3, <2>4 DEF WindowInv
<1>5. ASSUME Tick PROVE WindowInv' /\ WindowMath'
  <2>1. WindowMath'
    BY <1>5, TickEffect DEF WindowMath, Between, Checked
  <2> QED
    BY <1>5, <2>1, TickHolds
<1> QED
  BY <1>1, <1>2, <1>3, <1>4, <1>5, Steps

-----------------------------------------------------------------------------
(* Refusals are fair.                                                      *)

\* Counts of a stamp or a later one.
Declines(counts) == \A s, t \in Times : s <= t => counts[t] <= counts[s]

\* What was credited since s, all of it, was spent or lost or is in the bucket.
Credited(s) ==
    Capacity(GetConfig) + Flow(GetConfig) * (bucket.ts - s)
      <= grants.since[s] * Token + bucket.tokens + grants.lost[s]

\* As long as the configuration was not changed, the bucket was full once and
\* nothing got lost since, and it holds no member that no request has left.
NothingLost ==
    regime = "fresh" =>
        /\ Declines(grants.since) /\ Declines(grants.lost)
        /\ (GetConfig.mode = "token" /\ bucket.kind = "hash") =>
              \E s \in 0 .. bucket.ts : Credited(s)
        /\ GetConfig.mode = "sliding" =>
              \A a \in Times : Cardinality(From(Members, a)) <= grants.since[a]

\* A refill keeps what was credited since s, but for a loss that it counts.
LEMMA RefillKeeps ==
    ASSUME NEW n \in Nat, NEW cap \in Nat, NEW have \in Nat, NEW t \in Nat, NEW s \in Nat,
           NEW now \in Nat, NEW f \in Nat, NEW err \in Int, -1 <= err, NEW lost \in Nat,
           NEW lost1 \in Nat, cap + f * (t - s) <= n + have + lost, t <= now,
           lost <= lost1, err < 0 => lost + 1 <= lost1
    PROVE  cap + f * (now - s) <= n + (f * (now - t) + have + err) + lost1
<1>1. f * (now - s) = f * (t - s) + f * (now - t)
  <2>1. now - s = (t - s) + (now - t)
    OBVIOUS
  <2> DEFINE a == t - s
             b == now - t
  <2>2. a \in Int /\ b \in Int
    OBVIOUS
  <2> HIDE DEF a, b
  <2>3. f * (a + b) = f * a + f * b
    BY <2>2, ProductSplits
  <2> QED
    BY <2>1, <2>3 DEF a, b
<1> DEFINE A == f * (t - s)
           B == f * (now - t)
<1>2. A \in Int /\ B \in Int /\ cap + A <= n + have + lost
  OBVIOUS
<1> HIDE DEF A, B
<1>3. cap + (A + B) <= n + (B + have + err) + lost1
  BY <1>2
<1> QED
  BY <1>1, <1>3 DEF A, B

\* A script that runs late keeps what was credited up to its stamp.
LEMMA LateKeeps ==
    ASSUME NEW n \in Nat, NEW cap \in Nat, NEW have \in Nat, NEW t \in Nat, NEW s \in Nat,
           NEW now \in Nat, NEW f \in Nat, NEW lost \in Nat,
           cap + f * (t - s) <= n + have + lost, now <= t
    PROVE  cap + f * (now - s) <= n + have + lost
<1> DEFINE a == now - s
           b == t - s
<1>1. a \in Int /\ b \in Int /\ a <= b
  OBVIOUS
<1> HIDE DEF a, b
<1>2. f * a \in Int /\ f * b \in Int /\ f * a <= f * b
  BY <1>1, ProductGrows
<1> DEFINE A == f * a
           B == f * b
<1>3. A \in Int /\ B \in Int /\ A <= B /\ cap + B <= n + have + lost
  BY <1>2 DEF b
<1> HIDE DEF A, B
<1>4. cap + A <= n + have + lost
  BY <1>3
<1> QED
  BY <1>4 DEF A, a

\* More was spent and lost since an earlier stamp.
LEMMA EarlierKeeps ==
    ASSUME NEW n \in Nat, NEW k \in Nat, NEW cap \in Nat, NEW have \in Nat, NEW t \in Nat,
           NEW s \in Nat, NEW f \in Nat, NEW lost \in Nat, NEW lost1 \in Nat,
           cap + f * (t - s) <= n * Token + have + lost, s <= t, n <= k, lost <= lost1
    PROVE  cap <= k * Token + have + lost1
<1>1. f * (t - s) \in Nat
  <2>1. t - s \in Nat
    OBVIOUS
  <2> QED
    BY <2>1, ProductNat
<1>2. n * Token \in Nat /\ k * Token \in Nat /\ n * Token <= k * Token
  <2>1. Token \in Nat
    BY TimesNat
  <2>2. Token * n <= Token * k
    BY <2>1, ProductGrows
  <2> HIDE DEF Token
  <2> QED
    BY <2>1, <2>2
<1> DEFINE A == f * (t - s)
           B == n * Token
           C == k * Token
<1>3. A \in Nat /\ B \in Nat /\ C \in Nat /\ B <= C /\ cap + A <= B + have + lost
  BY <1>1, <1>2
<1> HIDE DEF A, B, C
<1>4. cap <= C + have + lost1
  BY <1>3
<1> QED
  BY <1>4 DEF C

(***************************************************************************)
(* What a script finds was credited in full since some stamp up to its own.*)
(***************************************************************************)
LEMMA RefillIsFair ==
    ASSUME Sound, NothingLost, regime = "fresh", NEW r \in Requests, RunScript(r),
           NEW err, NEW x, TokenRan(r, err, x), req[r].cfg = GetConfig,
           GetConfig.mode = "token"
    PROVE  \E s \in 0 .. req[r].now :
              Capacity(GetConfig) + Flow(GetConfig) * (req[r].now - s)
                <= grants.since[s] * Token + x + grants'.lost[s]
<1> USE DEF Sound
<1> DEFINE c == GetConfig
           now == req[r].now
           cap == Capacity(c)
           f == Flow(c)
<1>1. now \in Times /\ now \in Nat /\ c \in Configs /\ cap \in Nat /\ f \in Nat
  BY ScriptRuns, TimesNat, ConfigFields
<1>2. /\ Refill(c, now, err, x)
      /\ Tally(grants', now, x >= Token, Greater(0, err) + Flow(c) * Late(now),
               err < 0 /\ regime = "fresh")
  BY DEF TokenRan, Accounted
<1>3. x \in 0 .. cap /\ err \in {-1, 0, 1}
  BY <1>2 DEF Refill
<1>4. \A s \in Times : /\ grants.since[s] \in Nat /\ grants.lost[s] \in Nat
                       /\ grants'.lost[s] = IF err < 0 /\ s <= now THEN grants.lost[s] + 1
                                                                 ELSE grants.lost[s]
  <2>1. \A s \in Times : grants'.lost[s] = IF (err < 0 /\ regime = "fresh") /\ s <= now
                                             THEN grants.lost[s] + 1 ELSE grants.lost[s]
    BY <1>2 DEF Tally
  <2> QED
    BY <2>1, HistoryFields
<1>5. now \in 0 .. now
  BY <1>1
<1>6. CASE x = cap
  <2>1. now - now = 0 /\ f * 0 = 0
    BY <1>1
  <2> DEFINE k == grants.since[now] * Token
             lost == grants'.lost[now]
  <2>2. lost \in Nat
    BY <1>1, <1>3, <1>4
  <2>3. k \in Nat
    BY <1>1, <1>4, TimesNat, ProductNat
  <2> HIDE DEF k, lost, cap
  <2>4. cap + 0 <= k + x + lost
    BY <1>1, <1>6, <2>2, <2>3
  <2> QED
    BY <1>5, <2>1, <2>4 DEF k, lost, cap
<1>7. CASE x # cap
  <2> DEFINE t == bucket.ts
             have == bucket.tokens
  <2>1. /\ bucket.kind = "hash"
        /\ x = Lesser(cap, f * Passed(now) + have + err)
        /\ f * Passed(now) = 0 => err = 0
    BY <1>2, <1>7 DEF Refill
  <2>2. t \in Nat /\ have \in Nat
    BY <2>1, BucketKinds
  <2>3. x = f * Passed(now) + have + err
    BY <1>7, <2>1 DEF Lesser
  <2>4. Passed(now) = Greater(0, now - t)
    BY <2>1 DEF Passed
  <2>5. PICK s \in 0 .. t : Credited(s)
    BY <2>1 DEF NothingLost
  <2>6. s \in Nat /\ s <= t /\ t \in Times /\ s \in Times
    <3>1. t \in 0 .. clock /\ clock \in Times /\ MaxTime \in Nat
      BY <2>1, BucketKinds, HistoryFields, TimesNat
    <3> HIDE DEF t
    <3> QED
      BY <2>5, <3>1 DEF Times
  <2> DEFINE n == grants.since[s]
             lost == grants.lost[s]
             lost1 == grants'.lost[s]
  <2>7. cap + f * (t - s) <= n * Token + have + lost
    BY <2>5 DEF Credited
  <2>8. n \in Nat /\ lost \in Nat /\ lost1 \in Nat /\ lost <= lost1 /\ n * Token \in Nat
    <3>1. n \in Nat /\ lost \in Nat /\ lost1 \in {lost, lost + 1}
      BY <1>4, <2>6
    <3> HIDE DEF n, lost, lost1
    <3> QED
      BY <3>1, TimesNat, ProductNat
  <2>9. CASE t <= now
    <3>1. s <= now /\ s \in 0 .. now
      BY <1>1, <2>2, <2>6, <2>9
    <3>2. err < 0 => lost + 1 <= lost1
      BY <1>4, <2>6, <2>8, <3>1
    <3>3. Passed(now) = now - t
      <4> HIDE DEF t, now
      <4> QED
        BY <1>1, <2>2, <2>4, <2>9 DEF Greater
    <3>4. x = f * (now - t) + have + err
      BY <2>3, <3>3
    <3> DEFINE spent == n * Token
    <3>5. spent \in Nat /\ cap + f * (t - s) <= spent + have + lost
      BY <2>7, <2>8
    <3> HIDE DEF n, lost, lost1, cap, f, t, have, now, spent
    <3>6. cap + f * (now - s) <= spent + (f * (now - t) + have + err) + lost1
      <4>1. /\ spent \in Nat /\ cap \in Nat /\ have \in Nat /\ t \in Nat /\ s \in Nat
            /\ now \in Nat /\ f \in Nat /\ err \in Int /\ -1 <= err
            /\ lost \in Nat /\ lost1 \in Nat
        BY <1>1, <1>3, <2>2, <2>6, <2>8, <3>5
      <4>2. /\ cap + f * (t - s) <= spent + have + lost /\ t <= now /\ lost <= lost1
            /\ (err < 0 => lost + 1 <= lost1)
        BY <2>8, <2>9, <3>2, <3>5
      <4> QED
        BY <4>1, <4>2, RefillKeeps, Zenon
    <3>7. cap + f * (now - s) <= spent + x + lost1
      BY <3>4, <3>6
    <3> QED
      BY <3>1, <3>7 DEF n, lost1, cap, f, now, spent
  <2>10. CASE now < t
    <3>1. Passed(now) = 0
      <4> HIDE DEF t, now
      <4> QED
        BY <1>1, <2>2, <2>4, <2>10 DEF Greater
    <3>2. f * 0 = 0
      BY <1>1
    <3>3. err = 0 /\ x = have
      <4> HIDE DEF f
      <4>1. err = 0
        BY <2>1, <3>1, <3>2 DEF f
      <4>2. x = 0 + have + err
        BY <2>3, <3>1, <3>2
      <4> HIDE DEF have
      <4> QED
        BY <2>2, <4>1, <4>2
    <3>4. now <= t
      BY <1>1, <2>2, <2>10
    <3>5. CASE s <= now
      <4>1. s \in 0 .. now
        BY <1>1, <2>6, <3>5
      <4> DEFINE spent == n * Token
      <4>2. spent \in Nat /\ cap + f * (t - s) <= spent + have + lost
        BY <2>7, <2>8
      <4>3. lost1 = lost
        BY <1>4, <2>6, <3>3
      <4> HIDE DEF n, lost, lost1, cap, f, t, have, now, spent
      <4>4. cap + f * (now - s) <= spent + have + lost
        BY <1>1, <2>2, <2>6, <2>8, <3>4, <4>2, LateKeeps, Zenon
      <4>5. cap + f * (now - s) <= spent + x + lost1
        BY <3>3, <4>3, <4>4
      <4> QED
        BY <4>1, <4>5 DEF n, lost1, cap, f, now, spent
    <3>6. CASE now < s
      <4> DEFINE k == grants.since[now]
                 later == grants.lost[now]
      <4>1. n <= k /\ lost <= later /\ k \in Nat /\ later \in Nat
        <5>1. now <= s
          BY <1>1, <2>6, <3>6
        <5> QED
          BY <1>1, <1>4, <2>6, <5>1 DEF NothingLost, Declines
      <4>2. grants'.lost[now] = later
        BY <1>1, <1>4, <3>3
      <4>3. now - now = 0
        BY <1>1
      <4> HIDE DEF n, lost, lost1, cap, f, t, have, k, later
      <4>4. cap <= k * Token + have + later
        BY <1>1, <2>2, <2>6, <2>7, <2>8, <4>1, EarlierKeeps, Zenon
      <4>5. cap + f * (now - now) <= k * Token + x + grants'.lost[now]
        <5>1. f * (now - now) = 0
          BY <3>2, <4>3
        <5>2. cap + 0 = cap
          BY <1>1
        <5> QED
          BY <3>3, <4>2, <4>4, <5>1, <5>2
      <4> QED
        BY <1>5, <4>5 DEF k, cap, f
    <3> QED
      BY <1>1, <2>6, <3>5, <3>6
  <2> QED
    BY <1>1, <2>2, <2>9, <2>10
<1> QED
  BY <1>6, <1>7

\* A script keeps the counts in order.
LEMMA TallyDeclines ==
    ASSUME TypeOK, NEW counts \in [Times -> Nat], NEW next, NEW now \in Times,
           NEW one \in BOOLEAN, Declines(counts),
           \A s \in Times : next[s] = IF one /\ s <= now THEN counts[s] + 1 ELSE counts[s]
    PROVE  Declines(next)
<1> SUFFICES ASSUME NEW s \in Times, NEW t \in Times, s <= t PROVE next[t] <= next[s]
  BY DEF Declines
<1>1. counts[t] <= counts[s] /\ counts[s] \in Nat /\ counts[t] \in Nat
  BY DEF Declines
<1>2. t <= now => s <= now
  <2>1. s \in Nat /\ t \in Nat /\ now \in Nat
    BY TimesNat
  <2> QED
    BY <2>1
<1>3. one = TRUE \/ one = FALSE
  OBVIOUS
<1> DEFINE a == counts[s]
           b == counts[t]
<1>4. CASE one /\ t <= now
  <2>1. next[t] = b + 1 /\ next[s] = a + 1
    BY <1>2, <1>4
  <2> QED
    BY <1>1, <2>1
<1>5. CASE ~(one /\ t <= now)
  <2>1. next[t] = b /\ next[s] \in {a, a + 1}
    BY <1>5
  <2> QED
    BY <1>1, <2>1
<1> QED
  BY <1>4, <1>5

(***************************************************************************)
(* A script loses nothing that it does not count.                          *)
(***************************************************************************)
LEMMA ScriptLosesNothing ==
    ASSUME Sound, TypeOK', NothingLost, NEW r \in Requests, RunScript(r)
    PROVE  NothingLost'
<1> USE DEF Sound
<1> DEFINE c == GetConfig
           now == req[r].now
<1> SUFFICES ASSUME regime' = "fresh" PROVE NothingLost'
  BY DEF NothingLost
<1>1. /\ req[r].cfg = c /\ regime = "fresh" /\ GetConfig' = c
      /\ now \in Times /\ now \in Nat /\ c \in Configs
  <2>1. regime' # "mixed"
    OBVIOUS
  <2> QED
    BY <2>1, Decides, TimesNat DEF GetConfig
<1>2. Declines(grants.since) /\ Declines(grants.lost)
  BY <1>1 DEF NothingLost
<1>3. grants.since \in [Times -> Nat] /\ grants.lost \in [Times -> Nat]
  BY HistoryFields
<1>4. CASE c.mode = "token"
  <2>1. PICK err, x : TokenRan(r, err, x)
    BY <1>1, <1>4, ScriptRuns
  <2> DEFINE ok == x >= Token
             dropped == err < 0 /\ regime = "fresh"
  <2>2. /\ Tally(grants', now, ok, Greater(0, err) + Flow(c) * Late(now), dropped)
        /\ bucket'.kind = "hash" /\ bucket'.ts = now
        /\ bucket'.tokens = IF x >= Token THEN x - Token ELSE x
        /\ x \in 0 .. Capacity(c)
    BY <1>1, <2>1 DEF TokenRan, Accounted, Refill
  <2>3. Declines(grants'.since)
    <3>1. \A s \in Times : grants'.since[s] = IF ok /\ s <= now THEN grants.since[s] + 1
                                                              ELSE grants.since[s]
      BY <2>2 DEF Tally
    <3>2. ok \in BOOLEAN
      OBVIOUS
    <3> HIDE DEF ok, now
    <3> QED
      BY <1>1, <1>2, <1>3, <3>1, <3>2, TallyDeclines
  <2>4. Declines(grants'.lost)
    <3>1. \A s \in Times : grants'.lost[s] = IF dropped /\ s <= now THEN grants.lost[s] + 1
                                                                  ELSE grants.lost[s]
      BY <2>2 DEF Tally
    <3>2. dropped \in BOOLEAN
      OBVIOUS
    <3> HIDE DEF dropped, now
    <3> QED
      BY <1>1, <1>2, <1>3, <3>1, <3>2, TallyDeclines
  <2>5. PICK s \in 0 .. now : Capacity(c) + Flow(c) * (now - s)
                                <= grants.since[s] * Token + x + grants'.lost[s]
    BY <1>1, <1>4, <2>1, RefillIsFair
  <2>6. s \in Nat /\ s <= now /\ s \in Times
    <3>1. now <= MaxTime /\ MaxTime \in Nat
      BY <1>1, TimesNat DEF Times
    <3> HIDE DEF now
    <3> QED
      BY <1>1, <2>5, <3>1 DEF Times
  <2>7. Credited(s)'
    <3> DEFINE n == grants.since[s]
               n1 == grants'.since[s]
               tokens == bucket'.tokens
               lost == grants'.lost[s]
               room == Capacity(c) + Flow(c) * (now - s)
    <3>1. n \in Nat /\ n1 = IF ok THEN n + 1 ELSE n
      BY <1>3, <2>2, <2>6 DEF Tally
    <3>2. Token \in Nat /\ x \in Int
      BY <2>2, TimesNat
    <3>3. n1 * Token + tokens = n * Token + x
      <4>1. n * Token \in Int /\ (n + 1) * Token = n * Token + Token
        <5> HIDE DEF n, Token
        <5>1. Token * (n + 1) = Token * n + Token * 1
          BY <3>1, <3>2, ProductSplits
        <5> QED
          BY <3>1, <3>2, <5>1
      <4>2. CASE ok
        <5>1. n1 = n + 1 /\ tokens = x - Token
          BY <2>2, <3>1, <4>2
        <5> HIDE DEF n1, tokens, n
        <5>2. n1 * Token = n * Token + Token
          BY <4>1, <5>1
        <5> DEFINE y == n * Token
        <5>3. y \in Int /\ n1 * Token = y + Token
          BY <4>1, <5>2
        <5> HIDE DEF y, Token
        <5>4. (y + Token) + (x - Token) = y + x
          BY <3>2, <5>3
        <5>5. n1 * Token + tokens = y + x
          BY <5>1, <5>3, <5>4
        <5> QED
          BY <5>5 DEF y
      <4>3. CASE ~ok
        <5>1. n1 = n /\ tokens = x
          BY <2>2, <3>1, <4>3
        <5> QED
          BY <5>1
      <4> QED
        BY <4>2, <4>3
    <3>4. room <= n * Token + x + lost
      BY <2>5
    <3> HIDE DEF n, n1, tokens, lost, room
    <3>5. room <= n1 * Token + tokens + lost
      BY <3>3, <3>4
    <3> QED
      BY <1>1, <2>2, <3>5 DEF Credited, n1, tokens, lost, room
  <2> QED
    BY <1>1, <1>4, <2>2, <2>3, <2>4, <2>5, <2>7 DEF NothingLost
<1>5. CASE c.mode = "sliding"
  <2>1. PICK K : SlidingRan(r, K)
    BY <1>1, <1>5, SlidingRun, ScriptRuns
  <2> DEFINE ok == Cardinality(K) < c.rate
             m == Member(r)
             surplus == IF ok /\ m \in K THEN 1 ELSE 0
  <2>2. /\ Tally(grants', now, ok, surplus, FALSE)
        /\ Members' = IF ok THEN K \cup {m} ELSE K
        /\ K = Within(Members, now, c)
    BY <1>1, <2>1 DEF SlidingRan, Accounted
  <2>a. m.score = now /\ IsFiniteSet(K) /\ IsFiniteSet(Members)
    BY <2>2, PartsFinite DEF Member, MembersFinite
  <2>3. Declines(grants'.since)
    <3>1. \A s \in Times : grants'.since[s] = IF ok /\ s <= now THEN grants.since[s] + 1
                                                              ELSE grants.since[s]
      BY <2>2 DEF Tally
    <3>2. ok \in BOOLEAN
      OBVIOUS
    <3> HIDE DEF ok, now
    <3> QED
      BY <1>1, <1>2, <1>3, <3>1, <3>2, TallyDeclines
  <2>4. Declines(grants'.lost)
    <3>1. \A s \in Times : grants'.lost[s] = grants.lost[s]
      BY <2>2 DEF Tally
    <3> QED
      BY <1>2, <3>1 DEF Declines
  <2>5. ASSUME NEW a \in Times PROVE Cardinality(From(Members', a)) <= grants'.since[a]
    <3> DEFINE old == Cardinality(From(Members, a))
               n == Cardinality(From(K, a))
               n1 == Cardinality(From(Members', a))
               k == grants.since[a]
               k1 == grants'.since[a]
    <3>1. old <= k /\ k \in Nat
      BY <1>1, <1>3, <1>5 DEF NothingLost
    <3>2. n <= old /\ old \in Nat /\ n \in Nat
      <4>1. IsFiniteSet(From(Members, a)) /\ IsFiniteSet(From(K, a))
        BY <2>a, PartsFinite
      <4>2. From(K, a) \subseteq From(Members, a)
        BY <2>2 DEF From, Within
      <4> QED
        BY <4>1, <4>2, FS_Subset, FS_CardinalityType
    <3>3. k1 = IF ok /\ a <= now THEN k + 1 ELSE k
      BY <2>2 DEF Tally
    <3>4. a \in Nat /\ (~(now >= a) <=> ~(a <= now))
      BY TimesNat
    <3>5. n1 \in {n, n + 1} /\ (n1 = n \/ (ok /\ a <= now))
      <4>1. /\ (m \in K \/ ~(now >= a)) => Cardinality(From(K \cup {m}, a)) = n
            /\ (m \notin K /\ now >= a) => Cardinality(From(K \cup {m}, a)) = n + 1
        <5> HIDE DEF m, now
        <5>1. m.score \in Nat /\ IsFiniteSet(K) /\ a \in Nat
          BY <1>1, <2>a, <3>4
        <5>2. /\ Cardinality(From(K, a)) \in Nat
              /\ (m \in K \/ ~(m.score >= a)) =>
                    Cardinality(From(K \cup {m}, a)) = Cardinality(From(K, a))
              /\ (m \notin K /\ m.score >= a) =>
                    Cardinality(From(K \cup {m}, a)) = Cardinality(From(K, a)) + 1
              /\ (m \in K /\ m.score >= a) => Cardinality(From(K, a)) >= 1
          BY <5>1, CountsMember, Zenon
        <5> QED
          BY <2>a, <5>2
      <4>2. n1 = IF ok THEN Cardinality(From(K \cup {m}, a)) ELSE n
        BY <2>2
      <4> HIDE DEF m, now, ok, n, n1
      <4> QED
        BY <3>4, <4>1, <4>2
    <3> HIDE DEF n1, n, old, k, k1, ok, now
    <3>6. n1 <= k1
      BY <3>1, <3>2, <3>3, <3>5
    <3> QED
      BY <3>6 DEF n1, k1
  <2>6. c.mode # "token"
    BY <1>5
  <2> QED
    BY <1>1, <2>3, <2>4, <2>5, <2>6 DEF NothingLost
<1> QED
  BY <1>1, <1>4, <1>5, ConfigFields

(***************************************************************************)
(* Nothing is lost without being counted, in no step.                      *)
(***************************************************************************)
LEMMA FairInductive ==
    ASSUME Sound, TypeOK', NothingLost, [Next]_vars
    PROVE  NothingLost'
<1> USE DEF Sound
<1>1. ASSUME Aside PROVE NothingLost'
  BY <1>1 DEF Aside, NothingLost, Credited, Declines, Members, GetConfig
<1>2. ASSUME NEW r \in Requests, RunScript(r) PROVE NothingLost'
  BY <1>2, ScriptLosesNothing
<1>3. ASSUME NEW r \in Requests, WrongType(r) PROVE NothingLost'
  <2> SUFFICES ASSUME regime' = "fresh" PROVE FALSE
    BY DEF NothingLost
  <2>1. req[r].cfg = GetConfig /\ regime = "fresh"
    <3>1. regime' # "mixed"
      OBVIOUS
    <3> QED
      BY <1>3, <3>1, Decides
  <2>2. bucket.kind \notin {"none", Kind(GetConfig)}
    BY <1>3, <2>1 DEF WrongType
  <2> QED
    BY <2>1, <2>2 DEF Own
<1>4. ASSUME NEW c \in Inputs, SetConfig(c) PROVE NothingLost'
  BY <1>4, SetEffect DEF NothingLost
<1>5. ASSUME Tick PROVE NothingLost'
  <2>1. UNCHANGED <<grants, regime>> /\ GetConfig' = GetConfig
    BY <1>5, TickEffect
  <2>2. CASE bucket' = bucket
    BY <2>1, <2>2 DEF NothingLost, Credited, Declines, Members
  <2>3. CASE bucket'.kind = "none"
    <3>1. Members' = {}
      BY <2>3 DEF Members
    <3>2. \A a \in Times : Cardinality(From(Members', a)) <= grants'.since[a]
      <4>1. \A a \in Times : From(Members', a) = {}
        BY <3>1 DEF From
      <4>2. \A a \in Times : grants.since[a] \in Nat
        BY HistoryFields
      <4> QED
        BY <2>1, <4>1, <4>2, FS_EmptySet
    <3> QED
      BY <2>1, <2>3, <3>2 DEF NothingLost, Declines
  <2> QED
    BY <1>5, <2>2, <2>3, TickEffect
<1> QED
  BY <1>1, <1>2, <1>3, <1>4, <1>5, Steps

\* Only the script refuses a request.
LEMMA RefusedByScript ==
    ASSUME TypeOK, [Next]_vars, NEW r \in Requests, Refuses(r)
    PROVE  RunScript(r)
<1>a. req[r].pc = "stamped" /\ req'[r].pc = "refused"
  BY DEF Refuses
<1>b. req'[r] # req[r]
  BY <1>a
<1>1. ASSUME NEW q \in Requests, ReadConfig(q) \/ Stamp(q) \/ FailOpen(q) PROVE FALSE
  <2>1. req'[q].pc # "refused" /\ \A p \in Requests \ {q} : req'[p] = req[p]
    BY <1>1, Asides
  <2> QED
    BY <1>a, <1>b, <2>1
<1>2. ASSUME NEW q \in Requests, WrongType(q) PROVE FALSE
  <2>1. req'[q].pc = "idle" /\ \A p \in Requests \ {q} : req'[p] = req[p]
    BY <1>2, WrongTypePasses DEF Passes, Answered
  <2> QED
    BY <1>a, <1>b, <2>1
<1>3. ASSUME NEW q \in Requests, RunScript(q) PROVE q = r
  <2>1. \A p \in Requests \ {q} : req'[p] = req[p]
    BY <1>3, ScriptRuns DEF TokenRan, SlidingRan, Answered
  <2> QED
    BY <1>b, <2>1
<1>4. CASE req' = req
  BY <1>b, <1>4
<1> QED
  BY <1>1, <1>2, <1>3, <1>4 DEF Next, SetConfig, Tick, vars

(***************************************************************************)
(* Refusals are fair in every step.                                        *)
(***************************************************************************)
LEMMA FairSteps ==
    ASSUME Sound, NothingLost, [Next]_vars, NEW r \in Requests
    PROVE  FairlyRefused(r)
<1> USE DEF Sound
<1> DEFINE c == req[r].cfg
           now == req[r].now
           start == Greater(0, now - c.window + 1)
<1> SUFFICES ASSUME Refuses(r), regime' = "fresh"
             PROVE  IF c.mode = "sliding"
                      THEN grants'.since[start] >= c.rate
                      ELSE \E s \in 0 .. now :
                             (grants'.since[s] + 1) * Token + grants'.lost[s]
                               > Capacity(c) + Flow(c) * (now - s)
  BY DEF FairlyRefused
<1>1. RunScript(r) /\ req'[r].pc = "refused" /\ "idle" # "refused"
  BY RefusedByScript DEF Refuses
<1>2. c = GetConfig /\ regime = "fresh"
  <2>1. regime' # "mixed"
    OBVIOUS
  <2> QED
    BY <1>1, <2>1, Decides
<1>3. /\ c \in Configs /\ now \in Times /\ now \in Nat
      /\ \A s \in Times : grants.since[s] \in Nat
      /\ Token \in Nat \ {0}
  BY <1>1, ScriptRuns, HistoryFields, TimesNat
<1>4. /\ c.mode \in {"token", "sliding"} /\ c.rate \in Nat /\ c.window \in Nat
      /\ Capacity(c) \in Nat /\ Flow(c) \in Nat /\ (c.mode = "sliding" => c.window > 0)
  BY <1>3, ConfigFields
<1>5. CASE c.mode = "sliding"
  <2> DEFINE w == c.window
  <2>1. PICK K : SlidingRan(r, K)
    BY <1>1, <1>5, SlidingRun
  <2>2. K = Within(Members, now, c) /\ ~(Cardinality(K) < c.rate)
    BY <1>1, <2>1 DEF SlidingRan, Answered
  <2>3. \A s \in Times : grants'.since[s] = grants.since[s]
    BY <1>2, <2>1, <2>2 DEF SlidingRan, Accounted, Tally
  <2>4. start \in Nat /\ start \in Times
    <3>1. now <= MaxTime /\ MaxTime \in Nat /\ start = Greater(0, now - w + 1)
      BY <1>3, TimesNat DEF Times
    <3>2. w \in Nat /\ w > 0
      BY <1>4, <1>5
    <3> HIDE DEF w, now, start
    <3> QED
      BY <1>3, <3>1, <3>2 DEF Greater, Times
  <2>5. K = From(Members, start)
    <3>1. \A m \in Members : m.score \in Nat
      BY MemberScores
    <3>2. ASSUME NEW k \in Nat PROVE k > now - w <=> k >= start
      <4>1. start = Greater(0, now - w + 1) /\ w \in Nat
        BY <1>4
      <4> HIDE DEF w, now, start
      <4> QED
        BY <1>3, <3>2, <4>1 DEF Greater
    <3> HIDE DEF start, now
    <3> QED
      BY <2>2, <3>1, <3>2 DEF Within, From
  <2>6. Cardinality(From(Members, start)) <= grants.since[start]
    BY <1>2, <1>5, <2>4 DEF NothingLost
  <2>7. Cardinality(K) \in Nat /\ grants.since[start] \in Nat
    BY <1>3, <2>4, <2>5, PartsFinite, FS_CardinalityType DEF MembersFinite
  <2> DEFINE k == grants.since[start]
             n == Cardinality(K)
             rate == c.rate
  <2>8. n <= k /\ n \in Nat /\ k \in Nat /\ rate \in Nat /\ ~(n < rate)
    BY <1>4, <2>2, <2>5, <2>6, <2>7
  <2> HIDE DEF n, k, rate
  <2>9. k >= rate
    BY <2>8
  <2>10. grants'.since[start] >= c.rate
    BY <2>3, <2>4, <2>9 DEF k, rate
  <2> QED
    BY <1>5, <2>10
<1>6. CASE c.mode = "token"
  <2>1. PICK err, x : TokenRan(r, err, x)
    BY <1>1, <1>6, TokenRun
  <2>2. x \in 0 .. Capacity(c) /\ ~(x >= Token)
    BY <1>1, <2>1 DEF TokenRan, Refill, Answered
  <2>3. PICK s \in 0 .. now : Capacity(c) + Flow(c) * (now - s)
                                <= grants.since[s] * Token + x + grants'.lost[s]
    BY <1>1, <1>2, <1>6, <2>1, RefillIsFair
  <2>4. s \in Nat /\ s \in Times /\ s <= now
    <3>1. now <= MaxTime /\ MaxTime \in Nat
      BY <1>3, TimesNat DEF Times
    <3> HIDE DEF now
    <3> QED
      BY <1>3, <2>3, <3>1 DEF Times
  <2>5. Tally(grants', now, x >= Token, Greater(0, err) + Flow(c) * Late(now),
              err < 0 /\ regime = "fresh")
    BY <1>2, <2>1 DEF TokenRan, Accounted
  <2>6. grants'.since[s] = grants.since[s] /\ grants'.lost[s] \in Nat
    BY <2>2, <2>4, <2>5 DEF Tally, History
  <2> DEFINE n == grants.since[s]
             y == n * Token
             room == Capacity(c) + Flow(c) * (now - s)
             lost == grants'.lost[s]
  <2>7. n \in Nat /\ y \in Nat /\ lost \in Nat
    BY <1>3, <2>4, <2>6, ProductNat
  <2>8. (n + 1) * Token = y + Token
    <3> HIDE DEF n, Token
    <3>1. Token * (n + 1) = Token * n + Token * 1
      BY <1>3, <2>7, ProductSplits
    <3> QED
      BY <1>3, <2>7, <3>1
  <2>9. room \in Nat
    <3>1. now - s \in Nat
      <4> HIDE DEF now
      <4> QED
        BY <1>3, <2>4
    <3> DEFINE d == now - s
               cap == Capacity(c)
               f == Flow(c)
    <3>2. d \in Nat /\ cap \in Nat /\ f \in Nat
      BY <1>4, <3>1
    <3> HIDE DEF d, cap, f
    <3>3. cap + f * d \in Nat
      BY <3>2, ProductNat
    <3> QED
      BY <3>3 DEF d, cap, f
  <2>10. room <= y + x + lost
    BY <2>3
  <2>11. x \in Nat
    BY <1>4, <2>2
  <2> HIDE DEF n, y, room, lost, Token
  <2>12. y + Token + lost > room
    BY <1>3, <2>2, <2>7, <2>9, <2>10, <2>11
  <2>13. (n + 1) * Token + lost > room
    BY <2>8, <2>12
  <2>14. (grants'.since[s] + 1) * Token + grants'.lost[s] > Capacity(c) + Flow(c) * (now - s)
    BY <2>6, <2>13 DEF n, lost, room
  <2>15. c.mode # "sliding"
    BY <1>6
  <2> HIDE DEF c, now
  <2> QED
    BY <2>3, <2>14, <2>15
<1> QED
  BY <1>4, <1>5, <1>6

-----------------------------------------------------------------------------
(* Retry-After.                                                            *)

\* What a script answers, by its mode.
LEMMA Answers ==
    ASSUME NEW b, NEW c, NEW now, NEW tag, NEW err
    PROVE  /\ c.mode = "sliding" =>
                /\ Cardinality(InWindow(b, c, now)) < c.rate =>
                      Script(b, c, now, tag, err).allowed
                /\ Script(b, c, now, tag, err).resets = {Ceil(c.window, Second)}
           /\ c.mode # "sliding" =>
                /\ Refilled(b, c, now, err) >= Token => Script(b, c, now, tag, err).allowed
                /\ Script(b, c, now, tag, err).resets
                     = TokenResets(c, Script(b, c, now, tag, err).bucket.tokens)
<1>1. ASSUME NEW p, NEW q, NEW u, NEW result,
             result = [allowed |-> p, resets |-> q, bucket |-> u]
      PROVE  result.allowed = p /\ result.resets = q /\ result.bucket = u
  BY <1>1
<1>2. CASE c.mode = "sliding"
  <2> DEFINE ok == Cardinality(InWindow(b, c, now)) < c.rate
             resets == {Ceil(c.window, Second)}
             result == Script(b, c, now, tag, err)
  <2>1. PICK u : SlidingWindow(b, c, now, tag)
                   = [allowed |-> ok, resets |-> resets, bucket |-> u]
    BY Zenon DEF SlidingWindow, HasRoom
  <2>2. result = [allowed |-> ok, resets |-> resets, bucket |-> u]
    BY <1>2, <2>1 DEF Script
  <2> HIDE DEF ok, result, resets
  <2>3. result.allowed = ok /\ result.resets = resets
    BY <1>1, <2>2, Zenon
  <2>4. ok => result.allowed
    BY <2>3, Zenon
  <2> QED
    BY <1>2, <2>3, <2>4 DEF ok, result, resets
<1>3. CASE c.mode # "sliding"
  <2> DEFINE ok == Refilled(b, c, now, err) >= Token
             tokens == IF ok THEN Refilled(b, c, now, err) - Token
                             ELSE Refilled(b, c, now, err)
             resets == TokenResets(c, tokens)
             result == Script(b, c, now, tag, err)
             left == [kind |-> "hash", tokens |-> tokens, ts |-> now,
                      expires |-> clock + TokenTtl(c)]
  <2>1. TokenBucket(b, c, now, err) = [allowed |-> ok, resets |-> resets, bucket |-> left]
    BY Zenon DEF TokenBucket
  <2>2. result = [allowed |-> ok, resets |-> resets, bucket |-> left]
    BY <1>3, <2>1 DEF Script
  <2>3. left.tokens = tokens
    <3> HIDE DEF tokens
    <3> QED
      OBVIOUS
  <2> HIDE DEF ok, result, tokens, left
  <2>4. result.allowed = ok /\ result.resets = resets /\ result.bucket = left
    <3> HIDE DEF resets
    <3> QED
      BY <1>1, <2>2, Zenon
  <2>5. ok => result.allowed
    BY <2>4, Zenon
  <2>6. result.resets = TokenResets(c, result.bucket.tokens)
    BY <2>3, <2>4
  <2> QED
    BY <1>3, <2>5, <2>6 DEF ok, result
<1> QED
  BY <1>2, <1>3

\* Ceil of a positive number is positive.
LEMMA CeilPositive ==
    ASSUME NEW a \in Nat \ {0}, NEW b \in Nat \ {0}
    PROVE  Ceil(a, b) \in Nat \ {0}
<1>1. Ceil(a, b) \in Nat /\ a <= b * Ceil(a, b)
  BY CeilRoundsUp
<1>2. b * 0 = 0
  OBVIOUS
<1>3. Ceil(a, b) # 0
  BY <1>1, <1>2
<1> QED
  BY <1>1, <1>3

\* A bucket that misses tokens makes its client wait for a second at least.
LEMMA WaitsAreWhole ==
    ASSUME NEW c \in Configs, NEW y \in Nat, y < Capacity(c), c.rate > 0,
           NEW wait \in TokenResets(c, y)
    PROVE  wait \in Nat \ {0}
<1> DEFINE missing == Capacity(c) - y
           b == c.rate * Token
<1>1. missing \in Nat \ {0}
  BY ConfigFields
<1>2. b \in Nat \ {0}
  <2>1. c.rate \in Nat \ {0} /\ Token \in Nat \ {0}
    BY ConfigFields, TimesNat
  <2> QED
    BY <2>1
<1>3. PICK m \in Greater(1, missing - 1) .. missing + 1 : wait = Ceil(m, b)
  <2>1. ~(c.rate = 0 \/ missing = 0)
    BY <1>1
  <2> HIDE DEF b
  <2> QED
    BY <2>1 DEF TokenResets, b
<1>4. m \in Nat \ {0}
  <2> HIDE DEF missing
  <2> QED
    BY <1>1, <1>3 DEF Greater
<1> QED
  BY <1>2, <1>3, <1>4, CeilPositive

\* A bucket from which a second or more has passed, in whole seconds or more
\* than that, holds a token.
LEMMA SecondsPay ==
    ASSUME NEW c \in Configs, c.mode = "token", c.rate > 0, c.burst > 0, NEW b, b # NoBucket,
           b.ts \in Nat, b.tokens \in Nat, NEW then \in Nat, NEW wait \in Nat \ {0},
           then >= b.ts + wait * Second, NEW err \in Roundings(b, c, then)
    PROVE  Refilled(b, c, then, err) >= Token
<1> DEFINE past == wait * Second
           d == then - b.ts
           y == b.tokens
           f == Flow(c)
           exact == f * d + y
<1>1. /\ c.rate \in Nat \ {0} /\ c.burst \in Nat \ {0} /\ f \in Nat /\ Capacity(c) \in Nat
      /\ Second \in Nat \ {0} /\ Grain \in Nat \ {0} /\ Token \in Nat \ {0}
  BY ConfigFields, TimesNat
<1>2. past \in Nat /\ wait <= past
  <2>1. Second >= 1 /\ wait \in Nat
    BY <1>1
  <2>2. wait * 1 <= wait * Second
    BY <1>1, <2>1, ProductGrows
  <2> QED
    BY <1>1, <2>1, <2>2, ProductNat
<1>3. d \in Nat /\ past <= d
  <2> HIDE DEF past
  <2> QED
    BY <1>2 DEF past
<1>4. Elapsed(b, then) = d
  <2>1. Elapsed(b, then) = Greater(0, d)
    BY DEF Elapsed
  <2> HIDE DEF d
  <2> QED
    BY <1>3, <2>1 DEF Greater
<1>5. Earned(b, c, then) = f * d /\ Exact(b, c, then) = exact
  <2>1. Earned(b, c, then) = f * d
    BY <1>4 DEF Earned
  <2> HIDE DEF f, d
  <2> QED
    BY <2>1 DEF Exact
<1>6. Token <= f * past
  <2>1. 1 * Token <= (c.rate * wait) * Token
    <3>1. c.rate * wait \in Nat /\ 1 <= c.rate * wait
      <4>1. c.rate * 1 <= c.rate * wait
        BY <1>1, ProductGrows
      <4> QED
        BY <1>1, <4>1, ProductNat
    <3> DEFINE k == c.rate * wait
    <3> HIDE DEF k, Token
    <3>2. Token * 1 <= Token * k
      BY <1>1, <3>1, ProductGrows DEF k
    <3> QED
      BY <1>1, <3>1, <3>2 DEF k
  <2>2. (c.rate * wait) * Token = f * past
    <3> DEFINE rate == c.rate
    <3>1. rate \in Nat /\ wait \in Nat /\ Second \in Nat /\ Grain \in Nat
      BY <1>1
    <3> HIDE DEF rate
    <3>2. (rate * wait) * (Second * Grain) = (rate * Grain) * (wait * Second)
      BY <3>1
    <3> QED
      BY <3>2 DEF rate, Token, Flow
  <2> QED
    BY <1>1, <2>1, <2>2
<1>7. err \in {-1, 0, 1}
  BY DEF Roundings, TokenRoundings
<1>8. exact \in Nat
  <2> HIDE DEF f, d, y
  <2>1. f * d \in Nat
    BY <1>1, <1>3, ProductNat
  <2> QED
    BY <2>1 DEF y
<1>9. exact + err >= Token
  <2>1. CASE d = past
    <3>1. exact >= Token
      <4> DEFINE A == f * past
      <4>1. A \in Nat /\ Token <= A /\ exact = A + y /\ y \in Nat
        BY <1>1, <1>2, <1>6, <2>1, ProductNat
      <4> HIDE DEF A, exact, y, Token
      <4> QED
        BY <1>1, <4>1
    <3>2. \E k \in 0 .. Elapsed(b, then) : Elapsed(b, then) = k * Second
      <4>1. wait \in 0 .. d
        BY <1>2, <1>3, <2>1
      <4> QED
        BY <1>4, <2>1, <4>1
    <3>3. \A n \in 0 .. c.burst : exact >= n * Token => exact + err >= n * Token
      <4> HIDE DEF exact
      <4> QED
        BY <1>5, <3>2 DEF Roundings, TokenRoundings
    <3>4. 1 \in 0 .. c.burst /\ 1 * Token = Token
      BY <1>1
    <3> HIDE DEF exact, Token
    <3> QED
      BY <3>1, <3>3, <3>4
  <2>2. CASE d # past
    <3>1. f \in Nat \ {0}
      BY <1>1 DEF Flow
    <3>2. f * (past + 1) <= f * d /\ f * (past + 1) = f * past + f
      <4> HIDE DEF f, past, d
      <4>1. past + 1 <= d
        BY <1>2, <1>3, <2>2
      <4>2. f * (past + 1) = f * past + f * 1
        BY <1>2, <3>1, ProductSplits
      <4> QED
        BY <1>1, <1>2, <1>3, <3>1, <4>1, <4>2, ProductGrows
    <3> DEFINE A == f * past
               B == f * d
    <3>3. A \in Nat /\ B \in Nat /\ Token <= A /\ A + f <= B /\ exact = B + y /\ y \in Nat
      BY <1>1, <1>2, <1>3, <1>6, <3>2, ProductNat
    <3> HIDE DEF A, B, exact, f, y, Token
    <3> QED
      BY <1>1, <1>7, <3>1, <3>3
  <2> QED
    BY <2>1, <2>2
<1>10. Capacity(c) >= Token
  <2>1. Token * 1 <= Token * c.burst
    <3> HIDE DEF Token
    <3> QED
      BY <1>1, ProductGrows
  <2>2. Capacity(c) = Token * c.burst
    <3> HIDE DEF Token
    <3> QED
      BY <1>1 DEF Capacity
  <2> HIDE DEF Token
  <2> QED
    BY <1>1, <2>1, <2>2
<1>11. Refilled(b, c, then, err) = Lesser(Capacity(c), exact + err)
  <2> HIDE DEF exact
  <2> QED
    BY <1>5 DEF Refilled
<1> HIDE DEF exact
<1> QED
  BY <1>9, <1>10, <1>11 DEF Lesser

(***************************************************************************)
(* Retry-After suffices in every step.                                     *)
(***************************************************************************)
LEMMA WaitSteps ==
    ASSUME Sound, TypeOK', [Next]_vars, NEW r \in Requests
    PROVE  ServedAfterWait(r)
<1> USE DEF Sound
<1> DEFINE c == req[r].cfg
           now == req[r].now
<1> SUFFICES ASSUME Refuses(r), c.rate > 0, c.mode = "sliding" \/ c.burst > 0,
                    NEW err \in Roundings(bucket, c, now),
                    NEW result, result = Script(bucket, c, now, req[r].tag, err),
                    result.bucket = bucket', NEW wait \in result.resets,
                    NEW then, then = clock + wait * Second,
                    NEW tag \in Tags, NEW e \in Roundings(bucket', c, then)
             PROVE  Script(bucket', c, then, tag, e).allowed
  BY DEF ServedAfterWait
<1>1. RunScript(r) /\ req'[r].pc = "refused" /\ "idle" # "refused"
  BY RefusedByScript DEF Refuses
<1>2. /\ c \in Configs /\ now \in Times /\ now \in Nat /\ clock \in Nat
      /\ now <= clock /\ clock' = clock /\ Second \in Nat \ {0} /\ Token \in Nat \ {0}
  <2>1. c \in Configs /\ now \in Times /\ now <= clock /\ clock' = clock
    BY <1>1, Decides
  <2> QED
    BY <2>1, TimesNat, HistoryFields
<1>3. /\ c.mode \in {"token", "sliding"} /\ c.rate \in Nat \ {0} /\ c.window \in Nat
      /\ c.burst \in Nat /\ Capacity(c) \in Nat
  BY <1>2, ConfigFields
<1>4. CASE c.mode = "sliding"
  <2> DEFINE q == Ceil(c.window, Second)
             y == wait * Second
             w == c.window
  <2>1. wait = q
    BY <1>4, Answers
  <2>2. q \in Nat /\ w <= Second * q
    BY <1>2, <1>3, CeilRoundsUp
  <2>3. y \in Nat /\ w <= y /\ then = clock + y
    <3> HIDE DEF q, w
    <3>1. wait * Second = Second * q
      BY <1>2, <2>1, <2>2
    <3> QED
      BY <1>2, <2>1, <2>2, <3>1, ProductNat
  <2>4. bucket'.kind = "none" \/ (bucket'.kind = "zset" /\ bucket' # NoBucket)
    <3>1. bucket'.kind \in {"none", "zset"}
      BY <1>1, <1>4, SlidingRun DEF SlidingRan
    <3>2. bucket'.kind = "zset" => bucket' # NoBucket
      BY DEF NoBucket
    <3> QED
      BY <3>1, <3>2
  <2>5. bucket'.kind = "none" => bucket' = NoBucket
    BY <1>1, <1>4, SlidingRun DEF SlidingRan
  <2>6. bucket'.kind = "zset" => \A m \in bucket'.members : m.score \in 0 .. clock
    BY <1>2 DEF TypeOK, NoBucket
  <2>7. InWindow(bucket', c, then) = {}
    <3>1. \A k \in 0 .. clock : ~(k > then - w)
      <4> HIDE DEF y, w
      <4> QED
        BY <1>2, <1>3, <2>3 DEF w
    <3>2. bucket'.kind = "zset" => \A m \in bucket'.members : ~(m.score > then - w)
      <4> HIDE DEF w
      <4> QED
        BY <2>6, <3>1
    <3> QED
      BY <2>4, <2>5, <3>2 DEF InWindow
  <2>8. Cardinality(InWindow(bucket', c, then)) < c.rate
    BY <1>3, <2>7, FS_EmptySet
  <2> QED
    BY <1>4, <2>8, Answers
<1>5. CASE c.mode = "token"
  <2>1. PICK err0, x : TokenRan(r, err0, x)
    BY <1>1, <1>5, TokenRun
  <2>2. /\ x \in 0 .. Capacity(c) /\ ~(x >= Token) /\ bucket'.kind = "hash"
        /\ bucket'.tokens = x /\ bucket'.ts = now
    BY <1>1, <2>1 DEF TokenRan, Refill, Answered
  <2>3. x \in Nat /\ x < Capacity(c)
    <3>1. c.burst \in Nat \ {0}
      BY <1>3, <1>5
    <3>2. Token * 1 <= Token * c.burst /\ Capacity(c) = Token * c.burst
      <4> HIDE DEF Token, c
      <4>1. Token * 1 <= Token * c.burst
        BY <1>2, <3>1, ProductGrows
      <4>2. Capacity(c) = Token * c.burst
        BY <1>2, <3>1 DEF Capacity
      <4> QED
        BY <4>1, <4>2
    <3> HIDE DEF Token
    <3>3. Token <= Capacity(c)
      BY <1>2, <3>2
    <3> QED
      BY <1>2, <1>3, <2>2, <3>3
  <2>4. wait \in TokenResets(c, x)
    BY <1>5, <2>2, Answers
  <2>5. wait \in Nat \ {0}
    BY <1>2, <1>3, <2>3, <2>4, WaitsAreWhole
  <2> DEFINE past == wait * Second
  <2>6. past \in Nat
    BY <1>2, <2>5, ProductNat
  <2>7. then \in Nat /\ then >= now + past
    <3>1. then = clock + past
      OBVIOUS
    <3> HIDE DEF past, now
    <3> QED
      BY <1>2, <2>6, <3>1
  <2>8. bucket' # NoBucket /\ bucket'.ts \in Nat /\ bucket'.tokens \in Nat
    BY <1>2, <2>2, <2>3 DEF NoBucket
  <2>9. then >= bucket'.ts + wait * Second
    BY <2>2, <2>7
  <2>10. c.burst > 0
    BY <1>5
  <2>11. Refilled(bucket', c, then, e) >= Token
    <3> HIDE DEF c
    <3> QED
      BY <1>2, <1>3, <1>5, <2>5, <2>7, <2>8, <2>9, <2>10, SecondsPay DEF c
  <2>12. c.mode # "sliding"
    BY <1>5
  <2> QED
    BY <2>11, <2>12, Answers
<1> QED
  BY <1>3, <1>4, <1>5

-----------------------------------------------------------------------------
(* The theorems.                                                           *)

\* The first state: no bucket, no request under way, nothing let through.
LEMMA Beginning ==
    ASSUME Init
    PROVE  Sound /\ TokenInv /\ TokenMath /\ WindowInv /\ WindowMath /\ NothingLost
<1>1. /\ bucket = NoBucket /\ clock = 0 /\ regime = "fresh"
      /\ req = [r \in Requests |-> Ended("idle")] /\ grants = NoGrants(0)
      /\ config \in {Unset} \cup {Normalise(c) : c \in Inputs}
  BY DEF Init
<1>2. bucket.kind = "none" /\ Members = {} /\ InFlight = {}
  BY <1>1 DEF InFlight, Members, NoBucket, Ended
<1>3. /\ \A s \in Times : /\ grants.since[s] = 0 /\ grants.extra[s] = 0
                          /\ grants.lost[s] = 0
      /\ grants.from = 0 /\ grants.open = 0
      /\ grants.since \in [Times -> Nat] /\ grants.extra \in [Times -> Nat]
      /\ grants.lost \in [Times -> Nat]
  BY <1>1 DEF NoGrants, None
<1>4. TypeOK
  <2>1. req \in [Requests -> {Ended(pc) : pc \in IdlePcs} \cup Requesting \cup Stamped]
    BY <1>1 DEF IdlePcs
  <2>2. clock \in Times /\ config \in {Unset} \cup Configs
    BY <1>1, TimesNat DEF Configs
  <2>3. grants \in [since : [Times -> Nat], extra : [Times -> Nat], lost : [Times -> Nat],
                    from : 0 .. clock, open : 0 .. clock + 1]
    <3>1. None \in [Times -> Nat] /\ 0 \in 0 .. 0 /\ 0 \in 0 .. 0 + 1
      BY DEF None
    <3> QED
      BY <1>1, <3>1 DEF NoGrants
  <2> QED
    BY <1>1, <2>1, <2>2, <2>3 DEF TypeOK
<1>5. MembersFinite
  BY <1>2, FS_EmptySet DEF MembersFinite
<1>6. Sound
  BY <1>2, <1>3, <1>4, <1>5
     DEF Sound, StampsOK, Alive, Foreign, Opens, GrantsPast, Own
<1>7. GetConfig \in Configs /\ Capacity(GetConfig) \in Nat /\ Flow(GetConfig) \in Nat
      /\ GetConfig.rate \in Nat /\ GetConfig.window \in Nat
  BY <1>4, ConfigInForce, ConfigFields
<1>8. \A s \in Times : \A e \in s .. MaxTime : Between(s, e) = 0
  BY <1>3, <1>4, BetweenTyped DEF Between
<1>9. \A a \in Times : Cardinality(From(Members, a)) = 0
  <2>1. \A a \in Times : From({}, a) = {}
    BY DEF From
  <2> QED
    BY <1>2, <2>1, FS_EmptySet
<1>10. TokenInv
  BY <1>3 DEF TokenInv
<1>11. WindowInv
  BY <1>2, <1>3, <1>9 DEF WindowInv, OpenHeld, Held, OutlivesWindow
<1>12. NothingLost
  BY <1>2, <1>3, <1>9 DEF NothingLost, Declines
<1>13. TokenMath
  <2> SUFFICES ASSUME NEW s \in Times, NEW e \in s .. MaxTime
               PROVE  Between(s, e) * Token
                        <= Capacity(GetConfig) + Flow(GetConfig) * (e - s) + grants.extra[s]
    BY DEF TokenMath
  <2>1. e - s \in Nat /\ Token \in Nat
    BY <1>4, BetweenTyped, TimesNat
  <2>2. Flow(GetConfig) * (e - s) \in Nat
    BY <1>7, <2>1, ProductNat
  <2> QED
    BY <1>3, <1>7, <1>8, <2>1, <2>2
<1>14. WindowMath
  <2> SUFFICES ASSUME GetConfig.window > MaxDelay, NEW s \in Times,
                      NEW e, e = Lesser(MaxTime, s + GetConfig.window - MaxDelay - 1)
               PROVE  Between(s, e) <= GetConfig.rate + grants.extra[s]
    BY DEF WindowMath
  <2>1. e \in s .. MaxTime
    <3> DEFINE w == GetConfig.window
    <3>1. w \in Nat /\ w > MaxDelay /\ MaxDelay \in Nat
      BY <1>7, TimesNat
    <3>2. s \in Nat /\ s <= MaxTime /\ MaxTime \in Nat
      BY TimesNat DEF Times
    <3> HIDE DEF w
    <3>3. Lesser(MaxTime, s + w - MaxDelay - 1) \in s .. MaxTime
      BY <3>1, <3>2 DEF Lesser
    <3> QED
      BY <3>3 DEF w
  <2> QED
    BY <1>3, <1>7, <1>8, <2>1
<1> QED
  BY <1>6, <1>10, <1>11, <1>12, <1>13, <1>14

\* Sound is inductive.
LEMMA SoundInductive == Sound /\ [Next]_vars => Sound'
  BY TypeInductive, StampsInductive, LifeInductive, FiniteInductive DEF Sound

(***************************************************************************)
(* Every state the limiter reaches is well typed: no script leaves more    *)
(* tokens than some burst, or anything stamped after the present.          *)
(***************************************************************************)
THEOREM LimiterTypes == Spec => []TypeOK
<1>1. Init => Sound
  BY Beginning
<1>2. Sound => TypeOK
  BY DEF Sound
<1> QED
  BY <1>1, <1>2, SoundInductive, PTL DEF Spec

(***************************************************************************)
(* The token bucket keeps its limit over every interval, in whatever order *)
(* requests reach Redis and however the script rounds, but for what it     *)
(* refills twice or rounds up.                                             *)
(***************************************************************************)
THEOREM TokenLimitHolds == Spec => []TokenMath
<1> DEFINE Inv == Sound /\ TokenInv /\ TokenMath
<1>1. Init => Inv
  BY Beginning
<1>2. Inv /\ [Next]_vars => Inv'
  <2> SUFFICES ASSUME Inv, [Next]_vars PROVE Inv'
    OBVIOUS
  <2>1. Sound'
    BY SoundInductive
  <2> QED
    BY <2>1, TokenInductive DEF Sound
<1>3. Inv => TokenMath
  OBVIOUS
<1> QED
  BY <1>1, <1>2, <1>3, PTL DEF Spec

(***************************************************************************)
(* The sliding window keeps its limit over every span, in whatever order   *)
(* requests reach Redis and whichever members they draw, but for those     *)
(* that two requests share.                                                *)
(***************************************************************************)
THEOREM WindowLimitHolds == Spec => []WindowMath
<1> DEFINE Inv == Sound /\ WindowInv /\ WindowMath
<1>1. Init => Inv
  BY Beginning
<1>2. Inv /\ [Next]_vars => Inv'
  <2> SUFFICES ASSUME Inv, [Next]_vars PROVE Inv'
    OBVIOUS
  <2>1. Sound'
    BY SoundInductive
  <2> QED
    BY <2>1, WindowInductive
<1>3. Inv => WindowMath
  OBVIOUS
<1> QED
  BY <1>1, <1>2, <1>3, PTL DEF Spec

(***************************************************************************)
(* A request is refused only when the limit is used up, in whatever order  *)
(* requests reach Redis, but for what refills were rounded down.           *)
(***************************************************************************)
THEOREM NoUnfairRefusal == Spec => RefusalsAreFair
<1> DEFINE Inv == Sound /\ NothingLost
           Step == \A r \in Requests : FairlyRefused(r)
<1>1. Init => Inv
  BY Beginning
<1>2. Inv /\ [Next]_vars => Inv' /\ [Step]_vars
  <2> SUFFICES ASSUME Inv, [Next]_vars PROVE Inv' /\ Step
    OBVIOUS
  <2>1. Sound'
    BY SoundInductive
  <2>2. NothingLost'
    BY <2>1, FairInductive DEF Sound
  <2>3. Step
    BY FairSteps
  <2> QED
    BY <2>1, <2>2, <2>3
<1> QED
  BY <1>1, <1>2, PTL DEF Spec, RefusalsAreFair

(***************************************************************************)
(* A client that keeps to Retry-After is served, however the script rounds *)
(* and in whatever order requests reach Redis, if no other takes its place.*)
(***************************************************************************)
THEOREM RetryAfterIsEnough == Spec => RetryAfterSuffices
<1> DEFINE Step == \A r \in Requests : ServedAfterWait(r)
<1>1. Init => Sound
  BY Beginning
<1>2. Sound /\ [Next]_vars => Sound' /\ [Step]_vars
  <2> SUFFICES ASSUME Sound, [Next]_vars PROVE Sound' /\ Step
    OBVIOUS
  <2>1. Sound'
    BY SoundInductive
  <2> QED
    BY <2>1, WaitSteps DEF Sound
<1> QED
  BY <1>1, <1>2, PTL DEF Spec, RetryAfterSuffices

=============================================================================
