---------------------------- MODULE RateLimiter -----------------------------
(***************************************************************************)
(* The rate limiter as one API key sees it (keys share nothing): the       *)
(* stored configuration, the bucket in Redis, the request goroutines that  *)
(* pass the middleware, and the administrator who changes the limit.       *)
(*                                                                         *)
(* Time is counted in milliseconds, Second of them to the second.  The     *)
(* script counts tokens in floating point: their unit here is the largest  *)
(* error that one refill can make, and at a rate of one token per second a *)
(* millisecond refills Grain of them.  A script is one step, as Redis runs *)
(* it; reading the configuration, taking the time stamp and running the    *)
(* script are three, and scripts run in any order, whatever their stamps.  *)
(***************************************************************************)
EXTENDS Integers, FiniteSets

CONSTANTS
    Requests,        \* request goroutines that carry the key
    Inputs,          \* bodies the administrator may send
    Default,         \* the limiter's default configuration
    Unset,           \* no configuration is stored for the key
    Second,          \* milliseconds in a second
    MaxTime,         \* bound: the last millisecond of a behaviour
    MaxGrants,       \* bound: requests let through under one configuration
    MaxDelay,        \* how long a stamped request may be under way to Redis
    Grain,           \* tokens: the refill of a millisecond at rate one
    Tags             \* what a request may find in the limiter's counter

Times == 0 .. MaxTime
Token == Second * Grain

IsConfig(c) ==
    /\ DOMAIN c = {"mode", "rate", "burst", "window"}
    /\ c.mode \in {"", "token", "sliding"}
    /\ {c.rate, c.burst, c.window} \subseteq Nat

ASSUME RateLimiterAssumption ==
    /\ \A c \in Inputs \cup {Default} : IsConfig(c)
    /\ Default.mode = "token"
    /\ Unset \notin Inputs \cup {Default}
    /\ Second \in Nat \ {0}
    /\ MaxTime \in Nat
    /\ MaxGrants \in Nat
    /\ MaxDelay \in Nat
    /\ Grain \in Nat \ {0}
    /\ Tags # {}

VARIABLES
    config,  \* what is stored under rlcfg:key
    bucket,  \* what is stored under rlbucket:key
    clock,   \* the time, in milliseconds
    req,     \* each request's program counter and local values
    grants,  \* history: what the current configuration has let through
    regime   \* history: how the configuration has changed so far

vars == <<config, bucket, clock, req, grants, regime>>

-----------------------------------------------------------------------------
(* Configurations.  They are stored as JSON, which keeps every field.      *)

Normalise(c) == [c EXCEPT !.mode = IF @ = "" THEN "token" ELSE @,
                          !.window = IF @ = 0 THEN Second ELSE @]

Configs == {Default} \cup {Normalise(c) : c \in Inputs}

GetConfig == IF config = Unset THEN Default ELSE config

-----------------------------------------------------------------------------
(* The scripts.                                                            *)

Ceil(a, b) == (a + b - 1) \div b

Lesser(a, b) == IF a < b THEN a ELSE b
Greater(a, b) == IF a < b THEN b ELSE a

NoBucket == [kind |-> "none"]

Capacity(c) == c.burst * Token

\* What a millisecond refills.
Flow(c) == c.rate * Grain

\* Fault: the bucket is credited for whole seconds only.
ElapsedWholeSeconds(b, now) ==
    IF b = NoBucket THEN 0 ELSE (Greater(0, now - b.ts) \div Second) * Second

Elapsed(b, now) == IF b = NoBucket THEN 0 ELSE Greater(0, now - b.ts)

Earned(b, c, now) == Flow(c) * Elapsed(b, now)

\* What the bucket would hold if the script reckoned exactly.
Exact(b, c, now) ==
    Earned(b, c, now) + (IF b = NoBucket THEN Capacity(c) ELSE b.tokens)

\* Errors of a refill.  Nothing is added without one; what a whole number of
\* seconds earns is a whole number, and rounding takes no sum of doubles past
\* a whole number of tokens.
TokenRoundings(b, c, now) ==
    LET exact == Exact(b, c, now) IN
    {err \in {-1, 0, 1} :
       /\ Earned(b, c, now) = 0 => err = 0
       /\ (\E k \in 0 .. Elapsed(b, now) : Elapsed(b, now) = k * Second) =>
            \A n \in 0 .. c.burst :
               exact >= n * Token => exact + err >= n * Token}

Roundings(b, c, now) ==
    IF c.mode = "sliding" THEN {0} ELSE TokenRoundings(b, c, now)

\* Fault: the bucket is not capped at its burst.
RefilledUncapped(b, c, now, err) == Exact(b, c, now) + err

Refilled(b, c, now, err) == Lesser(Capacity(c), Exact(b, c, now) + err)

\* Fault: the key expires as soon as the bucket would be full again.
TokenTtlNoSlack(c) ==
    IF c.rate > 0 THEN Ceil(c.burst * Second, c.rate) ELSE Second

TokenTtl(c) ==
    IF c.rate > 0 THEN Ceil(c.burst * Second, c.rate) + Second ELSE Second

\* Fault: the wait is rounded down.
TokenResetsFloor(c, tokens) ==
    IF c.rate > 0 THEN {(Capacity(c) - tokens) \div (c.rate * Token)} ELSE {0}

\* The seconds until the bucket is full: the difference is rounded too, but
\* is zero for a full bucket only.
TokenResets(c, tokens) ==
    LET missing == Capacity(c) - tokens IN
    IF c.rate = 0 \/ missing = 0
      THEN {0}
      ELSE {Ceil(m, c.rate * Token) :
              m \in Greater(1, missing - 1) .. missing + 1}

TokenBucket(b, c, now, err) ==
    LET refilled == Refilled(b, c, now, err)
        allowed  == refilled >= Token
        tokens   == IF allowed THEN refilled - Token ELSE refilled
    IN  [allowed |-> allowed,
         resets  |-> TokenResets(c, tokens),
         bucket  |-> [kind |-> "hash", tokens |-> tokens, ts |-> now,
                      expires |-> clock + TokenTtl(c)]]

InWindow(b, c, now) ==
    IF b = NoBucket THEN {}
    ELSE {m \in b.members : m.score > now - c.window}

\* Fault: the window takes one request more than its limit.
HasRoomOffByOne(count, limit) == count <= limit

HasRoom(count, limit) == count < limit

SlidingWindow(b, c, now, tag) ==
    LET kept    == InWindow(b, c, now)
        allowed == HasRoom(Cardinality(kept), c.rate)
        members == IF allowed THEN kept \cup {[score |-> now, tag |-> tag]}
                              ELSE kept
    IN  [allowed |-> allowed,
         resets  |-> {Ceil(c.window, Second)},
         bucket  |-> IF members = {} THEN NoBucket
                     ELSE [kind |-> "zset", members |-> members,
                           expires |-> clock + c.window]]

Kind(c) == IF c.mode = "sliding" THEN "zset" ELSE "hash"

Ttl(c) == IF c.mode = "sliding" THEN c.window ELSE TokenTtl(c)

Script(b, c, now, tag, err) ==
    IF c.mode = "sliding" THEN SlidingWindow(b, c, now, tag)
                          ELSE TokenBucket(b, c, now, err)

-----------------------------------------------------------------------------
(* The state.                                                              *)

IdlePcs == {"idle", "refused"}

Ended(pc) == [pc |-> pc]

Requesting == [pc : {"config"}, cfg : Configs]
Stamped == [pc : {"stamped"}, cfg : Configs, now : Times, tag : Tags]

None == [s \in Times |-> 0]

NoGrants(t) ==
    [since |-> None,  \* requests let through with this stamp or a later one
     extra |-> None,  \* what they got beyond the limit, see Surplus
     lost  |-> None,  \* refills rounded down, by stamp
     from  |-> t,     \* when the configuration was set
     open  |-> 0]     \* the first stamp after those let through unchecked

Init ==
    /\ config \in {Unset} \cup {Normalise(c) : c \in Inputs}
    /\ bucket = NoBucket
    /\ clock = 0
    /\ req = [r \in Requests |-> Ended("idle")]
    /\ grants = NoGrants(0)
    /\ regime = "fresh"

-----------------------------------------------------------------------------
(* A request in the middleware.                                            *)

ReadConfig(r) ==
    /\ req[r].pc \in IdlePcs
    /\ req' = [req EXCEPT ![r] = [pc |-> "config", cfg |-> GetConfig]]
    /\ UNCHANGED <<config, bucket, clock, grants, regime>>

InFlight == {r \in Requests : req[r].pc = "stamped"}

\* What a request finds in the counter; token mode does not look.
Drawn(c) == IF c.mode = "sliding" THEN Tags ELSE {CHOOSE t \in Tags : TRUE}

\* The counter is bumped without a lock and every process has its own: two
\* requests of the same millisecond may draw the same number.
Stamp(r) ==
    /\ req[r].pc = "config"
    /\ grants.since[0] < MaxGrants
    /\ \E tag \in Drawn(req[r].cfg) :
         req' = [req EXCEPT ![r] = [pc |-> "stamped", cfg |-> @.cfg,
                                    now |-> clock, tag |-> tag]]
    /\ UNCHANGED <<config, bucket, clock, grants, regime>>

\* One more in every entry of counts that stands for now.
Counted(counts, now) ==
    [s \in Times |-> IF s <= now THEN counts[s] + 1 ELSE counts[s]]

\* History: what this run of the script gives beyond the limit.  In token
\* mode, what is refilled for a second time because a script with a later
\* stamp ran before (or because the key expired while the request was under
\* way), and an error of the refill; in sliding mode, a request whose member
\* is in the window already and is not counted again.
Surplus(b, c, now, tag, err) ==
    IF c.mode = "sliding"
      THEN IF /\ [score |-> now, tag |-> tag] \in InWindow(b, c, now)
              /\ Script(b, c, now, tag, err).allowed
             THEN 1 ELSE 0
      ELSE LET since == IF b = NoBucket THEN clock - Second ELSE b.ts
           IN  Greater(0, err) + Flow(c) * Greater(0, since - now)

Recorded(g, q, err) ==
    [g EXCEPT
       !.since = IF Script(bucket, q.cfg, q.now, q.tag, err).allowed
                   THEN Counted(@, q.now) ELSE @,
       !.extra = [s \in Times |->
                    IF g.since[s] > 0
                      THEN @[s] + Surplus(bucket, q.cfg, q.now, q.tag, err)
                      ELSE @[s]],
       !.lost = IF err < 0 /\ regime = "fresh" THEN Counted(@, q.now) ELSE @]

\* The history is given up once a request acts on another configuration.
Account(r, history) ==
    IF req[r].cfg = GetConfig
      THEN grants' = history /\ regime' = regime
      ELSE grants' = NoGrants(0) /\ regime' = "mixed"

\* Redis runs the script and the middleware acts on its answer.
RunScript(r) ==
    /\ req[r].pc = "stamped"
    /\ bucket.kind \in {"none", Kind(req[r].cfg)}
    /\ \E err \in Roundings(bucket, req[r].cfg, req[r].now) :
         LET q == req[r]
             result == Script(bucket, q.cfg, q.now, q.tag, err) IN
         /\ bucket' = result.bucket
         /\ req' = [req EXCEPT ![r] =
                      Ended(IF result.allowed THEN "idle" ELSE "refused")]
         /\ Account(r, Recorded(grants, q, err))
    /\ UNCHANGED <<config, clock>>

\* The bucket is of the other mode's type: the script fails before it writes
\* anything, and the middleware lets the request through.
WrongType(r) ==
    /\ req[r].pc = "stamped"
    /\ bucket.kind \notin {"none", Kind(req[r].cfg)}
    /\ req' = [req EXCEPT ![r] = Ended("idle")]
    /\ Account(r, [grants EXCEPT !.since = Counted(@, req[r].now),
                                 !.open = Greater(@, req[r].now + 1)])
    /\ UNCHANGED <<config, bucket, clock>>

\* Redis cannot be reached, from GetConfig or from the script's call: the
\* middleware lets the request through.
FailOpen(r) ==
    /\ req[r].pc \in {"config", "stamped"}
    /\ req' = [req EXCEPT ![r] = Ended("idle")]
    /\ UNCHANGED <<config, bucket, clock, grants, regime>>

-----------------------------------------------------------------------------
(* The administrator and the clock.                                        *)

SetConfig(c) ==
    /\ config' = Normalise(c)
    /\ grants' = NoGrants(clock)
    /\ regime' = "changed"
    /\ UNCHANGED <<bucket, clock, req>>

\* Redis drops a key whose time to live is over.
Tick ==
    /\ clock < MaxTime
    /\ \A r \in InFlight : clock - req[r].now < MaxDelay
    /\ clock' = clock + 1
    /\ bucket' = IF bucket # NoBucket /\ clock' > bucket.expires
                   THEN NoBucket ELSE bucket
    /\ UNCHANGED <<config, req, grants, regime>>

Next ==
    \/ \E r \in Requests : \/ ReadConfig(r) \/ Stamp(r) \/ RunScript(r)
                           \/ WrongType(r) \/ FailOpen(r)
    \/ \E c \in Inputs : SetConfig(c)
    \/ Tick

Spec == Init /\ [][Next]_vars

-----------------------------------------------------------------------------
(* Properties.                                                             *)

\* The key holds a bucket of one of the two types, with no more tokens than
\* some configuration's burst; a request past GetConfig has a configuration
\* of its own.
TypeOK ==
    /\ config \in {Unset} \cup Configs
    /\ clock \in Times
    /\ \/ bucket = NoBucket
       \/ /\ bucket.kind = "hash"
          /\ bucket.expires \in Nat
          /\ bucket.ts \in 0 .. clock
          /\ \E c \in Configs : bucket.tokens \in 0 .. Capacity(c)
       \/ /\ bucket.kind = "zset"
          /\ bucket.expires \in Nat
          /\ bucket.members \subseteq [score : 0 .. clock, tag : Tags]
    /\ req \in [Requests -> {Ended(pc) : pc \in IdlePcs}
                              \cup Requesting \cup Stamped]
    /\ grants \in [since : [Times -> Nat], extra : [Times -> Nat],
                   lost : [Times -> Nat],
                   from : 0 .. clock, open : 0 .. clock + 1]
    /\ regime \in {"fresh", "changed", "mixed"}

\* Requests let through with a stamp from s to e.
Between(s, e) ==
    grants.since[s] - (IF e < MaxTime THEN grants.since[e + 1] ELSE 0)

\* From s on the script has decided on every request: the middleware lets
\* requests through unchecked while the bucket is of the mode before, and such
\* a bucket expires.
Checked(s) ==
    \/ s >= grants.open
    \/ \A c \in Configs : s > grants.from + Ttl(c)

\* Token mode lets no more than burst + rate * t requests through in any t
\* seconds, however many run at once and whenever the key expires, but for
\* what scripts that run out of the order of their stamps refill twice and
\* what a refill is rounded up (extra).  This is as long as every script ran
\* with the configuration in force, for requests that Redis answered; a rate
\* of zero is excepted, as such a bucket is full again when its key expires.
TokenMath ==
    (regime # "mixed" /\ GetConfig.mode = "token" /\ GetConfig.rate > 0) =>
        \A s \in Times : Checked(s) =>
            \A e \in s .. MaxTime :
              Between(s, e) * Token
                <= Capacity(GetConfig) + Flow(GetConfig) * (e - s)
                     + grants.extra[s]

\* Sliding mode lets no more than its limit through in one window, less the
\* time for which a request may be under way after its stamp (if that is less
\* than the window): a script that overtakes another drops members from the
\* other's window.  A request whose member another one has drawn too goes
\* uncounted (extra).
WindowMath ==
    (/\ regime # "mixed"
     /\ GetConfig.mode = "sliding"
     /\ GetConfig.window > MaxDelay) =>
        \A s \in Times :
            LET e == Lesser(MaxTime, s + GetConfig.window - MaxDelay - 1)
            IN  Checked(s) => Between(s, e) <= GetConfig.rate + grants.extra[s]

Refuses(r) == req[r].pc = "stamped" /\ req'[r].pc = "refused"

\* If the answer to r is a refusal, one more request would have broken the
\* limit over some interval up to its stamp.
FairlyRefused(r) ==
    LET c == req[r].cfg
        now == req[r].now
    IN  (Refuses(r) /\ regime' = "fresh") =>
          IF c.mode = "sliding"
            THEN grants'.since[Greater(0, now - c.window + 1)] >= c.rate
            ELSE \E s \in 0 .. now :
                   (grants'.since[s] + 1) * Token + grants'.lost[s]
                     > Capacity(c) + Flow(c) * (now - s)

\* A request is refused only if one more, with those let through so far, would
\* have broken the limit over some interval up to its own stamp, but for what
\* the refills of that interval were rounded down: no token is lost to a
\* refusal, to an expiry or to scripts that run out of order.
RefusalsAreFair == [][\A r \in Requests : FairlyRefused(r)]_vars

\* If the answer to r is a refusal, the script would serve the client when
\* the seconds of Retry-After are over, however it rounds.
ServedAfterWait(r) ==
    LET c == req[r].cfg
        now == req[r].now
        serves == c.rate > 0 /\ (c.mode = "sliding" \/ c.burst > 0)
    IN  (Refuses(r) /\ serves) =>
          \A err \in Roundings(bucket, c, now) :
            LET result == Script(bucket, c, now, req[r].tag, err) IN
            result.bucket = bucket' =>
              \A wait \in result.resets :
                LET then == clock + wait * Second IN
                \A tag \in Tags, e \in Roundings(bucket', c, then) :
                  Script(bucket', c, then, tag, e).allowed

\* A refused client that stays away for the seconds of Retry-After finds the
\* bucket ready to serve it, if the limit serves anyone at all.
RetryAfterSuffices == [][\A r \in Requests : ServedAfterWait(r)]_vars

=============================================================================
