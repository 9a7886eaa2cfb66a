---------------------------- MODULE TradingProofs ---------------------------
(***************************************************************************)
(* Proofs about Trading, for every set of portfolios, orders, workers,     *)
(* clients, requests, prices and seeds, and every machine word size.       *)
(***************************************************************************)
EXTENDS Trading, TLAPS, WellFoundedInduction

-----------------------------------------------------------------------------
(* Sums over a stream.                                                     *)

Less == {ss \in Nat \X Nat : ss[1] < ss[2]}

(***************************************************************************)
(* Every non-empty set of naturals has a least element: the form of        *)
(* induction the lemmas below use, as the least counterexample.            *)
(***************************************************************************)
LEMMA NatMin ==
    ASSUME NEW T \in SUBSET Nat, T # {}
    PROVE  \E m \in T : \A n \in T : ~(n < m)
<1>1. IsWellFoundedOn(Less, Nat)
  BY NatLessThanWellFounded, Zenon DEF OpToRel, Less
<1>2. PICK m \in T : \A n \in T : ~(<<n, m>> \in Less)
  BY <1>1, WFMin, Zenon
<1>3. \A n \in T : ~(n < m)
  BY <1>2 DEF Less
<1> QED
  BY <1>3

\* f is the running total of the first n values of v.
IsSum(f, n, v) ==
    /\ f \in [0..n -> Int]
    /\ f[0] = 0
    /\ \A k \in 1..n : f[k] = f[k - 1] + v[k]

(***************************************************************************)
(* A running total can be extended by one value.                           *)
(***************************************************************************)
LEMMA SumExtends ==
    ASSUME NEW m \in Nat, m # 0, NEW v, v[m] \in Int,
           NEW f, IsSum(f, m - 1, v)
    PROVE  IsSum([k \in 0..m |-> IF k = m THEN f[m - 1] + v[m] ELSE f[k]], m, v)
<1> DEFINE g == [k \in 0..m |-> IF k = m THEN f[m - 1] + v[m] ELSE f[k]]
<1>1. g \in [0..m -> Int] /\ g[0] = 0
  BY DEF IsSum
<1>2. ASSUME NEW k \in 1..m PROVE g[k] = g[k - 1] + v[k]
  <2>1. CASE k = m
    BY <2>1 DEF IsSum
  <2>2. CASE k # m
    <3>1. k \in 1..(m - 1) /\ g[k] = f[k] /\ g[k - 1] = f[k - 1]
      BY <2>2
    <3> QED
      BY <3>1 DEF IsSum
  <2> QED
    BY <2>1, <2>2
<1> QED
  BY <1>1, <1>2 DEF IsSum

\* Every finite list of integers has a running total.
LEMMA SumExists ==
    ASSUME NEW n \in Nat, NEW v \in [1..n -> Int]
    PROVE  \E f : IsSum(f, n, v)
<1> DEFINE T == {m \in 0..n : ~ \E f : IsSum(f, m, v)}
<1>1. ASSUME T # {} PROVE FALSE
  <2>1. T \in SUBSET Nat
    OBVIOUS
  <2>2. PICK m \in T : \A k \in T : ~(k < m)
    <3> HIDE DEF T
    <3> QED
      BY <1>1, <2>1, NatMin, Zenon
  <2>3. m # 0
    <3>1. IsSum([k \in 0..0 |-> 0], 0, v)
      BY DEF IsSum
    <3> QED
      BY <3>1
  <2>4. m - 1 \in 0..n /\ m - 1 \notin T
    BY <2>2, <2>3
  <2>5. PICK f : IsSum(f, m - 1, v)
    BY <2>4
  <2>6. m \in Nat /\ v[m] \in Int
    BY <2>3
  <2>7. \E g : IsSum(g, m, v)
    <3> HIDE DEF T
    <3> QED
      BY <2>3, <2>5, <2>6, SumExtends
  <2> QED
    BY <2>7
<1>2. n \in 0..n
  OBVIOUS
<1> QED
  BY <1>1, <1>2

Values(s, i) == [k \in 1..Len(s) |-> Contribution(s[k], i)]

(***************************************************************************)
(* What an entry contributes is an integer.                                *)
(***************************************************************************)
LEMMA ContributionInt ==
    ASSUME NEW e \in Entry, NEW i PROVE Contribution(e, i) \in Int
<1>1. e.dir \in Int /\ e.qty \in Int
  BY DEF Entry, Amounts, MachineInt
<1> QED
  BY <1>1 DEF Contribution

(***************************************************************************)
(* Net is the last value of any running total of the contributions: the    *)
(* recursive definition in Net determines its value.                       *)
(***************************************************************************)
LEMMA NetIsSum ==
    ASSUME NEW s, Len(s) \in Nat, NEW i, NEW f, IsSum(f, Len(s), Values(s, i))
    PROVE  Net(s, i) = f[Len(s)]
<1> DEFINE rec(h) == h = [k \in 0..Len(s) |->
                            IF k = 0 THEN 0 ELSE h[k - 1] + Contribution(s[k], i)]
           total == CHOOSE h : rec(h)
<1>1. rec(f)
  BY DEF IsSum, Values
<1>2. rec(total)
  BY <1>1
<1> HIDE DEF total
<1>3. \A k \in 0..Len(s) : total[k] = f[k]
  <2> DEFINE T == {k \in 0..Len(s) : total[k] # f[k]}
  <2>1. ASSUME T # {} PROVE FALSE
    <3>1. T \in SUBSET Nat
      OBVIOUS
    <3>2. PICK m \in T : \A k \in T : ~(k < m)
      <4> HIDE DEF T
      <4> QED
        BY <2>1, <3>1, NatMin, Zenon
    <3>3. total[0] = f[0]
      BY <1>1, <1>2
    <3>4. m # 0 /\ m - 1 \in 0..Len(s) /\ m \in 0..Len(s)
      BY <3>2, <3>3
    <3>5. total[m - 1] = f[m - 1]
      BY <3>2, <3>4
    <3>6. total[m] = total[m - 1] + Contribution(s[m], i)
      BY <1>2, <3>4
    <3>7. f[m] = f[m - 1] + Contribution(s[m], i)
      BY <1>1, <3>4
    <3> QED
      BY <3>5, <3>6, <3>7
  <2> QED
    BY <2>1
<1>4. Net(s, i) = total[Len(s)]
  BY Zenon DEF Net, total
<1> QED
  BY <1>3, <1>4

(***************************************************************************)
(* Net of the empty stream, its type, and what an appended entry does.     *)
(***************************************************************************)
LEMMA NetEmpty == ASSUME NEW i PROVE Net(<<>>, i) = 0
<1>1. IsSum([k \in 0..0 |-> 0], Len(<<>>), Values(<<>>, i))
  BY DEF IsSum
<1> QED
  BY <1>1, NetIsSum

\* Appending an entry adds its contribution.
LEMMA NetAppend ==
    ASSUME NEW s \in Seq(Entry), NEW e \in Entry, NEW i
    PROVE  /\ Net(s, i) \in Int
           /\ Net(Append(s, e), i) = Net(s, i) + Contribution(e, i)
<1> DEFINE n == Len(s)
           t == Append(s, e)
           v == Values(s, i)
           u == Values(t, i)
<1>1. n \in Nat /\ Len(t) = n + 1
  OBVIOUS
<1>2. v \in [1..n -> Int]
  <2>1. \A k \in 1..n : s[k] \in Entry
    OBVIOUS
  <2> QED
    BY <2>1, ContributionInt DEF Values
<1>3. PICK f : IsSum(f, n, v)
  BY <1>1, <1>2, SumExists
<1>4. Net(s, i) = f[n]
  BY <1>1, <1>3, NetIsSum
<1>5. f[n] \in Int
  BY <1>1, <1>3 DEF IsSum
<1>6. \A k \in 1..n : u[k] = v[k]
  BY DEF Values
<1>7. u[n + 1] = Contribution(e, i)
  BY DEF Values
<1>8. IsSum(f, n, u)
  BY <1>3, <1>6 DEF IsSum
<1> DEFINE g == [k \in 0..(n + 1) |-> IF k = n + 1 THEN f[n] + u[n + 1] ELSE f[k]]
<1>9. IsSum(g, n + 1, u)
  <2>1. u[n + 1] \in Int
    BY <1>7, ContributionInt
  <2>2. n + 1 \in Nat /\ n + 1 # 0 /\ (n + 1) - 1 = n
    BY <1>1
  <2> HIDE DEF n, u
  <2> QED
    BY <1>8, <2>1, <2>2, SumExtends
<1>10. Net(t, i) = g[n + 1]
  BY <1>1, <1>9, NetIsSum
<1>11. g[n + 1] = f[n] + Contribution(e, i)
  BY <1>1, <1>7
<1> QED
  BY <1>4, <1>5, <1>10, <1>11

(***************************************************************************)
(* Net of a stream is an integer.                                          *)
(***************************************************************************)
LEMMA NetInt == ASSUME NEW s \in Seq(Entry), NEW i PROVE Net(s, i) \in Int
<1>1. Len(s) \in Nat /\ \A k \in 1..Len(s) : s[k] \in Entry
  OBVIOUS
<1>2. Values(s, i) \in [1..Len(s) -> Int]
  BY <1>1, ContributionInt DEF Values
<1>3. PICK f : IsSum(f, Len(s), Values(s, i))
  BY <1>1, <1>2, SumExists
<1>4. Net(s, i) = f[Len(s)]
  BY <1>1, <1>3, NetIsSum
<1>5. f[Len(s)] \in Int
  BY <1>1, <1>3 DEF IsSum
<1> QED
  BY <1>4, <1>5

(***************************************************************************)
(* The effect of the two legs of a trade.                                  *)
(***************************************************************************)
LEMMA NetLegs ==
    ASSUME NEW s \in Seq(Entry), NEW a \in Entry, NEW b \in Entry, NEW i
    PROVE  /\ s \o <<a, b>> \in Seq(Entry)
           /\ Net(s \o <<a, b>>, i)
                = Net(s, i) + Contribution(a, i) + Contribution(b, i)
<1>1. s \o <<a, b>> = Append(Append(s, a), b)
  OBVIOUS
<1>2. Append(s, a) \in Seq(Entry) /\ Append(Append(s, a), b) \in Seq(Entry)
  OBVIOUS
<1>3. Net(Append(s, a), i) = Net(s, i) + Contribution(a, i)
  BY NetAppend
<1>4. Net(Append(Append(s, a), b), i) = Net(Append(s, a), i) + Contribution(b, i)
  BY <1>2, NetAppend
<1>5. Net(s, i) \in Int /\ Contribution(a, i) \in Int /\ Contribution(b, i) \in Int
  BY NetInt, ContributionInt
<1> HIDE DEF Net
<1> QED
  BY <1>1, <1>2, <1>3, <1>4, <1>5

-----------------------------------------------------------------------------
(* Types.                                                                  *)

(***************************************************************************)
(* The machine word, and the fields of a request.                          *)
(***************************************************************************)
LEMMA WrapInt == ASSUME NEW x \in Int PROVE Wrap(x) \in MachineInt
<1>1. 2 * Half \in Nat /\ 2 * Half > 0 /\ x + Half \in Int
  BY TradingAssumption
<1>2. (x + Half) % (2 * Half) \in 0..(2 * Half - 1)
  BY <1>1
<1> QED
  BY <1>2, TradingAssumption DEF Wrap, MachineInt

\* The product of integers is an integer.
LEMMA ProductInt == ASSUME NEW a \in Int, NEW b \in Int PROVE a * b \in Int
OBVIOUS

\* The opposite of a direction is a direction.
LEMMA NegSigns == ASSUME NEW x \in {1, -1} PROVE -x \in {1, -1}
OBVIOUS

\* The directions of the two legs are directions.
LEMMA StockDirSigns ==
    ASSUME NEW r PROVE StockDir(r) \in {1, -1} /\ -StockDir(r) \in {1, -1}
<1>1. StockDir(r) \in {1, -1}
  BY DEF StockDir
<1>2. -StockDir(r) \in {1, -1}
  BY <1>1, NegSigns
<1> QED
  BY <1>1, <1>2

\* The machine words and the amounts among them.
LEMMA WordTypes ==
    /\ Half \in Nat \ {0}
    /\ 0 \in MachineInt /\ 0 \in Amounts
    /\ Amounts \subseteq MachineInt
    /\ MachineInt \subseteq Int
    /\ \A x \in MachineInt : x > 0 => x \in Amounts
BY TradingAssumption DEF MachineInt, Amounts

\* The fields of a request.
LEMMA RequestTypes ==
    ASSUME NEW r \in Requests
    PROVE  /\ r.portfolio \in Portfolios
           /\ r.inst \in Assets
           /\ r.qty \in MachineInt
           /\ r.limit \in MachineInt
BY TradingAssumption

\* The conjuncts of TypeOK by the variables they speak of.
OrdersOK ==
    /\ orders \in [Orders -> OrderRow]
    /\ \A o \in Orders : Placed(o) => Valid(orders[o].req)
                                     /\ orders[o].req \in Requests

ExecOK ==
    /\ exec \in [Workers -> ExecState]
    /\ \A w \in Workers : exec[w].pc # "idle" =>
          exec[w].order \in Orders /\ Placed(exec[w].order)

ClientOK ==
    /\ client \in [Clients -> ClientState]
    /\ \A c \in Clients :
          /\ client[c].pc = "insert" => client[c].req \in Requests
                                        /\ Valid(client[c].req)
          /\ client[c].pc = "cancel" => client[c].order \in Orders
                                        /\ Placed(client[c].order)

LedgerOK ==
    /\ opened \subseteq Portfolios
    /\ seqCounter \in [Portfolios -> Nat]
    /\ entries \in [Portfolios -> Seq(Entry)]
    /\ settleJobs \subseteq Orders
    /\ lock \in [Portfolios -> Workers \cup {Free}]
    /\ conflicts \subseteq Keys
    /\ snapshot \in [Portfolios -> View \cup {NoView}]
    /\ reader \in [Readers -> ReaderState]
    /\ clock \in 0..MaxClock

\* TypeOK is the conjunction of the parts above.
LEMMA TypeOKParts == TypeOK <=> OrdersOK /\ ExecOK /\ ClientOK /\ LedgerOK
BY DEF TypeOK, OrdersOK, ExecOK, ClientOK, LedgerOK

\* The program counters of a running ExecuteOrder.
Busy == {"reject", "begin", "lock", "ok", "err"} \cup InTx

(***************************************************************************)
(* The updates of a worker's local state.                                  *)
(***************************************************************************)
LEMMA ExecUpdates ==
    /\ IdleExec \in ExecState
    /\ \A o \in Orders, pc \in Busy,
          x \in MachineInt :
          [IdleExec EXCEPT !.pc = pc, !.order = o, !.price = x] \in ExecState
    /\ \A e \in ExecState, pc \in Busy :
          [e EXCEPT !.pc = pc] \in ExecState
    /\ \A e \in ExecState, pc \in Busy,
          t \in 0..MaxClock :
          [e EXCEPT !.pc = pc, !.at = t] \in ExecState
    /\ \A e \in ExecState, pc \in Busy,
          n \in Nat, h \in View :
          [e EXCEPT !.pc = pc, !.seq = n, !.hold = h] \in ExecState
<1> USE WordTypes, TradingAssumption DEF ExecState, IdleExec, Busy, InTx, View
<1>1. IdleExec \in ExecState
  OBVIOUS
<1> QED
  BY <1>1

\* Taking up an order keeps the workers' part.
LEMMA StartOK ==
    ASSUME ExecOK, NEW w \in Workers, NEW o \in Orders, Placed(o)',
           NEW pc \in Busy, NEW x \in MachineInt, Start(w, o, pc, x),
           \A q \in Orders : Placed(q) => Placed(q)'
    PROVE  ExecOK'
<1>1. exec' \in [Workers -> ExecState]
  BY ExecUpdates DEF ExecOK, Start, Busy
<1>2. ASSUME NEW v \in Workers, exec'[v].pc # "idle"
      PROVE  exec'[v].order \in Orders /\ Placed(exec[v].order)'
  <2>1. CASE v = w
    BY <2>1 DEF ExecOK, Start, IdleExec
  <2>2. CASE v # w
    BY <1>2, <2>2 DEF ExecOK, Start
  <2> QED
    BY <2>1, <2>2
<1> QED
  BY <1>1, <1>2 DEF ExecOK

\* A worker that goes on keeps its order; one that returns drops it.
LEMMA StepOK ==
    ASSUME ExecOK, NEW w \in Workers, NEW e \in ExecState,
           exec' = [exec EXCEPT ![w] = e],
           e.pc = "idle" \/ (exec[w].pc # "idle" /\ e.order = exec[w].order),
           \A q \in Orders : Placed(q) => Placed(q)'
    PROVE  ExecOK'
<1>1. exec' \in [Workers -> ExecState]
  BY DEF ExecOK
<1>2. ASSUME NEW v \in Workers, exec'[v].pc # "idle"
      PROVE  exec'[v].order \in Orders /\ Placed(exec[v].order)'
  BY <1>2 DEF ExecOK
<1> QED
  BY <1>1, <1>2 DEF ExecOK

\* Going on to the next statement keeps the workers' part.
LEMMA GotoOK ==
    ASSUME ExecOK, NEW w \in Workers, exec[w].pc # "idle", NEW pc \in Busy,
           ExecGoto(w, pc), \A q \in Orders : Placed(q) => Placed(q)'
    PROVE  ExecOK'
<1> DEFINE e == [exec[w] EXCEPT !.pc = pc]
<1>0. exec[w] \in ExecState
  BY DEF ExecOK
<1>1. e \in ExecState /\ e.order = exec[w].order
  <2>1. e \in ExecState
    BY <1>0, ExecUpdates DEF Busy
  <2>2. e.order = exec[w].order
    BY <1>0 DEF ExecState
  <2> QED
    BY <2>1, <2>2
<1>2. exec' = [exec EXCEPT ![w] = e]
  BY DEF ExecOK, ExecGoto
<1> HIDE DEF e
<1> QED
  BY <1>1, <1>2, StepOK

\* Returning from the handler keeps the workers' part.
LEMMA ReturnOK ==
    ASSUME ExecOK, NEW w \in Workers, exec' = [exec EXCEPT ![w] = IdleExec],
           \A q \in Orders : Placed(q) => Placed(q)'
    PROVE  ExecOK'
<1>1. IdleExec \in ExecState /\ IdleExec.pc = "idle"
  BY ExecUpdates DEF IdleExec
<1> QED
  BY <1>1, StepOK

(***************************************************************************)
(* The status updates keep the orders table well typed, and every order in *)
(* it; so the clients' part is kept by every step of a worker.             *)
(***************************************************************************)
Statuses == {"pending", "filled", "rejected", "cancelled", "settled"}

\* An update of a placed order's status keeps the orders' part.
LEMMA SetStatusOK ==
    ASSUME OrdersOK, NEW o \in Orders, Placed(o), NEW st \in Statuses,
           SetStatus(o, st)
    PROVE  /\ OrdersOK'
           /\ \A q \in Orders : Placed(q) => Placed(q)'
<1>1. orders' \in [Orders -> OrderRow]
  BY DEF OrdersOK, SetStatus, OrderRow, Statuses
<1>2. \A q \in Orders : (Placed(q)' <=> Placed(q)) /\ orders'[q].req = orders[q].req
  BY DEF OrdersOK, SetStatus, OrderRow, Statuses, Placed
<1> QED
  BY <1>1, <1>2 DEF OrdersOK, Valid

\* A step that leaves the clients alone keeps their part.
LEMMA ClientOKKept ==
    ASSUME ClientOK, client' = client, \A q \in Orders : Placed(q) => Placed(q)'
    PROVE  ClientOK'
BY DEF ClientOK, Valid

\* A client that returns keeps the clients' part.
LEMMA ClientReturnsOK ==
    ASSUME ClientOK, NEW c \in Clients, ClientReturns(c),
           \A q \in Orders : Placed(q) => Placed(q)'
    PROVE  ClientOK'
<1>1. IdleClient \in ClientState
  BY DEF IdleClient, ClientState
<1>2. client' \in [Clients -> ClientState]
  BY <1>1 DEF ClientReturns, ClientOK
<1>3. \A d \in Clients : client'[d] = client[d] \/ client'[d].pc = "idle"
  BY DEF ClientReturns, ClientOK, IdleClient
<1> QED
  BY <1>2, <1>3 DEF ClientOK, Valid

\* Releasing locks leaves a well-typed lock table.
LEMMA UnlockedOK ==
    ASSUME LedgerOK, NEW w
    PROVE  Unlocked(w) \in [Portfolios -> Workers \cup {Free}]
BY DEF LedgerOK, Unlocked

(***************************************************************************)
(* The legs of an accepted trade are entries.                              *)
(***************************************************************************)
LEMMA LegsTyped ==
    ASSUME TypeOK, NEW w \in Workers, exec[w].pc \in InTx, LegsAccepted(Legs(w))
    PROVE  Legs(w)[1] \in Entry /\ Legs(w)[2] \in Entry
<1> DEFINE o == exec[w].order
           r == orders[o].req
<1>1. o \in Orders /\ r \in Requests
  BY DEF TypeOK, InTx
<1>2. exec[w].price \in MachineInt /\ exec[w].seq \in Nat /\ exec[w].at \in 0..MaxClock
  BY DEF TypeOK, ExecState
<1>3. r.inst \in Assets /\ r.qty \in MachineInt
  BY <1>1, RequestTypes
<1>4. Cost(w) \in MachineInt
  <2>a. r.qty \in Int /\ exec[w].price \in Int
    BY <1>2, <1>3, WordTypes
  <2>1. r.qty * exec[w].price \in Int
    BY <2>a, ProductInt
  <2> QED
    BY <2>1, WrapInt DEF Cost
<1>5. StockDir(r) \in {1, -1} /\ -StockDir(r) \in {1, -1}
  BY StockDirSigns
<1>6. r.qty \in Amounts /\ Cost(w) \in Amounts
  BY <1>3, <1>4, WordTypes DEF LegsAccepted, Legs, Leg
<1>7. exec[w].seq + 1 \in Nat /\ exec[w].seq + 2 \in Nat
  BY <1>2
<1>8. 0 \in MachineInt /\ Cash \in Assets
  BY WordTypes DEF Assets
<1> QED
  BY <1>1, <1>2, <1>3, <1>5, <1>6, <1>7, <1>8 DEF Legs, Leg, Entry

(***************************************************************************)
(* What a transaction found out before its writes is still so when it      *)
(* commits: the order is affordable and its legs are acceptable.  Types    *)
(* rest on it, because a cost that wrapped around is not an amount.        *)
(***************************************************************************)
CommitAccepted ==
    \A w \in Workers : exec[w].pc = "commit" =>
        ~Insufficient(w) /\ LegsAccepted(Legs(w))

(***************************************************************************)
(* Every step of a client, a worker or the clock keeps the types.          *)
(***************************************************************************)
LEMMA TypeOKInductive ==
    ASSUME TypeOK, CommitAccepted, [Next]_vars
    PROVE  TypeOK'
<1> DEFINE Parts == OrdersOK /\ ExecOK /\ ClientOK /\ LedgerOK
           Stay == \A q \in Orders : Placed(q) => Placed(q)'
<1>a. OrdersOK /\ ExecOK /\ ClientOK /\ LedgerOK
  BY TypeOKParts
<1>b. ASSUME orders' = orders PROVE OrdersOK' /\ Stay
  BY <1>a, <1>b DEF OrdersOK, Valid, Placed
<1>c. ASSUME exec' = exec, Stay PROVE ExecOK'
  BY <1>a, <1>c DEF ExecOK
<1>d. ASSUME opened' = opened, seqCounter' = seqCounter, entries' = entries,
             settleJobs' = settleJobs, lock' = lock, conflicts' = conflicts,
             snapshot' = snapshot, reader' = reader, clock' = clock
      PROVE  LedgerOK'
  BY <1>a, <1>d DEF LedgerOK
<1>e. ASSUME opened' = opened, seqCounter' = seqCounter, entries' = entries,
             settleJobs' = settleJobs, conflicts' = conflicts,
             snapshot' = snapshot, reader' = reader, clock' = clock,
             NEW w, lock' = Unlocked(w)
      PROVE  LedgerOK'
  BY <1>a, <1>e, UnlockedOK DEF LedgerOK
<1>1. ASSUME Tick PROVE Parts'
  <2>1. LedgerOK'
    <3>1. clock' \in 0..MaxClock
      BY <1>1, <1>a, TradingAssumption DEF Tick, LedgerOK
    <3> QED
      BY <1>1, <1>a, <3>1 DEF Tick, LedgerOK
  <2> QED
    BY <1>1, <1>a, <1>b, <1>c, <2>1, ClientOKKept DEF Tick
<1>2. ASSUME NEW p \in Portfolios, NEW seed \in Seeds, CreatePortfolio(p, seed) PROVE Parts'
  <2>1. seed > 0 => SeedEntry(seed) \in Entry
    BY <1>a, WordTypes, TradingAssumption DEF SeedEntry, Entry, LedgerOK, Assets
  <2>2. LedgerOK'
    BY <1>2, <1>a, <2>1 DEF CreatePortfolio, LedgerOK
  <2> QED
    BY <1>2, <1>a, <1>b, <1>c, <2>2, ClientOKKept DEF CreatePortfolio
<1>3. ASSUME NEW c \in Clients, NEW req \in Requests, NEW key \in Keys \cup {NoKey}, PlaceLookup(c, req, key) PROVE Parts'
  <2> DEFINE d == [IdleClient EXCEPT !.pc = "insert", !.req = req, !.key = key]
  <2>1. d \in ClientState /\ d.pc = "insert" /\ d.req = req
    BY DEF IdleClient, ClientState
  <2>2. client' = [client EXCEPT ![c] = d] /\ Valid(req)
    BY <1>3 DEF PlaceLookup
  <2>3. Stay
    BY <1>3, <1>b DEF PlaceLookup
  <2> HIDE DEF d
  <2>4. ClientOK'
    BY <1>a, <2>1, <2>2, <2>3 DEF ClientOK, Valid
  <2> QED
    BY <1>3, <1>b, <1>c, <1>d, <2>4 DEF PlaceLookup, clientUnchanged
<1>4. ASSUME NEW c \in Clients, NEW o \in Orders, PlaceInsert(c, o) PROVE Parts'
  <2> DEFINE row == [status |-> "pending", key |-> client[c].key,
                     req |-> client[c].req, fill |-> 0]
  <2>1. client[c].req \in Requests /\ Valid(client[c].req)
    BY <1>4, <1>a DEF PlaceInsert, ClientOK
  <2>2. row \in OrderRow
    BY <1>a, <2>1, WordTypes DEF OrderRow, ClientOK, ClientState
  <2>3. orders' = [orders EXCEPT ![o] = row]
    BY <1>4 DEF PlaceInsert
  <2>4. row.status = "pending" /\ row.req = client[c].req
    OBVIOUS
  <2> HIDE DEF row
  <2>5. OrdersOK'
    BY <1>a, <2>1, <2>2, <2>3, <2>4 DEF OrdersOK, Placed, Valid
  <2>6. Stay
    BY <1>a, <2>3, <2>4 DEF OrdersOK, Placed
  <2>7. ClientOK'
    BY <1>4, <1>a, <2>6, ClientReturnsOK DEF PlaceInsert
  <2> QED
    BY <1>4, <1>c, <1>d, <2>5, <2>6, <2>7 DEF PlaceInsert, clientUnchanged
<1>5. ASSUME NEW c \in Clients, PlaceConflict(c) PROVE Parts'
  <2>1. client[c].key \in Keys
    BY <1>5, <1>a DEF PlaceConflict, KeyTaken, ClientOK, ClientState
  <2>2. LedgerOK'
    BY <1>5, <1>a, <2>1 DEF PlaceConflict, clientUnchanged, LedgerOK
  <2> QED
    BY <1>5, <1>a, <1>b, <1>c, <2>2, ClientReturnsOK DEF PlaceConflict, clientUnchanged
<1>6. ASSUME NEW c \in Clients, NEW o \in Orders, CancelGet(c, o) PROVE Parts'
  <2> DEFINE d == [IdleClient EXCEPT !.pc = "cancel", !.order = o]
  <2>1. d \in ClientState /\ d.pc = "cancel" /\ d.order = o
    BY DEF IdleClient, ClientState
  <2>2. client' = [client EXCEPT ![c] = d] /\ Placed(o)
    BY <1>6 DEF CancelGet, Placed
  <2>3. Stay
    BY <1>6, <1>b DEF CancelGet
  <2> HIDE DEF d
  <2>4. ClientOK'
    BY <1>a, <2>1, <2>2, <2>3 DEF ClientOK, Valid
  <2> QED
    BY <1>6, <1>b, <1>c, <1>d, <2>4 DEF CancelGet, clientUnchanged
<1>7. ASSUME NEW c \in Clients, CancelSet(c) PROVE Parts'
  <2>1. client[c].order \in Orders /\ Placed(client[c].order)
    BY <1>7, <1>a DEF CancelSet, ClientOK
  <2>2. OrdersOK' /\ Stay
    BY <1>7, <1>a, <2>1, SetStatusOK DEF CancelSet, Statuses
  <2> QED
    BY <1>7, <1>a, <1>c, <1>d, <2>2, ClientReturnsOK DEF CancelSet, clientUnchanged
<1>8. ASSUME NEW c \in Clients, RequestFails(c) PROVE Parts'
  BY <1>8, <1>a, <1>b, <1>c, <1>d, ClientReturnsOK DEF RequestFails, clientUnchanged
<1>9. ASSUME NEW w \in Workers, NEW o \in Orders, ExecSkip(w, o) PROVE Parts'
  <2>1. Stay
    BY <1>9, <1>b DEF ExecSkip
  <2>2. ExecOK'
    BY <1>9, <1>a, <2>1, StartOK, WordTypes DEF ExecSkip, Delivered, Busy
  <2> QED
    BY <1>9, <1>a, <1>b, <1>d, <2>1, <2>2, ClientOKKept DEF ExecSkip, execUnchanged
<1>10. ASSUME NEW w \in Workers, NEW o \in Orders, ExecReadFails(w, o) PROVE Parts'
  <2>1. Stay
    BY <1>10, <1>b DEF ExecReadFails
  <2>2. ExecOK'
    BY <1>10, <1>a, <2>1, StartOK, WordTypes DEF ExecReadFails, Delivered, Busy
  <2> QED
    BY <1>10, <1>a, <1>b, <1>d, <2>1, <2>2, ClientOKKept DEF ExecReadFails, execUnchanged
<1>11. ASSUME NEW w \in Workers, NEW o \in Orders, NEW quote \in Prices, ExecPriced(w, o, quote) PROVE Parts'
  <2>1. Stay
    BY <1>11, <1>b DEF ExecPriced
  <2>2. orders[o].req.limit \in MachineInt /\ quote \in MachineInt
    BY <1>11, <1>a, RequestTypes, WordTypes, TradingAssumption DEF ExecPriced, Delivered, OrdersOK
  <2>3. ExecOK'
    BY <1>11, <1>a, <2>1, <2>2, StartOK DEF ExecPriced, Delivered, Busy
  <2> QED
    BY <1>11, <1>a, <1>b, <1>d, <2>1, <2>3, ClientOKKept DEF ExecPriced, execUnchanged
<1>12. ASSUME NEW w \in Workers, ExecReject(w) PROVE Parts'
  <2>1. OrdersOK' /\ Stay
    BY <1>12, <1>a, SetStatusOK DEF ExecReject, ExecOK, Statuses
  <2>2. ExecOK'
    BY <1>12, <1>a, <2>1, GotoOK DEF ExecReject, Busy
  <2> QED
    BY <1>12, <1>a, <1>d, <2>1, <2>2, ClientOKKept DEF ExecReject, execUnchanged
<1>13. ASSUME NEW w \in Workers, ExecBegin(w) PROVE Parts'
  <2> DEFINE e == [exec[w] EXCEPT !.pc = "lock", !.at = clock]
  <2>1. exec[w] \in ExecState /\ clock \in 0..MaxClock
    BY <1>a DEF ExecOK, LedgerOK
  <2>2. e \in ExecState
    BY <2>1, ExecUpdates DEF Busy, InTx
  <2>3. e.order = exec[w].order /\ exec[w].pc # "idle"
    BY <1>13, <2>1 DEF ExecState, ExecBegin
  <2>4. exec' = [exec EXCEPT ![w] = e]
    BY <1>13 DEF ExecBegin
  <2>5. Stay
    BY <1>13, <1>b DEF ExecBegin
  <2> HIDE DEF e
  <2>6. ExecOK'
    BY <1>a, <2>2, <2>3, <2>4, <2>5, StepOK
  <2> QED
    BY <1>13, <1>a, <1>b, <1>d, <2>5, <2>6, ClientOKKept DEF ExecBegin, execUnchanged
<1>14. ASSUME NEW w \in Workers, ExecLock(w) PROVE Parts'
  <2> DEFINE p == orders[exec[w].order].req.portfolio
             fits == Fits(Holdings(p))
             e == [exec[w] EXCEPT !.pc = IF fits THEN "write" ELSE "err",
                                  !.seq = seqCounter[p], !.hold = Holdings(p)]
  <2>1. exec[w] \in ExecState /\ exec[w].pc = "lock"
    BY <1>14, <1>a DEF ExecOK, ExecLock
  <2>2. p \in Portfolios
    BY <1>a, <2>1, RequestTypes DEF ExecOK, OrdersOK
  <2>3. seqCounter[p] \in Nat /\ Holdings(p) \in View
    BY <1>a, <2>2, NetInt DEF LedgerOK, Holdings, View
  <2>4. exec' = [exec EXCEPT ![w] = e]
    BY <1>14 DEF ExecLock
  <2>5. lock' = IF fits THEN [lock EXCEPT ![p] = w] ELSE lock
    BY <1>14 DEF ExecLock
  <2> HIDE DEF fits, p
  <2>6. e \in ExecState
    BY <2>1, <2>3, ExecUpdates DEF Busy, InTx
  <2>7. e.order = exec[w].order
    BY <2>1 DEF ExecState
  <2>8. Stay
    BY <1>14, <1>b DEF ExecLock
  <2> HIDE DEF e
  <2>9. ExecOK'
    BY <1>a, <2>1, <2>4, <2>6, <2>7, <2>8, StepOK
  <2>10. LedgerOK'
    BY <1>14, <1>a, <2>2, <2>5 DEF ExecLock, execUnchanged, LedgerOK
  <2> QED
    BY <1>14, <1>a, <1>b, <2>8, <2>9, <2>10, ClientOKKept DEF ExecLock, execUnchanged
<1>15. ASSUME NEW w \in Workers, ExecInsufficient(w) PROVE Parts'
  <2>1. OrdersOK' /\ Stay
    BY <1>15, <1>a, SetStatusOK DEF ExecInsufficient, ExecOK, Statuses
  <2>2. ExecOK'
    BY <1>15, <1>a, <2>1, GotoOK DEF ExecInsufficient, Busy
  <2> QED
    BY <1>15, <1>a, <1>e, <2>1, <2>2, ClientOKKept DEF ExecInsufficient, execUnchanged
<1>16. ASSUME NEW w \in Workers, NEW result \in {"ok", "err"}, ExecFill(w, result) PROVE Parts'
  <2> DEFINE o == exec[w].order
             p == orders[o].req.portfolio
             row == [orders[o] EXCEPT !.status = "filled", !.fill = exec[w].price]
  <2>1. o \in Orders /\ Placed(o) /\ exec[w].price \in MachineInt
    BY <1>16, <1>a DEF ExecFill, ExecOK, ExecState
  <2>2. p \in Portfolios
    BY <1>a, <2>1, RequestTypes DEF OrdersOK
  <2>3. row \in OrderRow /\ row.status = "filled" /\ row.req = orders[o].req
    BY <1>a, <2>1 DEF OrdersOK, OrderRow
  <2>4. orders' = [orders EXCEPT ![o] = row]
    BY <1>16 DEF ExecFill
  <2>5. Legs(w)[1] \in Entry /\ Legs(w)[2] \in Entry
    BY <1>16, LegsTyped DEF ExecFill, CommitAccepted, InTx
  <2>6. Legs(w) = <<Legs(w)[1], Legs(w)[2]>>
    BY DEF Legs
  <2>7. entries[p] \o Legs(w) \in Seq(Entry)
    BY <1>a, <2>2, <2>5, <2>6, NetLegs DEF LedgerOK
  <2>8. entries' = [entries EXCEPT ![p] = entries[p] \o Legs(w)]
    BY <1>16, Zenon DEF ExecFill
  <2>13. seqCounter' = [seqCounter EXCEPT ![p] = seqCounter[p] + 2]
    BY <1>16, Zenon DEF ExecFill
  <2>14. settleJobs' = settleJobs \cup {o}
    BY <1>16, Zenon DEF ExecFill
  <2> HIDE DEF row, p, o
  <2>9. OrdersOK'
    BY <1>a, <2>1, <2>3, <2>4 DEF OrdersOK, Placed, Valid
  <2>10. Stay
    BY <1>a, <2>1, <2>3, <2>4 DEF OrdersOK, Placed
  <2>11. ExecOK'
    BY <1>16, <1>a, <2>10, GotoOK DEF ExecFill, Busy
  <2>12. LedgerOK'
    <3>1. entries' \in [Portfolios -> Seq(Entry)]
      BY <1>a, <2>2, <2>7, <2>8 DEF LedgerOK
    <3>2. seqCounter' \in [Portfolios -> Nat]
      BY <1>a, <2>2, <2>13 DEF LedgerOK
    <3>3. settleJobs' \subseteq Orders
      BY <1>a, <2>1, <2>14 DEF LedgerOK
    <3>4. lock' \in [Portfolios -> Workers \cup {Free}]
      BY <1>16, <1>a, UnlockedOK DEF ExecFill
    <3> QED
      BY <1>16, <1>a, <3>1, <3>2, <3>3, <3>4 DEF ExecFill, execUnchanged, LedgerOK
  <2> QED
    BY <1>16, <1>a, <2>9, <2>10, <2>11, <2>12, ClientOKKept DEF ExecFill, execUnchanged
<1>17. ASSUME NEW w \in Workers, ExecRefused(w) PROVE Parts'
  <2>1. Stay
    BY <1>17, <1>b DEF ExecRefused
  <2>2. ExecOK'
    BY <1>17, <1>a, <2>1, GotoOK DEF ExecRefused, Busy
  <2> QED
    BY <1>17, <1>a, <1>b, <1>e, <2>1, <2>2, ClientOKKept DEF ExecRefused, execUnchanged
<1>18. ASSUME NEW w \in Workers, ExecAbort(w) PROVE Parts'
  <2>1. Stay
    BY <1>18, <1>b DEF ExecAbort
  <2>2. ExecOK'
    BY <1>18, <1>a, <2>1, GotoOK DEF ExecAbort, Busy
  <2> QED
    BY <1>18, <1>a, <1>b, <1>e, <2>1, <2>2, ClientOKKept DEF ExecAbort, execUnchanged
<1>19. ASSUME NEW w \in Workers, ExecReturn(w) PROVE Parts'
  <2>1. Stay
    BY <1>19, <1>b DEF ExecReturn
  <2>2. ExecOK'
    BY <1>19, <1>a, <2>1, ReturnOK DEF ExecReturn
  <2> QED
    BY <1>19, <1>a, <1>b, <1>d, <2>1, <2>2, ClientOKKept DEF ExecReturn, execUnchanged
<1>20. ASSUME NEW w \in Workers, ExecCrash(w) PROVE Parts'
  <2>1. Stay
    BY <1>20, <1>b DEF ExecCrash
  <2>2. ExecOK'
    BY <1>20, <1>a, <2>1, ReturnOK DEF ExecCrash
  <2> QED
    BY <1>20, <1>a, <1>b, <1>e, <2>1, <2>2, ClientOKKept DEF ExecCrash, execUnchanged
<1>21. ASSUME NEW w \in Workers, NEW o \in Orders, Settle(w, o) PROVE Parts'
  <2>1. OrdersOK' /\ Stay /\ Placed(o)'
    <3>1. CASE orders[o].status = "filled"
      <4>1. Placed(o) /\ SetStatus(o, "settled")
        BY <1>21, <3>1 DEF Settle, Placed
      <4> QED
        BY <1>a, <4>1, SetStatusOK DEF Statuses
    <3>2. CASE orders[o].status # "filled"
      BY <1>21, <1>b, <3>2 DEF Settle
    <3> QED
      BY <3>1, <3>2
  <2>2. ExecOK'
    BY <1>21, <1>a, <2>1, StartOK, WordTypes DEF Settle, Busy
  <2> QED
    BY <1>21, <1>a, <1>d, <2>1, <2>2, ClientOKKept DEF Settle, execUnchanged
<1>28. ASSUME NEW w \in Workers, ExecWrite(w) PROVE Parts'
  <2>1. Stay
    BY <1>28, <1>b DEF ExecWrite
  <2>2. ExecOK'
    BY <1>28, <1>a, <2>1, GotoOK DEF ExecWrite, Busy, InTx
  <2>3. snapshot' \in [Portfolios -> View \cup {NoView}]
    BY <1>28, <1>a DEF ExecWrite, LedgerOK
  <2>4. LedgerOK'
    BY <1>28, <1>a, <2>3 DEF ExecWrite, LedgerOK
  <2> QED
    BY <1>28, <1>a, <1>b, <2>1, <2>2, <2>4, ClientOKKept DEF ExecWrite
<1>29. ASSUME orders' = orders, exec' = exec, client' = client, LedgerOK'
       PROVE  Parts'
  <2>1. OrdersOK' /\ Stay
    BY <1>29, <1>b
  <2> QED
    BY <1>29, <1>a, <1>c, <2>1, ClientOKKept
<1>30. IdleReader \in ReaderState
  BY DEF IdleReader, ReaderState, View
<1>31. ASSUME NEW r \in Readers, NEW p \in Portfolios, ReadHoldings(r, p) PROVE Parts'
  <2>1. [portfolio |-> p, view |-> Holdings(p)] \in ReaderState
    BY <1>a, NetInt DEF LedgerOK, Holdings, ReaderState, View
  <2>2. LedgerOK'
    BY <1>31, <1>a, <2>1 DEF ReadHoldings, LedgerOK
  <2> QED
    BY <1>31, <1>29, <2>2 DEF ReadHoldings
<1>32. ASSUME NEW r \in Readers, ReadStore(r) PROVE Parts'
  <2>1. reader[r].view \in View
    BY <1>a DEF LedgerOK, ReaderState
  <2>2. LedgerOK'
    BY <1>32, <1>30, <1>a, <2>1 DEF ReadStore, ReaderReturns, LedgerOK
  <2> QED
    BY <1>32, <1>29, <2>2 DEF ReadStore
<1>33. ASSUME NEW r \in Readers, ReadFails(r) PROVE Parts'
  <2>1. LedgerOK'
    BY <1>33, <1>30, <1>a DEF ReadFails, ReaderReturns, LedgerOK
  <2> QED
    BY <1>33, <1>29, <2>1 DEF ReadFails
<1>34. ASSUME NEW p \in Portfolios, SnapshotExpires(p) PROVE Parts'
  <2>1. LedgerOK'
    BY <1>34, <1>a DEF SnapshotExpires, LedgerOK
  <2> QED
    BY <1>34, <1>29, <2>1 DEF SnapshotExpires
<1>22. ASSUME UNCHANGED vars PROVE Parts'
  <2>1. orders' = orders /\ exec' = exec /\ client' = client
    BY <1>22 DEF vars
  <2>2. LedgerOK'
    BY <1>22, <1>d DEF vars
  <2>3. OrdersOK' /\ Stay
    BY <1>b, <2>1
  <2>4. ExecOK'
    BY <1>c, <2>1, <2>3
  <2>5. ClientOK'
    BY <1>a, <2>1, <2>3, ClientOKKept
  <2> QED
    BY <2>2, <2>3, <2>4, <2>5
<1> HIDE DEF Parts, Stay
<1>23. ASSUME NEW c \in Clients, PlaceStep(c) PROVE Parts'
  BY <1>23, <1>3, <1>4, <1>5, Zenon DEF PlaceStep
<1>24. ASSUME NEW c \in Cancellers, CancelStep(c) PROVE Parts'
  <2>1. c \in Clients
    BY TradingAssumption
  <2> QED
    BY <1>24, <1>6, <1>7, <2>1, Zenon DEF CancelStep
<1>25. ASSUME NEW w \in Workers, StartStep(w) PROVE Parts'
  BY <1>25, <1>9, <1>10, <1>11, <1>21, Zenon DEF StartStep
<1>26. ASSUME NEW w \in Workers, ExecStep(w) PROVE Parts'
  BY <1>26, <1>12, <1>13, <1>14, <1>15, <1>16, <1>17, <1>19, <1>28, Zenon DEF ExecStep
<1>35. ASSUME NEW r \in Readers, ReadStep(r) PROVE Parts'
  BY <1>31, <1>32, <1>33, <1>35, Zenon DEF ReadStep
<1>27. ASSUME Next PROVE Parts'
  BY <1>27, <1>1, <1>2, <1>8, <1>18, <1>20, <1>23, <1>24, <1>25, <1>26, <1>34, <1>35, Zenon DEF Next
<1>p. Parts'
  BY <1>22, <1>27
<1> QED
  BY <1>p DEF Parts, TypeOK, OrdersOK, ExecOK, ClientOK, LedgerOK

\* The empty database is well typed.
LEMMA InitTypeOK == Init => TypeOK
<1> SUFFICES ASSUME Init PROVE TypeOK
  OBVIOUS
<1>1. OrdersOK
  <2>1. NoRow \in OrderRow /\ NoRow.status = "none"
    BY WordTypes DEF NoRow, OrderRow
  <2> QED
    BY <2>1 DEF Init, OrdersOK, Placed
<1>2. ExecOK
  <2>1. IdleExec \in ExecState /\ IdleExec.pc = "idle"
    BY ExecUpdates DEF IdleExec
  <2> QED
    BY <2>1 DEF Init, ExecOK
<1>3. ClientOK
  <2>1. IdleClient \in ClientState /\ IdleClient.pc = "idle"
    BY DEF IdleClient, ClientState
  <2> QED
    BY <2>1 DEF Init, ClientOK
<1>4. LedgerOK
  <2>1. IdleReader \in ReaderState
    BY DEF IdleReader, ReaderState, View
  <2> QED
    BY <2>1, TradingAssumption DEF Init, LedgerOK
<1> QED
  BY <1>1, <1>2, <1>3, <1>4, TypeOKParts

-----------------------------------------------------------------------------
(* Portfolios exist before anything refers to them.                        *)

(***************************************************************************)
(* The portfolio of an order, and of a request that is about to become     *)
(* one, exists; one that does not exist has no entries.                    *)
(***************************************************************************)
OpenedFirst ==
    /\ \A o \in Orders : Placed(o) => orders[o].req.portfolio \in opened
    /\ \A c \in Clients : client[c].pc = "insert" =>
                             client[c].req.portfolio \in opened
    /\ \A p \in Portfolios : p \notin opened => entries[p] = <<>>

\* Placed orders stay, with what they ask for; a new one is some client's.
Kept ==
    \A o \in Orders :
        /\ Placed(o) => Placed(o)' /\ orders'[o].req = orders[o].req
        /\ ~Placed(o) /\ Placed(o)' =>
              \E c \in Clients : /\ client[c].pc = "insert"
                                 /\ orders'[o].req = client[c].req

(***************************************************************************)
(* An update of an order's status keeps what the order asks for.           *)
(***************************************************************************)
LEMMA SetStatusKeeps ==
    ASSUME OrdersOK, NEW o \in Orders, NEW st \in Statuses, SetStatus(o, st)
    PROVE  /\ \A q \in Orders : orders'[q].req = orders[q].req
           /\ \A q \in Orders : Placed(q) => Placed(q)'
           /\ \A q \in Orders : q # o => (Placed(q)' <=> Placed(q))
BY DEF OrdersOK, SetStatus, OrderRow, Statuses, Placed

(***************************************************************************)
(* Every step keeps the placed orders, and places only what a client asked *)
(* for: no step takes an order out of the table or changes its terms.      *)
(***************************************************************************)
LEMMA RequestsAreFixed ==
    ASSUME TypeOK, [Next]_vars
    PROVE  Kept
<1>a. OrdersOK /\ ExecOK /\ ClientOK
  BY TypeOKParts
<1>1. ASSUME orders' = orders PROVE Kept
  BY <1>1 DEF Kept, Placed
<1>2. ASSUME NEW c \in Clients, NEW o \in Orders, PlaceInsert(c, o) PROVE Kept
  BY <1>2, <1>a DEF PlaceInsert, OrdersOK, Kept, Placed
<1>3. ASSUME NEW c \in Clients, CancelSet(c) PROVE Kept
  BY <1>3, <1>a, SetStatusKeeps DEF CancelSet, ClientOK, Statuses, Kept
<1>4. ASSUME NEW w \in Workers, ExecReject(w) \/ ExecInsufficient(w) PROVE Kept
  BY <1>4, <1>a, SetStatusKeeps DEF ExecReject, ExecInsufficient, ExecOK, Statuses, Kept
<1>5. ASSUME NEW w \in Workers, NEW result \in {"ok", "err"}, ExecFill(w, result) PROVE Kept
  <2> DEFINE o == exec[w].order
             row == [orders[o] EXCEPT !.status = "filled", !.fill = exec[w].price]
  <2>1. o \in Orders /\ Placed(o) /\ orders' = [orders EXCEPT ![o] = row]
    BY <1>5, <1>a DEF ExecFill, ExecOK
  <2>2. row.status = "filled" /\ row.req = orders[o].req
    BY <1>a, <2>1 DEF OrdersOK, OrderRow
  <2> HIDE DEF row, o
  <2> QED
    BY <1>a, <2>1, <2>2 DEF OrdersOK, Kept, Placed
<1>6. ASSUME NEW w \in Workers, NEW o \in Orders, Settle(w, o) PROVE Kept
  <2>1. CASE orders[o].status = "filled"
    BY <1>6, <2>1, <1>a, SetStatusKeeps DEF Settle, Statuses, Kept
  <2>2. CASE orders[o].status # "filled"
    BY <1>6, <2>2, <1>1 DEF Settle
  <2> QED
    BY <2>1, <2>2
<1> HIDE DEF Kept
<1>7. ASSUME NEW c \in Clients, PlaceStep(c) PROVE Kept
  BY <1>7, <1>1, <1>2 DEF PlaceStep, PlaceLookup, PlaceConflict
<1>8. ASSUME NEW c \in Clients, CancelStep(c) PROVE Kept
  BY <1>8, <1>1, <1>3 DEF CancelStep, CancelGet
<1>9. ASSUME NEW w \in Workers, StartStep(w) PROVE Kept
  BY <1>9, <1>1, <1>6 DEF StartStep, ExecSkip, ExecReadFails, ExecPriced
<1>10. ASSUME NEW w \in Workers, ExecStep(w) PROVE Kept
  <2>1. CASE \/ ExecBegin(w) \/ ExecLock(w) \/ ExecWrite(w) \/ ExecRefused(w)
             \/ ExecReturn(w)
    BY <2>1, <1>1, Zenon DEF ExecBegin, ExecLock, ExecWrite, ExecRefused, ExecReturn
  <2> QED
    BY <1>10, <1>4, <1>5, <2>1, Zenon DEF ExecStep
<1>11. ASSUME NEW c \in Clients, RequestFails(c) PROVE Kept
  BY <1>11, <1>1 DEF RequestFails
<1>12. ASSUME NEW w \in Workers, ExecAbort(w) \/ ExecCrash(w) PROVE Kept
  BY <1>12, <1>1, Zenon DEF ExecAbort, ExecCrash
<1>13. ASSUME Tick \/ \E p \in Portfolios, seed \in Seeds : CreatePortfolio(p, seed)
       PROVE  Kept
  BY <1>13, <1>1, Zenon DEF Tick, CreatePortfolio
<1>14. ASSUME UNCHANGED vars PROVE Kept
  BY <1>14, <1>1 DEF vars
<1>15. Cancellers \subseteq Clients
  BY TradingAssumption
<1>17. ASSUME \/ \E r \in Readers : ReadStep(r)
              \/ \E p \in Portfolios : SnapshotExpires(p)
       PROVE  Kept
  BY <1>17, <1>1, Zenon DEF ReadStep, ReadHoldings, ReadStore, ReadFails, SnapshotExpires
<1>16. ASSUME Next PROVE Kept
  BY <1>16, <1>7, <1>8, <1>9, <1>10, <1>11, <1>12, <1>13, <1>15, <1>17, Zenon DEF Next
<1> QED
  BY <1>14, <1>16

\* Worker w's step leaves it outside a transaction.
WorkerLeaves(w) ==
    /\ exec'[w].pc \notin InTx
    /\ \A v \in Workers : v # w => exec'[v] = exec[v]
    /\ lock' \in {lock, Unlocked(w)}

\* A step that touches neither the ledger nor a transaction under way.
Quiet ==
    /\ UNCHANGED <<opened, seqCounter, entries>>
    /\ UNCHANGED <<exec, lock>> \/ \E w \in Workers : WorkerLeaves(w)

Touching ==
    \/ \E p \in Portfolios, seed \in Seeds : CreatePortfolio(p, seed)
    \/ \E w \in Workers : ExecLock(w) \/ ExecWrite(w)
    \/ \E w \in Workers, result \in {"ok", "err"} : ExecFill(w, result)

(***************************************************************************)
(* Only the creation of a portfolio, taking the row lock, the writes and   *)
(* the fill matter to the ledger and to a transaction under way.           *)
(***************************************************************************)
LEMMA StepKinds ==
    ASSUME TypeOK, [Next]_vars
    PROVE  Quiet \/ Touching
<1>a. exec \in [Workers -> ExecState]
  BY DEF TypeOK
<1>b. IdleExec.pc \notin InTx
  BY DEF IdleExec, InTx
<1>1. ASSUME NEW w \in Workers, NEW o, NEW pc, NEW x, pc \notin InTx, lock' = lock,
             Start(w, o, pc, x)
      PROVE  WorkerLeaves(w)
  <2> DEFINE e == [IdleExec EXCEPT !.pc = pc, !.order = o, !.price = x]
  <2>1. e.pc = pc
    BY DEF IdleExec
  <2>2. exec' = [exec EXCEPT ![w] = e]
    BY <1>1 DEF Start
  <2> HIDE DEF e
  <2> QED
    BY <1>1, <1>a, <2>1, <2>2 DEF WorkerLeaves
<1>2. ASSUME NEW w \in Workers, NEW pc, pc \notin InTx, ExecGoto(w, pc),
             lock' \in {lock, Unlocked(w)}
      PROVE  WorkerLeaves(w)
  BY <1>2, <1>a DEF ExecGoto, WorkerLeaves, ExecState
<1>3. ASSUME NEW w \in Workers, exec' = [exec EXCEPT ![w] = IdleExec],
             lock' \in {lock, Unlocked(w)}
      PROVE  WorkerLeaves(w)
  BY <1>3, <1>a, <1>b DEF WorkerLeaves
<1>4. ASSUME NEW w \in Workers, StartStep(w) PROVE Quiet
  <2>1. PICK o \in Orders : \/ ExecSkip(w, o) \/ ExecReadFails(w, o)
                            \/ \E quote \in Prices : ExecPriced(w, o, quote)
                            \/ Settle(w, o)
    BY <1>4 DEF StartStep
  <2>2. CASE ExecSkip(w, o)
    BY <2>2, <1>1 DEF ExecSkip, InTx, Quiet, execUnchanged
  <2>3. CASE ExecReadFails(w, o)
    BY <2>3, <1>1 DEF ExecReadFails, InTx, Quiet, execUnchanged
  <2>4. ASSUME NEW quote \in Prices, ExecPriced(w, o, quote) PROVE Quiet
    <3>1. PICK pc, x : pc \notin InTx /\ Start(w, o, pc, x)
      BY <2>4 DEF ExecPriced, InTx
    <3>2. lock' = lock /\ UNCHANGED <<opened, seqCounter, entries>>
      BY <2>4 DEF ExecPriced, execUnchanged
    <3> QED
      BY <1>1, <3>1, <3>2 DEF Quiet
  <2>5. CASE Settle(w, o)
    BY <2>5, <1>1 DEF Settle, InTx, Quiet, execUnchanged
  <2> QED
    BY <2>1, <2>2, <2>3, <2>4, <2>5
<1>5. ASSUME NEW w \in Workers,
             \/ ExecReject(w) \/ ExecInsufficient(w) \/ ExecRefused(w)
             \/ ExecAbort(w)
      PROVE  Quiet
  BY <1>5, <1>2 DEF ExecReject, ExecInsufficient, ExecRefused, ExecAbort, InTx,
                    Quiet, execUnchanged
<1>6. ASSUME NEW w \in Workers, ExecReturn(w) \/ ExecCrash(w) PROVE Quiet
  BY <1>6, <1>3 DEF ExecReturn, ExecCrash, Quiet, execUnchanged
<1>7. ASSUME NEW w \in Workers, ExecBegin(w) PROVE Quiet
  <2> DEFINE e == [exec[w] EXCEPT !.pc = "lock", !.at = clock]
  <2>1. e.pc = "lock" /\ exec' = [exec EXCEPT ![w] = e]
    BY <1>7, <1>a DEF ExecBegin, ExecState
  <2> HIDE DEF e
  <2> QED
    BY <1>7, <1>a, <2>1 DEF ExecBegin, InTx, Quiet, WorkerLeaves, execUnchanged
<1>8. ASSUME NEW w \in Workers, ExecStep(w) PROVE Quiet \/ Touching
  BY <1>8, <1>5, <1>6, <1>7, Zenon DEF ExecStep, Touching
<1>9. ASSUME NEW c \in Clients, PlaceStep(c) PROVE Quiet
  BY <1>9, Zenon DEF PlaceStep, PlaceLookup, PlaceInsert, PlaceConflict, Quiet, clientUnchanged
<1>10. ASSUME NEW c \in Cancellers, CancelStep(c) PROVE Quiet
  BY <1>10, Zenon DEF CancelStep, CancelGet, CancelSet, Quiet, clientUnchanged
<1>11. ASSUME NEW c \in Clients, RequestFails(c) PROVE Quiet
  BY <1>11 DEF RequestFails, Quiet, clientUnchanged
<1>12. ASSUME Tick PROVE Quiet
  BY <1>12 DEF Tick, Quiet
<1>15. ASSUME \/ \E r \in Readers : ReadStep(r)
              \/ \E p \in Portfolios : SnapshotExpires(p)
       PROVE  Quiet
  BY <1>15, Zenon DEF ReadStep, ReadHoldings, ReadStore, ReadFails, SnapshotExpires, Quiet
<1>13. ASSUME UNCHANGED vars PROVE Quiet
  BY <1>13 DEF vars, Quiet
<1>14. ASSUME Next PROVE Quiet \/ Touching
  BY <1>14, <1>4, <1>5, <1>6, <1>8, <1>9, <1>10, <1>11, <1>12, <1>15, Zenon DEF Next, Touching
<1> QED
  BY <1>13, <1>14

(***************************************************************************)
(* The fill, in the terms the proofs below use: what it appends.           *)
(***************************************************************************)
LEMMA FillAppends ==
    ASSUME TypeOK, CommitAccepted, NEW w \in Workers, NEW result \in {"ok", "err"},
           ExecFill(w, result), NEW o, o = exec[w].order,
           NEW p, p = orders[o].req.portfolio
    PROVE  /\ o \in Orders /\ Placed(o) /\ p \in Portfolios
           /\ Legs(w)[1] \in Entry /\ Legs(w)[2] \in Entry
           /\ Legs(w) = <<Legs(w)[1], Legs(w)[2]>>
           /\ entries' = [entries EXCEPT ![p] = entries[p] \o Legs(w)]
           /\ seqCounter' = [seqCounter EXCEPT ![p] = seqCounter[p] + 2]
<1>1. o \in Orders /\ Placed(o) /\ orders[o].req \in Requests
  BY DEF ExecFill, TypeOK
<1>2. p \in Portfolios
  BY <1>1, RequestTypes
<1>3. Legs(w)[1] \in Entry /\ Legs(w)[2] \in Entry
  BY LegsTyped DEF ExecFill, CommitAccepted, InTx
<1>4. Legs(w) = <<Legs(w)[1], Legs(w)[2]>>
  BY DEF Legs
<1>5. entries' = [entries EXCEPT ![p] = entries[p] \o Legs(w)]
  BY Zenon DEF ExecFill
<1>6. seqCounter' = [seqCounter EXCEPT ![p] = seqCounter[p] + 2]
  BY Zenon DEF ExecFill
<1> QED
  BY <1>1, <1>2, <1>3, <1>4, <1>5, <1>6

(***************************************************************************)
(* A request is on its way to the insert only after its portfolio was seen *)
(* to exist.                                                               *)
(***************************************************************************)
LEMMA InsertsAreChecked ==
    ASSUME TypeOK, [Next]_vars, NEW c \in Clients, client'[c].pc = "insert"
    PROVE  client'[c] = client[c] \/ client'[c].req.portfolio \in opened
<1> DEFINE Goal == client'[c] = client[c] \/ client'[c].req.portfolio \in opened
<1>a. client \in [Clients -> ClientState]
  BY DEF TypeOK
<1>1. ASSUME client' = client PROVE Goal
  BY <1>1
<1>2. ASSUME NEW d \in Clients, NEW req \in Requests, NEW key \in Keys \cup {NoKey},
             PlaceLookup(d, req, key)
      PROVE  Goal
  <2> DEFINE r == [IdleClient EXCEPT !.pc = "insert", !.req = req, !.key = key]
  <2>1. r.req = req /\ client' = [client EXCEPT ![d] = r] /\ req.portfolio \in opened
    BY <1>2 DEF PlaceLookup, IdleClient
  <2> HIDE DEF r
  <2> QED
    BY <1>a, <2>1
<1>3. ASSUME NEW d \in Clients, ClientReturns(d) PROVE Goal
  <2>1. IdleClient.pc = "idle"
    BY DEF IdleClient
  <2> QED
    BY <1>3, <1>a, <2>1 DEF ClientReturns
<1>4. ASSUME NEW d \in Clients, NEW o \in Orders, CancelGet(d, o) PROVE Goal
  <2> DEFINE r == [IdleClient EXCEPT !.pc = "cancel", !.order = o]
  <2>1. r.pc = "cancel" /\ client' = [client EXCEPT ![d] = r]
    BY <1>4 DEF CancelGet, IdleClient
  <2> HIDE DEF r
  <2> QED
    BY <1>a, <2>1
<1> HIDE DEF Goal
<1>5. ASSUME NEW d \in Clients, PlaceStep(d) \/ RequestFails(d) PROVE Goal
  BY <1>5, <1>2, <1>3, Zenon DEF PlaceStep, PlaceInsert, PlaceConflict, RequestFails
<1>6. ASSUME NEW d \in Clients, CancelStep(d) PROVE Goal
  BY <1>6, <1>3, <1>4, Zenon DEF CancelStep, CancelSet
<1>7. ASSUME NEW w \in Workers, StartStep(w) PROVE Goal
  BY <1>7, <1>1, Zenon DEF StartStep, ExecSkip, ExecReadFails, ExecPriced, Settle, execUnchanged
<1>8. ASSUME NEW w \in Workers, ExecStep(w) PROVE Goal
  BY <1>8, <1>1, Zenon DEF ExecStep, ExecReject, ExecBegin, ExecLock, ExecInsufficient,
                           ExecWrite, ExecFill, ExecRefused, ExecReturn, execUnchanged
<1>9. ASSUME NEW w \in Workers, ExecAbort(w) \/ ExecCrash(w) PROVE Goal
  BY <1>9, <1>1, Zenon DEF ExecAbort, ExecCrash, execUnchanged
<1>10. ASSUME Tick \/ \E p \in Portfolios, seed \in Seeds : CreatePortfolio(p, seed)
       PROVE  Goal
  BY <1>10, <1>1, Zenon DEF Tick, CreatePortfolio
<1>11. Cancellers \subseteq Clients
  BY TradingAssumption
<1>14. ASSUME \/ \E r \in Readers : ReadStep(r)
              \/ \E p \in Portfolios : SnapshotExpires(p)
       PROVE  Goal
  BY <1>14, <1>1, Zenon DEF ReadStep, ReadHoldings, ReadStore, ReadFails, SnapshotExpires
<1>12. ASSUME Next PROVE Goal
  BY <1>12, <1>5, <1>6, <1>7, <1>8, <1>9, <1>10, <1>11, <1>14, Zenon DEF Next
<1>13. ASSUME UNCHANGED vars PROVE Goal
  BY <1>13, <1>1 DEF vars
<1> QED
  BY <1>12, <1>13 DEF Goal

(***************************************************************************)
(* The funds test and the legs of a worker depend on what it has in hand   *)
(* and on what its order asks for.                                         *)
(***************************************************************************)
LEMMA SameLegs ==
    ASSUME NEW w \in Workers, exec'[w].order = exec[w].order,
           exec'[w].price = exec[w].price, exec'[w].hold = exec[w].hold,
           exec'[w].seq = exec[w].seq, exec'[w].at = exec[w].at,
           orders'[exec[w].order].req = orders[exec[w].order].req
    PROVE  /\ Insufficient(w)' = Insufficient(w)
           /\ Legs(w)' = Legs(w)
<1>1. Cost(w)' = Cost(w)
  BY DEF Cost
<1> QED
  BY <1>1 DEF Insufficient, Legs, Leg

(***************************************************************************)
(* CommitAccepted is kept by every step.                                   *)
(***************************************************************************)
LEMMA CommitAcceptedInductive ==
    ASSUME TypeOK, CommitAccepted, [Next]_vars
    PROVE  CommitAccepted'
<1> SUFFICES ASSUME NEW v \in Workers, exec'[v].pc = "commit"
             PROVE  ~Insufficient(v)' /\ LegsAccepted(Legs(v))'
  BY DEF CommitAccepted
<1> DEFINE Goal == ~Insufficient(v)' /\ LegsAccepted(Legs(v))'
<1>a. exec \in [Workers -> ExecState]
  BY DEF TypeOK
<1>b. Kept
  BY RequestsAreFixed
<1>1. ASSUME exec'[v] = exec[v] PROVE Goal
  <2>1. exec[v].pc = "commit" /\ ~Insufficient(v) /\ LegsAccepted(Legs(v))
    BY <1>1 DEF CommitAccepted
  <2>2. exec[v].order \in Orders /\ Placed(exec[v].order)
    BY <2>1 DEF TypeOK
  <2>3. orders'[exec[v].order].req = orders[exec[v].order].req
    BY <1>b, <2>2 DEF Kept
  <2>4. Insufficient(v)' = Insufficient(v) /\ Legs(v)' = Legs(v)
    BY <1>1, <2>3, SameLegs
  <2> QED
    BY <2>1, <2>4 DEF LegsAccepted, SignedValue
<1>2. ASSUME Quiet PROVE Goal
  BY <1>1, <1>2 DEF Quiet, WorkerLeaves, InTx
<1>3. ASSUME NEW p \in Portfolios, NEW seed \in Seeds, CreatePortfolio(p, seed)
      PROVE  Goal
  BY <1>1, <1>3 DEF CreatePortfolio
<1>4. ASSUME NEW w \in Workers, ExecLock(w) PROVE Goal
  <2>1. PICK e : exec' = [exec EXCEPT ![w] = e] /\ e.pc \in {"write", "err"}
    <3> DEFINE p == orders[exec[w].order].req.portfolio
               fits == Fits(Holdings(p))
               e == [exec[w] EXCEPT !.pc = IF fits THEN "write" ELSE "err",
                                    !.seq = seqCounter[p], !.hold = Holdings(p)]
    <3>1. exec' = [exec EXCEPT ![w] = e]
      BY <1>4 DEF ExecLock
    <3>2. exec[w] \in ExecState
      BY <1>a
    <3> HIDE DEF fits
    <3>3. e.pc \in {"write", "err"}
      BY <3>2 DEF ExecState
    <3> QED
      BY <3>1, <3>3
  <2> QED
    BY <1>1, <1>a, <2>1
<1>5. ASSUME NEW w \in Workers, ExecWrite(w) PROVE Goal
  <2>1. /\ exec' = [exec EXCEPT ![w].pc = "commit"] /\ orders' = orders
        /\ ~Insufficient(w) /\ LegsAccepted(Legs(w))
    BY <1>5 DEF ExecWrite, ExecGoto
  <2>2. CASE v = w
    <3>1. /\ exec'[w].order = exec[w].order /\ exec'[w].price = exec[w].price
          /\ exec'[w].hold = exec[w].hold /\ exec'[w].seq = exec[w].seq
          /\ exec'[w].at = exec[w].at
      BY <1>a, <2>1 DEF ExecState
    <3>2. Insufficient(w)' = Insufficient(w) /\ Legs(w)' = Legs(w)
      BY <2>1, <3>1, SameLegs
    <3> QED
      BY <2>1, <2>2, <3>2 DEF LegsAccepted, SignedValue
  <2>3. CASE v # w
    BY <1>1, <1>a, <2>1, <2>3
  <2> QED
    BY <2>2, <2>3
<1>6. ASSUME NEW w \in Workers, NEW result \in {"ok", "err"}, ExecFill(w, result)
      PROVE  Goal
  <2>1. exec' = [exec EXCEPT ![w].pc = result]
    BY <1>6 DEF ExecFill, ExecGoto
  <2>2. v # w
    BY <1>a, <2>1 DEF ExecState
  <2> QED
    BY <1>1, <1>a, <2>1, <2>2
<1> HIDE DEF Goal
<1>7. Goal
  BY <1>2, <1>3, <1>4, <1>5, <1>6, StepKinds DEF Touching
<1> QED
  BY <1>7 DEF Goal

(***************************************************************************)
(* OpenedFirst is kept by every step.                                      *)
(***************************************************************************)
LEMMA OpenedFirstInductive ==
    ASSUME TypeOK, CommitAccepted, OpenedFirst, [Next]_vars
    PROVE  OpenedFirst'
<1>1. Kept
  BY RequestsAreFixed
<1>2. opened \subseteq opened' /\
      \A p \in Portfolios : p \notin opened' => entries'[p] = <<>>
  <2>1. CASE Quiet
    BY <2>1 DEF Quiet, OpenedFirst
  <2>2. ASSUME NEW p \in Portfolios, NEW seed \in Seeds, CreatePortfolio(p, seed)
        PROVE  <1>2!:
    BY <2>2 DEF CreatePortfolio, OpenedFirst, TypeOK
  <2>3. ASSUME NEW w \in Workers, ExecLock(w) \/ ExecWrite(w) PROVE <1>2!:
    BY <2>3, Zenon DEF ExecLock, ExecWrite, OpenedFirst, execUnchanged
  <2>4. ASSUME NEW w \in Workers, NEW result \in {"ok", "err"}, ExecFill(w, result)
        PROVE  <1>2!:
    <3> DEFINE o == exec[w].order
               p == orders[o].req.portfolio
    <3>1. /\ o \in Orders /\ Placed(o) /\ p \in Portfolios
          /\ entries' = [entries EXCEPT ![p] = entries[p] \o Legs(w)]
      BY <2>4, FillAppends
    <3>2. p \in opened /\ opened' = opened
      BY <2>4, <3>1 DEF OpenedFirst, ExecFill, execUnchanged
    <3> HIDE DEF o, p
    <3> QED
      BY <3>1, <3>2 DEF OpenedFirst, TypeOK
  <2> QED
    BY <2>1, <2>2, <2>3, <2>4, StepKinds DEF Touching
<1>3. \A o \in Orders : Placed(o)' => orders'[o].req.portfolio \in opened'
  BY <1>1, <1>2 DEF Kept, OpenedFirst
<1>4. \A c \in Clients : client'[c].pc = "insert" =>
                            client'[c].req.portfolio \in opened'
  BY <1>2, InsertsAreChecked DEF OpenedFirst
<1> QED
  BY <1>2, <1>3, <1>4 DEF OpenedFirst

-----------------------------------------------------------------------------
(* The row lock and the balances.                                          *)

\* What WritersHoldTheLock says of one worker.
WriterOK(w) ==
    exec[w].pc \in InTx =>
        LET p == orders[exec[w].order].req.portfolio IN
        /\ lock[p] = w
        /\ exec[w].hold = Holdings(p)
        /\ exec[w].seq = seqCounter[p]

\* WritersHoldTheLock, worker by worker.
LEMMA WritersByWorker == WritersHoldTheLock <=> \A w \in Workers : WriterOK(w)
BY DEF WritersHoldTheLock, WriterOK

(***************************************************************************)
(* A transaction under way is not disturbed by a step that changes neither *)
(* it nor its portfolio.                                                   *)
(***************************************************************************)
LEMMA WriterUndisturbed ==
    ASSUME TypeOK, Kept, NEW w \in Workers, WriterOK(w), exec'[w] = exec[w],
           NEW p, p = orders[exec[w].order].req.portfolio,
           exec[w].pc \in InTx => /\ lock'[p] = lock[p]
                                   /\ entries'[p] = entries[p]
                                   /\ seqCounter'[p] = seqCounter[p]
    PROVE  WriterOK(w)'
<1> SUFFICES ASSUME exec[w].pc \in InTx PROVE WriterOK(w)'
  BY DEF WriterOK
<1>1. exec[w].order \in Orders /\ Placed(exec[w].order)
  BY DEF TypeOK, InTx
<1>2. orders'[exec[w].order].req = orders[exec[w].order].req
  BY <1>1 DEF Kept
<1>3. Holdings(p)' = Holdings(p)
  BY DEF Holdings
<1> QED
  BY <1>2, <1>3 DEF WriterOK

(***************************************************************************)
(* WritersHoldTheLock is kept by every step.  No two transactions write to *)
(* one portfolio, so the one that fills disturbs no other.                 *)
(***************************************************************************)
LEMMA WritersInductive ==
    ASSUME TypeOK, CommitAccepted, OpenedFirst, WritersHoldTheLock, [Next]_vars
    PROVE  WritersHoldTheLock'
<1> DEFINE pf(v) == orders[exec[v].order].req.portfolio
<1>a. Kept
  BY RequestsAreFixed
<1>b. \A w \in Workers : WriterOK(w)
  BY WritersByWorker
<1>c. \A v \in Workers : exec[v].pc \in InTx =>
         exec[v].order \in Orders /\ pf(v) \in opened /\ pf(v) \in Portfolios
  BY DEF TypeOK, OpenedFirst, InTx
<1>1. CASE Quiet
  <2> SUFFICES ASSUME NEW v \in Workers PROVE WriterOK(v)'
    BY WritersByWorker DEF WritersHoldTheLock, WriterOK
  <2>1. CASE UNCHANGED <<exec, lock>>
    BY <1>1, <2>1, <1>a, <1>b, WriterUndisturbed DEF Quiet
  <2>2. ASSUME NEW w \in Workers, WorkerLeaves(w) PROVE WriterOK(v)'
    <3>1. CASE v = w
      BY <2>2, <3>1 DEF WorkerLeaves, WriterOK
    <3>2. CASE v # w
      <4>1. exec'[v] = exec[v]
        BY <2>2, <3>2 DEF WorkerLeaves
      <4>2. exec[v].pc \in InTx => lock[pf(v)] = v
        BY <1>b DEF WriterOK
      <4>3. exec[v].pc \in InTx => lock'[pf(v)] = lock[pf(v)]
        BY <2>2, <3>2, <1>c, <4>2 DEF WorkerLeaves, Unlocked
      <4> QED
        BY <1>1, <1>a, <1>b, <4>1, <4>3, WriterUndisturbed DEF Quiet
    <3> QED
      BY <3>1, <3>2
  <2> QED
    BY <1>1, <2>1, <2>2 DEF Quiet
<1>2. ASSUME NEW p \in Portfolios, NEW seed \in Seeds, CreatePortfolio(p, seed)
      PROVE  WritersHoldTheLock'
  <2> SUFFICES ASSUME NEW v \in Workers PROVE WriterOK(v)'
    BY WritersByWorker DEF WritersHoldTheLock, WriterOK
  <2>1. exec[v].pc \in InTx => pf(v) # p
    BY <1>2, <1>c DEF CreatePortfolio
  <2>2. exec[v].pc \in InTx => /\ lock'[pf(v)] = lock[pf(v)]
                                /\ entries'[pf(v)] = entries[pf(v)]
                                /\ seqCounter'[pf(v)] = seqCounter[pf(v)]
    BY <1>2, <1>c, <2>1 DEF CreatePortfolio, TypeOK
  <2>3. exec'[v] = exec[v]
    BY <1>2 DEF CreatePortfolio
  <2> HIDE DEF pf
  <2> QED
    BY <1>a, <1>b, <2>2, <2>3, WriterUndisturbed DEF pf
<1>3. ASSUME NEW w \in Workers, ExecLock(w) PROVE WritersHoldTheLock'
  <2> SUFFICES ASSUME NEW v \in Workers PROVE WriterOK(v)'
    BY WritersByWorker DEF WritersHoldTheLock, WriterOK
  <2> DEFINE p == pf(w)
             fits == Fits(Holdings(p))
             e == [exec[w] EXCEPT !.pc = IF fits THEN "write" ELSE "err",
                                  !.seq = seqCounter[p], !.hold = Holdings(p)]
  <2>1. /\ exec' = [exec EXCEPT ![w] = e]
        /\ lock' = IF fits THEN [lock EXCEPT ![p] = w] ELSE lock
        /\ lock[p] = Free
        /\ entries' = entries /\ seqCounter' = seqCounter /\ orders' = orders
    BY <1>3 DEF ExecLock
  <2>2. exec[w] \in ExecState /\ exec[w].pc = "lock" /\ p \in Portfolios
    BY <1>3, RequestTypes DEF ExecLock, TypeOK
  <2>3. /\ e.pc = (IF fits THEN "write" ELSE "err")
        /\ e.seq = seqCounter[p] /\ e.hold = Holdings(p) /\ e.order = exec[w].order
    BY <2>2 DEF ExecState
  <2>4. \A q : Holdings(q)' = Holdings(q)
    BY <2>1 DEF Holdings
  <2>5. exec \in [Workers -> ExecState] /\ lock \in [Portfolios -> Workers \cup {Free}]
    BY DEF TypeOK
  <2> HIDE DEF e, fits
  <2>6. CASE v = w
    <3>1. exec'[v] = e
      BY <2>1, <2>5, <2>6
    <3>2. CASE fits
      <4>1. lock'[p] = w
        BY <2>1, <2>2, <2>5, <3>2
      <4> HIDE DEF p
      <4>2. orders'[exec'[v].order].req.portfolio = p
        BY <2>1, <2>3, <3>1 DEF p
      <4> QED
        BY <2>1, <2>3, <2>4, <2>6, <3>1, <4>1, <4>2 DEF WriterOK, Holdings
    <3>3. CASE ~fits
      BY <2>3, <3>1, <3>3 DEF WriterOK, InTx
    <3> QED
      BY <3>2, <3>3
  <2>7. CASE v # w
    <3>1. exec'[v] = exec[v]
      BY <2>1, <2>5, <2>7
    <3>2. exec[v].pc \in InTx => lock[pf(v)] = v
      BY <1>b DEF WriterOK
    <3>3. Free \notin Workers
      BY TradingAssumption
    <3> HIDE DEF pf, p
    <3>4. exec[v].pc \in InTx => pf(v) # p
      BY <2>1, <3>2, <3>3
    <3>5. exec[v].pc \in InTx => lock'[pf(v)] = lock[pf(v)]
      BY <2>1, <2>2, <2>5, <1>c, <3>4
    <3> QED
      BY <1>a, <1>b, <2>1, <3>1, <3>5, WriterUndisturbed DEF pf
  <2> QED
    BY <2>6, <2>7
<1>4. ASSUME NEW w \in Workers, NEW result \in {"ok", "err"}, ExecFill(w, result)
      PROVE  WritersHoldTheLock'
  <2> SUFFICES ASSUME NEW v \in Workers PROVE WriterOK(v)'
    BY WritersByWorker DEF WritersHoldTheLock, WriterOK
  <2>1. /\ pf(w) \in Portfolios
        /\ entries' = [entries EXCEPT ![pf(w)] = entries[pf(w)] \o Legs(w)]
        /\ seqCounter' = [seqCounter EXCEPT ![pf(w)] = seqCounter[pf(w)] + 2]
    BY <1>4, FillAppends
  <2>2. exec' = [exec EXCEPT ![w].pc = result] /\ lock' = Unlocked(w) /\ exec[w].pc = "commit"
    BY <1>4 DEF ExecFill, ExecGoto
  <2>3. lock[pf(w)] = w
    BY <1>b, <2>2 DEF WriterOK, InTx
  <2>4. CASE v = w
    <3>1. exec'[v].pc = result
      BY <2>2, <2>4 DEF TypeOK, ExecState
    <3> QED
      BY <3>1 DEF WriterOK, InTx
  <2>5. CASE v # w
    <3>1. exec'[v] = exec[v]
      BY <2>2, <2>5 DEF TypeOK
    <3>2. exec[v].pc \in InTx => lock[pf(v)] = v /\ pf(v) \in Portfolios
      BY <1>b, <1>c DEF WriterOK
    <3>3. entries \in [Portfolios -> Seq(Entry)] /\ seqCounter \in [Portfolios -> Nat]
      BY DEF TypeOK
    <3> HIDE DEF pf
    <3>4. exec[v].pc \in InTx => pf(v) # pf(w)
      BY <2>3, <2>5, <3>2
    <3>5. exec[v].pc \in InTx => lock'[pf(v)] = lock[pf(v)]
      BY <2>2, <2>5, <3>2 DEF Unlocked
    <3>6. exec[v].pc \in InTx => /\ entries'[pf(v)] = entries[pf(v)]
                                  /\ seqCounter'[pf(v)] = seqCounter[pf(v)]
      BY <2>1, <3>2, <3>3, <3>4
    <3> QED
      BY <1>a, <1>b, <3>1, <3>5, <3>6, WriterUndisturbed DEF pf
  <2> QED
    BY <2>4, <2>5
<1>5. ASSUME NEW w \in Workers, ExecWrite(w) PROVE WritersHoldTheLock'
  <2> SUFFICES ASSUME NEW v \in Workers PROVE WriterOK(v)'
    BY WritersByWorker DEF WritersHoldTheLock, WriterOK
  <2>1. /\ exec' = [exec EXCEPT ![w].pc = "commit"] /\ exec[w].pc = "write"
        /\ lock' = lock /\ entries' = entries /\ seqCounter' = seqCounter
        /\ orders' = orders
    BY <1>5 DEF ExecWrite, ExecGoto
  <2>2. exec'[v].order = exec[v].order /\ exec'[v].hold = exec[v].hold
        /\ exec'[v].seq = exec[v].seq
        /\ (exec'[v].pc \in InTx => exec[v].pc \in InTx)
    BY <2>1 DEF TypeOK, ExecState, InTx
  <2>3. WriterOK(v)
    BY <1>b
  <2> QED
    BY <2>1, <2>2, <2>3 DEF WriterOK, Holdings
<1> QED
  BY <1>1, <1>2, <1>3, <1>4, <1>5, StepKinds DEF Touching

(***************************************************************************)
(* What a fill does to the derived balances of its portfolio.              *)
(***************************************************************************)
LEMMA FillEffect ==
    ASSUME TypeOK, CommitAccepted, NEW w \in Workers, NEW result \in {"ok", "err"},
           ExecFill(w, result), NEW r, r = orders[exec[w].order].req,
           NEW p, p = r.portfolio, NEW i \in Assets
    PROVE  /\ r.inst \in Stocks /\ r.inst # Cash /\ r.qty \in Amounts /\ Cost(w) \in Amounts
           /\ Net(entries'[p], i) =
                 IF i = r.inst
                 THEN IF r.side = "buy" THEN Net(entries[p], i) + r.qty
                                        ELSE Net(entries[p], i) - r.qty
                 ELSE IF i = Cash
                 THEN IF r.side = "buy" THEN Net(entries[p], i) - Cost(w)
                                        ELSE Net(entries[p], i) + Cost(w)
                 ELSE Net(entries[p], i)
<1> DEFINE a == Legs(w)[1]
           b == Legs(w)[2]
<1>1. /\ exec[w].order \in Orders /\ Placed(exec[w].order) /\ p \in Portfolios
      /\ a \in Entry /\ b \in Entry /\ Legs(w) = <<a, b>>
      /\ entries' = [entries EXCEPT ![p] = entries[p] \o Legs(w)]
  BY FillAppends
<1>2. r \in Requests /\ Valid(r)
  BY <1>1 DEF TypeOK
<1>3. r.inst \in Stocks /\ r.inst # Cash
  BY <1>2, RequestTypes DEF Valid, Assets
<1>4. /\ a.inst = r.inst /\ a.dir = StockDir(r) /\ a.qty = r.qty
      /\ b.inst = Cash /\ b.dir = -StockDir(r) /\ b.qty = Cost(w)
  BY DEF Legs, Leg
<1>5. r.qty \in Amounts /\ Cost(w) \in Amounts
  BY <1>1, <1>4 DEF Entry
<1>6. entries \in [Portfolios -> Seq(Entry)]
  BY DEF TypeOK
<1>7. entries'[p] = entries[p] \o <<a, b>>
  BY <1>1, <1>6
<1> HIDE DEF a, b
<1>8. Net(entries'[p], i) = Net(entries[p], i) + Contribution(a, i) + Contribution(b, i)
  <2>1. entries[p] \in Seq(Entry)
    BY <1>1, <1>6
  <2>3. a \in Entry /\ b \in Entry
    BY <1>1
  <2>2. Net(entries[p] \o <<a, b>>, i)
          = Net(entries[p], i) + Contribution(a, i) + Contribution(b, i)
    BY <2>1, <2>3, NetLegs, SMTT(30)
  <2> QED
    BY <1>7, <2>2
<1>9. r.qty \in Int /\ Cost(w) \in Int
  BY <1>5, WordTypes
<1>10. ASSUME NEW n \in Int PROVE 1 * n = n /\ (-1) * n = -n
  OBVIOUS
<1>11. IF r.side = "buy" THEN StockDir(r) = 1 /\ -StockDir(r) = -1
       ELSE StockDir(r) = -1 /\ -StockDir(r) = 1
  <2>1. ASSUME NEW n \in Int PROVE -(-n) = n
    OBVIOUS
  <2>4. 1 \in Int
    OBVIOUS
  <2>2. CASE r.side = "buy"
    BY <2>2, Zenon DEF StockDir
  <2>3. CASE r.side # "buy"
    BY <2>1, <2>3, <2>4, Zenon DEF StockDir
  <2> QED
    BY <2>2, <2>3
<1>12. Contribution(a, i) = IF i = r.inst THEN IF r.side = "buy" THEN r.qty ELSE -r.qty
                           ELSE 0
  BY <1>4, <1>9, <1>10, <1>11 DEF Contribution
<1>13. Contribution(b, i) = IF i = Cash THEN IF r.side = "buy" THEN -Cost(w) ELSE Cost(w)
                            ELSE 0
  BY <1>4, <1>9, <1>10, <1>11 DEF Contribution
<1>14. Net(entries[p], i) \in Int /\ r.qty \in Int /\ Cost(w) \in Int
  BY <1>1, <1>5, <1>6, NetInt, WordTypes
<1> QED
  BY <1>3, <1>5, <1>8, <1>12, <1>13, <1>14

(***************************************************************************)
(* A portfolio's first entries: its seed, or none.                         *)
(***************************************************************************)
LEMMA SeedEffect ==
    ASSUME TypeOK, NEW p \in Portfolios, NEW seed \in Seeds,
           CreatePortfolio(p, seed), NEW i
    PROVE  Net(entries'[p], i) = IF i = Cash THEN seed ELSE 0
<1>1. seed \in Int /\ seed >= 0
  BY TradingAssumption DEF Amounts
<1>2. entries'[p] = IF seed > 0 THEN <<SeedEntry(seed)>> ELSE <<>>
  BY DEF CreatePortfolio, TypeOK
<1>3. CASE seed > 0
  <2>1. SeedEntry(seed) \in Entry
    BY WordTypes, TradingAssumption DEF SeedEntry, Entry, TypeOK, Assets
  <2>2. Contribution(SeedEntry(seed), i) = IF i = Cash THEN seed ELSE 0
    BY <1>1 DEF Contribution, SeedEntry
  <2>3. <<>> \in Seq(Entry) /\ <<SeedEntry(seed)>> = Append(<<>>, SeedEntry(seed))
    OBVIOUS
  <2>4. Net(Append(<<>>, SeedEntry(seed)), i) = 0 + Contribution(SeedEntry(seed), i)
    BY <2>1, <2>3, NetAppend, NetEmpty
  <2> QED
    BY <1>1, <1>2, <1>3, <2>2, <2>3, <2>4
<1>4. CASE ~(seed > 0)
  BY <1>1, <1>2, <1>4, NetEmpty
<1> QED
  BY <1>3, <1>4

(***************************************************************************)
(* Solvency is kept by every step: the fill tests the holdings it read     *)
(* under the lock, which are still the holdings when it commits.           *)
(***************************************************************************)
LEMMA SolventInductive ==
    ASSUME TypeOK, CommitAccepted, WritersHoldTheLock, Solvent, [Next]_vars
    PROVE  Solvent'
<1>a. \A p \in Portfolios, i \in Assets : Net(entries[p], i) >= 0
  BY DEF Solvent, Holdings
<1> SUFFICES ASSUME NEW p \in Portfolios, NEW i \in Assets
             PROVE  Net(entries'[p], i) >= 0
  BY DEF Solvent, Holdings
<1>1. ASSUME entries' = entries PROVE Net(entries'[p], i) >= 0
  BY <1>1, <1>a
<1>2. ASSUME NEW q \in Portfolios, NEW seed \in Seeds, CreatePortfolio(q, seed)
      PROVE  Net(entries'[p], i) >= 0
  <2>1. CASE p = q
    BY <1>2, <2>1, SeedEffect, TradingAssumption DEF Amounts
  <2>2. CASE p # q
    BY <1>2, <2>2, <1>a DEF CreatePortfolio, TypeOK
  <2> QED
    BY <2>1, <2>2
<1>3. ASSUME NEW w \in Workers, NEW result \in {"ok", "err"}, ExecFill(w, result)
      PROVE  Net(entries'[p], i) >= 0
  <2> DEFINE r == orders[exec[w].order].req
             q == r.portfolio
  <2>1. /\ r.inst \in Stocks /\ r.inst # Cash /\ r.qty \in Amounts /\ Cost(w) \in Amounts
        /\ Net(entries'[q], i) =
                 IF i = r.inst
                 THEN IF r.side = "buy" THEN Net(entries[q], i) + r.qty
                                        ELSE Net(entries[q], i) - r.qty
                 ELSE IF i = Cash
                 THEN IF r.side = "buy" THEN Net(entries[q], i) - Cost(w)
                                        ELSE Net(entries[q], i) + Cost(w)
                 ELSE Net(entries[q], i)
    BY <1>3, FillEffect
  <2>2. /\ q \in Portfolios
        /\ entries' = [entries EXCEPT ![q] = entries[q] \o Legs(w)]
    BY <1>3, FillAppends
  <2>3. exec[w].hold = Holdings(q)
    BY <1>3 DEF ExecFill, WritersHoldTheLock, InTx
  <2>4. Cash \in Assets /\ r.inst \in Assets
    BY <2>1 DEF Assets
  <2>5. exec[w].hold[Cash] = Net(entries[q], Cash) /\ exec[w].hold[r.inst] = Net(entries[q], r.inst)
    BY <2>3, <2>4 DEF Holdings
  <2>6. IF r.side = "buy" THEN ~(Net(entries[q], Cash) < Cost(w))
        ELSE ~(Net(entries[q], r.inst) < r.qty)
    BY <1>3, <2>5 DEF ExecFill, CommitAccepted, Insufficient
  <2>7. \A j \in Assets : Net(entries[q], j) \in Int /\ Net(entries[q], j) >= 0
    BY <1>a, <2>2, NetInt DEF TypeOK
  <2>8. r.qty \in Nat /\ Cost(w) \in Nat
    BY <2>1 DEF Amounts
  <2> HIDE DEF r, q
  <2>9. CASE p = q
    BY <2>1, <2>4, <2>6, <2>7, <2>8, <2>9
  <2>10. CASE p # q
    BY <1>a, <2>2, <2>10 DEF TypeOK
  <2> QED
    BY <2>9, <2>10
<1>4. ASSUME NEW w \in Workers, ExecLock(w) \/ ExecWrite(w) PROVE Net(entries'[p], i) >= 0
  BY <1>4, <1>1, Zenon DEF ExecLock, ExecWrite
<1>5. ASSUME Quiet PROVE Net(entries'[p], i) >= 0
  BY <1>5, <1>1 DEF Quiet
<1> QED
  BY <1>2, <1>3, <1>4, <1>5, StepKinds DEF Touching

(***************************************************************************)
(* The numbering of the entries is kept by every step: the numbers a fill  *)
(* uses follow the counter it read under the lock.                         *)
(***************************************************************************)
LEMMA DenseInductive ==
    ASSUME TypeOK, CommitAccepted, WritersHoldTheLock, DenseLedger, [Next]_vars
    PROVE  DenseLedger'
<1> SUFFICES ASSUME NEW p \in Portfolios
             PROVE  /\ seqCounter'[p] = Len(entries'[p])
                    /\ \A k \in 1..Len(entries'[p]) : entries'[p][k].seq = k
  BY DEF DenseLedger
<1> DEFINE Goal == /\ seqCounter'[p] = Len(entries'[p])
                   /\ \A k \in 1..Len(entries'[p]) : entries'[p][k].seq = k
<1>a. /\ entries \in [Portfolios -> Seq(Entry)] /\ seqCounter \in [Portfolios -> Nat]
      /\ \A q \in Portfolios :
            /\ seqCounter[q] = Len(entries[q])
            /\ \A k \in 1..Len(entries[q]) : entries[q][k].seq = k
  BY DEF DenseLedger, TypeOK
<1>1. ASSUME entries'[p] = entries[p], seqCounter'[p] = seqCounter[p] PROVE Goal
  BY <1>1, <1>a
<1>2. ASSUME NEW q \in Portfolios, NEW seed \in Seeds, CreatePortfolio(q, seed)
      PROVE  Goal
  <2>1. CASE p = q
    <3>1. /\ entries'[p] = IF seed > 0 THEN <<SeedEntry(seed)>> ELSE <<>>
          /\ seqCounter'[p] = IF seed > 0 THEN 1 ELSE 0
      BY <1>2, <1>a, <2>1 DEF CreatePortfolio
    <3>2. SeedEntry(seed).seq = 1
      BY DEF SeedEntry
    <3> QED
      BY <3>1, <3>2
  <2>2. CASE p # q
    BY <1>2, <1>a, <1>1, <2>2 DEF CreatePortfolio
  <2> QED
    BY <2>1, <2>2
<1>3. ASSUME NEW w \in Workers, NEW result \in {"ok", "err"}, ExecFill(w, result)
      PROVE  Goal
  <2> DEFINE q == orders[exec[w].order].req.portfolio
             a == Legs(w)[1]
             b == Legs(w)[2]
  <2>1. /\ q \in Portfolios /\ Legs(w) = <<a, b>>
        /\ entries' = [entries EXCEPT ![q] = entries[q] \o Legs(w)]
        /\ seqCounter' = [seqCounter EXCEPT ![q] = seqCounter[q] + 2]
    BY <1>3, FillAppends
  <2>2. a.seq = exec[w].seq + 1 /\ b.seq = exec[w].seq + 2
    BY DEF Legs, Leg
  <2>3. exec[w].seq = seqCounter[q]
    BY <1>3 DEF ExecFill, WritersHoldTheLock, InTx
  <2> HIDE DEF q, a, b
  <2>4. CASE p = q
    <3> DEFINE n == Len(entries[q])
               t == entries[q] \o <<a, b>>
    <3>1. n \in Nat /\ seqCounter[q] = n /\ entries[q] \in Seq(Entry)
      BY <1>a, <2>1
    <3>2. entries'[p] = t /\ seqCounter'[p] = n + 2
      BY <1>a, <2>1, <2>4, <3>1
    <3>3. Len(t) = n + 2
      BY <3>1
    <3>4. \A k \in 1..n : t[k].seq = k
      BY <1>a, <2>1, <3>1
    <3>5. t[n + 1] = a /\ t[n + 2] = b
      BY <3>1
    <3>6. \A k \in 1..(n + 2) : k \in 1..n \/ k = n + 1 \/ k = n + 2
      BY <3>1
    <3> HIDE DEF t, n
    <3>7. \A k \in 1..(n + 2) : t[k].seq = k
      BY <2>2, <2>3, <3>1, <3>4, <3>5, <3>6
    <3> QED
      BY <3>2, <3>3, <3>7
  <2>5. CASE p # q
    BY <1>a, <1>1, <2>1, <2>5
  <2> QED
    BY <2>4, <2>5
<1>4. ASSUME NEW w \in Workers, ExecLock(w) \/ ExecWrite(w) PROVE Goal
  BY <1>4, <1>1, Zenon DEF ExecLock, ExecWrite
<1>5. ASSUME Quiet PROVE Goal
  BY <1>5, <1>1 DEF Quiet
<1> QED
  BY <1>2, <1>3, <1>4, <1>5, StepKinds DEF Touching

(***************************************************************************)
(* The inductive invariant of the ledger.                                  *)
(***************************************************************************)
Books ==
    /\ TypeOK
    /\ CommitAccepted
    /\ OpenedFirst
    /\ WritersHoldTheLock
    /\ Solvent
    /\ DenseLedger

\* Books holds in every reachable state.
LEMMA BooksInvariant == Spec => []Books
<1>1. Init => Books
  <2> SUFFICES ASSUME Init PROVE Books
    OBVIOUS
  <2>1. TypeOK
    BY InitTypeOK
  <2>2. /\ \A p \in Portfolios : entries[p] = <<>> /\ seqCounter[p] = 0
        /\ \A w \in Workers : exec[w].pc = "idle"
        /\ \A o \in Orders : ~Placed(o)
        /\ \A c \in Clients : client[c].pc = "idle"
    BY DEF Init, IdleExec, IdleClient, NoRow, Placed
  <2>3. OpenedFirst
    BY <2>2 DEF OpenedFirst
  <2>4. WritersHoldTheLock /\ CommitAccepted
    BY <2>2 DEF WritersHoldTheLock, CommitAccepted, InTx
  <2>5. Solvent
    BY <2>2, NetEmpty DEF Solvent, Holdings
  <2>6. DenseLedger
    BY <2>2 DEF DenseLedger
  <2> QED
    BY <2>1, <2>3, <2>4, <2>5, <2>6 DEF Books
<1>2. Books /\ [Next]_vars => Books'
  BY TypeOKInductive, CommitAcceptedInductive, OpenedFirstInductive,
     WritersInductive, SolventInductive, DenseInductive DEF Books
<1> QED
  BY <1>1, <1>2, PTL DEF Spec

(***************************************************************************)
(* Type correctness of every behaviour of the trading core.                *)
(***************************************************************************)
THEOREM TypeCorrect == Spec => []TypeOK
<1>1. Books => TypeOK
  BY DEF Books
<1> QED
  BY <1>1, BooksInvariant, PTL

(***************************************************************************)
(* What a transaction read under the row lock is what is there when it     *)
(* commits.                                                                *)
(***************************************************************************)
THEOREM LockProtects == Spec => []WritersHoldTheLock
<1>1. Books => WritersHoldTheLock
  BY DEF Books
<1> QED
  BY <1>1, BooksInvariant, PTL

(***************************************************************************)
(* No balance ever goes negative, for any number of workers executing any  *)
(* orders any number of times, and for costs that wrap around.             *)
(***************************************************************************)
THEOREM NeverOverdrawn == Spec => []Solvent
<1>1. Books => Solvent
  BY DEF Books
<1> QED
  BY <1>1, BooksInvariant, PTL

(***************************************************************************)
(* The entries of a portfolio are numbered without gap or duplicate.       *)
(***************************************************************************)
THEOREM AuditTrailIsDense == Spec => []DenseLedger
<1>1. Books => DenseLedger
  BY DEF Books
<1> QED
  BY <1>1, BooksInvariant, PTL

-----------------------------------------------------------------------------
(* Orders, their keys and their trades.                                    *)

\* A stream with two more entries.
LEMMA TwoMore ==
    ASSUME NEW s \in Seq(Entry), NEW a \in Entry, NEW b \in Entry,
           NEW t, t = s \o <<a, b>>
    PROVE  /\ Len(s) \in Nat /\ Len(t) = Len(s) + 2
           /\ t[Len(s) + 1] = a /\ t[Len(s) + 2] = b
           /\ \A k \in 1..Len(s) : t[k] = s[k]
<1>1. Len(s) \in Nat /\ Len(<<a, b>>) = 2
  OBVIOUS
<1>2. Len(t) = Len(s) + 2
  BY <1>1
<1>3. t[Len(s) + 1] = a /\ t[Len(s) + 2] = b
  BY <1>1
<1>4. \A k \in 1..Len(s) : t[k] = s[k]
  BY <1>1
<1> QED
  BY <1>1, <1>2, <1>3, <1>4

\* Worker w's legs land at the end of p's stream, and on no other.
LegsLand(w, p) ==
    /\ p \in Portfolios
    /\ Len(entries[p]) \in Nat
    /\ Len(entries'[p]) = Len(entries[p]) + 2
    /\ entries'[p][Len(entries[p]) + 1] = Legs(w)[1]
    /\ entries'[p][Len(entries[p]) + 2] = Legs(w)[2]
    /\ \A k \in 1..Len(entries[p]) : entries'[p][k] = entries[p][k]
    /\ \A q \in Portfolios : q # p => entries'[q] = entries[q]

\* What a fill leaves at the end of its portfolio's stream.
LEMMA FillAtTheEnd ==
    ASSUME TypeOK, CommitAccepted, NEW w \in Workers, NEW result \in {"ok", "err"},
           ExecFill(w, result), NEW p, p = orders[exec[w].order].req.portfolio
    PROVE  LegsLand(w, p)
<1> DEFINE a == Legs(w)[1]
           b == Legs(w)[2]
<1>1. /\ p \in Portfolios /\ Legs(w) = <<a, b>> /\ a \in Entry /\ b \in Entry
      /\ entries' = [entries EXCEPT ![p] = entries[p] \o Legs(w)]
  BY FillAppends
<1>2. entries \in [Portfolios -> Seq(Entry)]
  BY DEF TypeOK
<1> HIDE DEF a, b
<1>3. entries'[p] = entries[p] \o <<a, b>> /\ entries[p] \in Seq(Entry)
  BY <1>1, <1>2
<1>4. /\ Len(entries[p]) \in Nat /\ Len(entries'[p]) = Len(entries[p]) + 2
      /\ entries'[p][Len(entries[p]) + 1] = a
      /\ entries'[p][Len(entries[p]) + 2] = b
      /\ \A k \in 1..Len(entries[p]) : entries'[p][k] = entries[p][k]
  <2> DEFINE old == entries[p]
             new == entries'[p]
  <2>1. old \in Seq(Entry) /\ new = old \o <<a, b>> /\ a \in Entry /\ b \in Entry
    BY <1>1, <1>3
  <2> HIDE DEF old, new
  <2>2. /\ Len(old) \in Nat /\ Len(new) = Len(old) + 2
        /\ new[Len(old) + 1] = a /\ new[Len(old) + 2] = b
        /\ \A k \in 1..Len(old) : new[k] = old[k]
    BY <2>1, TwoMore
  <2> QED
    BY <2>2 DEF old, new
<1>5. \A q \in Portfolios : q # p => entries'[q] = entries[q]
  BY <1>1, <1>2
<1> QED
  BY <1>1, <1>4, <1>5 DEF LegsLand, a, b

(***************************************************************************)
(* The ledger is append-only: no step changes or removes an entry.         *)
(***************************************************************************)
LEMMA EntriesStay ==
    ASSUME TypeOK, CommitAccepted, OpenedFirst, [Next]_vars,
           NEW p \in Portfolios, NEW k \in 1..Len(entries[p])
    PROVE  k \in 1..Len(entries'[p]) /\ entries'[p][k] = entries[p][k]
<1> DEFINE Goal == k \in 1..Len(entries'[p]) /\ entries'[p][k] = entries[p][k]
<1>1. ASSUME entries'[p] = entries[p] PROVE Goal
  BY <1>1
<1>2. ASSUME NEW q \in Portfolios, NEW seed \in Seeds, CreatePortfolio(q, seed)
      PROVE  Goal
  <2>1. entries[q] = <<>>
    BY <1>2 DEF CreatePortfolio, OpenedFirst
  <2>2. p # q
    BY <2>1
  <2> QED
    BY <1>1, <1>2, <2>2 DEF CreatePortfolio, TypeOK
<1>3. ASSUME NEW w \in Workers, NEW result \in {"ok", "err"}, ExecFill(w, result)
      PROVE  Goal
  <2> DEFINE q == orders[exec[w].order].req.portfolio
  <2>a. q = orders[exec[w].order].req.portfolio
    OBVIOUS
  <2> HIDE DEF q
  <2>1. LegsLand(w, q)
    BY <1>3, <2>a, FillAtTheEnd
  <2>2. CASE p = q
    <3>1. /\ Len(entries[p]) \in Nat
          /\ Len(entries'[p]) = Len(entries[p]) + 2
          /\ entries'[p][k] = entries[p][k]
      BY <2>1, <2>2 DEF LegsLand
    <3> QED
      BY <3>1
  <2>3. CASE p # q
    BY <1>1, <2>1, <2>3 DEF LegsLand
  <2> QED
    BY <2>2, <2>3
<1>4. ASSUME NEW w \in Workers, ExecLock(w) \/ ExecWrite(w) PROVE Goal
  BY <1>4, <1>1, Zenon DEF ExecLock, ExecWrite
<1>5. ASSUME Quiet PROVE Goal
  BY <1>5, <1>1 DEF Quiet
<1> QED
  BY <1>2, <1>3, <1>4, <1>5, StepKinds DEF Touching

\* A verdict of a client or a worker, or the settlement of a fill.
Marks(o, st) ==
    /\ Placed(o)
    /\ st \in {"rejected", "cancelled", "settled"}
    /\ st = "settled" => orders[o].status = "filled"
    /\ SetStatus(o, st)

\* What a step may do to the table of orders.
RowsMove ==
    \/ orders' = orders
    \/ \E c \in Clients, o \in Orders : PlaceInsert(c, o)
    \/ \E o \in Orders, st \in Statuses : Marks(o, st) /\ conflicts' = conflicts
    \/ \E w \in Workers, result \in {"ok", "err"} : ExecFill(w, result)

(***************************************************************************)
(* Only four kinds of statements touch the orders.                         *)
(***************************************************************************)
LEMMA OrderSteps ==
    ASSUME TypeOK, [Next]_vars
    PROVE  RowsMove
<1>a. OrdersOK /\ ExecOK /\ ClientOK
  BY TypeOKParts
<1>1. ASSUME orders' = orders PROVE RowsMove
  BY <1>1 DEF RowsMove
<1>2. ASSUME NEW c \in Clients, CancelSet(c) PROVE RowsMove
  <2>1. client[c].order \in Orders /\ Marks(client[c].order, "cancelled") /\ conflicts' = conflicts
    BY <1>2, <1>a DEF CancelSet, ClientOK, Marks
  <2> QED
    BY <2>1 DEF RowsMove, Statuses
<1>3. ASSUME NEW w \in Workers, ExecReject(w) \/ ExecInsufficient(w) PROVE RowsMove
  <2>1. exec[w].order \in Orders /\ Marks(exec[w].order, "rejected") /\ conflicts' = conflicts
    BY <1>3, <1>a DEF ExecReject, ExecInsufficient, ExecOK, Marks, execUnchanged
  <2> QED
    BY <2>1 DEF RowsMove, Statuses
<1>4. ASSUME NEW w \in Workers, NEW o \in Orders, Settle(w, o) PROVE RowsMove
  <2>1. CASE orders[o].status = "filled"
    BY <1>4, <2>1 DEF Settle, Marks, Statuses, RowsMove, execUnchanged
  <2>2. CASE orders[o].status # "filled"
    BY <1>4, <2>2, <1>1 DEF Settle
  <2> QED
    BY <2>1, <2>2
<1>5. ASSUME NEW c \in Clients, PlaceStep(c) PROVE RowsMove
  BY <1>5, <1>1, Zenon DEF PlaceStep, PlaceLookup, PlaceConflict, RowsMove
<1>6. ASSUME NEW w \in Workers, ExecStep(w) PROVE RowsMove
  <2>1. CASE \/ ExecBegin(w) \/ ExecLock(w) \/ ExecWrite(w) \/ ExecRefused(w)
             \/ ExecReturn(w)
    BY <2>1, <1>1, Zenon DEF ExecBegin, ExecLock, ExecWrite, ExecRefused, ExecReturn
  <2>2. CASE \E result \in {"ok", "err"} : ExecFill(w, result)
    BY <2>2 DEF RowsMove
  <2> QED
    BY <1>6, <1>3, <2>1, <2>2, Zenon DEF ExecStep
<1> HIDE DEF RowsMove
<1>7. ASSUME NEW c \in Clients, CancelStep(c) \/ RequestFails(c) PROVE RowsMove
  BY <1>7, <1>1, <1>2 DEF CancelStep, CancelGet, RequestFails
<1>8. ASSUME NEW w \in Workers, StartStep(w) PROVE RowsMove
  BY <1>8, <1>1, <1>4 DEF StartStep, ExecSkip, ExecReadFails, ExecPriced
<1>9. ASSUME NEW w \in Workers, ExecAbort(w) \/ ExecCrash(w) PROVE RowsMove
  BY <1>9, <1>1, Zenon DEF ExecAbort, ExecCrash
<1>10. ASSUME \/ Tick \/ \E p \in Portfolios, seed \in Seeds : CreatePortfolio(p, seed)
              \/ \E r \in Readers : ReadStep(r)
              \/ \E p \in Portfolios : SnapshotExpires(p)
              \/ UNCHANGED vars
       PROVE  RowsMove
  BY <1>10, <1>1, Zenon DEF Tick, CreatePortfolio, ReadStep, ReadHoldings, ReadStore,
                            ReadFails, SnapshotExpires, vars
<1>11. Cancellers \subseteq Clients
  BY TradingAssumption
<1>12. ASSUME Next PROVE RowsMove
  BY <1>12, <1>5, <1>6, <1>7, <1>8, <1>9, <1>10, <1>11, Zenon DEF Next
<1> QED
  BY <1>10, <1>12

\* The key of a row that is not in use.
NoSpareKeys == \A o \in Orders : ~Placed(o) => orders[o].key = NoKey

\* What a step does to the keys: an insert takes one, a conflict reports one.
KeysMove ==
    \/ /\ \A o \in Orders : /\ orders'[o].key = orders[o].key
                            /\ Placed(o) <=> Placed(o)'
       /\ conflicts' = conflicts
    \/ \E c \in Clients, o \in Orders : PlaceInsert(c, o)
    \/ \E c \in Clients : PlaceConflict(c)

(***************************************************************************)
(* No statement but the insert gives a row its key.                        *)
(***************************************************************************)
LEMMA KeySteps ==
    ASSUME TypeOK, [Next]_vars
    PROVE  KeysMove
<1>a. OrdersOK /\ ExecOK
  BY TypeOKParts
<1>1. ASSUME NEW o \in Orders, NEW st \in Statuses, Marks(o, st), conflicts' = conflicts
      PROVE  KeysMove
  BY <1>1, <1>a DEF Marks, SetStatus, KeysMove, Placed, OrdersOK, OrderRow, Statuses
<1>2. ASSUME NEW w \in Workers, NEW result \in {"ok", "err"}, ExecFill(w, result)
      PROVE  KeysMove
  <2> DEFINE o == exec[w].order
             row == [orders[o] EXCEPT !.status = "filled", !.fill = exec[w].price]
  <2>1. /\ o \in Orders /\ Placed(o) /\ orders' = [orders EXCEPT ![o] = row]
        /\ conflicts' = conflicts
    BY <1>2, <1>a DEF ExecFill, ExecOK, execUnchanged
  <2>2. row.status = "filled" /\ row.key = orders[o].key
    BY <1>a, <2>1 DEF OrdersOK, OrderRow
  <2> HIDE DEF row, o
  <2> QED
    BY <1>a, <2>1, <2>2 DEF OrdersOK, KeysMove, Placed
<1>3. ASSUME orders' = orders, conflicts' = conflicts PROVE KeysMove
  BY <1>3 DEF KeysMove, Placed
<1>4. conflicts' = conflicts \/ \E c \in Clients : PlaceConflict(c)
  <2>1. ASSUME NEW c \in Clients, PlaceStep(c)
        PROVE  conflicts' = conflicts \/ PlaceConflict(c)
    BY <2>1, Zenon DEF PlaceStep, PlaceLookup, PlaceInsert
  <2>2. ASSUME \/ \E c \in Cancellers : CancelStep(c)
               \/ \E c \in Clients : RequestFails(c)
        PROVE  conflicts' = conflicts
    BY <2>2, Zenon DEF CancelStep, CancelGet, CancelSet, RequestFails
  <2>3. ASSUME NEW w \in Workers, StartStep(w) \/ ExecAbort(w) \/ ExecCrash(w)
        PROVE  conflicts' = conflicts
    BY <2>3, Zenon DEF StartStep, ExecSkip, ExecReadFails, ExecPriced, Settle, ExecAbort,
                       ExecCrash, execUnchanged
  <2>4. ASSUME NEW w \in Workers, ExecStep(w) PROVE conflicts' = conflicts
    BY <2>4, Zenon DEF ExecStep, ExecReject, ExecBegin, ExecLock, ExecInsufficient, ExecWrite,
                       ExecFill, ExecRefused, ExecReturn, execUnchanged
  <2>5. ASSUME \/ Tick \/ \E p \in Portfolios, seed \in Seeds : CreatePortfolio(p, seed)
               \/ \E r \in Readers : ReadStep(r)
               \/ \E p \in Portfolios : SnapshotExpires(p)
               \/ UNCHANGED vars
        PROVE  conflicts' = conflicts
    BY <2>5, Zenon DEF Tick, CreatePortfolio, ReadStep, ReadHoldings, ReadStore, ReadFails,
                       SnapshotExpires, vars
  <2>6. ASSUME Next PROVE conflicts' = conflicts \/ \E c \in Clients : PlaceConflict(c)
    BY <2>1, <2>2, <2>3, <2>4, <2>5, <2>6, Zenon DEF Next
  <2> QED
    BY <2>5, <2>6
<1> QED
  BY <1>1, <1>2, <1>3, <1>4, OrderSteps DEF RowsMove, KeysMove

(***************************************************************************)
(* Keys stay unique: the constraint is looked at in the same statement as  *)
(* the row is written, and a row once written keeps its key.               *)
(***************************************************************************)
LEMMA KeysInductive ==
    ASSUME TypeOK, NoSpareKeys, OneOrderPerKey, [Next]_vars
    PROVE  NoSpareKeys' /\ OneOrderPerKey'
<1>a. orders \in [Orders -> OrderRow]
  BY DEF TypeOK
<1>1. CASE /\ \A o \in Orders : /\ orders'[o].key = orders[o].key
                                /\ Placed(o) <=> Placed(o)'
           /\ conflicts' = conflicts
  <2>1. NoSpareKeys'
    BY <1>1, Zenon DEF NoSpareKeys
  <2>2. OneOrderPerKey'
    BY <1>1, Zenon DEF OneOrderPerKey, KeyTaken
  <2> QED
    BY <2>1, <2>2
<1>2. ASSUME NEW c \in Clients, NEW o \in Orders, PlaceInsert(c, o)
      PROVE  NoSpareKeys' /\ OneOrderPerKey'
  <2> DEFINE k == client[c].key
  <2>1. /\ ~Placed(o) /\ ~KeyTaken(k) /\ conflicts' = conflicts
        /\ orders'[o].key = k /\ Placed(o)'
        /\ \A q \in Orders : q # o => orders'[q] = orders[q]
    BY <1>2, <1>a DEF PlaceInsert, Placed
  <2>2. orders[o].key = NoKey
    BY <2>1 DEF NoSpareKeys
  <2>3. NoSpareKeys'
    BY <2>1 DEF NoSpareKeys, Placed
  <2> HIDE DEF k
  <2>4. \A q \in Orders : orders[q].key = k => k = NoKey
    BY <2>1 DEF KeyTaken
  <2>5. ASSUME NEW o1 \in Orders, NEW o2 \in Orders, orders'[o1].key = orders'[o2].key,
               orders'[o1].key # NoKey
        PROVE  o1 = o2
    BY <2>1, <2>4, <2>5 DEF OneOrderPerKey
  <2>6. ASSUME NEW key \in conflicts PROVE KeyTaken(key)'
    <3>1. KeyTaken(key)
      BY <2>6 DEF OneOrderPerKey
    <3>2. PICK q \in Orders : orders[q].key = key /\ key # NoKey
      BY <3>1 DEF KeyTaken
    <3>3. orders'[q].key = key
      BY <2>1, <2>2, <3>2
    <3> QED
      BY <3>2, <3>3 DEF KeyTaken
  <2> QED
    BY <2>1, <2>3, <2>5, <2>6 DEF OneOrderPerKey
<1>3. ASSUME NEW c \in Clients, PlaceConflict(c) PROVE NoSpareKeys' /\ OneOrderPerKey'
  BY <1>3 DEF PlaceConflict, NoSpareKeys, OneOrderPerKey, KeyTaken, Placed
<1> QED
  BY <1>1, <1>2, <1>3, KeySteps DEF KeysMove

(***************************************************************************)
(* However many clients submit with one key at the same time, one order is *)
(* placed, and a submit that was refused for its key finds that order.     *)
(***************************************************************************)
THEOREM KeysAreUnique == Spec => []OneOrderPerKey
<1>1. Init => NoSpareKeys /\ OneOrderPerKey
  BY DEF Init, NoRow, NoSpareKeys, OneOrderPerKey, Placed
<1>2. TypeOK /\ NoSpareKeys /\ OneOrderPerKey /\ [Next]_vars => (NoSpareKeys /\ OneOrderPerKey)'
  BY KeysInductive
<1> QED
  BY <1>1, <1>2, TypeCorrect, PTL DEF Spec

\* The stock leg that order o's row describes.
TradeOf(o) ==
    LET req == orders[o].req IN
    \E k \in 1..Len(entries[req.portfolio]) :
        LET e == entries[req.portfolio][k] IN
        /\ e.trade = o
        /\ e.inst = req.inst
        /\ e.dir = StockDir(req)
        /\ e.qty = req.qty
        /\ e.price = orders[o].fill

(***************************************************************************)
(* A fill leaves the leg its row describes, and nothing takes it away.     *)
(***************************************************************************)
LEMMA FilledHasTradeInductive ==
    ASSUME TypeOK, CommitAccepted, OpenedFirst, FilledHasTrade, [Next]_vars
    PROVE  FilledHasTrade'
<1>a. orders \in [Orders -> OrderRow]
  BY DEF TypeOK
<1> SUFFICES ASSUME NEW o \in Orders, orders'[o].status \in {"filled", "settled"}
             PROVE  TradeOf(o)'
  BY DEF FilledHasTrade, TradeOf
<1>1. ASSUME orders[o].status \in {"filled", "settled"}, orders'[o].req = orders[o].req,
             orders'[o].fill = orders[o].fill
      PROVE  TradeOf(o)'
  <2> DEFINE p == orders[o].req.portfolio
  <2>1. p \in Portfolios
    BY <1>1, RequestTypes DEF TypeOK, Placed
  <2>2. TradeOf(o)
    BY <1>1 DEF FilledHasTrade, TradeOf
  <2>3. PICK k \in 1..Len(entries[p]) :
           /\ entries[p][k].trade = o
           /\ entries[p][k].inst = orders[o].req.inst
           /\ entries[p][k].dir = StockDir(orders[o].req)
           /\ entries[p][k].qty = orders[o].req.qty
           /\ entries[p][k].price = orders[o].fill
    BY <2>2 DEF TradeOf
  <2>4. k \in 1..Len(entries'[p]) /\ entries'[p][k] = entries[p][k]
    BY <2>1, EntriesStay
  <2> QED
    BY <1>1, <2>3, <2>4 DEF TradeOf
<1>2. ASSUME orders' = orders PROVE TradeOf(o)'
  BY <1>1, <1>2
<1>3. ASSUME NEW c \in Clients, NEW q \in Orders, PlaceInsert(c, q) PROVE TradeOf(o)'
  <2>1. o # q /\ orders'[o] = orders[o]
    BY <1>3, <1>a DEF PlaceInsert
  <2> QED
    BY <1>1, <2>1
<1>4. ASSUME NEW q \in Orders, NEW st \in Statuses, Marks(q, st) PROVE TradeOf(o)'
  <2>1. /\ orders'[o].req = orders[o].req /\ orders'[o].fill = orders[o].fill
        /\ orders[o].status \in {"filled", "settled"}
    BY <1>4, <1>a DEF Marks, SetStatus, OrderRow
  <2> QED
    BY <1>1, <2>1
<1>5. ASSUME NEW w \in Workers, NEW result \in {"ok", "err"}, ExecFill(w, result)
      PROVE  TradeOf(o)'
  <2> DEFINE f == exec[w].order
             row == [orders[f] EXCEPT !.status = "filled", !.fill = exec[w].price]
             p == orders[f].req.portfolio
             n == Len(entries[p])
  <2>1. f \in Orders /\ orders' = [orders EXCEPT ![f] = row]
    BY <1>5 DEF ExecFill, TypeOK
  <2>2. row.req = orders[f].req /\ row.fill = exec[w].price
    BY <1>a, <2>1 DEF OrderRow
  <2>3. CASE o = f
    <3>1. /\ n \in Nat /\ Len(entries'[p]) = n + 2
          /\ entries'[p][n + 1] = Legs(w)[1]
      BY <1>5, FillAtTheEnd DEF LegsLand
    <3>2. /\ Legs(w)[1].trade = f
          /\ Legs(w)[1].inst = orders[f].req.inst
          /\ Legs(w)[1].dir = StockDir(orders[f].req)
          /\ Legs(w)[1].qty = orders[f].req.qty
          /\ Legs(w)[1].price = exec[w].price
      BY DEF Legs, Leg
    <3>3. orders'[o].req = orders[f].req /\ orders'[o].fill = exec[w].price
      BY <1>a, <2>1, <2>2, <2>3
    <3>4. n + 1 \in 1..Len(entries'[p])
      <4> HIDE DEF n
      <4>1. n + 1 \in 1..(n + 2)
        BY <3>1
      <4> QED
        BY <3>1, <4>1
    <3> DEFINE r == orders'[o].req
               e == entries'[r.portfolio][n + 1]
    <3>5. r.portfolio = p /\ e = Legs(w)[1]
      BY <3>1, <3>3
    <3>6. /\ e.trade = o /\ e.inst = r.inst /\ e.dir = StockDir(r) /\ e.qty = r.qty
          /\ e.price = orders'[o].fill
      BY <2>3, <3>2, <3>3, <3>5
    <3>7. n + 1 \in 1..Len(entries'[r.portfolio])
      BY <3>4, <3>5
    <3> HIDE DEF n, p, f
    <3> QED
      BY <3>6, <3>7 DEF TradeOf
  <2>4. CASE o # f
    BY <1>a, <1>1, <2>1, <2>4
  <2> QED
    BY <2>3, <2>4
<1> QED
  BY <1>2, <1>3, <1>4, <1>5, OrderSteps DEF RowsMove

(***************************************************************************)
(* An order that reads filled or settled was really traded on its terms,   *)
(* with overlapping deliveries, cancels and lost acknowledgements.         *)
(***************************************************************************)
THEOREM FillsAreRecorded == Spec => []FilledHasTrade
<1>1. Init => FilledHasTrade
  BY DEF Init, NoRow, FilledHasTrade
<1>2. Books /\ FilledHasTrade /\ [Next]_vars => FilledHasTrade'
  BY FilledHasTradeInductive DEF Books
<1> QED
  BY <1>1, <1>2, BooksInvariant, PTL DEF Spec

\* A product that fits the machine word is not changed by it.
LEMMA WrapFits == ASSUME NEW x \in Nat, x < Half PROVE Wrap(x) = x
<1>1. Half \in Nat /\ x + Half \in 0..(2 * Half - 1)
  BY WordTypes
<1>2. (x + Half) % (2 * Half) = x + Half
  BY <1>1
<1> QED
  BY <1>1, <1>2 DEF Wrap

\* An execution works with a quote or with a valid limit.
PricesOK == \A w \in Workers : exec[w].price \in Nat

(***************************************************************************)
(* The price an execution works with is fixed when it starts, and is never *)
(* negative: limits are validated when the order is placed.                *)
(***************************************************************************)
LEMMA PricesInductive ==
    ASSUME TypeOK, PricesOK, [Next]_vars
    PROVE  PricesOK'
<1>a. exec \in [Workers -> ExecState]
  BY DEF TypeOK
<1>b. IdleExec.price = 0
  BY DEF IdleExec
<1>1. ASSUME NEW w \in Workers, NEW o, NEW pc, NEW x \in Nat, Start(w, o, pc, x)
      PROVE  PricesOK'
  <2> DEFINE e == [IdleExec EXCEPT !.pc = pc, !.order = o, !.price = x]
  <2>1. e.price = x
    BY DEF IdleExec
  <2>2. exec' = [exec EXCEPT ![w] = e]
    BY <1>1 DEF Start
  <2> HIDE DEF e
  <2> QED
    BY <1>1, <1>a, <2>1, <2>2 DEF PricesOK
<1>2. ASSUME NEW w \in Workers, NEW pc, ExecGoto(w, pc) PROVE PricesOK'
  BY <1>2, <1>a DEF ExecGoto, PricesOK, ExecState
<1>3. ASSUME NEW w \in Workers, exec' = [exec EXCEPT ![w] = IdleExec] PROVE PricesOK'
  BY <1>3, <1>a, <1>b DEF PricesOK
<1>4. ASSUME exec' = exec PROVE PricesOK'
  BY <1>4 DEF PricesOK
<1>5. ASSUME NEW w \in Workers, NEW o \in Orders, NEW quote \in Prices,
             ExecPriced(w, o, quote)
      PROVE  PricesOK'
  <2> DEFINE req == orders[o].req
             x == IF req.type = "limit" THEN req.limit ELSE quote
  <2>1. Valid(req) /\ req \in Requests
    BY <1>5 DEF ExecPriced, TypeOK, Placed
  <2>2. req.limit \in Int /\ (req.type = "limit" => req.limit > 0)
    BY <2>1, RequestTypes, WordTypes DEF Valid
  <2>3. quote \in Nat
    BY TradingAssumption DEF Amounts
  <2>4. x \in Nat
    BY <2>2, <2>3
  <2>5. PICK pc : Start(w, o, pc, x)
    BY <1>5 DEF ExecPriced
  <2> HIDE DEF x
  <2> QED
    BY <1>1, <2>4, <2>5
<1>6. ASSUME NEW w \in Workers, ExecBegin(w) PROVE PricesOK'
  <2> DEFINE e == [exec[w] EXCEPT !.pc = "lock", !.at = clock]
  <2>1. e.price = exec[w].price /\ exec' = [exec EXCEPT ![w] = e]
    BY <1>6, <1>a DEF ExecBegin, ExecState
  <2> HIDE DEF e
  <2> QED
    BY <1>a, <2>1 DEF PricesOK
<1>7. ASSUME NEW w \in Workers, ExecLock(w) PROVE PricesOK'
  <2> DEFINE p == orders[exec[w].order].req.portfolio
             pc == IF Fits(Holdings(p)) THEN "write" ELSE "err"
             e == [exec[w] EXCEPT !.pc = pc, !.seq = seqCounter[p], !.hold = Holdings(p)]
  <2>1. exec' = [exec EXCEPT ![w] = e]
    BY <1>7 DEF ExecLock
  <2> HIDE DEF p, pc
  <2>2. e.price = exec[w].price
    BY <1>a DEF ExecState
  <2> HIDE DEF e
  <2> QED
    BY <1>a, <2>1, <2>2 DEF PricesOK
<1> HIDE DEF PricesOK
<1>8. ASSUME NEW w \in Workers, StartStep(w) PROVE PricesOK'
  <2>1. ASSUME NEW o \in Orders, ExecSkip(w, o) \/ ExecReadFails(w, o) \/ Settle(w, o)
        PROVE  PricesOK'
    <3>1. PICK pc : Start(w, o, pc, 0)
      BY <2>1 DEF ExecSkip, ExecReadFails, Settle
    <3> QED
      BY <1>1, <3>1
  <2> QED
    BY <1>5, <1>8, <2>1 DEF StartStep
<1>9. ASSUME NEW w \in Workers, ExecStep(w) \/ ExecAbort(w) \/ ExecCrash(w) PROVE PricesOK'
  BY <1>2, <1>3, <1>6, <1>7, <1>9, Zenon DEF ExecStep, ExecReject, ExecInsufficient,
     ExecWrite, ExecFill, ExecRefused, ExecReturn, ExecAbort, ExecCrash
<1>10. ASSUME \/ \E c \in Clients : PlaceStep(c) \/ RequestFails(c)
              \/ \E c \in Cancellers : CancelStep(c)
       PROVE  PricesOK'
  BY <1>4, <1>10, Zenon DEF PlaceStep, PlaceLookup, PlaceInsert, PlaceConflict, RequestFails,
     CancelStep, CancelGet, CancelSet, clientUnchanged
<1>11. ASSUME \/ Tick \/ \E p \in Portfolios, seed \in Seeds : CreatePortfolio(p, seed)
              \/ \E r \in Readers : ReadStep(r)
              \/ \E p \in Portfolios : SnapshotExpires(p)
              \/ UNCHANGED vars
       PROVE  PricesOK'
  BY <1>4, <1>11, Zenon DEF Tick, CreatePortfolio, ReadStep, ReadHoldings, ReadStore,
     ReadFails, SnapshotExpires, vars
<1>12. ASSUME Next PROVE PricesOK'
  BY <1>8, <1>9, <1>10, <1>11, <1>12, Zenon DEF Next
<1> QED
  BY <1>11, <1>12

(***************************************************************************)
(* The two legs of a fill are each other's counterpart.                    *)
(***************************************************************************)
LEMMA LegsBalanced ==
    ASSUME TypeOK, CommitAccepted, PricesOK, NEW w \in Workers, exec[w].pc = "commit",
           NEW a, a = Legs(w)[1], NEW b, b = Legs(w)[2]
    PROVE  /\ b.inst = Cash /\ b.trade = a.trade /\ b.dir = -a.dir
           /\ a.qty * a.price < Half => b.qty = a.qty * a.price
<1> DEFINE r == orders[exec[w].order].req
<1>1. /\ b.inst = Cash /\ b.trade = a.trade /\ b.dir = -StockDir(r) /\ a.dir = StockDir(r)
      /\ a.qty = r.qty /\ a.price = exec[w].price /\ b.qty = Wrap(r.qty * exec[w].price)
  BY DEF Legs, Leg, Cost
<1>2. a \in Entry
  BY LegsTyped DEF CommitAccepted, InTx
<1>3. a.qty \in Nat /\ a.price \in Nat
  BY <1>1, <1>2, WordTypes DEF Entry, Amounts, PricesOK
<1> HIDE DEF r
<1>4. ASSUME a.qty * a.price < Half PROVE b.qty = a.qty * a.price
  <2>1. a.qty * a.price \in Nat
    BY <1>3
  <2>2. Wrap(a.qty * a.price) = a.qty * a.price
    BY <1>4, <2>1, WrapFits
  <2> QED
    BY <1>1, <2>2
<1> QED
  BY <1>1, <1>4

\* A stock leg and the cash leg that answers it.
Pair(leg, cash) ==
    /\ cash.inst = Cash /\ cash.trade = leg.trade /\ cash.dir = -leg.dir
    /\ leg.qty * leg.price < Half => cash.qty = leg.qty * leg.price

\* Every stock leg of a stream is followed by its cash leg.
Matched(s) ==
    \A k \in 1..Len(s) : s[k].inst # Cash => k < Len(s) /\ Pair(s[k], s[k + 1])

\* A matched stream with one more pair at its end is matched.
LEMMA MatchedGrows ==
    ASSUME NEW s, NEW t, NEW a, NEW b, NEW n \in Nat, Len(s) = n, Len(t) = n + 2,
           t[n + 1] = a, t[n + 2] = b, \A k \in 1..n : t[k] = s[k],
           Matched(s), Pair(a, b)
    PROVE  Matched(t)
<1> SUFFICES ASSUME NEW k \in 1..(n + 2), t[k].inst # Cash
             PROVE  k < n + 2 /\ Pair(t[k], t[k + 1])
  BY DEF Matched
<1>1. CASE k \in 1..n
  <2>1. k < n /\ Pair(s[k], s[k + 1])
    BY <1>1 DEF Matched
  <2>2. k + 1 \in 1..n /\ k < n + 2
    BY <1>1, <2>1
  <2>3. t[k] = s[k] /\ t[k + 1] = s[k + 1]
    BY <1>1, <2>2
  <2> QED
    BY <2>1, <2>2, <2>3
<1>2. CASE k = n + 1
  <2>1. k < n + 2 /\ k + 1 = n + 2
    BY <1>2
  <2> QED
    BY <1>2, <2>1
<1>3. k # n + 2
  BY DEF Pair
<1> QED
  BY <1>1, <1>2, <1>3

(***************************************************************************)
(* Only a fill adds a stock leg, and it adds the cash leg with it.         *)
(***************************************************************************)
LEMMA BalancedInductive ==
    ASSUME TypeOK, CommitAccepted, PricesOK, BalancedTrades, [Next]_vars
    PROVE  BalancedTrades'
<1> SUFFICES ASSUME NEW p \in Portfolios PROVE Matched(entries'[p])
  BY DEF BalancedTrades, Matched, Pair
<1>a. entries \in [Portfolios -> Seq(Entry)]
  BY DEF TypeOK
<1>b. Matched(entries[p])
  BY DEF BalancedTrades, Matched, Pair
<1>1. ASSUME entries'[p] = entries[p] PROVE Matched(entries'[p])
  BY <1>1, <1>b
<1>2. ASSUME NEW q \in Portfolios, NEW seed \in Seeds, CreatePortfolio(q, seed)
      PROVE  Matched(entries'[p])
  <2>1. CASE p = q
    <3>1. entries'[p] = <<SeedEntry(seed)>> \/ entries'[p] = <<>>
      BY <1>2, <1>a, <2>1 DEF CreatePortfolio
    <3>2. SeedEntry(seed).inst = Cash
      BY DEF SeedEntry
    <3> QED
      BY <3>1, <3>2 DEF Matched
  <2>2. CASE p # q
    BY <1>2, <1>a, <1>1, <2>2 DEF CreatePortfolio
  <2> QED
    BY <2>1, <2>2
<1>3. ASSUME NEW w \in Workers, NEW result \in {"ok", "err"}, ExecFill(w, result)
      PROVE  Matched(entries'[p])
  <2> DEFINE q == orders[exec[w].order].req.portfolio
             s == entries[q]
             t == entries'[q]
             a == Legs(w)[1]
             b == Legs(w)[2]
  <2>a. q = orders[exec[w].order].req.portfolio
    OBVIOUS
  <2> HIDE DEF q
  <2>1. LegsLand(w, q)
    BY <1>3, <2>a, FillAtTheEnd
  <2>2. Pair(a, b)
    <3>1. exec[w].pc = "commit"
      BY <1>3 DEF ExecFill
    <3> QED
      BY <3>1, LegsBalanced DEF Pair
  <2>3. CASE p = q
    <3>1. /\ Len(s) \in Nat /\ Len(t) = Len(s) + 2
          /\ t[Len(s) + 1] = a /\ t[Len(s) + 2] = b
          /\ \A k \in 1..Len(s) : t[k] = s[k]
      BY <2>1 DEF LegsLand
    <3>2. Matched(s)
      BY <1>b, <2>3
    <3> HIDE DEF s, t, a, b
    <3>3. Matched(t)
      BY <2>2, <3>1, <3>2, MatchedGrows
    <3> QED
      BY <2>3, <3>3 DEF t
  <2>4. CASE p # q
    BY <1>1, <2>1, <2>4 DEF LegsLand
  <2> QED
    BY <2>3, <2>4
<1>4. ASSUME NEW w \in Workers, ExecLock(w) \/ ExecWrite(w) PROVE Matched(entries'[p])
  BY <1>4, <1>1, Zenon DEF ExecLock, ExecWrite
<1>5. ASSUME Quiet PROVE Matched(entries'[p])
  BY <1>5, <1>1 DEF Quiet
<1> QED
  BY <1>2, <1>3, <1>4, <1>5, StepKinds DEF Touching

(***************************************************************************)
(* Double entry, for every number of trades and workers: no crash, retry   *)
(* or overflow leaves one leg of a trade without the other.                *)
(***************************************************************************)
THEOREM TradesBalance == Spec => []BalancedTrades
<1>1. Init => PricesOK /\ BalancedTrades
  BY DEF Init, IdleExec, PricesOK, BalancedTrades
<1>2. Books /\ PricesOK /\ BalancedTrades /\ [Next]_vars => (PricesOK /\ BalancedTrades)'
  BY PricesInductive, BalancedInductive DEF Books
<1> QED
  BY <1>1, <1>2, BooksInvariant, PTL DEF Spec

-----------------------------------------------------------------------------
(* The cached view.                                                        *)

\* A view that shows a stream up to the end of some trade.
Whole(s, view) ==
    \E k \in 0..Len(s) :
        /\ k = 0 \/ s[k].inst = Cash
        /\ view = [i \in Assets |-> Net(SubSeq(s, 1, k), i)]

\* The stream is at the end of a trade.
EndsInCash(s) == Len(s) = 0 \/ s[Len(s)].inst = Cash

\* The stream t is s with nothing changed and perhaps more at its end.
Longer(s, t) ==
    /\ Len(s) <= Len(t)
    /\ \A k \in 1..Len(s) : t[k] = s[k]

(***************************************************************************)
(* A view of a stream stays one when the stream grows: views go out of     *)
(* date, and never wrong.                                                  *)
(***************************************************************************)
LEMMA WholeStays ==
    ASSUME NEW s \in Seq(Entry), NEW t \in Seq(Entry), Longer(s, t),
           NEW view, Whole(s, view)
    PROVE  Whole(t, view)
<1>1. PICK k \in 0..Len(s) :
         /\ k = 0 \/ s[k].inst = Cash
         /\ view = [i \in Assets |-> Net(SubSeq(s, 1, k), i)]
  BY DEF Whole
<1>2. k \in 0..Len(t) /\ (k = 0 \/ t[k] = s[k])
  BY DEF Longer
<1>3. SubSeq(t, 1, k) = SubSeq(s, 1, k)
  <2>1. \A j \in 1..k : t[j] = s[j]
    BY DEF Longer
  <2> QED
    BY <1>2, <2>1
<1>4. view = [i \in Assets |-> Net(SubSeq(t, 1, k), i)]
  BY <1>1, <1>3
<1> QED
  BY <1>1, <1>2, <1>4 DEF Whole

\* The sums over a whole stream are a view of it, if it ends with a trade.
LEMMA AllIsWhole ==
    ASSUME NEW p \in Portfolios, entries[p] \in Seq(Entry), EndsInCash(entries[p])
    PROVE  Whole(entries[p], Holdings(p))
<1> DEFINE s == entries[p]
<1>1. s \in Seq(Entry) /\ EndsInCash(s) /\ Holdings(p) = [i \in Assets |-> Net(s, i)]
  BY DEF Holdings
<1> HIDE DEF s
<1>2. Len(s) \in 0..Len(s) /\ SubSeq(s, 1, Len(s)) = s
  BY <1>1
<1>3. Len(s) = 0 \/ s[Len(s)].inst = Cash
  BY <1>1 DEF EndsInCash
<1>4. Holdings(p) = [i \in Assets |-> Net(SubSeq(s, 1, Len(s)), i)]
  BY <1>1, <1>2
<1>5. Whole(s, Holdings(p))
  BY <1>2, <1>3, <1>4 DEF Whole
<1> QED
  BY <1>5 DEF s

(***************************************************************************)
(* A stream changes by nothing, by its seed, or by a whole trade: it only  *)
(* grows, and it ends in a cash leg.                                       *)
(***************************************************************************)
LEMMA StreamsGrow ==
    ASSUME TypeOK, CommitAccepted, OpenedFirst, [Next]_vars,
           NEW p \in Portfolios, EndsInCash(entries[p])
    PROVE  Longer(entries[p], entries'[p]) /\ EndsInCash(entries'[p])
<1> DEFINE Goal == Longer(entries[p], entries'[p]) /\ EndsInCash(entries'[p])
<1>a. entries \in [Portfolios -> Seq(Entry)]
  BY DEF TypeOK
<1>b. entries[p] \in Seq(Entry) /\ Len(entries[p]) \in Nat
  BY <1>a
<1>1. ASSUME entries'[p] = entries[p] PROVE Goal
  BY <1>1, <1>b DEF Longer
<1>2. ASSUME NEW q \in Portfolios, NEW seed \in Seeds, CreatePortfolio(q, seed)
      PROVE  Goal
  <2>1. CASE p = q
    <3>1. entries[p] = <<>>
      BY <1>2, <2>1 DEF CreatePortfolio, OpenedFirst
    <3>2. entries'[p] = <<SeedEntry(seed)>> \/ entries'[p] = <<>>
      BY <1>2, <1>a, <2>1 DEF CreatePortfolio
    <3>3. SeedEntry(seed).inst = Cash
      BY DEF SeedEntry
    <3> QED
      BY <3>1, <3>2, <3>3 DEF Longer, EndsInCash
  <2>2. CASE p # q
    BY <1>2, <1>a, <1>1, <2>2 DEF CreatePortfolio
  <2> QED
    BY <2>1, <2>2
<1>3. ASSUME NEW w \in Workers, NEW result \in {"ok", "err"}, ExecFill(w, result)
      PROVE  Goal
  <2> DEFINE q == orders[exec[w].order].req.portfolio
  <2>a. q = orders[exec[w].order].req.portfolio
    OBVIOUS
  <2> HIDE DEF q
  <2>1. LegsLand(w, q)
    BY <1>3, <2>a, FillAtTheEnd
  <2>2. Legs(w)[2].inst = Cash
    BY DEF Legs, Leg
  <2>3. CASE p = q
    <3>1. /\ Len(entries'[p]) = Len(entries[p]) + 2
          /\ entries'[p][Len(entries[p]) + 2] = Legs(w)[2]
          /\ \A k \in 1..Len(entries[p]) : entries'[p][k] = entries[p][k]
      BY <2>1, <2>3 DEF LegsLand
    <3>2. Longer(entries[p], entries'[p])
      BY <1>b, <3>1 DEF Longer
    <3>3. EndsInCash(entries'[p])
      BY <2>2, <3>1 DEF EndsInCash
    <3> QED
      BY <3>2, <3>3
  <2>4. CASE p # q
    BY <1>1, <2>1, <2>4 DEF LegsLand
  <2> QED
    BY <2>3, <2>4
<1>4. ASSUME NEW w \in Workers, ExecLock(w) \/ ExecWrite(w) PROVE Goal
  BY <1>4, <1>1, Zenon DEF ExecLock, ExecWrite
<1>5. ASSUME Quiet PROVE Goal
  BY <1>5, <1>1 DEF Quiet
<1> QED
  BY <1>2, <1>3, <1>4, <1>5, StepKinds DEF Touching

\* What a step may do to the cached views and to the readers.
ViewsMove ==
    \/ UNCHANGED <<snapshot, reader>>
    \/ reader' = reader /\ \E p : snapshot' = [snapshot EXCEPT ![p] = NoView]
    \/ \E r \in Readers : ReadStep(r)

\* Only readers store views; fills and time drop them.
LEMMA ViewSteps ==
    ASSUME [Next]_vars
    PROVE  ViewsMove
<1>1. ASSUME UNCHANGED <<snapshot, reader>> PROVE ViewsMove
  BY <1>1 DEF ViewsMove
<1>2. ASSUME NEW w \in Workers, ExecStep(w) PROVE ViewsMove
  <2>1. CASE ExecWrite(w)
    <3>1. reader' = reader /\ \/ snapshot' = snapshot
                              \/ \E p : snapshot' = [snapshot EXCEPT ![p] = NoView]
      BY <2>1 DEF ExecWrite
    <3> QED
      BY <3>1 DEF ViewsMove
  <2>2. CASE \/ ExecReject(w) \/ ExecBegin(w) \/ ExecLock(w) \/ ExecInsufficient(w)
             \/ \E result \in {"ok", "err"} : ExecFill(w, result)
             \/ ExecRefused(w) \/ ExecReturn(w)
    BY <2>2, <1>1, Zenon DEF ExecReject, ExecBegin, ExecLock, ExecInsufficient,
                             ExecFill, ExecRefused, ExecReturn, execUnchanged
  <2> QED
    BY <1>2, <2>1, <2>2, Zenon DEF ExecStep
<1>3. ASSUME NEW w \in Workers, StartStep(w) \/ ExecAbort(w) \/ ExecCrash(w)
      PROVE  ViewsMove
  BY <1>3, <1>1, Zenon DEF StartStep, ExecSkip, ExecReadFails, ExecPriced, Settle,
                           ExecAbort, ExecCrash, execUnchanged
<1>4. ASSUME NEW c, PlaceStep(c) \/ RequestFails(c) \/ CancelStep(c)
      PROVE  ViewsMove
  BY <1>4, <1>1, Zenon DEF PlaceStep, PlaceLookup, PlaceInsert, PlaceConflict,
                           RequestFails, CancelStep, CancelGet, CancelSet, clientUnchanged
<1>5. ASSUME \/ Tick \/ \E p \in Portfolios, seed \in Seeds : CreatePortfolio(p, seed)
             \/ UNCHANGED vars
      PROVE  ViewsMove
  BY <1>5, <1>1, Zenon DEF Tick, CreatePortfolio, vars
<1>6. ASSUME NEW p \in Portfolios, SnapshotExpires(p) PROVE ViewsMove
  BY <1>6, Zenon DEF SnapshotExpires, ViewsMove
<1>7. ASSUME NEW r \in Readers, ReadStep(r) PROVE ViewsMove
  BY <1>7, Zenon DEF ViewsMove
<1>8. ASSUME Next PROVE ViewsMove
  BY <1>8, <1>2, <1>3, <1>4, <1>5, <1>6, <1>7, Zenon DEF Next
<1> QED
  BY <1>5, <1>8

\* Every stream ends with a trade, and what the cache and the readers hold
\* shows some stream up to the end of a trade.
Views ==
    /\ \A p \in Portfolios : EndsInCash(entries[p])
    /\ \A p \in Portfolios : snapshot[p] # NoView => Whole(entries[p], snapshot[p])
    /\ \A r \in Readers : reader[r].portfolio # NoPortfolio =>
                             Whole(entries[reader[r].portfolio], reader[r].view)

(***************************************************************************)
(* The views stay whole: a reader sums one stream in one statement, and    *)
(* what it stores, however late, is still a prefix of that stream.         *)
(***************************************************************************)
LEMMA ViewsInductive ==
    ASSUME TypeOK, CommitAccepted, OpenedFirst, TypeOK', Views, [Next]_vars
    PROVE  Views'
<1>a. /\ snapshot \in [Portfolios -> View \cup {NoView}]
      /\ reader \in [Readers -> ReaderState]
      /\ entries \in [Portfolios -> Seq(Entry)]
      /\ entries' \in [Portfolios -> Seq(Entry)]
  BY DEF TypeOK
<1>b. \A r \in Readers : reader[r].portfolio \in Portfolios \cup {NoPortfolio}
  BY <1>a DEF ReaderState
<1>1. \A p \in Portfolios : EndsInCash(entries'[p])
  BY StreamsGrow DEF Views
<1>2. ASSUME NEW p \in Portfolios, NEW view, Whole(entries[p], view)
      PROVE  Whole(entries'[p], view)
  <2>1. Longer(entries[p], entries'[p])
    BY StreamsGrow DEF Views
  <2> QED
    BY <1>a, <1>2, <2>1, WholeStays
<1>3. ASSUME NEW p \in Portfolios, snapshot[p] # NoView
      PROVE  Whole(entries'[p], snapshot[p])
  BY <1>2, <1>3 DEF Views
<1>4. ASSUME NEW r \in Readers, reader[r].portfolio # NoPortfolio
      PROVE  Whole(entries'[reader[r].portfolio], reader[r].view)
  BY <1>2, <1>4, <1>b DEF Views
<1> DEFINE Cached == \A p \in Portfolios : snapshot'[p] # NoView =>
                        Whole(entries'[p], snapshot'[p])
           Read == \A r \in Readers : reader'[r].portfolio # NoPortfolio =>
                        Whole(entries'[reader'[r].portfolio], reader'[r].view)
<1>5. ASSUME snapshot' = snapshot PROVE Cached
  BY <1>5, <1>3
<1>6. ASSUME reader' = reader PROVE Read
  BY <1>6, <1>4
<1>7. ASSUME NEW q, snapshot' = [snapshot EXCEPT ![q] = NoView] PROVE Cached
  BY <1>7, <1>3, <1>a
<1>8. ASSUME NEW r \in Readers, ReaderReturns(r) PROVE Read
  <2>1. IdleReader.portfolio = NoPortfolio
    BY DEF IdleReader
  <2> QED
    BY <1>8, <2>1, <1>4, <1>a DEF ReaderReturns
<1>9. ASSUME NEW r \in Readers, NEW q \in Portfolios, ReadHoldings(r, q) PROVE Cached /\ Read
  <2> DEFINE seen == [portfolio |-> q, view |-> Holdings(q)]
  <2>1. reader' = [reader EXCEPT ![r] = seen]
    BY <1>9 DEF ReadHoldings
  <2>2. seen.portfolio = q /\ Whole(entries'[q], seen.view)
    BY <1>2, <1>a, AllIsWhole DEF Views
  <2> HIDE DEF seen
  <2>3. Read
    BY <2>1, <2>2, <1>4, <1>a
  <2>4. Cached
    BY <1>9, <1>5, Zenon DEF ReadHoldings
  <2> QED
    BY <2>3, <2>4
<1>10. ASSUME NEW r \in Readers, ReadStore(r) PROVE Cached /\ Read
  <2>1. /\ snapshot' = [snapshot EXCEPT ![reader[r].portfolio] = reader[r].view]
        /\ reader[r].portfolio # NoPortfolio
        /\ ReaderReturns(r)
    BY <1>10, Zenon DEF ReadStore
  <2>2. Whole(entries'[reader[r].portfolio], reader[r].view)
    BY <1>4, <2>1
  <2>3. Cached
    BY <2>1, <2>2, <1>3, <1>a
  <2> QED
    BY <2>1, <2>3, <1>8
<1>11. ASSUME NEW r \in Readers, ReadFails(r) PROVE Cached /\ Read
  BY <1>11, <1>5, <1>8, Zenon DEF ReadFails
<1> HIDE DEF Cached, Read
<1>12. ASSUME NEW r \in Readers, ReadStep(r) PROVE Cached /\ Read
  BY <1>9, <1>10, <1>11, <1>12, Zenon DEF ReadStep
<1>13. Cached /\ Read
  BY <1>5, <1>6, <1>7, <1>12, ViewSteps DEF ViewsMove
<1> QED
  BY <1>1, <1>13 DEF Views, Cached, Read

(***************************************************************************)
(* A cached view may be late but is whole, whatever readers, fills and     *)
(* lost deletes race: for any number of each.                              *)
(***************************************************************************)
THEOREM ViewsAreWhole == Spec => []CachedViewIsWhole
<1>1. Init => Views
  BY DEF Init, IdleReader, Views, EndsInCash
<1>2. Books /\ Books' /\ Views /\ [Next]_vars => Views'
  BY ViewsInductive DEF Books
<1>3. Views => CachedViewIsWhole
  BY DEF Views, Whole, CachedViewIsWhole, BetweenTrades
<1> QED
  BY <1>1, <1>2, <1>3, BooksInvariant, PTL DEF Spec

-----------------------------------------------------------------------------
(* Refinement.                                                             *)

Balances == [p \in Portfolios |-> Holdings(p)]

(***************************************************************************)
(* Creating a portfolio opens an account with the seed as its cash.        *)
(***************************************************************************)
LEMMA CreateIsOpen ==
    ASSUME Books, NEW p \in Portfolios, NEW seed \in Seeds, CreatePortfolio(p, seed)
    PROVE  Account!Next
<1> DEFINE C == [Balances EXCEPT ![p][Cash] = seed]
<1>1. TypeOK /\ Cash \in Assets /\ seed \in Amounts
  BY TradingAssumption DEF Books, Assets
<1>2. entries[p] = <<>>
  BY DEF Books, OpenedFirst, CreatePortfolio
<1>3. \A i \in Assets : Balances[p][i] = 0
  BY <1>2, NetEmpty DEF Balances, Holdings
<1>4. ASSUME NEW q \in Portfolios, NEW i \in Assets
      PROVE  Net(entries'[q], i) = C[q][i]
  <2>1. CASE q # p
    BY <1>1, <2>1 DEF CreatePortfolio, TypeOK, Balances, Holdings
  <2>2. CASE q = p
    <3>1. Net(entries'[p], i) = IF i = Cash THEN seed ELSE 0
      BY <1>1, SeedEffect
    <3>2. C[p][i] = IF i = Cash THEN seed ELSE Balances[p][i]
      BY <1>1 DEF Balances, Holdings
    <3> QED
      BY <1>3, <2>2, <3>1, <3>2
  <2> QED
    BY <2>1, <2>2
<1>5. C = [q \in Portfolios |-> [i \in Assets |-> C[q][i]]]
  BY <1>1 DEF Balances, Holdings
<1>6. Balances' = [q \in Portfolios |-> [i \in Assets |-> Net(entries'[q], i)]]
  BY DEF Balances, Holdings
<1> HIDE DEF C
<1>7. Balances' = C
  BY <1>4, <1>5, <1>6
<1>8. Account!Open(p, seed)
  BY <1>3, <1>7 DEF Account!Open, Account!Assets, Assets, Balances, C
<1> QED
  BY <1>1, <1>8 DEF Account!Next

\* The account after moving x of stock s and y of cash in portfolio p.
Moved(p, s, x, y) ==
    [Balances EXCEPT ![p] =
        [i \in Assets |-> IF i = s THEN Balances[p][i] + x
                          ELSE IF i = Cash THEN Balances[p][i] + y
                          ELSE Balances[p][i]]]

(***************************************************************************)
(* The abstract trades, as one update of the portfolio's balances.         *)
(***************************************************************************)
LEMMA TradesMove ==
    ASSUME NEW p \in Portfolios, NEW s \in Stocks, NEW x \in Int, NEW y \in Int
    PROVE  [Balances EXCEPT ![p][s] = @ + x, ![p][Cash] = @ + y] = Moved(p, s, x, y)
<1>1. s \in Assets /\ Cash \in Assets /\ s # Cash
  BY TradingAssumption DEF Assets
<1> DEFINE B == Balances[p]
           f == [B EXCEPT ![s] = B[s] + x]
           g == [f EXCEPT ![Cash] = B[Cash] + y]
           m == [i \in Assets |-> IF i = s THEN B[i] + x
                                  ELSE IF i = Cash THEN B[i] + y ELSE B[i]]
<1>2. B = [i \in Assets |-> Net(entries[p], i)]
  BY DEF Balances, Holdings
<1> HIDE DEF B
<1>3. g = m
  BY <1>1, <1>2
<1>4. [Balances EXCEPT ![p] = g] = [Balances EXCEPT ![p] = m]
  BY <1>3
<1>5. [Balances EXCEPT ![p][s] = Balances[p][s] + x, ![p][Cash] = Balances[p][Cash] + y]
        = [Balances EXCEPT ![p] = g]
  BY DEF Balances, B
<1> QED
  BY <1>4, <1>5 DEF Moved, B

(***************************************************************************)
(* A fill is a trade of the account: it buys or sells one stock for cash   *)
(* that the account has, in one step.                                      *)
(***************************************************************************)
LEMMA FillIsTrade ==
    ASSUME Books, NEW w \in Workers, NEW result \in {"ok", "err"}, ExecFill(w, result)
    PROVE  Account!Next
<1> DEFINE r == orders[exec[w].order].req
           p == r.portfolio
           sgn == r.side = "buy"
           x == IF sgn THEN r.qty ELSE -r.qty
           y == IF sgn THEN -Cost(w) ELSE Cost(w)
<1>1. TypeOK /\ CommitAccepted /\ WritersHoldTheLock /\ Cash \in Assets
  BY DEF Books, Assets
<1>2. /\ p \in Portfolios
      /\ entries' = [entries EXCEPT ![p] = entries[p] \o Legs(w)]
  BY <1>1, FillAppends
<1>3. ASSUME NEW i \in Assets
      PROVE  /\ r.inst \in Stocks /\ r.inst # Cash /\ r.qty \in Amounts /\ Cost(w) \in Amounts
             /\ Net(entries'[p], i) =
                 IF i = r.inst
                 THEN IF r.side = "buy" THEN Net(entries[p], i) + r.qty
                                        ELSE Net(entries[p], i) - r.qty
                 ELSE IF i = Cash
                 THEN IF r.side = "buy" THEN Net(entries[p], i) - Cost(w)
                                        ELSE Net(entries[p], i) + Cost(w)
                 ELSE Net(entries[p], i)
  BY <1>1, FillEffect
<1>4. r.inst \in Stocks /\ r.inst # Cash /\ r.qty \in Amounts /\ Cost(w) \in Amounts
  BY <1>1, <1>3
<1>5. r.inst \in Assets /\ r.qty \in Int /\ Cost(w) \in Int
  BY <1>4, WordTypes DEF Assets
<1>6. \A q \in Portfolios, i \in Assets :
         Balances[q][i] = Net(entries[q], i) /\ Balances[q][i] \in Int
  BY <1>1, NetInt DEF Balances, Holdings, TypeOK
<1>7. IF sgn THEN Balances[p][Cash] >= Cost(w) ELSE Balances[p][r.inst] >= r.qty
  <2>1. exec[w].hold = Holdings(p)
    BY <1>1 DEF ExecFill, WritersHoldTheLock, InTx
  <2>2. exec[w].hold = Balances[p]
    BY <1>2, <2>1 DEF Balances
  <2>3. IF sgn THEN ~(Balances[p][Cash] < Cost(w)) ELSE ~(Balances[p][r.inst] < r.qty)
    BY <1>1, <2>2 DEF ExecFill, CommitAccepted, Insufficient
  <2>4. Balances[p][Cash] \in Int /\ Balances[p][r.inst] \in Int
    BY <1>1, <1>2, <1>5, <1>6
  <2> DEFINE cash == Balances[p][Cash]
             held == Balances[p][r.inst]
             cost == Cost(w)
             qty == r.qty
  <2>5. cash \in Int /\ held \in Int /\ cost \in Int /\ qty \in Int
    BY <1>5, <2>4
  <2> HIDE DEF cash, held, cost, qty
  <2>6. (cash >= cost <=> ~(cash < cost)) /\ (held >= qty <=> ~(held < qty))
    BY <2>5
  <2> QED
    BY <2>3, <2>6, Zenon DEF cash, held, cost, qty
<1>8. Balances' = [q \in Portfolios |-> [i \in Assets |-> Net(entries'[q], i)]]
  BY DEF Balances, Holdings
<1>9. x \in Int /\ y \in Int
  BY <1>5
<1> HIDE DEF p, r
<1>10. ASSUME NEW q \in Portfolios, NEW i \in Assets
       PROVE  Net(entries'[q], i) = Moved(p, r.inst, x, y)[q][i]
  <2>1. CASE q # p
    <3>1. entries'[q] = entries[q]
      BY <1>1, <1>2, <2>1 DEF TypeOK
    <3>2. Moved(p, r.inst, x, y)[q] = Balances[q]
      BY <2>1 DEF Moved, Balances
    <3> QED
      BY <1>6, <3>1, <3>2
  <2>2. CASE q = p
    <3>1. Moved(p, r.inst, x, y)[p][i] =
             IF i = r.inst THEN Balances[p][i] + x
             ELSE IF i = Cash THEN Balances[p][i] + y ELSE Balances[p][i]
      BY <1>2 DEF Moved, Balances
    <3>2. /\ Net(entries[p], i) = Balances[p][i] /\ Balances[p][i] \in Int
      BY <1>2, <1>6
    <3>3. CASE sgn
      BY <1>3, <1>5, <2>2, <3>1, <3>2, <3>3
    <3>4. CASE ~sgn
      BY <1>3, <1>5, <2>2, <3>1, <3>2, <3>4
    <3> QED
      BY <3>3, <3>4
  <2> QED
    BY <2>1, <2>2
<1>11. Moved(p, r.inst, x, y)
         = [q \in Portfolios |-> [i \in Assets |-> Moved(p, r.inst, x, y)[q][i]]]
  BY <1>2 DEF Moved, Balances, Holdings
<1>12. Balances' = Moved(p, r.inst, x, y)
  <2> HIDE DEF x, y
  <2> QED
    BY <1>8, <1>10, <1>11
<1>13. Balances' = [Balances EXCEPT ![p][r.inst] = @ + x, ![p][Cash] = @ + y]
  <2> HIDE DEF x, y
  <2> QED
    BY <1>2, <1>4, <1>9, <1>12, TradesMove
<1>14. CASE sgn
  <2>1. Balances' = [Balances EXCEPT ![p][r.inst] = @ + r.qty, ![p][Cash] = @ - Cost(w)]
    BY <1>2, <1>4, <1>5, <1>6, <1>13, <1>14
  <2>2. Account!Buy(p, r.inst, r.qty, Cost(w))
    BY <1>7, <1>14, <2>1 DEF Account!Buy, Balances
  <2> QED
    BY <1>2, <1>4, <2>2 DEF Account!Next
<1>15. CASE ~sgn
  <2>1. Balances' = [Balances EXCEPT ![p][r.inst] = @ - r.qty, ![p][Cash] = @ + Cost(w)]
    BY <1>2, <1>4, <1>5, <1>6, <1>13, <1>15
  <2>2. Account!Sell(p, r.inst, r.qty, Cost(w))
    BY <1>7, <1>15, <2>1 DEF Account!Sell, Balances
  <2> QED
    BY <1>2, <1>4, <2>2 DEF Account!Next
<1> QED
  BY <1>14, <1>15

(***************************************************************************)
(* The trading core implements the abstract account: whatever the workers, *)
(* the clients and the queue do, balances change only by opening an        *)
(* account and by whole trades that it can pay for.                        *)
(***************************************************************************)
THEOREM TradingImplementsLedger == Spec => ImplementsLedger
<1>1. Init => Account!Init
  <2> SUFFICES ASSUME Init PROVE Account!Init
    OBVIOUS
  <2>1. \A p \in Portfolios : entries[p] = <<>>
    BY DEF Init
  <2>2. \A p \in Portfolios : Holdings(p) = [i \in Assets |-> 0]
    BY <2>1, NetEmpty DEF Holdings
  <2> QED
    BY <2>2 DEF Account!Init, Account!Assets, Assets
<1>2. Books /\ [Next]_vars => [Account!Next]_Balances
  <2> SUFFICES ASSUME Books, [Next]_vars PROVE [Account!Next]_Balances
    OBVIOUS
  <2>1. ASSUME entries' = entries PROVE Balances' = Balances
    BY <2>1 DEF Balances, Holdings
  <2>2. CASE Quiet
    BY <2>1, <2>2 DEF Quiet
  <2>3. ASSUME NEW w \in Workers, ExecLock(w) \/ ExecWrite(w) PROVE Balances' = Balances
    BY <2>1, <2>3, Zenon DEF ExecLock, ExecWrite
  <2>4. TypeOK
    BY DEF Books
  <2> QED
    BY <2>2, <2>3, <2>4, StepKinds, CreateIsOpen, FillIsTrade DEF Touching
<1>3. Books /\ [Next]_vars => [Account!Next]_[p \in Portfolios |-> Holdings(p)]
  BY <1>2 DEF Balances
<1> QED
  BY <1>1, <1>3, BooksInvariant, PTL DEF Spec, ImplementsLedger, Account!Spec

=============================================================================
