-------------------------- MODULE MarketDataProofs ---------------------------
(***************************************************************************)
(* Theorems about MarketData, for every list of stocks, every price and    *)
(* any number of requests and pollers: how old a cached quote can be, and  *)
(* which movers are at the top.                                            *)
(***************************************************************************)
EXTENDS MarketData, FiniteSetTheorems, FunctionTheorems, SequenceTheorems, TLAPS

-----------------------------------------------------------------------------
(* The order of the movers.                                                *)

\* The rows of a list; no close is zero.
Rows == [symbol : Symbols, price : Nat, prev : Nat \ {0}]

\* Row moves at least as much as other.
AtLeast(row, other) == ~Moves(other, row)

\* The distance to the close is a number.
LEMMA MoveIsNat ==
    ASSUME NEW row \in Rows
    PROVE  /\ Abs(row.price - row.prev) \in Nat /\ row.prev \in Nat \ {0}
           /\ row.symbol \in Symbols /\ Rank[row.symbol] \in Nat
  BY MarketDataAssumption DEF Rows, Abs

\* Fractions are compared by their cross products.
LEMMA RatiosAreOrdered ==
    ASSUME NEW x \in Nat, NEW y \in Nat, NEW z \in Nat,
           NEW p \in Nat \ {0}, NEW q \in Nat \ {0}, NEW r \in Nat \ {0},
           x * q >= y * p, y * r >= z * q
    PROVE  x * r >= z * p
<1>1. (x * q) * r >= (y * p) * r
  OBVIOUS
<1>2. (y * r) * p >= (z * q) * p
  OBVIOUS
<1>3. (x * r) * q >= (z * p) * q
  BY <1>1, <1>2
<1> QED
  BY <1>3

\* AtLeast is a total preorder of the rows.
LEMMA MovesAreOrdered ==
    ASSUME NEW a \in Rows, NEW b \in Rows, NEW c \in Rows
    PROVE  /\ AtLeast(a, b) /\ AtLeast(b, c) => AtLeast(a, c)
           /\ AtLeast(a, b) \/ AtLeast(b, a)
           /\ AtLeast(a, a)
           /\ Moves(a, b) <=> ~AtLeast(b, a)
<1> DEFINE x == Abs(a.price - a.prev)  p == a.prev
           y == Abs(b.price - b.prev)  q == b.prev
           z == Abs(c.price - c.prev)  r == c.prev
<1>1. /\ x \in Nat /\ y \in Nat /\ z \in Nat
      /\ p \in Nat \ {0} /\ q \in Nat \ {0} /\ r \in Nat \ {0}
  BY MoveIsNat
<1>2. /\ AtLeast(a, b) <=> ~(y * p > x * q)
      /\ AtLeast(b, a) <=> ~(x * q > y * p)
      /\ AtLeast(b, c) <=> ~(z * q > y * r)
      /\ AtLeast(a, c) <=> ~(z * p > x * r)
      /\ AtLeast(a, a) <=> ~(x * p > x * p)
      /\ Moves(a, b) <=> x * q > y * p
  BY DEF AtLeast, Moves
<1> HIDE DEF x, y, z, p, q, r
<1>3. /\ x * q \in Nat /\ y * p \in Nat /\ z * q \in Nat /\ y * r \in Nat
      /\ z * p \in Nat /\ x * r \in Nat /\ x * p \in Nat
  BY <1>1
<1>4. x * q >= y * p /\ y * r >= z * q => x * r >= z * p
  BY <1>1, RatiosAreOrdered
<1> QED
  BY <1>2, <1>3, <1>4

\* Rows of different symbols.
Apart(S) == \A row, other \in S : row.symbol = other.symbol => row = other

\* Before orders them strictly and totally.
LEMMA BeforeIsOrder ==
    ASSUME NEW S, S \subseteq Rows, Apart(S)
    PROVE  /\ \A a \in S : ~Before(a, a)
           /\ \A a, b \in S : a # b => Before(a, b) \/ Before(b, a)
           /\ \A a, b, c \in S : Before(a, b) /\ Before(b, c) => Before(a, c)
<1>a. \A a, b \in S : Before(a, b) <=>
         \/ ~AtLeast(b, a)
         \/ AtLeast(a, b) /\ Rank[a.symbol] < Rank[b.symbol]
  <2>1. ASSUME NEW a \in S, NEW b \in S PROVE Moves(a, b) <=> ~AtLeast(b, a)
    BY DEF AtLeast
  <2> QED
    BY <2>1 DEF Before, AtLeast
<1>b. \A a \in S : Rank[a.symbol] \in Nat /\ a.symbol \in Symbols
  BY MoveIsNat
<1>c. \A a, b \in S : a # b => Rank[a.symbol] # Rank[b.symbol]
  BY <1>b, MarketDataAssumption DEF Apart
<1>d. /\ \A a, b, c \in S : AtLeast(a, b) /\ AtLeast(b, c) => AtLeast(a, c)
      /\ \A a, b \in S : AtLeast(a, b) \/ AtLeast(b, a)
      /\ \A a \in S : AtLeast(a, a)
  BY MovesAreOrdered
<1>1. \A a \in S : ~Before(a, a)
  BY <1>a, <1>b, <1>d
<1>2. \A a, b \in S : a # b => Before(a, b) \/ Before(b, a)
  BY <1>a, <1>b, <1>c, <1>d
<1>3. ASSUME NEW a \in S, NEW b \in S, NEW c \in S, Before(a, b), Before(b, c)
      PROVE  Before(a, c)
  <2> DEFINE i == Rank[a.symbol]  j == Rank[b.symbol]  k == Rank[c.symbol]
  <2>1. (i < j /\ j < k) => i < k
    BY <1>b
  <2> QED
    BY <1>3, <1>a, <1>d, <2>1
<1> QED
  BY <1>1, <1>2, <1>3

\* The rows of S that come before row.
Ahead(S, row) == {other \in S : Before(other, row)}

\* A finite set of rows can be put in order: each row takes the place after
\* the rows ahead of it.
LEMMA SortedExists ==
    ASSUME NEW S, IsFiniteSet(S), S \subseteq Rows, Apart(S)
    PROVE  \E order \in [1 .. Cardinality(S) -> S] :
               \A i, j \in 1 .. Cardinality(S) : i < j => Before(order[i], order[j])
<1> DEFINE n == Cardinality(S)
           place == [row \in S |-> Cardinality(Ahead(S, row)) + 1]
<1>a. n \in Nat
  BY FS_CardinalityType
<1>b. /\ \A a \in S : ~Before(a, a)
      /\ \A a, b \in S : a # b => Before(a, b) \/ Before(b, a)
      /\ \A a, b, c \in S : Before(a, b) /\ Before(b, c) => Before(a, c)
  BY BeforeIsOrder
<1>1. ASSUME NEW row \in S
      PROVE  /\ IsFiniteSet(Ahead(S, row)) /\ Cardinality(Ahead(S, row)) \in Nat
             /\ row \notin Ahead(S, row)
             /\ IsFiniteSet(Ahead(S, row) \cup {row})
             /\ Cardinality(Ahead(S, row) \cup {row}) = Cardinality(Ahead(S, row)) + 1
             /\ Ahead(S, row) \cup {row} \subseteq S
  <2>1. Ahead(S, row) \in SUBSET S /\ row \notin Ahead(S, row)
    BY <1>b DEF Ahead
  <2> QED
    BY <2>1, FS_Subset, FS_CardinalityType, FS_AddElement
<1>p. \A row \in S : place[row] = Cardinality(Ahead(S, row)) + 1
  OBVIOUS
<1> HIDE DEF place
<1>c. ASSUME NEW U, IsFiniteSet(U), NEW T, T \subseteq U
      PROVE  Cardinality(T) <= Cardinality(U)
  BY <1>c, FS_Subset
<1>2. ASSUME NEW row \in S PROVE place[row] \in 1 .. n
  <2> DEFINE c == Cardinality(Ahead(S, row))
  <2>1. Cardinality(Ahead(S, row) \cup {row}) <= n
    BY <1>1, <1>c
  <2>2. c \in Nat /\ c + 1 <= n /\ place[row] = c + 1
    BY <1>1, <1>p, <2>1
  <2> HIDE DEF c, n
  <2> QED
    BY <1>a, <2>2
<1>3. ASSUME NEW a \in S, NEW b \in S, Before(a, b) PROVE place[a] < place[b]
  <2> DEFINE c == Cardinality(Ahead(S, a))
             d == Cardinality(Ahead(S, b))
  <2>1. Ahead(S, a) \cup {a} \subseteq Ahead(S, b)
    BY <1>3, <1>b DEF Ahead
  <2>2. Cardinality(Ahead(S, a) \cup {a}) <= d
    BY <1>1, <1>c, <2>1
  <2>3. c \in Nat /\ d \in Nat /\ c + 1 <= d /\ place[a] = c + 1 /\ place[b] = d + 1
    BY <1>1, <1>p, <2>2
  <2> HIDE DEF c, d
  <2> QED
    BY <2>3
<1>4. place \in [S -> 1 .. n]
  BY <1>2 DEF place
<1>5. \A a \in S : place[a] \in Nat
  BY <1>2, <1>a
<1>6. place \in Injection(S, 1 .. n)
  BY <1>3, <1>4, <1>5, <1>b DEF Injection, IsInjective
<1>7. IsFiniteSet(1 .. n) /\ Cardinality(1 .. n) = n
  BY <1>a, FS_Interval
<1> HIDE DEF n
<1>8. place \in Surjection(S, 1 .. n)
  BY <1>6, <1>7, FS_Injection DEF n
<1>9. \A i \in 1 .. n : \E row \in S : place[row] = i
  BY <1>8 DEF Surjection
<1> DEFINE order == [i \in 1 .. n |-> CHOOSE row \in S : place[row] = i]
<1>10. \A i \in 1 .. n : order[i] \in S /\ place[order[i]] = i
  BY <1>9
<1>11. order \in [1 .. n -> S]
  BY <1>10
<1> HIDE DEF order
<1>12. ASSUME NEW i \in 1 .. n, NEW j \in 1 .. n, i < j PROVE Before(order[i], order[j])
  <2>1. order[i] # order[j]
    BY <1>10, <1>12, <1>a
  <2>2. ~Before(order[j], order[i])
    BY <1>3, <1>10, <1>12, <1>a
  <2> QED
    BY <1>b, <1>10, <2>1, <2>2
<1> QED
  BY <1>11, <1>12 DEF n

\* In Sorted, a row has as many rows ahead of it as there are places.
LEMMA SortedPlaces ==
    ASSUME NEW S, IsFiniteSet(S), S \subseteq Rows, Apart(S)
    PROVE  /\ Cardinality(S) \in Nat
           /\ Sorted(S) \in [1 .. Cardinality(S) -> S]
           /\ \A i \in 1 .. Cardinality(S) :
                Cardinality(Ahead(S, Sorted(S)[i])) = i - 1
<1> DEFINE n == Cardinality(S)
           order == Sorted(S)
<1>a. n \in Nat
  BY FS_CardinalityType
<1>b. /\ \A a \in S : ~Before(a, a)
      /\ \A a, b \in S : a # b => Before(a, b) \/ Before(b, a)
      /\ \A a, b, c \in S : Before(a, b) /\ Before(b, c) => Before(a, c)
  BY BeforeIsOrder
<1>1. /\ order \in [1 .. n -> S]
      /\ \A i, j \in 1 .. n : i < j => Before(order[i], order[j])
  BY SortedExists DEF Sorted
<1>2. IsFiniteSet(1 .. n) /\ Cardinality(1 .. n) = n
  BY <1>a, FS_Interval
<1> HIDE DEF order
<1>3. \A i, j \in 1 .. n : order[i] = order[j] => i = j
  BY <1>1, <1>a, <1>b
<1>4. order \in Injection(1 .. n, S)
  BY <1>1, <1>3 DEF Injection, IsInjective
<1>5. order \in Surjection(1 .. n, S)
  BY <1>2, <1>4, FS_Injection
<1>6. \A row \in S : \E j \in 1 .. n : order[j] = row
  BY <1>5 DEF Surjection
<1>7. ASSUME NEW i \in 1 .. n PROVE Cardinality(Ahead(S, order[i])) = i - 1
  <2> DEFINE A == Ahead(S, order[i])
             m == i - 1
             f == [j \in 1 .. m |-> order[j]]
  <2>1. m \in Nat /\ \A j : j \in 1 .. m <=> j \in 1 .. n /\ j < i
    BY <1>a
  <2>2. \A j \in 1 .. n : Before(order[j], order[i]) <=> j < i
    BY <1>1, <1>a, <1>b
  <2>3. \A j \in 1 .. m : f[j] \in A
    BY <1>1, <2>1, <2>2 DEF Ahead
  <2>4. \A row \in A : \E j \in 1 .. m : f[j] = row
    BY <1>6, <2>1, <2>2 DEF Ahead
  <2>5. \A j, k \in 1 .. m : f[j] = f[k] => j = k
    BY <1>3, <2>1
  <2>6. f \in [1 .. m -> A]
    BY <2>3
  <2> HIDE DEF f, A
  <2>7. f \in Bijection(1 .. m, A)
    BY <2>4, <2>5, <2>6 DEF Bijection, Injection, Surjection, IsInjective
  <2>8. IsFiniteSet(1 .. m) /\ Cardinality(1 .. m) = m
    BY <2>1, FS_Interval
  <2>9. ExistsBijection(1 .. m, A)
    BY <2>7 DEF ExistsBijection
  <2> QED
    BY <2>8, <2>9, FS_Bijection DEF A
<1> QED
  BY <1>a, <1>1, <1>7 DEF order

-----------------------------------------------------------------------------
(* The quotes and the goroutines' local values.                            *)

Possible == UNION {ProviderQuotes(s) : s \in Symbols}

\* Prices are positive, a live price of zero standing for no live data, and
\* make a row, whichever symbol they were quoted for.
LEMMA RowFields ==
    ASSUME NEW s \in Symbols, NEW price \in Possible
    PROVE  Row(s, price) \in Rows /\ Row(s, price).symbol = s
<1>1. PICK t \in Symbols : price \in ProviderQuotes(t)
  BY DEF Possible
<1>2. \A u \in Listed : PrevClose[u] \in Nat \ {0}
  BY MarketDataAssumption
<1>3. price \in Nat \ {0}
  BY <1>1, <1>2, MarketDataAssumption DEF ProviderQuotes
<1> QED
  BY <1>2, <1>3 DEF Row, Rows

\* A cached quote, and the states of a goroutine at work and when done.
Cached(now) == [price : Possible, asOf : 0 .. now, expires : Nat]

Asked == [pc : {"get", "fetch"}, todo : Seq(Symbols) \ {<<>>}, rows : Seq(Rows), limit : Nat]

InStore == [pc : {"store"}, todo : Seq(Symbols) \ {<<>>}, rows : Seq(Rows), limit : Nat,
            price : Possible, asOf : Nat]

Reply(rows, limit) ==
    [pc |-> "answered", all |-> rows, answer |-> Answer(rows, limit), limit |-> limit]

\* No symbol is asked for twice, or again once it has its row.
NoRepeat(rows, todo) ==
    /\ \A i, j \in 1 .. Len(rows) : rows[i].symbol = rows[j].symbol => i = j
    /\ \A i \in 1 .. Len(rows), j \in 1 .. Len(todo) : rows[i].symbol # todo[j]
    /\ \A i, j \in 1 .. Len(todo) : todo[i] = todo[j] => i = j

\* A fetched quote is stored within MaxDelay.
Sound(v, now) ==
    \/ v = Idle
    \/ v \in Asked /\ NoRepeat(v.rows, v.todo)
    \/ v \in InStore /\ NoRepeat(v.rows, v.todo) /\ v.asOf <= now
       /\ now - v.asOf <= MaxDelay
    \/ \E rows \in Seq(Rows), limit \in Nat : v = Reply(rows, limit) /\ NoRepeat(rows, <<>>)

\* A cached quote is dropped in time.
Fresh(q, now) ==
    q \in Cached(now) /\ now <= q.expires /\ q.expires <= q.asOf + MaxDelay + QuoteTtl

\* The inductive invariant.  The state's functions have the right domains.
Quoting ==
    /\ clock \in 0 .. MaxTime
    /\ cache = [s \in Symbols |-> cache[s]]
    /\ \A s \in Symbols : cache[s] = NoQuote \/ Fresh(cache[s], clock)
    /\ task = [t \in Tasks |-> task[t]]
    /\ \A t \in Tasks : Sound(task[t], clock)

\* The next symbol gets its row, or is skipped.
LEMMA NoRepeatStep ==
    ASSUME NEW rows \in Seq(Rows), NEW todo \in Seq(Symbols), todo # <<>>,
           NoRepeat(rows, todo), NEW row \in Rows, row.symbol = Head(todo)
    PROVE  /\ Tail(todo) \in Seq(Symbols) /\ Append(rows, row) \in Seq(Rows)
           /\ NoRepeat(rows, Tail(todo)) /\ NoRepeat(Append(rows, row), Tail(todo))
<1> DEFINE n == Len(rows)
           m == Len(todo)
           rest == Tail(todo)
           more == Append(rows, row)
<1>1. /\ rest \in Seq(Symbols) /\ m \in Nat \ {0} /\ Len(rest) = m - 1
      /\ \A j \in 1 .. m - 1 : rest[j] = todo[j + 1]
      /\ Head(todo) = todo[1]
  BY HeadTailProperties, EmptySeq
<1>2. /\ more \in Seq(Rows) /\ n \in Nat /\ Len(more) = n + 1
      /\ \A i \in 1 .. n : more[i] = rows[i]
      /\ more[n + 1] = row
  BY AppendProperties, LenProperties
<1>a. /\ \A i, j \in 1 .. n : rows[i].symbol = rows[j].symbol => i = j
      /\ \A i \in 1 .. n, j \in 1 .. m : rows[i].symbol # todo[j]
      /\ \A i, j \in 1 .. m : todo[i] = todo[j] => i = j
  BY DEF NoRepeat
<1> HIDE DEF n, m, rest, more
<1>3. /\ \A i \in 1 .. n, j \in 1 .. m - 1 : rows[i].symbol # rest[j]
      /\ \A i, j \in 1 .. m - 1 : rest[i] = rest[j] => i = j
  <2>1. \A j \in 1 .. m - 1 : j + 1 \in 1 .. m /\ j \in Int
    BY <1>1
  <2>2. \A i, j \in 1 .. m - 1 : i + 1 = j + 1 => i = j
    BY <1>1
  <2> QED
    BY <1>1, <1>a, <2>1, <2>2
<1>4. \A j \in 1 .. m - 1 : row.symbol # rest[j]
  <2>1. \A j \in 1 .. m - 1 : j + 1 \in 1 .. m /\ 1 \in 1 .. m /\ j + 1 # 1
    BY <1>1
  <2> QED
    BY <1>1, <1>a, <2>1
<1>5. \A i \in 1 .. n : rows[i].symbol # row.symbol
  <2>1. 1 \in 1 .. m
    BY <1>1
  <2> QED
    BY <1>1, <1>a, <2>1
<1>6. NoRepeat(rows, rest)
  BY <1>1, <1>3, <1>a DEF NoRepeat, n
<1>7. NoRepeat(more, rest)
  <2>1. \A i \in 1 .. n + 1 : i \in 1 .. n \/ i = n + 1
    BY <1>2
  <2>2. \A i, j \in 1 .. n + 1 : more[i].symbol = more[j].symbol => i = j
    BY <1>2, <1>5, <1>a, <2>1
  <2>3. \A i \in 1 .. n + 1, j \in 1 .. m - 1 : more[i].symbol # rest[j]
    BY <1>2, <1>3, <1>4, <2>1
  <2> QED
    BY <1>1, <1>2, <1>3, <2>2, <2>3 DEF NoRepeat
<1> QED
  BY <1>1, <1>2, <1>6, <1>7 DEF rest, more

\* Advance leaves a sound value.
LEMMA AdvanceSound ==
    ASSUME Quoting, NEW t \in Tasks, NEW todo \in Seq(Symbols), todo # <<>>,
           task[t].todo = todo, NEW limit \in Nat, task[t].limit = limit,
           NEW rows \in Seq(Rows), NoRepeat(rows, Tail(todo)), Advance(t, rows)
    PROVE  \E v : task' = [task EXCEPT ![t] = v] /\ Sound(v, clock) /\ v.pc # "store"
<1> DEFINE rest == Tail(todo)
<1>1. rest \in Seq(Symbols)
  BY HeadTailProperties
<1>2. task' = [task EXCEPT ![t] =
                 IF rest # <<>> THEN Asking("get", rest, rows, limit)
                 ELSE IF t \in Pollers THEN Idle
                 ELSE Reply(rows, limit)]
  BY DEF Advance, Reply, Quoting
<1>a. NoRepeat(rows, rest)
  OBVIOUS
<1> HIDE DEF rest
<1>3. CASE rest # <<>>
  <2> DEFINE v == Asking("get", rest, rows, limit)
  <2>1. v \in Asked /\ v.rows = rows /\ v.todo = rest /\ v.pc = "get"
    BY <1>1, <1>3 DEF Asking, Asked
  <2>2. task' = [task EXCEPT ![t] = v]
    BY <1>2, <1>3
  <2> HIDE DEF v
  <2> QED
    BY <1>a, <2>1, <2>2 DEF Sound
<1>4. CASE rest = <<>> /\ t \in Pollers
  <2>1. task' = [task EXCEPT ![t] = Idle]
    BY <1>2, <1>4
  <2>2. Sound(Idle, clock) /\ Idle.pc # "store"
    BY DEF Sound, Idle
  <2> QED
    BY <2>1, <2>2
<1>5. CASE rest = <<>> /\ t \notin Pollers
  <2>1. Sound(Reply(rows, limit), clock)
    BY <1>a, <1>5 DEF Sound
  <2>2. Reply(rows, limit).pc = "answered"
    BY DEF Reply
  <2> QED
    BY <1>2, <1>5, <2>1, <2>2
<1> QED
  BY <1>3, <1>4, <1>5

\* A goroutine that is asking has a symbol to ask for.
LEMMA AskingFields ==
    ASSUME Quoting, NEW t \in Tasks, task[t].pc \in {"get", "fetch", "store"}
    PROVE  /\ task[t].todo \in Seq(Symbols) /\ task[t].todo # <<>>
           /\ Head(task[t].todo) \in Symbols
           /\ task[t].rows \in Seq(Rows) /\ task[t].limit \in Nat
           /\ NoRepeat(task[t].rows, task[t].todo)
           /\ task[t].pc # "store" => task[t] \in Asked
           /\ task[t].pc = "store" =>
                /\ task[t] \in InStore /\ task[t].price \in Possible
                /\ task[t].asOf \in Nat /\ task[t].asOf <= clock
                /\ clock - task[t].asOf <= MaxDelay
<1> DEFINE v == task[t]
<1>1. Sound(v, clock) /\ v.pc \in {"get", "fetch", "store"}
  BY DEF Quoting
<1> HIDE DEF v
<1>2. v # Idle
  BY <1>1 DEF Idle
<1>3. ASSUME NEW rows, NEW limit, v = Reply(rows, limit) PROVE FALSE
  BY <1>1, <1>3 DEF Reply
<1>4. \/ v \in Asked /\ NoRepeat(v.rows, v.todo)
      \/ v \in InStore /\ NoRepeat(v.rows, v.todo) /\ v.asOf <= clock
         /\ clock - v.asOf <= MaxDelay
  BY <1>1, <1>2, <1>3 DEF Sound
<1>5. CASE v \in Asked /\ NoRepeat(v.rows, v.todo)
  <2>1. v.pc # "store" /\ v.todo \in Seq(Symbols) /\ v.todo # <<>> /\ v.rows \in Seq(Rows)
        /\ v.limit \in Nat
    BY <1>5 DEF Asked
  <2>2. Head(v.todo) \in Symbols
    BY <2>1, HeadTailProperties
  <2> QED
    BY <1>5, <2>1, <2>2 DEF v
<1>6. CASE v \in InStore /\ NoRepeat(v.rows, v.todo) /\ v.asOf <= clock
           /\ clock - v.asOf <= MaxDelay
  <2>1. v.pc = "store" /\ v.todo \in Seq(Symbols) /\ v.todo # <<>> /\ v.rows \in Seq(Rows)
        /\ v.limit \in Nat /\ v.price \in Possible /\ v.asOf \in Nat
    BY <1>6 DEF InStore
  <2>2. Head(v.todo) \in Symbols
    BY <2>1, HeadTailProperties
  <2> QED
    BY <1>6, <2>1, <2>2 DEF v
<1> QED
  BY <1>4, <1>5, <1>6

\* What a step of goroutine t may do: store a quote that is fresh, and go on
\* with a value that is sound.
Effect(t) ==
    /\ UNCHANGED clock
    /\ \/ UNCHANGED cache
       \/ \E s \in Symbols : \E q : Fresh(q, clock) /\ cache' = [cache EXCEPT ![s] = q]
    /\ \E v : task' = [task EXCEPT ![t] = v] /\ Sound(v, clock)

\* The values of a goroutine that begins to ask.
LEMMA AskSound ==
    ASSUME NEW pc \in {"get", "fetch"}, NEW todo \in Seq(Symbols), todo # <<>>,
           IsInjective(todo), NEW limit \in Nat
    PROVE  Sound(Asking(pc, todo, <<>>, limit), clock)
<1> DEFINE v == Asking(pc, todo, <<>>, limit)
<1>1. <<>> \in Seq(Rows) /\ Len(<<>>) = 0
  BY EmptySeq
<1>2. NoRepeat(<<>>, todo)
  <2>1. DOMAIN todo = 1 .. Len(todo)
    BY LenProperties
  <2>2. \A i \in 1 .. Len(<<>>) : FALSE
    BY <1>1
  <2> QED
    BY <2>1, <2>2 DEF NoRepeat, IsInjective
<1>3. v \in Asked /\ v.rows = <<>> /\ v.todo = todo
  BY <1>1 DEF Asking, Asked
<1> HIDE DEF v
<1>4. Sound(v, clock)
  BY <1>2, <1>3 DEF Sound
<1> QED
  BY <1>4 DEF v

\* Every step of a goroutine has such an effect.
LEMMA TaskEffect ==
    ASSUME Quoting, NEW t \in Tasks, TaskStep(t)
    PROVE  Effect(t)
<1>a. /\ QuoteTtl \in Nat /\ MaxDelay \in Nat /\ MaxTime \in Nat /\ clock \in Nat
      /\ Universe \in Seq(Symbols) /\ Universe # <<>> /\ IsInjective(Universe)
      /\ Limits \subseteq Nat /\ task = [u \in Tasks |-> task[u]]
      /\ cache = [s \in Symbols |-> cache[s]]
  BY MarketDataAssumption DEF Quoting
<1>1. ASSUME NEW s \in Symbols, AskOne(t, s) PROVE Effect(t)
  <2> DEFINE pc == IF t \in Pollers THEN "fetch" ELSE "get"
  <2>1. task' = [task EXCEPT ![t] = Asking(pc, <<s>>, <<>>, 0)] /\ UNCHANGED <<cache, clock>>
    BY <1>1 DEF AskOne
  <2>2. pc \in {"get", "fetch"}
    OBVIOUS
  <2> HIDE DEF pc
  <2>3. <<s>> \in Seq(Symbols) /\ <<s>> # <<>> /\ IsInjective(<<s>>)
    BY DEF IsInjective
  <2> QED
    BY <2>1, <2>2, <2>3, AskSound DEF Effect
<1>2. ASSUME NEW limit \in Limits \cup {0}, AskAll(t, limit) PROVE Effect(t)
  <2>1. /\ task' = [task EXCEPT ![t] = Asking("get", Universe, <<>>, limit)]
        /\ UNCHANGED <<cache, clock>> /\ limit \in Nat
    BY <1>2, <1>a DEF AskAll
  <2> QED
    BY <1>a, <2>1, AskSound DEF Effect
<1>3. ASSUME NEW rows \in Seq(Rows), task[t].pc \in {"get", "fetch", "store"},
             NoRepeat(rows, Tail(task[t].todo)), Advance(t, rows)
      PROVE  \E v : task' = [task EXCEPT ![t] = v] /\ Sound(v, clock)
  BY <1>3, AskingFields, AdvanceSound
<1>4. ASSUME NEW price \in Possible, task[t].pc \in {"get", "fetch", "store"}
      PROVE  LET rows == Append(task[t].rows, Row(Head(task[t].todo), price)) IN
             rows \in Seq(Rows) /\ NoRepeat(rows, Tail(task[t].todo))
  <2> DEFINE row == Row(Head(task[t].todo), price)
  <2>1. row \in Rows /\ row.symbol = Head(task[t].todo)
    BY <1>4, AskingFields, RowFields
  <2> HIDE DEF row
  <2>2. /\ task[t].todo \in Seq(Symbols) /\ task[t].todo # <<>>
        /\ task[t].rows \in Seq(Rows) /\ NoRepeat(task[t].rows, task[t].todo)
    BY <1>4, AskingFields
  <2>3. /\ Append(task[t].rows, row) \in Seq(Rows)
        /\ NoRepeat(Append(task[t].rows, row), Tail(task[t].todo))
    BY <2>1, <2>2, NoRepeatStep
  <2> QED
    BY <2>3 DEF row
<1>5. CASE Hit(t)
  <2> DEFINE s == Head(task[t].todo)
  <2>1. /\ task[t].pc = "get" /\ cache[s] # NoQuote /\ UNCHANGED <<cache, clock>>
        /\ Advance(t, Append(task[t].rows, Row(s, cache[s].price)))
    BY <1>5 DEF Hit
  <2>2. s \in Symbols
    BY <2>1, AskingFields
  <2>3. cache[s].price \in Possible
    BY <2>1, <2>2 DEF Quoting, Fresh, Cached
  <2> QED
    BY <1>3, <1>4, <2>1, <2>3 DEF Effect
<1>6. CASE Miss(t)
  <2> DEFINE v == [task[t] EXCEPT !.pc = "fetch"]
  <2>1. /\ task[t].pc = "get" /\ task' = [task EXCEPT ![t] = v]
        /\ UNCHANGED <<cache, clock>>
    BY <1>6, <1>a DEF Miss
  <2>2. task[t] \in Asked /\ NoRepeat(task[t].rows, task[t].todo)
    BY <2>1, AskingFields
  <2>3. v \in Asked /\ v.rows = task[t].rows /\ v.todo = task[t].todo
    BY <2>2 DEF Asked
  <2> HIDE DEF v
  <2>4. Sound(v, clock)
    BY <2>2, <2>3 DEF Sound
  <2> QED
    BY <2>1, <2>4 DEF Effect
<1>7. CASE Fetch(t)
  <2> DEFINE s == Head(task[t].todo)
  <2>1. task[t].pc = "fetch" /\ UNCHANGED <<cache, clock>>
    BY <1>7 DEF Fetch
  <2>2. /\ task[t].todo \in Seq(Symbols) /\ task[t].todo # <<>> /\ s \in Symbols
        /\ task[t].rows \in Seq(Rows) /\ task[t].limit \in Nat
        /\ NoRepeat(task[t].rows, task[t].todo)
    BY <2>1, AskingFields
  <2>3. PICK price \in ProviderQuotes(s) :
          task' = [task EXCEPT ![t] =
                     [pc |-> "store", todo |-> task[t].todo, rows |-> task[t].rows,
                      limit |-> task[t].limit, price |-> price, asOf |-> clock]]
    BY <1>7, <1>a DEF Fetch
  <2> DEFINE v == [pc |-> "store", todo |-> task[t].todo, rows |-> task[t].rows,
                   limit |-> task[t].limit, price |-> price, asOf |-> clock]
  <2>4. price \in Possible
    BY <2>2 DEF Possible
  <2>5. /\ v \in InStore /\ v.rows = task[t].rows /\ v.todo = task[t].todo
        /\ v.asOf = clock
    BY <1>a, <2>2, <2>4 DEF InStore
  <2>6. task' = [task EXCEPT ![t] = v]
    BY <2>3
  <2> HIDE DEF v
  <2>7. v.asOf <= clock /\ clock - v.asOf <= MaxDelay
    BY <1>a, <2>5
  <2>8. Sound(v, clock)
    BY <2>2, <2>5, <2>7 DEF Sound
  <2> QED
    BY <2>1, <2>6, <2>8 DEF Effect
<1>8. CASE FetchFails(t)
  <2>1. task[t].pc = "fetch" /\ UNCHANGED <<cache, clock>> /\ Advance(t, task[t].rows)
    BY <1>8 DEF FetchFails
  <2>2. /\ task[t].todo \in Seq(Symbols) /\ task[t].todo # <<>>
        /\ task[t].rows \in Seq(Rows) /\ NoRepeat(task[t].rows, task[t].todo)
    BY <2>1, AskingFields
  <2>3. NoRepeat(task[t].rows, Tail(task[t].todo))
    <3> DEFINE s == Head(task[t].todo)
    <3>1. s \in Symbols
      BY <2>1, AskingFields
    <3> DEFINE row == [symbol |-> s, price |-> 1, prev |-> 1]
    <3>2. row \in Rows /\ row.symbol = s
      BY <3>1 DEF Rows
    <3> HIDE DEF row
    <3> QED
      BY <2>2, <3>2, NoRepeatStep
  <2> QED
    BY <1>3, <2>1, <2>2, <2>3 DEF Effect
<1>9. CASE Store(t) \/ StoreFails(t)
  <2> DEFINE s == Head(task[t].todo)
             q == [price |-> task[t].price, asOf |-> task[t].asOf,
                   expires |-> clock + Lifetime]
  <2>1. task[t].pc = "store" /\ UNCHANGED clock /\ Advance(t, Answered(t))
        /\ (UNCHANGED cache \/ cache' = [cache EXCEPT ![s] = q])
    BY <1>9 DEF Store, StoreFails
  <2>2. /\ s \in Symbols /\ task[t].price \in Possible /\ task[t].asOf \in Nat
        /\ task[t].asOf <= clock /\ clock - task[t].asOf <= MaxDelay
    BY <2>1, AskingFields
  <2>3. Fresh(q, clock)
    <3>1. /\ task[t].asOf \in 0 .. clock /\ clock + QuoteTtl \in Nat
          /\ clock <= clock + QuoteTtl
          /\ clock + QuoteTtl <= task[t].asOf + MaxDelay + QuoteTtl
      BY <1>a, <2>2
    <3>2. q \in Cached(clock) /\ q.expires = clock + QuoteTtl /\ q.asOf = task[t].asOf
      BY <2>2, <3>1 DEF Cached, Lifetime
    <3> HIDE DEF q
    <3> QED
      BY <3>1, <3>2 DEF Fresh
  <2> HIDE DEF q
  <2>4. \E v : task' = [task EXCEPT ![t] = v] /\ Sound(v, clock)
    BY <1>3, <1>4, <2>1, <2>2 DEF Answered
  <2> QED
    BY <2>1, <2>2, <2>3, <2>4 DEF Effect
<1> QED
  BY <1>1, <1>2, <1>5, <1>6, <1>7, <1>8, <1>9 DEF TaskStep

-----------------------------------------------------------------------------
(* The inductive invariant.                                                *)

\* Quoting holds before anything is asked for.
LEMMA QuotingInit ==
    ASSUME Init
    PROVE  Quoting
<1>1. 0 \in 0 .. MaxTime
  BY MarketDataAssumption
<1> QED
  BY <1>1 DEF Init, Quoting, Sound

\* A step of a goroutine keeps it.
LEMMA TaskKeepsQuoting ==
    ASSUME Quoting, NEW t \in Tasks, TaskStep(t)
    PROVE  Quoting'
<1>a. /\ clock' = clock
      /\ clock \in 0 .. MaxTime /\ cache = [s \in Symbols |-> cache[s]]
      /\ \A s \in Symbols : cache[s] = NoQuote \/ Fresh(cache[s], clock)
      /\ task = [u \in Tasks |-> task[u]] /\ \A u \in Tasks : Sound(task[u], clock)
  BY TaskEffect DEF Effect, Quoting
<1>1. /\ task' = [u \in Tasks |-> task'[u]]
      /\ \A u \in Tasks : Sound(task'[u], clock)
  <2>1. PICK v : task' = [task EXCEPT ![t] = v] /\ Sound(v, clock)
    BY TaskEffect DEF Effect
  <2> QED
    BY <1>a, <2>1
<1>2. /\ cache' = [s \in Symbols |-> cache'[s]]
      /\ \A s \in Symbols : cache'[s] = NoQuote \/ Fresh(cache'[s], clock)
  <2>1. CASE UNCHANGED cache
    BY <1>a, <2>1
  <2>2. ASSUME NEW s \in Symbols, NEW q, Fresh(q, clock), cache' = [cache EXCEPT ![s] = q]
        PROVE  /\ cache' = [r \in Symbols |-> cache'[r]]
               /\ \A r \in Symbols : cache'[r] = NoQuote \/ Fresh(cache'[r], clock)
    BY <1>a, <2>2
  <2> QED
    BY <2>1, <2>2, TaskEffect DEF Effect
<1> QED
  BY <1>a, <1>1, <1>2 DEF Quoting

\* The clock moves only while no writer is late, and overdue quotes go.
LEMMA TickKeepsQuoting ==
    ASSUME Quoting, Tick
    PROVE  Quoting'
<1>a. /\ clock \in 0 .. MaxTime /\ clock < MaxTime /\ clock' = clock + 1 /\ task' = task
      /\ MaxTime \in Nat /\ MaxDelay \in Nat
  BY MarketDataAssumption DEF Quoting, Tick
<1>b. /\ clock' \in 0 .. MaxTime /\ clock \in Nat /\ clock' \in Nat
      /\ 0 .. clock \subseteq 0 .. clock'
  BY <1>a
<1>1. ASSUME NEW t \in Tasks PROVE Sound(task[t], clock')
  <2> DEFINE v == task[t]
  <2>1. Sound(v, clock)
    BY DEF Quoting
  <2>2. v.pc = "store" => clock - v.asOf < MaxDelay
    BY DEF Tick
  <2> HIDE DEF v
  <2>3. ASSUME v \in InStore, NoRepeat(v.rows, v.todo), v.asOf <= clock,
               clock - v.asOf <= MaxDelay
        PROVE  Sound(v, clock')
    <3>1. v.pc = "store" /\ v.asOf \in Nat
      BY <2>3 DEF InStore
    <3>2. v.asOf <= clock' /\ clock' - v.asOf <= MaxDelay
      BY <1>a, <1>b, <2>2, <2>3, <3>1
    <3> QED
      BY <2>3, <3>2 DEF Sound
  <2>4. Sound(v, clock')
    BY <2>1, <2>3, Zenon DEF Sound
  <2> QED
    BY <2>4 DEF v
<1>2. ASSUME NEW s \in Symbols PROVE cache'[s] = NoQuote \/ Fresh(cache'[s], clock')
  <2>1. cache'[s] = IF cache[s] # NoQuote /\ clock' > cache[s].expires
                      THEN NoQuote ELSE cache[s]
    BY DEF Tick
  <2>2. CASE cache'[s] = cache[s] /\ cache[s] # NoQuote /\ ~(clock' > cache[s].expires)
    <3> DEFINE q == cache[s]
    <3>1. q \in Cached(clock) /\ q.expires <= q.asOf + MaxDelay + QuoteTtl
      BY <2>2 DEF Quoting, Fresh
    <3>2. q \in Cached(clock') /\ q.expires \in Nat
      BY <1>b, <3>1 DEF Cached
    <3>3. clock' <= q.expires
      BY <1>b, <2>2, <3>2
    <3> HIDE DEF q
    <3>4. Fresh(q, clock')
      BY <3>1, <3>2, <3>3 DEF Fresh
    <3> QED
      BY <2>2, <3>4 DEF q
  <2> QED
    BY <2>1, <2>2
<1>3. task = [t \in Tasks |-> task[t]]
  BY DEF Quoting
<1>4. cache' = [s \in Symbols |-> cache'[s]]
  BY DEF Tick
<1> QED
  BY <1>a, <1>b, <1>1, <1>2, <1>3, <1>4 DEF Quoting

\* Quoting holds in every state.
LEMMA QuotingHolds == Spec => []Quoting
<1>1. Init => Quoting
  BY QuotingInit
<1>2. Quoting /\ UNCHANGED vars => Quoting'
  BY DEF Quoting, vars
<1>3. Quoting /\ [Next]_vars => Quoting'
  BY <1>2, TaskKeepsQuoting, TickKeepsQuoting DEF Next
<1> QED
  BY <1>1, <1>3, PTL DEF Spec

-----------------------------------------------------------------------------
(* The theorems.                                                           *)

\* Quotes, cached or in hand, are prices the provider can give, and no
\* goroutine asks for nothing.
THEOREM MarketDataTypes == Spec => []TypeOK
<1>1. ASSUME Quoting PROVE TypeOK
  <2>1. cache \in [Symbols -> {NoQuote} \cup Cached(clock)]
    BY <1>1 DEF Quoting, Fresh
  <2>2. ASSUME NEW t \in Tasks
        PROVE  task[t].pc \in {"idle", "get", "fetch", "store", "answered"}
    <3> DEFINE v == task[t]
    <3>1. Sound(v, clock)
      BY <1>1 DEF Quoting
    <3> HIDE DEF v
    <3>2. \A rows, limit : Reply(rows, limit).pc = "answered"
      BY DEF Reply
    <3>3. v.pc \in {"idle", "get", "fetch", "store", "answered"}
      BY <3>1, <3>2 DEF Sound, Idle, Asked, InStore
    <3> QED
      BY <3>3 DEF v
  <2>3. ASSUME NEW t \in Tasks
        PROVE  /\ task[t].pc = "store" => task[t].price \in Possible
               /\ task[t].pc \in {"get", "fetch", "store"} => task[t].todo # <<>>
    BY <1>1, AskingFields
  <2>4. clock \in 0 .. MaxTime
    BY <1>1 DEF Quoting
  <2> QED
    BY <2>1, <2>2, <2>3, <2>4 DEF TypeOK, Possible, Cached
<1> QED
  BY <1>1, QuotingHolds, PTL

\* A quote is served for no longer than its time to live and the time its
\* writer was late, however requests and refreshes overwrite each other's.
THEOREM QuotesAreRecent == Spec => []CachedQuoteIsRecent
<1>1. ASSUME Quoting PROVE CachedQuoteIsRecent
  <2> SUFFICES ASSUME NEW s \in Symbols, cache[s] # NoQuote
               PROVE  clock - cache[s].asOf <= QuoteTtl + MaxDelay
    BY DEF CachedQuoteIsRecent
  <2> DEFINE q == cache[s]
  <2>1. q \in Cached(clock) /\ clock <= q.expires /\ q.expires <= q.asOf + MaxDelay + QuoteTtl
    BY <1>1 DEF Quoting, Fresh
  <2>2. clock \in Nat /\ QuoteTtl \in Nat /\ MaxDelay \in Nat
    BY <1>1, MarketDataAssumption DEF Quoting
  <2>3. q.asOf \in Int /\ q.expires \in Nat
    BY <2>1, <2>2 DEF Cached
  <2> QED
    BY <2>1, <2>2, <2>3
<1> QED
  BY <1>1, QuotingHolds, PTL

\* The rows of a list without repetition are as many as its length, and of
\* different symbols.
LEMMA RowsApart ==
    ASSUME NEW rows \in Seq(Rows), NoRepeat(rows, <<>>)
    PROVE  /\ IsFiniteSet(ToSet(rows)) /\ ToSet(rows) \subseteq Rows /\ Apart(ToSet(rows))
           /\ Cardinality(ToSet(rows)) = Len(rows) /\ Len(rows) \in Nat
<1> DEFINE n == Len(rows)
           S == ToSet(rows)
<1>1. n \in Nat /\ DOMAIN rows = 1 .. n /\ \A i \in 1 .. n : rows[i] \in Rows
  BY LenProperties
<1>2. /\ \A i \in 1 .. n : rows[i] \in S
      /\ \A row \in S : \E i \in 1 .. n : row = rows[i]
  BY <1>1 DEF ToSet
<1>3. \A i, j \in 1 .. n : rows[i].symbol = rows[j].symbol => i = j
  BY DEF NoRepeat
<1>a. rows \in [1 .. n -> Rows]
  BY LenProperties
<1> HIDE DEF n, S
<1>4. rows \in [1 .. n -> S]
  BY <1>2, <1>a
<1>5. \A i, j \in 1 .. n : rows[i] = rows[j] => i = j
  BY <1>3
<1>6. rows \in Bijection(1 .. n, S)
  BY <1>2, <1>4, <1>5 DEF Bijection, Injection, Surjection, IsInjective
<1>7. IsFiniteSet(1 .. n) /\ Cardinality(1 .. n) = n
  BY <1>1, FS_Interval
<1>8. IsFiniteSet(S) /\ Cardinality(S) = n
  BY <1>6, <1>7, FS_Bijection DEF ExistsBijection
<1>9. Apart(S)
  BY <1>2, <1>3 DEF Apart
<1>10. S \subseteq Rows
  BY <1>1, <1>2
<1> QED
  BY <1>1, <1>8, <1>9, <1>10 DEF n, S

\* The rows that TrendingIsTop calls better are those ahead in the order.
LEMMA BetterIsAhead ==
    ASSUME NEW S, S \subseteq Rows, Apart(S), NEW row \in S
    PROVE  Ahead(S, row) =
             {other \in S \ {row} :
                \/ Abs(other.price - other.prev) * row.prev
                     > Abs(row.price - row.prev) * other.prev
                \/ /\ Abs(other.price - other.prev) * row.prev
                        = Abs(row.price - row.prev) * other.prev
                   /\ Rank[other.symbol] < Rank[row.symbol]}
<1>1. ~Before(row, row)
  BY BeforeIsOrder
<1>2. ASSUME NEW other \in S
      PROVE  Before(other, row) <=>
               \/ Abs(other.price - other.prev) * row.prev
                    > Abs(row.price - row.prev) * other.prev
               \/ /\ Abs(other.price - other.prev) * row.prev
                       = Abs(row.price - row.prev) * other.prev
                  /\ Rank[other.symbol] < Rank[row.symbol]
  <2> DEFINE x == Abs(other.price - other.prev) * row.prev
             y == Abs(row.price - row.prev) * other.prev
  <2>1. /\ Abs(other.price - other.prev) \in Nat /\ other.prev \in Nat
        /\ Abs(row.price - row.prev) \in Nat /\ row.prev \in Nat
    BY MoveIsNat
  <2>2. x \in Nat /\ y \in Nat
    BY <2>1
  <2>3. Before(other, row) <=> x > y \/ (~(y > x) /\ Rank[other.symbol] < Rank[row.symbol])
    BY DEF Before, Moves
  <2> HIDE DEF x, y
  <2>4. Before(other, row) <=> x > y \/ (x = y /\ Rank[other.symbol] < Rank[row.symbol])
    BY <2>2, <2>3
  <2> QED
    BY <2>4 DEF x, y
<1> QED
  BY <1>1, <1>2 DEF Ahead

\* With a limit, the answer has the first rows of the order.
LEMMA AnswerPlaces ==
    ASSUME NEW rows \in Seq(Rows), NoRepeat(rows, <<>>), NEW limit \in Nat, limit > 0
    PROVE  LET all == ToSet(rows)
               answer == Answer(rows, limit)
           IN  /\ Len(answer) = IF limit < Cardinality(all) THEN limit ELSE Cardinality(all)
               /\ \A i \in 1 .. Len(answer) :
                    answer[i] \in all /\ Cardinality(Ahead(all, answer[i])) = i - 1
<1> DEFINE all == ToSet(rows)
           n == Cardinality(all)
           sorted == Sorted(all)
           answer == Answer(rows, limit)
<1>1. n = Len(rows) /\ n \in Nat
  BY RowsApart
<1>2. /\ sorted \in [1 .. n -> all]
      /\ \A i \in 1 .. n : Cardinality(Ahead(all, sorted[i])) = i - 1
  BY RowsApart, SortedPlaces
<1>3. answer = IF limit < n THEN SubSeq(sorted, 1, limit) ELSE sorted
  BY <1>1 DEF Answer
<1> HIDE DEF all, sorted, answer, n
<1>4. sorted \in Seq(all) /\ Len(sorted) = n
  BY <1>1, <1>2, SeqDef
<1>5. CASE limit < n
  <2>1. \A i \in 1 .. limit : i \in 1 .. n /\ 1 + i - 1 = i
    BY <1>1, <1>5
  <2>a. \A i \in 1 .. limit : sorted[i] \in all
    BY <1>2, <2>1
  <2>2. /\ Len(SubSeq(sorted, 1, limit)) = limit
        /\ \A i \in 1 .. limit : SubSeq(sorted, 1, limit)[i] = sorted[i]
    BY <2>1, <2>a, SubSeqProperties
  <2> QED
    BY <1>2, <1>3, <1>5, <2>1, <2>2 DEF all, answer, n
<1>6. CASE ~(limit < n)
  BY <1>2, <1>3, <1>4, <1>6 DEF all, answer, n
<1> QED
  BY <1>5, <1>6

\* The top movers answered are the first of all that were collected: a row
\* is in place i exactly if i - 1 rows move more, or as much with a symbol
\* that sorts before.
THEOREM TrendingIsRight == Spec => []TrendingIsTop
<1>1. ASSUME Quoting PROVE TrendingIsTop
  <2> SUFFICES ASSUME NEW t \in Requests, task[t].pc = "answered", task[t].limit > 0
               PROVE  LET all == ToSet(task[t].all)
                          answer == task[t].answer
                      IN  /\ Len(answer) = IF task[t].limit < Cardinality(all)
                                             THEN task[t].limit ELSE Cardinality(all)
                          /\ \A i \in 1 .. Len(answer) :
                               answer[i] \in all /\ Cardinality(
                                 {other \in all \ {answer[i]} :
                                    \/ Abs(other.price - other.prev) * answer[i].prev
                                         > Abs(answer[i].price - answer[i].prev) * other.prev
                                    \/ /\ Abs(other.price - other.prev) * answer[i].prev
                                            = Abs(answer[i].price - answer[i].prev) * other.prev
                                       /\ Rank[other.symbol] < Rank[answer[i].symbol]}) = i - 1
    BY DEF TrendingIsTop
  <2> DEFINE v == task[t]
  <2>1. Sound(v, clock) /\ v.pc = "answered"
    BY <1>1 DEF Quoting, Tasks
  <2> HIDE DEF v
  <2>2. v \notin Asked /\ v \notin InStore /\ v # Idle
    BY <2>1 DEF Asked, InStore, Idle
  <2>3. PICK rows \in Seq(Rows), limit \in Nat : v = Reply(rows, limit) /\ NoRepeat(rows, <<>>)
    BY <2>1, <2>2 DEF Sound
  <2>4. v.all = rows /\ v.limit = limit /\ v.answer = Answer(rows, limit)
    BY <2>3 DEF Reply
  <2>5. limit > 0
    BY <2>4 DEF v
  <2> DEFINE all == ToSet(rows)
             answer == Answer(rows, limit)
  <2>6. /\ Len(answer) = IF limit < Cardinality(all) THEN limit ELSE Cardinality(all)
        /\ \A i \in 1 .. Len(answer) :
             answer[i] \in all /\ Cardinality(Ahead(all, answer[i])) = i - 1
    BY <2>3, <2>5, AnswerPlaces
  <2>7. all \subseteq Rows /\ Apart(all)
    BY <2>3, RowsApart
  <2> HIDE DEF all, answer
  <2>8. ASSUME NEW i \in 1 .. Len(answer)
        PROVE  Cardinality(
                 {other \in all \ {answer[i]} :
                    \/ Abs(other.price - other.prev) * answer[i].prev
                         > Abs(answer[i].price - answer[i].prev) * other.prev
                    \/ /\ Abs(other.price - other.prev) * answer[i].prev
                            = Abs(answer[i].price - answer[i].prev) * other.prev
                       /\ Rank[other.symbol] < Rank[answer[i].symbol]}) = i - 1
    BY <2>6, <2>7, BetterIsAhead
  <2>9. task[t].all = rows /\ task[t].limit = limit /\ task[t].answer = answer
    BY <2>4 DEF v, answer
  <2> QED
    BY <2>6, <2>8, <2>9, Zenon DEF all
<1> QED
  BY <1>1, QuotingHolds, PTL
=============================================================================
