---------------------------- MODULE SdwLayoutProofs ----------------------------
(***************************************************************************)
(* The places that SdwLayout gives to the ports of a bus, for any list of  *)
(* runtimes: counters over a list, columns of the rates, blocks of bits.   *)
(***************************************************************************)
EXTENDS SdwLayout, SequenceTheorems, WellFoundedInduction, TLAPS

-------------------------------------------------------------------------------
(* The counters of the allocator's loops *)

\* A set of naturals that is not empty has a smallest member.  This is what
\* carries the inductions over the entries of a list.
LEMMA Least ==
  ASSUME NEW I \in SUBSET Nat, I # {}
  PROVE  \E i \in I : \A j \in I : i <= j
<1>1. PICK i \in I : \A j \in I : ~(<<j, i>> \in OpToRel(<, Nat))
  BY NatLessThanWellFounded, WFMin, Zenon
<1>2. ASSUME NEW j \in I, j < i PROVE FALSE
  <2>1. <<j, i>> \in OpToRel(<, Nat)
    BY <1>2, Zenon DEF OpToRel
  <2> QED
    BY <1>1, <2>1, Zenon
<1> QED
  BY <1>2

\* f is the counter up to entry n.
Counts(f, q, start, back, n) ==
  /\ f \in [0 .. n -> Nat]
  /\ \A i \in 0 .. n :
       f[i] = IF i = 0 \/ i \in back THEN start ELSE f[i - 1] + q[i]

\* A counter exists for every length: the shortest length without one would
\* extend the counter of the length before it.
LEMMA CounterExists ==
  ASSUME NEW q \in Seq(Nat), NEW start \in Nat, NEW back
  PROVE  \E f : Counts(f, q, start, back, Len(q))
<1> DEFINE Is(f, n) == Counts(f, q, start, back, n)
           Bad == {n \in 0 .. Len(q) : ~ \E f : Is(f, n)}
<1>1. Len(q) \in Nat /\ \A i \in 1 .. Len(q) : q[i] \in Nat
  BY LenProperties, Zenon
<1>2. Bad = {}
  <2> SUFFICES ASSUME Bad # {} PROVE FALSE
    BY Zenon
  <2>1. PICK n \in Bad : \A m \in Bad : n <= m
    <3>1. Bad \in SUBSET Nat
      BY <1>1
    <3> HIDE DEF Bad
    <3> QED
      BY <3>1, Least, Zenon
  <2>2. n \in 0 .. Len(q) /\ ~ \E f : Is(f, n)
    BY Zenon
  <2> HIDE DEF Bad
  <2>3. CASE n = 0
    <3>1. Is([i \in 0 .. 0 |-> start], 0)
      BY DEF Counts
    <3> QED
      BY <2>2, <2>3, <3>1, Zenon
  <2>4. CASE n # 0
    <3>1. n - 1 \in 0 .. Len(q) /\ n \in 1 .. Len(q) /\ ~(n <= n - 1)
      BY <1>1, <2>2, <2>4
    <3>2. n - 1 \notin Bad
      BY <2>1, <3>1, Zenon
    <3>3. PICK f : Is(f, n - 1)
      BY <3>1, <3>2, Zenon DEF Bad
    <3> DEFINE g == [i \in 0 .. n |-> IF i < n THEN f[i]
                       ELSE IF i \in back THEN start ELSE f[n - 1] + q[n]]
    <3>4. g \in [0 .. n -> Nat]
      <4>1. n - 1 \in 0 .. n - 1 /\ \A i \in 0 .. n : i < n => i \in 0 .. n - 1
        BY <3>1
      <4>2. \A i \in 0 .. n - 1 : f[i] \in Nat
        BY <3>3, Zenon DEF Counts
      <4>3. f[n - 1] \in Nat /\ q[n] \in Nat
        BY <1>1, <3>1, <4>1, <4>2, Zenon
      <4>4. f[n - 1] + q[n] \in Nat
        BY <4>3
      <4> QED
        BY <4>1, <4>2, <4>4, Zenon
    <3>5. ASSUME NEW i \in 0 .. n
          PROVE  g[i] = IF i = 0 \/ i \in back THEN start ELSE g[i - 1] + q[i]
      <4>1. CASE i = n
        <5>1. g[n - 1] = f[n - 1] /\ n # 0
          BY <3>1
        <5> QED
          BY <3>1, <4>1, <5>1
      <4>2. CASE i # n
        <5>1. /\ i \in 0 .. n - 1 /\ i < n
              /\ i # 0 => i - 1 \in 0 .. n /\ i - 1 < n
          BY <3>1, <4>2
        <5>2. g[i] = f[i] /\ (i # 0 => g[i - 1] = f[i - 1])
          BY <5>1, Zenon
        <5> HIDE DEF g
        <5> QED
          BY <3>3, <5>1, <5>2, Zenon DEF Counts
      <4> QED
        BY <4>1, <4>2, Zenon
    <3>6. Is(g, n)
      BY <3>4, <3>5, Zenon DEF Counts
    <3> QED
      BY <2>2, <3>6, Zenon
  <2> QED
    BY <2>3, <2>4, Zenon
<1>3. Len(q) \in 0 .. Len(q)
  BY <1>1
<1> QED
  BY <1>2, <1>3, Zenon

\* Running satisfies its recursion, and counts naturals.
LEMMA RunningCounts ==
  ASSUME NEW q \in Seq(Nat), NEW start \in Nat, NEW back
  PROVE  Counts(Running(q, start, back), q, start, back, Len(q))
<1> DEFINE R == Running(q, start, back)
<1>1. PICK f : Counts(f, q, start, back, Len(q))
  BY CounterExists, Zenon
<1>2. f = [i \in 0 .. Len(q) |->
            IF i = 0 \/ i \in back THEN start ELSE f[i - 1] + q[i]]
  BY <1>1, Zenon DEF Counts
<1>3. R = [i \in 0 .. Len(q) |->
            IF i = 0 \/ i \in back THEN start ELSE R[i - 1] + q[i]]
  BY <1>2, Zenon DEF Running
<1>4. \A i \in 0 .. Len(q) : R[i] =
        IF i = 0 \/ i \in back THEN start ELSE R[i - 1] + q[i]
  BY <1>3, Zenon
<1>5. Len(q) \in Nat /\ \A i \in 1 .. Len(q) : q[i] \in Nat
  BY LenProperties, Zenon
<1> DEFINE Odd == {i \in 0 .. Len(q) : R[i] \notin Nat}
<1> HIDE DEF R
<1>6. Odd = {}
  <2> SUFFICES ASSUME Odd # {} PROVE FALSE
    BY Zenon
  <2>1. PICK n \in Odd : \A m \in Odd : n <= m
    <3>1. Odd \in SUBSET Nat
      BY <1>5
    <3> HIDE DEF Odd
    <3> QED
      BY <3>1, Least, Zenon
  <2>2. n \in 0 .. Len(q) /\ R[n] \notin Nat
    BY Zenon
  <2> HIDE DEF Odd
  <2>3. n # 0 => n - 1 \in 0 .. Len(q) /\ ~(n <= n - 1) /\ n \in 1 .. Len(q)
    BY <1>5, <2>2
  <2>4. n # 0 => R[n - 1] \in Nat
    BY <2>1, <2>3, Zenon DEF Odd
  <2>5. R[n] = start \/ (n # 0 /\ R[n] = R[n - 1] + q[n])
    BY <1>4, <2>2, Zenon
  <2>6. n # 0 => q[n] \in Nat
    BY <1>5, <2>3, Zenon
  <2> QED
    BY <2>2, <2>4, <2>5, <2>6
<1>7. \A i \in 0 .. Len(q) : R[i] \in Nat
  BY <1>6, Zenon
<1>8. R \in [0 .. Len(q) -> Nat]
  BY <1>3, <1>7, Zenon
<1> QED
  BY <1>4, <1>8, Zenon DEF Counts, R


\* Without resets the counter never decreases.
LEMMA RunningGrows ==
  ASSUME NEW q \in Seq(Nat), NEW start \in Nat
  PROVE  LET f == Running(q, start, {}) IN
         /\ f \in [0 .. Len(q) -> Nat] /\ f[0] = start
         /\ \A i \in 1 .. Len(q) : f[i] = f[i - 1] + q[i]
         /\ \A i, k \in 0 .. Len(q) : i <= k => f[i] <= f[k]
<1> DEFINE f == Running(q, start, {})
<1>1. Len(q) \in Nat /\ \A i \in 1 .. Len(q) : q[i] \in Nat
  BY LenProperties, Zenon
<1>2. Counts(f, q, start, {}, Len(q))
  BY RunningCounts, Zenon
<1> HIDE DEF f
<1>3. f \in [0 .. Len(q) -> Nat] /\ f[0] = start
  BY <1>1, <1>2 DEF Counts
<1>4. \A i \in 1 .. Len(q) : f[i] = f[i - 1] + q[i]
  BY <1>1, <1>2 DEF Counts
<1>5. ASSUME NEW i \in 0 .. Len(q) PROVE \A k \in 0 .. Len(q) : i <= k => f[i] <= f[k]
  <2> DEFINE Low == {k \in 0 .. Len(q) : i <= k /\ ~(f[i] <= f[k])}
  <2>1. Low = {}
    <3> SUFFICES ASSUME Low # {} PROVE FALSE
      BY Zenon
    <3>1. PICK k \in Low : \A m \in Low : k <= m
      <4>1. Low \in SUBSET Nat
        BY <1>1
      <4> HIDE DEF Low
      <4> QED
        BY <4>1, Least, Zenon
    <3>2. k \in 0 .. Len(q) /\ i <= k /\ ~(f[i] <= f[k])
      BY Zenon
    <3> HIDE DEF Low
    <3>3. k # i
      BY <1>1, <1>3, <3>2
    <3>4. k \in 1 .. Len(q) /\ k - 1 \in 0 .. Len(q) /\ i <= k - 1 /\ ~(k <= k - 1)
      BY <1>1, <3>2, <3>3
    <3>5. f[i] <= f[k - 1]
      BY <3>1, <3>4, Zenon DEF Low
    <3>6. f[k] = f[k - 1] + q[k] /\ q[k] \in Nat
      BY <1>1, <1>4, <3>4, Zenon
    <3>7. f[i] \in Nat /\ f[k - 1] \in Nat
      BY <1>3, <3>4, Zenon
    <3> QED
      BY <3>2, <3>5, <3>6, <3>7
  <2> QED
    BY <2>1, Zenon
<1> QED
  BY <1>3, <1>4, <1>5, Zenon DEF f

LEMMA TotalType ==
  ASSUME NEW q \in Seq(Nat)
  PROVE  Total(q) \in Nat
<1>1. Len(q) \in 0 .. Len(q) /\ 0 \in Nat
  BY LenProperties
<1>2. Running(q, 0, {}) \in [0 .. Len(q) -> Nat]
  BY <1>1, RunningGrows, Zenon
<1> QED
  BY <1>1, <1>2, Zenon DEF Total

\* No port has no channels; one port has its own.
LEMMA TotalOf ==
  ASSUME NEW c \in Nat
  PROVE  Total(<<>>) = 0 /\ Total(<<c>>) = c
<1>1. Total(<<>>) = 0
  <2> DEFINE q == <<>>
  <2>1. q \in Seq(Nat) /\ Len(q) = 0 /\ 0 \in Nat
    OBVIOUS
  <2> HIDE DEF q
  <2>2. Running(q, 0, {})[0] = 0
    BY <2>1, RunningGrows, Zenon
  <2>3. Total(q) = 0
    BY <2>1, <2>2, Zenon DEF Total
  <2> QED
    BY <2>3, Zenon DEF q
<1>2. Total(<<c>>) = c
  <2> DEFINE q == <<c>>
  <2>1. q \in Seq(Nat) /\ Len(q) = 1 /\ q[1] = c /\ 0 \in Nat
    OBVIOUS
  <2> HIDE DEF q
  <2>2. /\ Running(q, 0, {})[0] = 0
        /\ \A i \in 1 .. Len(q) :
             Running(q, 0, {})[i] = Running(q, 0, {})[i - 1] + q[i]
    BY <2>1, RunningGrows, Zenon
  <2>3. Running(q, 0, {})[1] = c
    BY <2>1, <2>2
  <2> QED
    BY <2>1, <2>3, Zenon DEF Total, q
<1> QED
  BY <1>1, <1>2, Zenon

-------------------------------------------------------------------------------
(* The places of a list of runtimes *)

\* A runtime as the allocator sees it, and a list of them that a clock of
\* frequency freq can carry.
Runtime == [rate : Nat \ {0}, bps : Nat, ch : Nat, mirror : BOOLEAN,
            ports : Seq(Nat), slaves : Seq(Seq(Nat))]
Carried(list, freq) ==
  /\ list \in Seq(Runtime) /\ freq \in Nat
  /\ \A i \in DOMAIN list : list[i].rate <= freq

LEMMA Product ==
  ASSUME NEW m \in Nat, NEW n \in Nat
  PROVE  m * n \in Nat /\ m * n = n * m
OBVIOUS

\* A width in columns is a natural: full_bw is not zero.
LEMMA QuotientUp ==
  ASSUME NEW n \in Nat, NEW f \in Nat, NEW r \in Nat \ {0}, r <= f
  PROVE  /\ f \div r \in Nat \ {0}
         /\ (n + (f \div r) - 1) \div (f \div r) \in Nat
<1>1. f \div r \in Nat /\ f \div r >= 1
  OBVIOUS
<1> DEFINE d == f \div r
<1> HIDE DEF d
<1>2. ASSUME d \in Nat, d >= 1 PROVE (n + d - 1) \div d \in Nat
  BY <1>2
<1> QED
  BY <1>1, <1>2 DEF d


\* What a position of the list holds.
LEMMA Entry ==
  ASSUME NEW list \in Seq(Runtime), NEW i \in DOMAIN list
  PROVE  /\ list[i] \in Runtime
         /\ list[i].rate \in Nat \ {0} /\ list[i].bps \in Nat /\ list[i].ch \in Nat
         /\ list[i].mirror \in BOOLEAN
         /\ list[i].ports \in Seq(Nat) /\ list[i].slaves \in Seq(Seq(Nat))
<1>1. list[i] \in Runtime
  BY ElementOfSeq, LenProperties, Zenon
<1> QED
  BY <1>1, Zenon DEF Runtime

\* A list, given entry by entry; and one of naturals, as long as another.
LEMMA ListOfAny ==
  ASSUME NEW S, NEW n \in Nat, NEW f \in [1 .. n -> S]
  PROVE  f \in Seq(S)
OBVIOUS

LEMMA ListOfNat ==
  ASSUME NEW S, NEW l \in Seq(S), NEW q, q = [i \in DOMAIN l |-> q[i]],
         \A i \in DOMAIN l : q[i] \in Nat
  PROVE  q \in Seq(Nat) /\ Len(q) = Len(l) /\ DOMAIN l = 1 .. Len(l) /\ Len(l) \in Nat
<1>1. DOMAIN l = 1 .. Len(l) /\ Len(l) \in Nat
  BY LenProperties, Zenon
<1>2. q \in [1 .. Len(l) -> Nat]
  BY <1>1, Zenon
<1> QED
  BY <1>1, <1>2

LEMMA PayloadType ==
  ASSUME NEW list \in Seq(Runtime), NEW rate
  PROVE  payload_bw(list, rate) \in Nat
<1> DEFINE q == [i \in DOMAIN list |->
                  IF list[i].rate = rate THEN list[i].bps * list[i].ch ELSE 0]
<1>1. ASSUME NEW i \in DOMAIN list PROVE q[i] \in Nat
  <2>1. list[i].bps * list[i].ch \in Nat
    BY Entry, Product, Zenon
  <2>2. 0 \in Nat
    BY Zenon
  <2> QED
    BY <2>1, <2>2, Zenon
<1>2. q = [i \in DOMAIN list |-> q[i]]
  BY Zenon
<1>3. payload_bw(list, rate) = Total(q)
  BY Zenon DEF payload_bw
<1> HIDE DEF q
<1>4. q \in Seq(Nat)
  BY <1>1, <1>2, ListOfNat, Zenon
<1> QED
  BY <1>3, <1>4, TotalType, Zenon

LEMMA WidthType ==
  ASSUME NEW list, NEW freq, Carried(list, freq), NEW i \in DOMAIN list
  PROVE  hwidth(list, freq, list[i].rate) \in Nat
<1> DEFINE r == list[i].rate  n == Cols * payload_bw(list, r)
<1>1. r \in Nat \ {0} /\ r <= freq /\ freq \in Nat /\ payload_bw(list, r) \in Nat
  BY Entry, PayloadType, Zenon DEF Carried
<1>2. Cols \in Nat
  BY LayoutAssumption, Zenon
<1>3. n \in Nat
  BY <1>1, <1>2, Product, Zenon
<1> HIDE DEF n, r
<1>4. (n + (freq \div r) - 1) \div (freq \div r) \in Nat
  BY <1>1, <1>3, QuotientUp, Zenon
<1> QED
  BY <1>4, Zenon DEF hwidth, full_bw, n, r

LEMMA ColumnsType ==
  ASSUME NEW list, NEW freq, Carried(list, freq)
  PROVE  /\ Columns(list, freq) \in Seq(Nat)
         /\ Len(Columns(list, freq)) = Len(list)
         /\ DOMAIN list = 1 .. Len(list) /\ Len(list) \in Nat
<1> DEFINE q == Columns(list, freq)
<1>1. list \in Seq(Runtime)
  BY Zenon DEF Carried
<1>2. ASSUME NEW i \in DOMAIN list PROVE q[i] \in Nat
  <2>1. hwidth(list, freq, list[i].rate) \in Nat
    BY WidthType, Zenon
  <2>2. 0 \in Nat
    BY Zenon
  <2> QED
    BY <2>1, <2>2, Zenon DEF Columns
<1>3. q = [i \in DOMAIN list |-> q[i]]
  BY Zenon DEF Columns
<1> HIDE DEF q
<1>4. /\ q \in Seq(Nat) /\ Len(q) = Len(list)
      /\ DOMAIN list = 1 .. Len(list) /\ Len(list) \in Nat
  BY <1>1, <1>2, <1>3, ListOfNat, Zenon
<1> QED
  BY <1>4, Zenon DEF q

\* Every rate has a first appearance on the list.
LEMMA FirstOf ==
  ASSUME NEW list \in Seq(Runtime), NEW k \in DOMAIN list
  PROVE  \E i \in sdw_get_group_count(list) : list[i].rate = list[k].rate
<1> DEFINE I == {i \in DOMAIN list : list[i].rate = list[k].rate}
<1>1. DOMAIN list = 1 .. Len(list) /\ Len(list) \in Nat
  BY LenProperties, Zenon
<1>2. PICK i \in I : \A j \in I : i <= j
  <2>1. I \in SUBSET Nat /\ k \in I
    BY <1>1
  <2>2. I # {}
    BY <2>1, Zenon
  <2> HIDE DEF I
  <2> QED
    BY <2>1, <2>2, Least, Zenon
<1>3. i \in DOMAIN list /\ list[i].rate = list[k].rate
  BY Zenon
<1>4. ASSUME NEW j \in 1 .. (i - 1) PROVE list[j].rate # list[i].rate
  <2>1. j \in DOMAIN list /\ ~(i <= j)
    BY <1>1, <1>3
  <2> QED
    BY <1>2, <1>3, <2>1, Zenon
<1> QED
  BY <1>3, <1>4, Zenon DEF sdw_get_group_count


\* The columns of the rate of runtime k: those that the rates before it on the
\* list leave, from the right.
LEMMA ColumnsOf ==
  ASSUME NEW list, NEW freq, Carried(list, freq), NEW k \in DOMAIN list
  PROVE  LET f == Running(Columns(list, freq), 0, {}) IN
         \E i \in 1 .. Len(list) :
           /\ list[i].rate = list[k].rate
           /\ Hstop(list, freq, list[k].rate) = Cols - 1 - f[i - 1]
           /\ f[i] = f[i - 1] + hwidth(list, freq, list[k].rate)
<1> DEFINE f == Running(Columns(list, freq), 0, {})
           rate == list[k].rate
           i == CHOOSE j \in sdw_get_group_count(list) : list[j].rate = rate
<1>1. list \in Seq(Runtime)
  BY Zenon DEF Carried
<1>2. /\ Columns(list, freq) \in Seq(Nat)
      /\ Len(Columns(list, freq)) = Len(list)
      /\ DOMAIN list = 1 .. Len(list) /\ Len(list) \in Nat
  BY ColumnsType, Zenon
<1>3. i \in sdw_get_group_count(list) /\ list[i].rate = rate
  BY <1>1, FirstOf, Zenon
<1>4. Hstop(list, freq, rate) = Cols - 1 - f[i - 1]
  BY Zenon DEF Hstop
<1> HIDE DEF i
<1>5. i \in 1 .. Len(list) /\ Columns(list, freq)[i] = hwidth(list, freq, rate)
  BY <1>2, <1>3, Zenon DEF sdw_get_group_count, Columns
<1>6. 0 \in Nat
  BY Zenon
<1>7. f[i] = f[i - 1] + Columns(list, freq)[i]
  <2> DEFINE q == Columns(list, freq)
  <2> HIDE DEF q
  <2>1. q \in Seq(Nat) /\ Len(q) = Len(list)
    BY <1>2, Zenon DEF q
  <2>2. \A j \in 1 .. Len(q) :
          Running(q, 0, {})[j] = Running(q, 0, {})[j - 1] + q[j]
    BY <1>6, <2>1, RunningGrows, Zenon
  <2> QED
    BY <1>5, <2>1, <2>2, Zenon DEF q
<1> HIDE DEF f, rate
<1>8. \E j \in 1 .. Len(list) :
        /\ list[j].rate = rate /\ Hstop(list, freq, rate) = Cols - 1 - f[j - 1]
        /\ f[j] = f[j - 1] + hwidth(list, freq, rate)
  BY <1>3, <1>4, <1>5, <1>7, Zenon
<1> QED
  BY <1>8, Zenon DEF f, rate

\* sdw_compute_group_params leaves column 0 alone, and gives different rates
\* different columns.
LEMMA ColumnsDisjoint ==
  ASSUME NEW list, NEW freq, Carried(list, freq),
         sdw_compute_group_params(list, freq),
         NEW k \in DOMAIN list, NEW m \in DOMAIN list
  PROVE  LET last(r) == Hstop(list, freq, r)
             first(r) == last(r) - hwidth(list, freq, r) + 1 IN
         /\ 1 <= first(list[k].rate) /\ last(list[k].rate) <= Cols - 1
         /\ list[k].rate # list[m].rate =>
              \/ last(list[k].rate) < first(list[m].rate)
              \/ last(list[m].rate) < first(list[k].rate)
<1> DEFINE q == Columns(list, freq)
           f == Running(q, 0, {})
           last(r) == Hstop(list, freq, r)
           first(r) == last(r) - hwidth(list, freq, r) + 1
<1>1. q \in Seq(Nat) /\ Len(q) = Len(list) /\ Len(list) \in Nat /\ 0 \in Nat
  BY ColumnsType, Zenon
<1>2. /\ \A i \in 0 .. Len(list) : f[i] \in Nat
      /\ \A i, j \in 0 .. Len(list) : i <= j => f[i] <= f[j]
  BY <1>1, RunningGrows, Zenon
<1>3. Cols \in Nat /\ f[Len(list)] <= Cols - 1
  BY <1>1, LayoutAssumption, Zenon DEF sdw_compute_group_params, Total
<1>4. PICK i \in 1 .. Len(list) :
        /\ list[i].rate = list[k].rate /\ last(list[k].rate) = Cols - 1 - f[i - 1]
        /\ f[i] = f[i - 1] + hwidth(list, freq, list[k].rate)
  BY ColumnsOf, Zenon
<1>5. PICK j \in 1 .. Len(list) :
        /\ list[j].rate = list[m].rate /\ last(list[m].rate) = Cols - 1 - f[j - 1]
        /\ f[j] = f[j - 1] + hwidth(list, freq, list[m].rate)
  BY ColumnsOf, Zenon
<1>6. /\ hwidth(list, freq, list[k].rate) \in Nat
      /\ hwidth(list, freq, list[m].rate) \in Nat
  BY WidthType, Zenon
<1>7. /\ {i, j, i - 1, j - 1, Len(list)} \subseteq 0 .. Len(list)
      /\ i <= Len(list) /\ (i < j => i <= j - 1) /\ (j < i => j <= i - 1)
      /\ i < j \/ j < i \/ i = j
  BY <1>1
<1>8. /\ f[i] <= f[Len(list)]
      /\ i < j => f[i] <= f[j - 1]
      /\ j < i => f[j] <= f[i - 1]
      /\ f[i] \in Nat /\ f[i - 1] \in Nat /\ f[j] \in Nat /\ f[j - 1] \in Nat
      /\ f[Len(list)] \in Nat
  BY <1>2, <1>7, Zenon
<1>9. list[k].rate # list[m].rate => i # j
  BY <1>4, <1>5, Zenon
<1> DEFINE lk == last(list[k].rate)  wk == hwidth(list, freq, list[k].rate)
           lm == last(list[m].rate)  wm == hwidth(list, freq, list[m].rate)
           a == f[i - 1]  A == f[i]  b == f[j - 1]  B == f[j]  total == f[Len(list)]
<1>10. /\ lk = Cols - 1 - a /\ A = a + wk /\ lm = Cols - 1 - b /\ B = b + wm
       /\ A <= total /\ (i < j => A <= b) /\ (j < i => B <= a)
       /\ a \in Nat /\ A \in Nat /\ b \in Nat /\ B \in Nat /\ total \in Nat
       /\ wk \in Nat /\ wm \in Nat /\ Cols \in Nat /\ total <= Cols - 1
  BY <1>3, <1>4, <1>5, <1>6, <1>8, Zenon
<1> HIDE DEF lk, wk, lm, wm, a, A, b, B, total
<1>11. /\ 1 <= lk - wk + 1 /\ lk <= Cols - 1
       /\ i < j \/ j < i => lk < lm - wm + 1 \/ lm < lk - wk + 1
  BY <1>10
<1> QED
  BY <1>7, <1>9, <1>11, Zenon DEF lk, wk, lm, wm

AllPorts(at_bus) == at_bus.master \cup at_bus.slave

\* All the ports of a runtime lie in the columns of its rate.
LEMMA PortsInColumns ==
  ASSUME NEW list, NEW freq, NEW k,
         NEW p \in AllPorts(sdw_compute_port_params(list, freq, k))
  PROVE  LET r == list[k].rate IN
         /\ p.hstop = Hstop(list, freq, r)
         /\ p.hstart = Hstop(list, freq, r) - hwidth(list, freq, r) + 1
<1> DEFINE r == list[k].rate  last == Hstop(list, freq, r)
           first == last - hwidth(list, freq, r) + 1
<1>1. \E bo, len : p = Place(first, last, bo, len)
  <2>1. CASE p \in sdw_compute_port_params(list, freq, k).master
    BY <2>1, Zenon DEF sdw_compute_port_params, sdw_compute_master_ports
  <2>2. CASE p \in sdw_compute_port_params(list, freq, k).slave
    <3>1. \E start : p \in sdw_compute_slave_ports(list[k], first, last, start)
      BY <2>2, Zenon DEF sdw_compute_port_params, sdw_compute_master_ports
    <3> HIDE DEF first, last
    <3> QED
      BY <3>1, Zenon DEF sdw_compute_slave_ports
  <2> QED
    BY <2>1, <2>2, Zenon DEF AllPorts
<1> HIDE DEF first, last
<1>2. p.hstop = last /\ p.hstart = first
  BY <1>1 DEF Place
<1> QED
  BY <1>2, Zenon DEF first, last


\* The block of a runtime ends before that of any later one starts.
LEMMA BlocksFollow ==
  ASSUME NEW list \in Seq(Runtime), NEW k \in DOMAIN list, NEW m \in DOMAIN list
  PROVE  /\ BlockOffset(list, k) \in Nat /\ list[k].bps * list[k].ch \in Nat
         /\ k < m => BlockOffset(list, k) + list[k].bps * list[k].ch
                       <= BlockOffset(list, m)
<1> DEFINE q == [i \in DOMAIN list |-> list[i].ch * list[i].bps]
           f == Running(q, 1, {})
<1>1. ASSUME NEW i \in DOMAIN list PROVE q[i] \in Nat
  BY Entry, Product, Zenon
<1>2. q = [i \in DOMAIN list |-> q[i]]
  BY Zenon
<1>3. /\ list[k].bps * list[k].ch \in Nat
      /\ list[k].bps * list[k].ch = q[k]
  BY Entry, Product, Zenon
<1>4. BlockOffset(list, k) = f[k - 1] /\ BlockOffset(list, m) = f[m - 1]
  BY Zenon DEF BlockOffset
<1> HIDE DEF q
<1>5. /\ q \in Seq(Nat) /\ Len(q) = Len(list)
      /\ DOMAIN list = 1 .. Len(list) /\ Len(list) \in Nat
  BY <1>1, <1>2, ListOfNat, Zenon
<1>6. 1 \in Nat
  BY Zenon
<1>7. /\ \A i \in 0 .. Len(q) : f[i] \in Nat
      /\ \A i \in 1 .. Len(q) : f[i] = f[i - 1] + q[i]
      /\ \A i, j \in 0 .. Len(q) : i <= j => f[i] <= f[j]
  BY <1>5, <1>6, RunningGrows, Zenon
<1> HIDE DEF f
<1>8. /\ k \in 1 .. Len(q) /\ {k, k - 1, m - 1} \subseteq 0 .. Len(q)
      /\ k < m => k <= m - 1
  BY <1>5
<1>9. /\ f[k - 1] \in Nat /\ f[k] = f[k - 1] + q[k]
      /\ k < m => f[k] <= f[m - 1]
  BY <1>7, <1>8, Zenon
<1> QED
  BY <1>3, <1>4, <1>9, Zenon

\* A runtime whose ports carry all its channels, one port to a device, and
\* whose slaves mirror one another.
OneBlock(r) ==
  /\ r.ports = <<r.ch>>
  /\ \A j \in DOMAIN r.slaves : r.slaves[j] \in {<<>>, <<r.ch>>}
  /\ r.mirror \/ Len(r.slaves) <= 1

\* The slaves of such a runtime all start where its master does: one that
\* carries the channels sends the next one back, one without ports adds nothing.
LEMMA SlavesMirror ==
  ASSUME NEW r \in Runtime, OneBlock(r), NEW start \in Nat
  PROVE  LET bo == Running([j \in DOMAIN r.slaves |-> r.bps * Total(r.slaves[j])],
                     start, {j \in DOMAIN r.slaves : r.mirror /\ r.ch = Total(r.slaves[j])})
         IN \A j \in DOMAIN r.slaves : bo[j - 1] = start
<1> DEFINE l == r.slaves
           q == [j \in DOMAIN l |-> r.bps * Total(l[j])]
           back == {j \in DOMAIN l : r.mirror /\ r.ch = Total(l[j])}
           bo == Running(q, start, back)
<1>1. l \in Seq(Seq(Nat)) /\ r.bps \in Nat /\ r.ch \in Nat
  BY Zenon DEF Runtime
<1>2. ASSUME NEW j \in DOMAIN l PROVE Total(l[j]) \in Nat
  BY <1>1, ElementOfSeq, LenProperties, TotalType, Zenon
<1>3. ASSUME NEW j \in DOMAIN l PROVE q[j] \in Nat
  BY <1>1, <1>2, Product, Zenon
<1>4. /\ q \in Seq(Nat) /\ Len(q) = Len(l)
      /\ DOMAIN l = 1 .. Len(l) /\ Len(l) \in Nat
  <2>1. q = [j \in DOMAIN l |-> q[j]]
    BY Zenon
  <2> HIDE DEF q, l
  <2> QED
    BY <1>1, <1>3, <2>1, ListOfNat, Zenon
<1>5. ASSUME NEW j \in DOMAIN l PROVE Total(l[j]) = 0 \/ Total(l[j]) = r.ch
  BY <1>1, TotalOf, Zenon DEF OneBlock
<1>6. ASSUME NEW j \in DOMAIN l, r.mirror, j \notin back PROVE q[j] = 0
  <2>1. Total(l[j]) = 0
    BY <1>5, <1>6, Zenon
  <2>2. r.bps * 0 = 0
    BY <1>1
  <2> QED
    BY <2>1, <2>2, Zenon
<1>7. \A j \in DOMAIN l : r.mirror \/ j = 1
  BY <1>4 DEF OneBlock
<1> HIDE DEF q, back
<1>8. Counts(bo, q, start, back, Len(q))
  BY <1>4, RunningCounts, Zenon
<1> HIDE DEF bo, l
<1>9. /\ bo[0] = start
      /\ \A j \in 1 .. Len(l) :
           bo[j] \in Nat /\ bo[j] = IF j \in back THEN start ELSE bo[j - 1] + q[j]
  <2>1. 0 \in 0 .. Len(q) /\ \A j \in 1 .. Len(l) : j \in 0 .. Len(q) /\ j # 0
    BY <1>4
  <2> QED
    BY <1>8, <2>1, Zenon DEF Counts
<1> DEFINE Off == {j \in DOMAIN l : bo[j - 1] # start}
<1>10. Off = {}
  <2> SUFFICES ASSUME Off # {} PROVE FALSE
    BY Zenon
  <2>1. PICK j \in Off : \A i \in Off : j <= i
    <3>1. Off \in SUBSET Nat
      BY <1>4
    <3> HIDE DEF Off
    <3> QED
      BY <3>1, Least, Zenon
  <2>2. j \in 1 .. Len(l) /\ bo[j - 1] # start
    BY <1>4, Zenon
  <2> HIDE DEF Off
  <2>3. j # 1
    BY <1>9, <2>2
  <2>4. j - 1 \in 1 .. Len(l) /\ ~(j <= j - 1)
    BY <1>4, <2>2, <2>3
  <2>5. bo[j - 1 - 1] = start
    BY <1>4, <2>1, <2>4, Zenon DEF Off
  <2>6. j - 1 \notin back => q[j - 1] = 0
    BY <1>4, <1>6, <1>7, <2>2, <2>3, <2>4, Zenon
  <2>7. bo[j - 1] = start
    <3> DEFINE i == j - 1
    <3>1. /\ bo[i] = IF i \in back THEN start ELSE bo[i - 1] + q[i]
          /\ bo[i - 1] = start /\ (i \notin back => q[i] = 0)
      BY <1>9, <2>4, <2>5, <2>6, Zenon
    <3> HIDE DEF i
    <3>2. start + 0 = start
      OBVIOUS
    <3>3. bo[i] = start
      BY <3>1, <3>2, Zenon
    <3> QED
      BY <3>3, Zenon DEF i
  <2> QED
    BY <2>2, <2>7, Zenon
<1>11. \A j \in DOMAIN l : bo[j - 1] = start
  BY <1>10, Zenon
<1> QED
  BY <1>11, Zenon DEF bo, q, back, l


\* A master with one port for all the channels has the block of its runtime.
LEMMA MasterBlock ==
  ASSUME NEW list \in Seq(Runtime), NEW freq, NEW k \in DOMAIN list,
         list[k].ports = <<list[k].ch>>,
         NEW p \in sdw_compute_port_params(list, freq, k).master
  PROVE  p.bo = BlockOffset(list, k) /\ p.len = list[k].bps * list[k].ch
<1> DEFINE r == list[k]  bo == BlockOffset(list, k)
<1>1. r.bps \in Nat /\ r.ch \in Nat /\ bo \in Nat
  BY Entry, BlocksFollow, Zenon
<1>2. DOMAIN r.ports = {1} /\ r.ports[1] = r.ch
  OBVIOUS
<1>3. PICK first, last :
        p \in {Place(first, last, bo + (i - 1) * r.bps * r.ch, r.bps * r.ports[i]) :
                 i \in DOMAIN r.ports}
  BY Zenon DEF sdw_compute_port_params, sdw_compute_master_ports
<1> HIDE DEF r, bo
<1>4. p = Place(first, last, bo + (1 - 1) * r.bps * r.ch, r.bps * r.ch)
  BY <1>2, <1>3, Zenon
<1>5. bo + (1 - 1) * r.bps * r.ch = bo
  BY <1>1
<1>6. p.bo = bo /\ p.len = r.bps * r.ch
  BY <1>4, <1>5, Zenon DEF Place
<1> QED
  BY <1>6, Zenon DEF r, bo

\* So do its slaves, if they mirror one another.
LEMMA SlaveBlock ==
  ASSUME NEW list \in Seq(Runtime), NEW freq, NEW k \in DOMAIN list,
         OneBlock(list[k]), NEW p \in sdw_compute_port_params(list, freq, k).slave
  PROVE  p.bo = BlockOffset(list, k) /\ p.len = list[k].bps * list[k].ch
<1> DEFINE r == list[k]  start == BlockOffset(list, k)
           bo == Running([j \in DOMAIN r.slaves |-> r.bps * Total(r.slaves[j])], start,
                   {j \in DOMAIN r.slaves : r.mirror /\ r.ch = Total(r.slaves[j])})
           port_bo(j) == Running([i \in DOMAIN r.slaves[j] |-> r.bps * r.slaves[j][i]],
                           bo[j - 1], {})
<1>1. r \in Runtime /\ r.bps \in Nat /\ r.ch \in Nat /\ start \in Nat
  BY Entry, BlocksFollow, Zenon
<1>2. r.ports # <<>>
  <2>1. r.ports = <<r.ch>>
    BY Zenon DEF OneBlock
  <2> QED
    BY <2>1
<1>3. PICK first, last : p \in sdw_compute_slave_ports(r, first, last, start)
  BY <1>2, Zenon DEF sdw_compute_port_params, sdw_compute_master_ports
<1> HIDE DEF start
<1>4. PICK j \in DOMAIN r.slaves : \E i \in DOMAIN r.slaves[j] :
        p = Place(first, last, port_bo(j)[i - 1], r.bps * r.slaves[j][i])
  BY <1>3, Zenon DEF sdw_compute_slave_ports
<1>5. bo[j - 1] = start
  BY <1>1, SlavesMirror, Zenon
<1>6. r.slaves[j] = <<r.ch>>
  <2>1. r.slaves[j] \in {<<>>, <<r.ch>>}
    BY Zenon DEF OneBlock
  <2>2. DOMAIN <<>> = {}
    OBVIOUS
  <2> QED
    BY <1>4, <2>1, <2>2, Zenon
<1>7. DOMAIN r.slaves[j] = {1} /\ r.slaves[j][1] = r.ch
  BY <1>6
<1>8. p = Place(first, last, port_bo(j)[1 - 1], r.bps * r.ch)
  BY <1>4, <1>7, Zenon
<1>9. port_bo(j)[0] = start
  <2> DEFINE q == [i \in DOMAIN r.slaves[j] |-> r.bps * r.slaves[j][i]]
  <2>1. q \in Seq(Nat)
    <3>1. r.bps * r.ch \in Nat
      BY <1>1, Product, Zenon
    <3>2. \A i \in DOMAIN r.slaves[j] : q[i] \in Nat
      BY <1>7, <3>1, Zenon
    <3>3. q = [i \in DOMAIN r.slaves[j] |-> q[i]]
      BY Zenon
    <3>4. r.slaves[j] \in Seq(Nat)
      BY <1>1, <1>6
    <3> HIDE DEF q
    <3> QED
      BY <3>2, <3>3, <3>4, ListOfNat, Zenon
  <2>2. port_bo(j) = Running(q, start, {})
    BY <1>5, Zenon
  <2> HIDE DEF q, port_bo
  <2> QED
    BY <1>1, <2>1, <2>2, RunningGrows, Zenon
<1> HIDE DEF port_bo, r
<1>10. p.bo = port_bo(j)[1 - 1] /\ p.len = r.bps * r.ch
  BY <1>8, Zenon DEF Place
<1>11. p.bo = start
  BY <1>9, <1>10
<1> QED
  BY <1>10, <1>11, Zenon DEF start, r

\* The places of two runtimes of which each has one block do not share a bit.
LEMMA BlocksApart ==
  ASSUME NEW list \in Seq(Runtime), NEW k \in DOMAIN list, NEW m \in DOMAIN list,
         k # m, NEW p, NEW q,
         p.bo = BlockOffset(list, k), p.len = list[k].bps * list[k].ch,
         q.bo = BlockOffset(list, m), q.len = list[m].bps * list[m].ch
  PROVE  p.bo + p.len <= q.bo \/ q.bo + q.len <= p.bo
<1>1. k < m \/ m < k
  BY LenProperties
<1>2. k < m => p.bo + p.len <= q.bo
  BY BlocksFollow, Zenon
<1>3. m < k => q.bo + q.len <= p.bo
  BY BlocksFollow, Zenon
<1> QED
  BY <1>1, <1>2, <1>3, Zenon
===============================================================================
