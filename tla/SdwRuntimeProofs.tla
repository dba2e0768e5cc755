--------------------------- MODULE SdwRuntimeProofs ---------------------------
(***************************************************************************)
(* What SdwRuntime guarantees for every sound card, every set of faults    *)
(* and any number of repeated hw_params: the types, that the two lists a   *)
(* runtime is on agree, that the allocator finds a rate for every runtime, *)
(* and that a configured stream has counted its masters.                   *)
(***************************************************************************)
EXTENDS SdwRuntime, FiniteSetTheorems, SequenceTheorems, TLAPS

-------------------------------------------------------------------------------
(* list_add_tail and list_del on lists without repetitions *)

\* Deleting position i closes the gap.
LEMMA WithoutList ==
  ASSUME NEW S, NEW l \in Seq(S), NEW i \in 1 .. Len(l)
  PROVE  /\ Without(l, i) \in Seq(S)
         /\ Len(Without(l, i)) = Len(l) - 1
         /\ \A j \in 1 .. Len(l) - 1 :
              Without(l, i)[j] = IF j < i THEN l[j] ELSE l[j + 1]
<1> DEFINE p == SubSeq(l, 1, i - 1)  q == SubSeq(l, i + 1, Len(l))
<1>1. \A j \in 1 .. Len(l) : l[j] \in S
  BY ElementOfSeq, Zenon
<1>2. Len(l) \in Nat
  BY LenProperties, Zenon
<1>3. p \in Seq(S) /\ Len(p) = i - 1 /\ \A j \in 1 .. i - 1 : p[j] = l[j]
  BY <1>1, <1>2, SubSeqProperties
<1>4. /\ q \in Seq(S) /\ Len(q) = Len(l) - i
      /\ \A j \in 1 .. Len(l) - i : q[j] = l[i + j]
  BY <1>1, <1>2, SubSeqProperties
<1> HIDE DEF p, q
<1>5. /\ p \o q \in Seq(S) /\ Len(p \o q) = Len(p) + Len(q)
      /\ \A j \in 1 .. Len(p) + Len(q) :
           (p \o q)[j] = IF j <= Len(p) THEN p[j] ELSE q[j - Len(p)]
  BY <1>3, <1>4, ConcatProperties, Zenon
<1>6. \A j \in 1 .. Len(l) - 1 : (p \o q)[j] = IF j < i THEN l[j] ELSE l[j + 1]
  BY <1>2, <1>3, <1>4, <1>5
<1>7. Without(l, i) = p \o q
  BY Zenon DEF Without, p, q
<1>8. Len(p) + Len(q) = Len(l) - 1
  BY <1>2, <1>3, <1>4
<1> QED
  BY <1>5, <1>6, <1>7, <1>8, Zenon

\* list_del takes e off the list and leaves the rest, in its order.
LEMMA DelList ==
  ASSUME NEW S, NEW l \in Seq(S), IsInjective(l), NEW e
  PROVE  /\ list_del(l, e) \in Seq(S)
         /\ IsInjective(list_del(l, e))
         /\ \A x : x \in Range(list_del(l, e)) <=> x \in Range(l) /\ x # e
         /\ Len(list_del(l, e)) = IF e \in Range(l) THEN Len(l) - 1 ELSE Len(l)
<1>0. Len(l) \in Nat
  BY LenProperties, Zenon
<1>1. CASE e \notin Range(l)
  <2>1. list_del(l, e) = l
    BY <1>1, Zenon DEF list_del
  <2> QED
    BY <1>0, <1>1, <2>1, Zenon DEF Range
<1>2. CASE e \in Range(l)
  <2>1. PICK i \in 1 .. Len(l) : l[i] = e
    BY <1>2 DEF Range
  <2> DEFINE r == Without(l, i)
  <2>2. list_del(l, e) = r
    <3>1. (CHOOSE j \in DOMAIN l : l[j] = e) = i
      BY <2>1 DEF IsInjective
    <3> QED
      BY <1>2, <3>1, Zenon DEF list_del
  <2>3. /\ r \in Seq(S) /\ Len(r) = Len(l) - 1
        /\ \A j \in 1 .. Len(l) - 1 : r[j] = IF j < i THEN l[j] ELSE l[j + 1]
    BY WithoutList, Zenon
  <2> HIDE DEF r
  <2>4. IsInjective(r)
    <3>1. \A j, k \in 1 .. Len(l) : l[j] = l[k] => j = k
      BY DEF IsInjective
    <3>2. \A j, k \in 1 .. Len(l) - 1 : r[j] = r[k] => j = k
      BY <1>0, <2>1, <2>3, <3>1
    <3>3. DOMAIN r = 1 .. Len(l) - 1
      BY <2>3, LenProperties, Zenon
    <3> QED
      BY <3>2, <3>3, Zenon DEF IsInjective
  <2>5. ASSUME NEW x PROVE x \in Range(r) <=> x \in Range(l) /\ x # e
    <3>1. ASSUME NEW j \in 1 .. Len(r), r[j] = x PROVE x \in Range(l) /\ x # e
      <4>1. PICK k \in 1 .. Len(l) : k # i /\ l[k] = x
        BY <1>0, <2>3, <3>1
      <4> QED
        BY <2>1, <4>1 DEF Range, IsInjective
    <3>2. ASSUME NEW k \in 1 .. Len(l), l[k] = x, x # e PROVE x \in Range(r)
      <4>1. k # i
        BY <2>1, <3>2, Zenon
      <4>2. CASE k < i
        BY <1>0, <2>3, <3>2, <4>2 DEF Range
      <4>3. CASE k > i
        <5>1. k - 1 \in 1 .. Len(r) /\ r[k - 1] = l[k]
          BY <1>0, <2>3, <4>3
        <5> QED
          BY <3>2, <5>1 DEF Range
      <4> QED
        BY <1>0, <4>1, <4>2, <4>3
    <3> QED
      BY <3>1, <3>2 DEF Range
  <2> QED
    BY <1>2, <2>2, <2>3, <2>4, <2>5, Zenon
<1> QED
  BY <1>1, <1>2, Zenon

\* list_add_tail of a new entry.
LEMMA AppendList ==
  ASSUME NEW S, NEW l \in Seq(S), IsInjective(l), NEW e \in S, e \notin Range(l)
  PROVE  /\ Append(l, e) \in Seq(S)
         /\ IsInjective(Append(l, e))
         /\ \A x : x \in Range(Append(l, e)) <=> x \in Range(l) \/ x = e
<1> DEFINE r == Append(l, e)
<1>1. Len(l) \in Nat
  BY LenProperties, Zenon
<1>2. r \in Seq(S) /\ Len(r) = Len(l) + 1
  OBVIOUS
<1>3. \A i \in 1 .. Len(l) : r[i] = l[i]
  OBVIOUS
<1>4. r[Len(l) + 1] = e
  BY <1>1
<1> HIDE DEF r
<1>5. IsInjective(r)
  BY <1>1, <1>2, <1>3, <1>4 DEF IsInjective, Range
<1>6. ASSUME NEW x PROVE x \in Range(r) <=> x \in Range(l) \/ x = e
  BY <1>1, <1>2, <1>3, <1>4 DEF Range
<1> QED
  BY <1>2, <1>5, <1>6, Zenon DEF r

\* A list without repetitions of members of c is no longer than c.
LEMMA NoLonger ==
  ASSUME NEW S, NEW l \in Seq(S), IsInjective(l), NEW c \in Seq(S),
         \A i \in 1 .. Len(l) : \E j \in 1 .. Len(c) : l[i] = c[j]
  PROVE  Len(l) <= Len(c)
<1>1. Len(l) \in Nat /\ Len(c) \in Nat
  BY LenProperties, Zenon
<1> DEFINE A == 1 .. Len(l)  B == 1 .. Len(c)
           f == [i \in A |-> CHOOSE j \in B : l[i] = c[j]]
<1>2. f \in [A -> B] /\ \A i \in A : l[i] = c[f[i]]
  BY Zenon
<1>3. IsFiniteSet(A) /\ Cardinality(A) = Len(l)
  <2>1. 1 \in Int /\ Len(l) \in Int
    BY <1>1
  <2>2. /\ IsFiniteSet(A)
        /\ Cardinality(A) = IF 1 > Len(l) THEN 0 ELSE Len(l) - 1 + 1
    BY <2>1, FS_Interval, Zenon
  <2> QED
    BY <1>1, <2>2
<1>4. IsFiniteSet(B) /\ Cardinality(B) = Len(c)
  <2>1. 1 \in Int /\ Len(c) \in Int
    BY <1>1
  <2>2. /\ IsFiniteSet(B)
        /\ Cardinality(B) = IF 1 > Len(c) THEN 0 ELSE Len(c) - 1 + 1
    BY <2>1, FS_Interval, Zenon
  <2> QED
    BY <1>1, <2>2
<1>5. \A i, j \in A : l[i] = l[j] => i = j
  BY DEF IsInjective
<1> HIDE DEF f, A, B
<1>6. SUFFICES ASSUME Len(c) < Len(l) PROVE FALSE
  BY <1>1
<1>7. \E i, j \in A : i # j /\ f[i] = f[j]
  BY <1>2, <1>3, <1>4, <1>6, FS_PigeonHole
<1> QED
  BY <1>2, <1>5, <1>7

\* A set of list positions that is not empty has a smallest one.
LEMMA SmallestOfSome ==
  ASSUME NEW n \in Nat, NEW I \in SUBSET (1 .. n), I # {}
  PROVE  \E i \in I : \A j \in I : i =< j
<1>1. I \subseteq Nat
  OBVIOUS
<1>2. PICK i \in I : \A j \in I : ~(<<j, i>> \in OpToRel(<, Nat))
  BY <1>1, NatLessThanWellFounded, WFMin, Zenon
<1>3. ASSUME NEW j \in I, j < i PROVE FALSE
  <2>1. <<j, i>> \in OpToRel(<, Nat)
    BY <1>1, <1>3, Zenon DEF OpToRel
  <2> QED
    BY <1>2, <2>1, Zenon
<1> QED
  BY <1>1, <1>3

\* sdw_release_slave_stream deletes at most one slave runtime.
LEMMA RemoveSlaveRt ==
  ASSUME NEW q \in Seq(SlaveRt), NEW x
  PROVE  /\ sdw_release_slave_stream(q, x) \in Seq(SlaveRt)
         /\ q = <<>> => sdw_release_slave_stream(q, x) = <<>>
<1> DEFINE I == {i \in DOMAIN q : q[i].slave = x}
           empty == [i \in DOMAIN q |->
             IF q[i].slave = x THEN [q[i] EXCEPT !.ports = <<>>] ELSE q[i]]
           first == CHOOSE i \in I : \A j \in I : i <= j
<1>1. DOMAIN q = 1 .. Len(q) /\ Len(q) \in Nat /\ \A i \in 1 .. Len(q) : q[i] \in SlaveRt
  BY LenProperties, Zenon
<1>2. CASE I = {}
  BY <1>2, Zenon DEF sdw_release_slave_stream
<1>3. CASE I # {}
  <2>1. first \in 1 .. Len(q)
    <3>1. I \in SUBSET (1 .. Len(q))
      BY <1>1, Zenon
    <3> HIDE DEF I
    <3>2. \E i \in I : \A j \in I : i <= j
      BY <1>1, <1>3, <3>1, SmallestOfSome, Zenon
    <3> QED
      BY <3>1, <3>2, Zenon
  <2>2. empty \in Seq(SlaveRt) /\ Len(empty) = Len(q)
    <3>1. ASSUME NEW y \in SlaveRt PROVE [y EXCEPT !.ports = <<>>] \in SlaveRt
      <4>1. <<>> \in Seq(Nat)
        OBVIOUS
      <4> QED
        BY <4>1, Zenon DEF SlaveRt
    <3>2. empty \in [1 .. Len(q) -> SlaveRt]
      BY <1>1, <3>1, Zenon
    <3> QED
      BY <1>1, <3>2
  <2>3. sdw_release_slave_stream(q, x) = Without(empty, first)
    BY <1>3, Zenon DEF sdw_release_slave_stream
  <2>4. q # <<>>
    BY <1>1, <2>1
  <2> HIDE DEF empty, first
  <2> QED
    BY <2>1, <2>2, <2>3, <2>4, WithoutList, Zenon
<1> QED
  BY <1>2, <1>3, Zenon

-------------------------------------------------------------------------------
(* The lists of the streams and of the buses *)

ListTypes ==
  /\ master_list \in [Stream -> Seq(Bus)] /\ m_rt_list \in [Bus -> Seq(Stream)]
  /\ rt \in [Stream -> [Bus -> MasterRt]]

\* ListsAgree without counting, and where the buses of a stream come from.
Lists ==
  /\ \A s \in Stream : IsInjective(master_list[s])
  /\ \A b \in Bus : IsInjective(m_rt_list[b])
  /\ \A s \in Stream, b \in Bus :
       /\ b \in Range(master_list[s]) <=> s \in Range(m_rt_list[b])
       /\ b \in Range(master_list[s]) => b \in Range(Cpus[s])
       /\ b \notin Range(master_list[s]) => rt[s][b] = NoRt

\* A change of the runtime of s on b, of both lists in step, keeps the lists.
LEMMA EditLists ==
  ASSUME ListTypes, Lists, card' = card,
         NEW s \in Stream, NEW b \in Bus,
         NEW l \in Seq(Bus), NEW m \in Seq(Stream), NEW r \in MasterRt,
         IsInjective(l), IsInjective(m),
         \A c \in Bus \ {b} : c \in Range(l) <=> c \in Range(master_list[s]),
         \A t \in Stream \ {s} : t \in Range(m) <=> t \in Range(m_rt_list[b]),
         b \in Range(l) <=> s \in Range(m),
         b \in Range(l) => b \in Range(Cpus[s]),
         b \notin Range(l) => r = NoRt,
         master_list' = [master_list EXCEPT ![s] = l],
         m_rt_list' = [m_rt_list EXCEPT ![b] = m],
         rt' = [rt EXCEPT ![s][b] = r]
  PROVE  ListTypes' /\ Lists'
<1>1. ListTypes'
  BY Zenon DEF ListTypes
<1>2. /\ master_list'[s] = l
      /\ \A t \in Stream \ {s} : master_list'[t] = master_list[t]
  BY Zenon DEF ListTypes
<1>3. /\ m_rt_list'[b] = m
      /\ \A c \in Bus \ {b} : m_rt_list'[c] = m_rt_list[c]
  BY Zenon DEF ListTypes
<1>4. /\ rt'[s][b] = r
      /\ \A t \in Stream, c \in Bus : t # s \/ c # b => rt'[t][c] = rt[t][c]
  BY Zenon DEF ListTypes
<1>5. Cpus' = Cpus
  BY Zenon DEF Cpus
<1>6. (\A t \in Stream : IsInjective(master_list[t]))' /\ (\A c \in Bus : IsInjective(m_rt_list[c]))'
  BY <1>2, <1>3, Zenon DEF Lists
<1>7. ASSUME NEW t \in Stream, NEW c \in Bus
      PROVE  /\ (c \in Range(master_list[t]) <=> t \in Range(m_rt_list[c]))'
             /\ (c \in Range(master_list[t]) => c \in Range(Cpus[t]))'
             /\ (c \notin Range(master_list[t]) => rt[t][c] = NoRt)'
  <2>1. CASE t = s /\ c = b
    BY <1>2, <1>3, <1>4, <1>5, <2>1, Zenon DEF Lists
  <2>2. CASE t = s /\ c # b
    BY <1>2, <1>3, <1>4, <1>5, <2>2 DEF Lists
  <2>3. CASE t # s /\ c = b
    BY <1>2, <1>3, <1>4, <1>5, <2>3 DEF Lists
  <2>4. CASE t # s /\ c # b
    BY <1>2, <1>3, <1>4, <1>5, <2>4 DEF Lists
  <2> QED
    BY <2>1, <2>2, <2>3, <2>4, Zenon
<1> QED
  BY <1>1, <1>6, <1>7, Zenon DEF Lists

\* sdw_alloc_master_rt, or the runtime that is there, with contents r.
LEMMA WithKeeps ==
  ASSUME ListTypes, Lists, card' = card, NEW s \in Stream, NEW b \in Bus,
         NEW r \in MasterRt, b \in Range(Cpus[s]), With(s, b, r)
  PROVE  /\ ListTypes' /\ Lists'
         /\ \A t \in Stream \ {s} : master_list'[t] = master_list[t]
<1>1. rt' = [rt EXCEPT ![s][b] = r]
  BY Zenon DEF With
<1>2. master_list[s] \in Seq(Bus) /\ m_rt_list[b] \in Seq(Stream)
  BY Zenon DEF ListTypes
<1>3. CASE b \in Range(master_list[s])
  <2>1. master_list' = master_list /\ m_rt_list' = m_rt_list
    BY <1>3, Zenon DEF With, sdw_find_master_rt
  <2>2. /\ master_list' = [master_list EXCEPT ![s] = master_list[s]]
        /\ m_rt_list' = [m_rt_list EXCEPT ![b] = m_rt_list[b]]
    BY <2>1, Zenon DEF ListTypes
  <2>3. ListTypes' /\ Lists'
    <3> DEFINE l == master_list[s]  m == m_rt_list[b]
    <3>1. /\ IsInjective(l) /\ IsInjective(m) /\ (b \in Range(l) <=> s \in Range(m))
          /\ l \in Seq(Bus) /\ m \in Seq(Stream)
      BY <1>2, Zenon DEF Lists
    <3> QED
      BY <1>1, <1>3, <2>2, <3>1, EditLists, Zenon
  <2> QED
    BY <2>1, <2>3, Zenon
<1>4. CASE b \notin Range(master_list[s])
  <2> DEFINE l == Append(master_list[s], b)  m == Append(m_rt_list[b], s)
  <2>1. master_list' = [master_list EXCEPT ![s] = l]
    BY <1>4, Zenon DEF With, sdw_find_master_rt
  <2>2. m_rt_list' = [m_rt_list EXCEPT ![b] = m]
    BY <1>4, Zenon DEF With, sdw_find_master_rt
  <2>3. /\ l \in Seq(Bus) /\ IsInjective(l)
        /\ \A x : x \in Range(l) <=> x \in Range(master_list[s]) \/ x = b
    BY <1>2, <1>4, AppendList DEF Lists
  <2>4. /\ m \in Seq(Stream) /\ IsInjective(m)
        /\ \A x : x \in Range(m) <=> x \in Range(m_rt_list[b]) \/ x = s
    BY <1>2, <1>4, AppendList DEF Lists
  <2> HIDE DEF l, m
  <2>5. ListTypes' /\ Lists'
    BY <1>1, <2>1, <2>2, <2>3, <2>4, EditLists, Zenon
  <2> QED
    BY <2>1, <2>5, Zenon DEF ListTypes
<1> QED
  BY <1>3, <1>4, Zenon

\* sdw_release_master_stream; b need not be a bus of the stream.
LEMMA ReleaseKeeps ==
  ASSUME ListTypes, Lists, card' = card, NEW s \in Stream, NEW b \in Bus,
         NEW p, sdw_release_master_stream(s, b, p)
  PROVE  /\ ListTypes' /\ Lists'
         /\ \A t \in Stream \ {s} : master_list'[t] = master_list[t]
         /\ \A c \in Bus : c \in Range(master_list'[s]) => c \in Range(master_list[s])
         /\ Len(master_list'[s]) = IF b \in Range(master_list[s])
                                   THEN Len(master_list[s]) - 1
                                   ELSE Len(master_list[s])
<1> DEFINE l == list_del(master_list[s], b)  m == list_del(m_rt_list[b], s)
<1>1. /\ master_list' = [master_list EXCEPT ![s] = l]
      /\ m_rt_list' = [m_rt_list EXCEPT ![b] = m]
      /\ rt' = [rt EXCEPT ![s][b] = NoRt]
  BY Zenon DEF sdw_release_master_stream
<1>2. master_list[s] \in Seq(Bus) /\ m_rt_list[b] \in Seq(Stream)
  BY Zenon DEF ListTypes
<1>3. /\ l \in Seq(Bus) /\ IsInjective(l)
      /\ \A x : x \in Range(l) <=> x \in Range(master_list[s]) /\ x # b
      /\ Len(l) = IF b \in Range(master_list[s]) THEN Len(master_list[s]) - 1
                                                 ELSE Len(master_list[s])
  BY <1>2, DelList, Zenon DEF Lists
<1>4. /\ m \in Seq(Stream) /\ IsInjective(m)
      /\ \A x : x \in Range(m) <=> x \in Range(m_rt_list[b]) /\ x # s
  BY <1>2, DelList, Zenon DEF Lists
<1>5. NoRt \in MasterRt
  BY DEF NoRt, MasterRt
<1> HIDE DEF l, m
<1>6. ListTypes' /\ Lists'
  BY <1>1, <1>3, <1>4, <1>5, EditLists, Zenon
<1>7. master_list'[s] = l /\ \A t \in Stream \ {s} : master_list'[t] = master_list[t]
  BY <1>1, Zenon DEF ListTypes
<1> QED
  BY <1>3, <1>6, <1>7, Zenon

\* sdw_stream_remove_slave changes the slaves of one runtime at most.
LEMMA RemoveSlaveKeeps ==
  ASSUME ListTypes, Lists, card' = card, NEW s \in Stream, NEW x \in Slave,
         sdw_stream_remove_slave(s, x), UNCHANGED <<master_list, m_rt_list>>
  PROVE  ListTypes' /\ Lists'
<1> DEFINE b == BusOf[x]  q == rt[s][b].slaves
           e == sdw_release_slave_stream(q, x)
           r == [rt[s][b] EXCEPT !.slaves = e]
<1>1. b \in Bus
  BY RuntimeAssumption, Zenon
<1>2. rt[s][b] \in MasterRt /\ q \in Seq(SlaveRt)
  BY <1>1, Zenon DEF ListTypes, MasterRt
<1>4. e \in Seq(SlaveRt) /\ (q = <<>> => e = <<>>)
  BY <1>2, RemoveSlaveRt, Zenon
<1>5. rt' = [rt EXCEPT ![s][b].slaves = e]
  BY Zenon DEF sdw_stream_remove_slave
<1> HIDE DEF e
<1>6. r \in MasterRt
  BY <1>2, <1>4, Zenon DEF MasterRt
<1>7. rt' = [rt EXCEPT ![s][b] = r]
  BY <1>1, <1>5, Zenon DEF ListTypes
<1>8. b \notin Range(master_list[s]) => r = NoRt
  <2> SUFFICES ASSUME b \notin Range(master_list[s]) PROVE r = NoRt
    BY Zenon
  <2>1. rt[s][b] = NoRt
    BY <1>1, Zenon DEF Lists
  <2>2. e = <<>>
    BY <1>4, <2>1 DEF NoRt
  <2> QED
    BY <2>1, <2>2 DEF NoRt
<1> DEFINE l == master_list[s]  m == m_rt_list[b]
<1>9. /\ l \in Seq(Bus) /\ m \in Seq(Stream)
      /\ master_list' = [master_list EXCEPT ![s] = l]
      /\ m_rt_list' = [m_rt_list EXCEPT ![b] = m]
  BY <1>1, Zenon DEF ListTypes
<1>10. /\ IsInjective(l) /\ IsInjective(m) /\ (b \in Range(l) <=> s \in Range(m))
       /\ b \in Range(l) => b \in Range(Cpus[s])
  BY <1>1, Zenon DEF Lists
<1> HIDE DEF b, r
<1> QED
  BY <1>1, <1>6, <1>7, <1>8, <1>9, <1>10, EditLists, Zenon

\* A step that leaves the lists alone.
LEMMA SameLists ==
  ASSUME ListTypes, Lists, UNCHANGED <<card, lists>>
  PROVE  ListTypes' /\ Lists'
BY Zenon DEF ListTypes, Lists, lists, Cpus

-------------------------------------------------------------------------------
(* The operations on a stream: lists, parameters, state and count *)

DataTypes ==
  /\ ListTypes
  /\ state \in [Stream -> {"NONE", "ALLOCATED", "CONFIGURED", "PREPARED",
                           "DEPREPARED", "RELEASED"}]
  /\ params \in [Stream -> [rate : Nat, bps : Nat]]
  /\ m_rt_count \in [Stream -> Nat]

\* No master of a stream that intel_hw_free takes down is uncounted.
CountedAt(s) ==
  state[s] \in {"PREPARED", "DEPREPARED"} => m_rt_count[s] >= Len(master_list[s])
\* RateKnown, from the side of the stream.
RatedAt(s) == \A b \in Bus : b \in Range(master_list[s]) => params[s].rate > 0

Data == DataTypes /\ Lists /\ \A s \in Stream : CountedAt(s) /\ RatedAt(s)

\* Only s is changed.
OnlyOf(s) ==
  \A t \in Stream \ {s} :
    /\ master_list'[t] = master_list[t] /\ state'[t] = state[t]
    /\ params'[t] = params[t] /\ m_rt_count'[t] = m_rt_count[t]

LEMMA OneStream ==
  ASSUME Data, NEW s \in Stream, DataTypes', Lists', OnlyOf(s),
         CountedAt(s)', RatedAt(s)'
  PROVE  Data'
<1>1. ASSUME NEW t \in Stream \ {s} PROVE CountedAt(t)' /\ RatedAt(t)'
  BY <1>1, Zenon DEF OnlyOf, Data, CountedAt, RatedAt
<1> QED
  BY <1>1, Zenon DEF Data

\* What the card says of the DAIs of a stream.
LEMMA CardFacts ==
  ASSUME card \in Cards, NEW s \in Stream
  PROVE  /\ Codecs[s] \in Seq(Slave) /\ Cpus[s] \in Seq(Bus)
         /\ Codecs[s] = <<>> <=> Cpus[s] = <<>>
         /\ \A i \in 1 .. Len(Codecs[s]) :
              /\ Codecs[s][i] \in Slave /\ BusOf[Codecs[s][i]] \in Bus
              /\ BusOf[Codecs[s][i]] \in Range(Cpus[s])
         /\ \A i \in 1 .. Len(Cpus[s]) :
              Cpus[s][i] \in Bus /\ Cpus[s][i] \in Range(Cpus[s])
<1>1. /\ card \in [codecs : [Stream -> Seq(Slave)],
                   cpus : [Stream -> Seq(Bus)], multi_link : SUBSET Bus]
      /\ card.codecs[s] = <<>> <=> card.cpus[s] = <<>>
      /\ \A i \in DOMAIN card.codecs[s] :
           BusOf[card.codecs[s][i]] \in Range(card.cpus[s])
  BY RuntimeAssumption, Zenon
<1>2. Codecs[s] \in Seq(Slave) /\ Cpus[s] \in Seq(Bus)
  BY <1>1, Zenon DEF Codecs, Cpus
<1>3. \A i \in 1 .. Len(Cpus[s]) :
        Cpus[s][i] \in Bus /\ Cpus[s][i] \in Range(Cpus[s])
  BY <1>2 DEF Range
<1>4. ASSUME NEW i \in 1 .. Len(Codecs[s])
      PROVE  /\ Codecs[s][i] \in Slave /\ BusOf[Codecs[s][i]] \in Bus
             /\ BusOf[Codecs[s][i]] \in Range(Cpus[s])
  <2>1. Codecs[s][i] \in Slave /\ BusOf[Codecs[s][i]] \in Range(Cpus[s])
    BY <1>1, <1>2 DEF Codecs, Cpus
  <2>2. BusOf[Codecs[s][i]] \in Bus
    BY <2>1, RuntimeAssumption, Zenon
  <2> QED
    BY <1>2, <2>1, <2>2, Zenon DEF Range
<1> QED
  BY <1>1, <1>2, <1>3, <1>4, Zenon DEF Codecs, Cpus

\* sdw_config_stream with the hw_params of a call.
LEMMA ConfigFacts ==
  ASSUME params \in [Stream -> [rate : Nat, bps : Nat]], NEW s \in Stream,
         NEW c \in Configs, sdw_config_stream(s, c)
  PROVE  /\ params' \in [Stream -> [rate : Nat, bps : Nat]]
         /\ params'[s].rate > 0
         /\ \A t \in Stream \ {s} : params'[t] = params[t]
         /\ c.ch \in Nat
<1>1. c \in [rate : Nat \ {0}, bps : Nat \ {0}, ch : Nat \ {0}]
  <2>1. PICK t \in Stream : c \in Asked[t]
    BY Zenon DEF Configs
  <2>2. Asked[t] \in SUBSET [rate : Nat \ {0}, bps : Nat \ {0}, ch : Nat \ {0}]
    BY RuntimeAssumption, Zenon
  <2> QED
    BY <2>1, <2>2, Zenon
<1>2. /\ [rate |-> c.rate, bps |-> c.bps] \in [rate : Nat, bps : Nat]
      /\ c.rate > 0 /\ c.ch \in Nat
  BY <1>1
<1> QED
  BY <1>2, Zenon DEF sdw_config_stream

\* A slave, or a port of the master, is added to a runtime.
LEMMA GrownRt ==
  ASSUME NEW R \in MasterRt, NEW n \in Nat
  PROVE  /\ \A y \in SlaveRt :
              [R EXCEPT !.ch = n, !.slaves = Append(@, y)] \in MasterRt
         /\ [R EXCEPT !.ch = n, !.ports = Append(@, n)] \in MasterRt
<1>1. /\ \A y \in SlaveRt : Append(R.slaves, y) \in Seq(SlaveRt)
      /\ Append(R.ports, n) \in Seq(Nat)
  BY DEF MasterRt
<1>2. ASSUME NEW p \in Seq(Nat) PROVE [R EXCEPT !.ch = n, !.ports = p] \in MasterRt
  BY Zenon DEF MasterRt
<1>3. ASSUME NEW q \in Seq(SlaveRt)
      PROVE  [R EXCEPT !.ch = n, !.slaves = q] \in MasterRt
  BY Zenon DEF MasterRt
<1> QED
  BY <1>1, <1>2, <1>3, Zenon

LEMMA AddSlaveKeeps ==
  ASSUME card \in Cards, card' = card, Data, NEW s \in Stream,
         want[s] \in Configs, NEW x \in Slave, BusOf[x] \in Range(Cpus[s]),
         sdw_stream_add_slave(s, x)
  PROVE  /\ Data' /\ OnlyOf(s) /\ state'[s] = "CONFIGURED"
         /\ m_rt_count' = m_rt_count
<1> DEFINE b == BusOf[x]  c == want[s]
           r == [rt[s][b] EXCEPT !.ch = c.ch,
                   !.slaves = Append(@, [slave |-> x, ports |-> <<c.ch>>])]
<1>1. /\ With(s, b, r) /\ sdw_config_stream(s, c)
      /\ state' = [state EXCEPT ![s] = "CONFIGURED"] /\ m_rt_count' = m_rt_count
  BY Zenon DEF sdw_stream_add_slave
<1>2. b \in Bus
  BY RuntimeAssumption, Zenon
<1>3. /\ params' \in [Stream -> [rate : Nat, bps : Nat]] /\ params'[s].rate > 0
      /\ \A t \in Stream \ {s} : params'[t] = params[t]
      /\ c.ch \in Nat
  BY <1>1, ConfigFacts, Zenon DEF Data, DataTypes
<1>4. r \in MasterRt
  <2>1. rt[s][b] \in MasterRt
    BY <1>2, Zenon DEF Data, DataTypes, ListTypes
  <2>2. [slave |-> x, ports |-> <<c.ch>>] \in SlaveRt
    BY <1>3 DEF SlaveRt
  <2> QED
    BY <1>3, <2>1, <2>2, GrownRt, Zenon
<1> HIDE DEF r
<1>5. /\ ListTypes' /\ Lists'
      /\ \A t \in Stream \ {s} : master_list'[t] = master_list[t]
  BY <1>1, <1>2, <1>4, WithKeeps, Zenon DEF Data, DataTypes
<1>6. /\ DataTypes' /\ OnlyOf(s) /\ state'[s] = "CONFIGURED"
  BY <1>1, <1>3, <1>5, Zenon DEF Data, DataTypes, OnlyOf
<1>7. CountedAt(s)' /\ RatedAt(s)'
  BY <1>3, <1>6, Zenon DEF CountedAt, RatedAt
<1> QED
  BY <1>1, <1>5, <1>6, <1>7, OneStream, Zenon

LEMMA AddMasterKeeps ==
  ASSUME card \in Cards, card' = card, Data, NEW s \in Stream,
         want[s] \in Configs, NEW b \in Bus, b \in Range(Cpus[s]),
         state[s] = "CONFIGURED", sdw_stream_add_master(s, b)
  PROVE  /\ Data' /\ OnlyOf(s) /\ state' = state
         /\ m_rt_count'[s] = m_rt_count[s] + 1
<1> DEFINE c == want[s]
           r == [rt[s][b] EXCEPT !.ch = c.ch, !.ports = Append(@, c.ch)]
<1>1. /\ With(s, b, r) /\ sdw_config_stream(s, c) /\ state' = state
      /\ m_rt_count' = [m_rt_count EXCEPT ![s] = @ + 1]
  BY Zenon DEF sdw_stream_add_master
<1>2. /\ params' \in [Stream -> [rate : Nat, bps : Nat]] /\ params'[s].rate > 0
      /\ \A t \in Stream \ {s} : params'[t] = params[t]
      /\ c.ch \in Nat
  BY <1>1, ConfigFacts, Zenon DEF Data, DataTypes
<1>3. r \in MasterRt
  <2>1. rt[s][b] \in MasterRt
    BY Zenon DEF Data, DataTypes, ListTypes
  <2> QED
    BY <1>2, <2>1, GrownRt, Zenon
<1> HIDE DEF r
<1>4. /\ ListTypes' /\ Lists'
      /\ \A t \in Stream \ {s} : master_list'[t] = master_list[t]
  BY <1>1, <1>3, WithKeeps, Zenon DEF Data, DataTypes
<1>5. m_rt_count' \in [Stream -> Nat] /\ m_rt_count'[s] = m_rt_count[s] + 1
  BY <1>1 DEF Data, DataTypes
<1>6. DataTypes' /\ OnlyOf(s)
  BY <1>1, <1>2, <1>4, <1>5, Zenon DEF Data, DataTypes, OnlyOf
<1>7. CountedAt(s)' /\ RatedAt(s)'
  BY <1>1, <1>2, Zenon DEF CountedAt, RatedAt
<1> QED
  BY <1>1, <1>4, <1>5, <1>6, <1>7, OneStream, Zenon

\* The error paths release the runtime on b and neither count nor change the
\* state.
LEMMA ErrKeeps ==
  ASSUME card' = card, Data, NEW s \in Stream, NEW b \in Bus, NEW p,
         NEW c \in Configs, sdw_release_master_stream(s, b, p),
         params' = params \/ sdw_config_stream(s, c),
         state' = state, m_rt_count' = m_rt_count
  PROVE  Data' /\ OnlyOf(s)
<1>1. /\ ListTypes' /\ Lists'
      /\ \A t \in Stream \ {s} : master_list'[t] = master_list[t]
      /\ \A d \in Bus : d \in Range(master_list'[s]) => d \in Range(master_list[s])
      /\ Len(master_list'[s]) \in {Len(master_list[s]), Len(master_list[s]) - 1}
  BY ReleaseKeeps, Zenon DEF Data, DataTypes
<1>2. /\ params' \in [Stream -> [rate : Nat, bps : Nat]]
      /\ params'[s].rate > 0 \/ params' = params
      /\ \A t \in Stream \ {s} : params'[t] = params[t]
  BY ConfigFacts, Zenon DEF Data, DataTypes
<1>3. DataTypes' /\ OnlyOf(s)
  BY <1>1, <1>2, Zenon DEF Data, DataTypes, OnlyOf
<1>4. RatedAt(s)'
  BY <1>1, <1>2, Zenon DEF Data, RatedAt
<1>5. CountedAt(s)'
  <2>1. Len(master_list[s]) \in Nat /\ m_rt_count[s] \in Nat
    BY LenProperties, Zenon DEF Data, DataTypes, ListTypes
  <2>2. CountedAt(s)
    BY Zenon DEF Data
  <2> QED
    BY <1>1, <2>1, <2>2 DEF CountedAt
<1> QED
  BY <1>1, <1>3, <1>4, <1>5, OneStream, Zenon

\* A step that changes nothing of the streams.
LEMMA SameData ==
  ASSUME Data, NEW s \in Stream, card' = card,
         UNCHANGED <<lists, params, state, m_rt_count>>
  PROVE  Data' /\ OnlyOf(s)
<1>1. ListTypes' /\ Lists'
  BY SameLists, Zenon DEF Data, DataTypes
<1>2. DataTypes' /\ OnlyOf(s) /\ CountedAt(s)' /\ RatedAt(s)'
  BY <1>1, Zenon DEF Data, DataTypes, OnlyOf, lists, CountedAt, RatedAt
<1> QED
  BY <1>1, <1>2, OneStream, Zenon

LEMMA AddSlaveErrKeeps ==
  ASSUME card' = card, Data, NEW s \in Stream, want[s] \in Configs,
         NEW x \in Slave, sdw_stream_add_slave_err(s, x)
  PROVE  Data' /\ OnlyOf(s) /\ UNCHANGED <<state, m_rt_count>>
<1>1. BusOf[x] \in Bus
  BY RuntimeAssumption, Zenon
<1>2. state' = state /\ m_rt_count' = m_rt_count
  BY Zenon DEF sdw_stream_add_slave_err
<1>3. CASE UNCHANGED <<lists, params, places>>
  BY <1>2, <1>3, SameData, Zenon
<1>4. CASE /\ sdw_release_master_stream(s, BusOf[x], places)
           /\ params' = params \/ sdw_config_stream(s, want[s])
  BY <1>1, <1>2, <1>4, ErrKeeps, Zenon
<1> QED
  BY <1>2, <1>3, <1>4, Zenon DEF sdw_stream_add_slave_err

LEMMA AddMasterErrKeeps ==
  ASSUME card' = card, Data, NEW s \in Stream, want[s] \in Configs,
         NEW b \in Bus, sdw_stream_add_master_err(s, b)
  PROVE  Data' /\ OnlyOf(s) /\ UNCHANGED <<state, m_rt_count>>
<1>1. state' = state /\ m_rt_count' = m_rt_count
  BY Zenon DEF sdw_stream_add_master_err
<1>2. CASE UNCHANGED <<lists, params, places>>
  BY <1>1, <1>2, SameData, Zenon
<1>3. CASE /\ sdw_release_master_stream(s, b, places)
           /\ params' = params \/ sdw_config_stream(s, want[s])
  BY <1>1, <1>3, ErrKeeps, Zenon
<1> QED
  BY <1>1, <1>2, <1>3, Zenon DEF sdw_stream_add_master_err

\* sdw_stream_remove_master of a stream that is prepared or deprepared: what
\* is found is counted.
LEMMA RemoveMasterKeeps ==
  ASSUME card' = card, Data, NEW s \in Stream, NEW b \in Bus, NEW p,
         state[s] \in {"PREPARED", "DEPREPARED"}, params' = params,
         sdw_stream_remove_master(s, b, "DEPREPARED", p)
  PROVE  Data' /\ OnlyOf(s)
<1>1. /\ sdw_release_master_stream(s, b, p)
      /\ m_rt_count' = [m_rt_count EXCEPT ![s] =
           IF b \in Range(master_list[s]) THEN m_rt_count[s] - 1 ELSE m_rt_count[s]]
      /\ \E st \in {"RELEASED", "DEPREPARED"} : state' = [state EXCEPT ![s] = st]
  BY Zenon DEF sdw_stream_remove_master, sdw_find_master_rt
<1>2. /\ ListTypes' /\ Lists'
      /\ \A t \in Stream \ {s} : master_list'[t] = master_list[t]
      /\ \A c \in Bus : c \in Range(master_list'[s]) => c \in Range(master_list[s])
      /\ Len(master_list'[s]) = IF b \in Range(master_list[s])
                                THEN Len(master_list[s]) - 1
                                ELSE Len(master_list[s])
  BY <1>1, ReleaseKeeps, Zenon DEF Data, DataTypes
<1>3. /\ Len(master_list[s]) \in Nat /\ m_rt_count[s] \in Nat
      /\ m_rt_count[s] >= Len(master_list[s])
      /\ b \in Range(master_list[s]) => Len(master_list[s]) > 0
  BY LenProperties DEF Data, DataTypes, ListTypes, CountedAt, Range
<1>4. m_rt_count' \in [Stream -> Nat] /\ m_rt_count'[s] >= Len(master_list'[s])
  BY <1>1, <1>2, <1>3 DEF Data, DataTypes
<1>5. DataTypes' /\ OnlyOf(s)
  BY <1>1, <1>2, <1>4, Zenon DEF Data, DataTypes, OnlyOf
<1>6. CountedAt(s)' /\ RatedAt(s)'
  BY <1>2, <1>4, Zenon DEF Data, CountedAt, RatedAt
<1> QED
  BY <1>2, <1>5, <1>6, OneStream, Zenon

\* bus->params.bandwidth is an unsigned int.
LEMMA BandwidthType ==
  ASSUME Data, bandwidth \in [Bus -> 0 .. UintMod - 1], NEW s \in Stream,
         NEW sign \in {-1, 1}
  PROVE  NewBandwidth(s, sign) \in [Bus -> 0 .. UintMod - 1]
<1>1. ASSUME NEW b \in Bus PROVE Changed(s, sign, b) \in 0 .. UintMod - 1
  <2>1. params[s].rate \in Nat /\ params[s].bps \in Nat /\ rt[s][b].ch \in Nat
    BY Zenon DEF Data, DataTypes, ListTypes, MasterRt
  <2> DEFINE d == params[s].rate * rt[s][b].ch * params[s].bps
  <2>2. d \in Int
    BY <2>1
  <2> HIDE DEF d
  <2>3. bandwidth[b] + sign * d \in Int
    BY <2>2
  <2>4. UintMod \in Nat \ {0}
    BY RuntimeAssumption, Zenon
  <2>5. ASSUME NEW n \in Int PROVE n % UintMod \in 0 .. UintMod - 1
    BY <2>4
  <2> QED
    BY <2>3, <2>5, Zenon DEF Changed, DemandOn, d
<1> QED
  BY <1>1, Zenon DEF NewBandwidth

LEMMA IntelHwFreeKeeps ==
  ASSUME card' = card, Data, bandwidth \in [Bus -> 0 .. UintMod - 1],
         NEW s \in Stream, NEW b \in Bus, params' = params, intel_hw_free(s, b)
  PROVE  /\ Data' /\ OnlyOf(s) /\ bandwidth' \in [Bus -> 0 .. UintMod - 1]
         /\ state[s] = "CONFIGURED" => UNCHANGED <<state, m_rt_count>>
<1>1. CASE /\ state[s] = "PREPARED" /\ bandwidth' = NewBandwidth(s, -1)
           /\ sdw_stream_remove_master(s, b, "DEPREPARED", NewPlaces(s, -1))
  BY <1>1, RemoveMasterKeeps, BandwidthType
<1>2. CASE /\ state[s] = "PREPARED" /\ bandwidth' = NewBandwidth(s, -1)
           /\ UNCHANGED <<state, m_rt_count, lists>>
  BY <1>2, SameData, BandwidthType, Zenon
<1>3. CASE /\ state[s] = "DEPREPARED" /\ bandwidth' = bandwidth
           /\ sdw_stream_remove_master(s, b, "DEPREPARED", places)
  BY <1>3, RemoveMasterKeeps
<1>4. CASE UNCHANGED <<state, m_rt_count, lists, bandwidth, places>>
  BY <1>4, SameData, Zenon
<1> QED
  BY <1>1, <1>2, <1>3, <1>4, Zenon DEF intel_hw_free

-------------------------------------------------------------------------------
(* The back end, and the inductive invariant *)

BeStates == Resting \cup {"codec", "cpu", "undo_cpu", "undo_codec",
                          "free_cpu", "free_codec"}
ControlTypes ==
  /\ be \in [Stream -> BeStates] /\ at \in [Stream -> Nat]
  /\ want \in [Stream -> Configs \cup {NoWant}] /\ from \in [Stream -> Resting]

\* Where a loop over the DAIs of s is.  After a codec DAI was added the stream
\* is configured, so that the roll-back of the CPU DAIs removes no master; the
\* CPU DAIs that were added are counted.
ControlAt(s) ==
  /\ be[s] \in {"codec", "free_codec"} => at[s] \in 1 .. Len(Codecs[s])
  /\ be[s] \in {"cpu", "undo_cpu", "free_cpu"} => at[s] \in 1 .. Len(Cpus[s])
  /\ be[s] = "undo_codec" => at[s] \in 0 .. Len(Codecs[s])
  /\ be[s] # "CLOSE" => Cpus[s] # <<>>
  /\ be[s] \in {"codec", "cpu"} => want[s] \in Configs
  /\ from[s] \in {"OPEN", "HW_PARAMS", "HW_FREE"}
  /\ be[s] \in Resting \cup {"free_cpu", "free_codec"} => from[s] = "OPEN"
  /\ be[s] \in {"cpu", "undo_cpu"} => state[s] = "CONFIGURED"
  /\ be[s] = "cpu" => m_rt_count[s] >= at[s] - 1
  /\ be[s] \in {"HW_PARAMS", "PREPARE"} \/ from[s] = "HW_PARAMS"
       => m_rt_count[s] >= Len(Cpus[s])

IInv ==
  /\ card \in Cards /\ bandwidth \in [Bus -> 0 .. UintMod - 1]
  /\ ControlTypes /\ Data
  /\ \A s \in Stream : ControlAt(s)

ControlOnly(s) ==
  \A t \in Stream \ {s} : /\ be'[t] = be[t] /\ at'[t] = at[t]
                          /\ want'[t] = want[t] /\ from'[t] = from[t]

LEMMA Assemble ==
  ASSUME IInv, card' = card, NEW s \in Stream, Data', OnlyOf(s),
         bandwidth' \in [Bus -> 0 .. UintMod - 1],
         ControlTypes', ControlOnly(s), ControlAt(s)'
  PROVE  IInv'
<1>1. ASSUME NEW t \in Stream \ {s} PROVE ControlAt(t)'
  <2>1. Cpus' = Cpus /\ Codecs' = Codecs
    BY Zenon DEF Cpus, Codecs
  <2>2. ControlAt(t)
    BY Zenon DEF IInv
  <2>3. /\ be'[t] = be[t] /\ at'[t] = at[t] /\ want'[t] = want[t]
        /\ from'[t] = from[t] /\ state'[t] = state[t]
        /\ m_rt_count'[t] = m_rt_count[t]
    BY Zenon DEF ControlOnly, OnlyOf
  <2> QED
    BY <2>1, <2>2, <2>3, Zenon DEF ControlAt
<1> QED
  BY <1>1, Zenon DEF IInv

LEMMA GoFacts ==
  ASSUME ControlTypes, NEW s \in Stream, NEW to \in BeStates, NEW i \in Nat,
         Go(s, to, i)
  PROVE  /\ ControlTypes' /\ ControlOnly(s)
         /\ be'[s] = to /\ at'[s] = i
         /\ to \in Resting => from'[s] = "OPEN"
         /\ to \notin Resting => want'[s] = want[s] /\ from'[s] = from[s]
<1>1. /\ be' = [be EXCEPT ![s] = to] /\ at' = [at EXCEPT ![s] = i]
      /\ to \in Resting => /\ want' = [want EXCEPT ![s] = NoWant]
                           /\ from' = [from EXCEPT ![s] = "OPEN"]
      /\ to \notin Resting => want' = want /\ from' = from
  BY Zenon DEF Go
<1>2. "OPEN" \in Resting
  BY Zenon DEF Resting
<1> QED
  BY <1>1, <1>2, Zenon DEF ControlTypes, ControlOnly

\* The calls that only go on to another loop leave from alone.
LEMMA GoLoop ==
  ASSUME IInv, NEW s \in Stream, NEW i \in Nat,
         NEW to \in {"undo_cpu", "free_cpu", "free_codec"}, Go(s, to, i)
  PROVE  /\ ControlTypes' /\ ControlOnly(s) /\ be'[s] = to /\ at'[s] = i
         /\ from'[s] = from[s]
<1>1. to \in BeStates /\ to \notin Resting
  BY DEF BeStates, Resting
<1>2. ControlTypes
  BY Zenon DEF IInv
<1> QED
  BY <1>1, <1>2, GoFacts, Zenon

\* The loops start and end with the DAIs of the card.
LEMMA DaiFacts ==
  ASSUME IInv, NEW s \in Stream
  PROVE  /\ Len(Codecs[s]) \in Nat /\ Len(Cpus[s]) \in Nat
         /\ be[s] # "CLOSE" => Len(Codecs[s]) > 0 /\ Len(Cpus[s]) > 0
         /\ at[s] \in Nat /\ m_rt_count[s] \in Nat
<1>1. card \in Cards /\ ControlAt(s)
  BY Zenon DEF IInv
<1>2. /\ Codecs[s] \in Seq(Slave) /\ Cpus[s] \in Seq(Bus)
      /\ Codecs[s] = <<>> <=> Cpus[s] = <<>>
  BY <1>1, CardFacts, Zenon
<1>3. be[s] # "CLOSE" => Cpus[s] # <<>>
  BY <1>1, Zenon DEF ControlAt
<1> QED
  BY <1>2, <1>3, EmptySeq, LenProperties DEF IInv, ControlTypes, Data, DataTypes

\* A codec DAI of the loop leaves the stream.
LEMMA RemoveSlaveData ==
  ASSUME IInv, card' = card, NEW s \in Stream, NEW i \in 1 .. Len(Codecs[s]),
         sdw_stream_remove_slave(s, Codecs[s][i]),
         UNCHANGED <<params, state, m_rt_count, master_list, m_rt_list>>
  PROVE  Data' /\ OnlyOf(s)
<1>1. Codecs[s][i] \in Slave
  BY CardFacts, Zenon DEF IInv
<1>2. ListTypes' /\ Lists'
  BY <1>1, RemoveSlaveKeeps, Zenon DEF IInv, Data, DataTypes
<1>3. DataTypes' /\ OnlyOf(s) /\ CountedAt(s)' /\ RatedAt(s)'
  BY <1>2, Zenon DEF IInv, Data, DataTypes, OnlyOf, CountedAt, RatedAt
<1> QED
  BY <1>2, <1>3, OneStream, Zenon DEF IInv

\* A new stream is on no list: CanEnter waits for its buses to have none of a
\* freed one.
LEMMA StartupKeeps ==
  ASSUME IInv, card' = card, NEW s \in Stream, Startup(s)
  PROVE  IInv'
<1>1. Cpus' = Cpus /\ Codecs' = Codecs
  BY Zenon DEF Cpus, Codecs
<1>2. /\ be[s] = "CLOSE" /\ CanEnter(s) /\ Cpus[s] # <<>> /\ Go(s, "OPEN", 1)
      /\ state' = [state EXCEPT ![s] = "ALLOCATED"]
      /\ params' = [params EXCEPT ![s] = NoParams]
      /\ m_rt_count' = [m_rt_count EXCEPT ![s] = 0]
      /\ UNCHANGED <<lists, bandwidth, places>>
  BY Zenon DEF Startup
<1>3. ASSUME NEW b \in Bus, b \in Range(master_list[s]) PROVE FALSE
  <2>1. b \in Range(Cpus[s]) /\ s \in Range(m_rt_list[b])
    BY <1>3, Zenon DEF IInv, Data, Lists
  <2>2. Cpus[s] \in Seq(Bus) /\ m_rt_list[b] \in Seq(Stream)
    BY CardFacts, Zenon DEF IInv, Data, DataTypes, ListTypes
  <2>3. b \in Range(Cpus[s]) /\ \E i \in DOMAIN m_rt_list[b] : m_rt_list[b][i] = s
    BY <2>1, <2>2, LenProperties, Zenon DEF Range
  <2> QED
    BY <1>2, <2>3, Zenon DEF CanEnter
<1>4. ListTypes' /\ Lists'
  BY <1>2, SameLists, Zenon DEF IInv, Data, DataTypes
<1>5. DataTypes'
  BY <1>2, <1>4, Zenon DEF IInv, Data, DataTypes, NoParams
<1>6. OnlyOf(s) /\ state'[s] = "ALLOCATED"
  BY <1>2, Zenon DEF IInv, Data, DataTypes, OnlyOf, lists
<1>7. CountedAt(s)' /\ RatedAt(s)'
  BY <1>2, <1>3, <1>6, Zenon DEF CountedAt, RatedAt, lists
<1>8. Data'
  BY <1>4, <1>5, <1>6, <1>7, OneStream, Zenon DEF IInv
<1>9. /\ ControlTypes' /\ ControlOnly(s) /\ be'[s] = "OPEN" /\ from'[s] = "OPEN"
  BY <1>2, GoFacts, Zenon DEF IInv, BeStates, Resting
<1>10. ControlAt(s)'
  BY <1>1, <1>2, <1>9, Zenon DEF ControlAt
<1> QED
  BY <1>2, <1>6, <1>8, <1>9, <1>10, Assemble, Zenon DEF IInv

LEMMA HwParamsKeeps ==
  ASSUME IInv, card' = card, NEW s \in Stream, NEW c \in Asked[s], HwParams(s, c)
  PROVE  IInv'
<1>1. Cpus' = Cpus /\ Codecs' = Codecs
  BY Zenon DEF Cpus, Codecs
<1>2. /\ be[s] \in {"OPEN", "HW_PARAMS", "HW_FREE"}
      /\ be' = [be EXCEPT ![s] = "codec"] /\ at' = [at EXCEPT ![s] = 1]
      /\ want' = [want EXCEPT ![s] = c] /\ from' = [from EXCEPT ![s] = be[s]]
      /\ UNCHANGED <<state, params, m_rt_count, lists, bandwidth, places>>
  BY Zenon DEF HwParams
<1>3. Data' /\ OnlyOf(s)
  BY <1>2, SameData, Zenon DEF IInv
<1>8. c \in Configs
  BY Zenon DEF Configs
<1>4. ControlTypes' /\ ControlOnly(s)
  BY <1>2, <1>8, Zenon DEF IInv, ControlTypes, ControlOnly, BeStates, Resting
<1>5. /\ be'[s] = "codec" /\ at'[s] = 1 /\ want'[s] = c /\ from'[s] = be[s]
  BY <1>2, Zenon DEF IInv, ControlTypes
<1>6. ControlAt(s) /\ Len(Codecs[s]) \in Nat /\ Len(Codecs[s]) > 0
  BY <1>2, DaiFacts, Zenon DEF IInv
<1>7. ControlAt(s)'
  BY <1>1, <1>2, <1>5, <1>6, <1>8 DEF ControlAt, Resting
<1> QED
  BY <1>2, <1>3, <1>4, <1>7, Assemble, Zenon DEF IInv

LEMMA HwParamsCodecKeeps ==
  ASSUME IInv, card' = card, NEW s \in Stream, HwParamsCodec(s)
  PROVE  IInv'
<1> DEFINE x == Codecs[s][at[s]]
<1>1. Cpus' = Cpus /\ Codecs' = Codecs
  BY Zenon DEF Cpus, Codecs
<1>2. be[s] = "codec" /\ bandwidth' = bandwidth
  BY Zenon DEF HwParamsCodec
<1>3. /\ ControlAt(s) /\ Len(Codecs[s]) \in Nat /\ Len(Cpus[s]) \in Nat
      /\ Len(Cpus[s]) > 0 /\ m_rt_count[s] \in Nat /\ at[s] \in 1 .. Len(Codecs[s])
      /\ want[s] \in Configs
  BY <1>2, DaiFacts, Zenon DEF IInv, ControlAt
<1>4. x \in Slave /\ BusOf[x] \in Bus /\ BusOf[x] \in Range(Cpus[s])
  BY <1>3, CardFacts, Zenon DEF IInv
<1> HIDE DEF x
<1>5. ASSUME sdw_stream_add_slave(s, x),
             IF at[s] = Len(Codecs[s]) THEN Go(s, "cpu", 1)
                                       ELSE Go(s, "codec", at[s] + 1)
      PROVE  IInv'
  <2>1. /\ Data' /\ OnlyOf(s) /\ state'[s] = "CONFIGURED"
        /\ m_rt_count' = m_rt_count
    BY <1>3, <1>4, <1>5, AddSlaveKeeps, Zenon DEF IInv
  <2>2. CASE at[s] = Len(Codecs[s])
    <3>1. /\ ControlTypes' /\ ControlOnly(s) /\ be'[s] = "cpu" /\ at'[s] = 1
          /\ want'[s] = want[s] /\ from'[s] = from[s]
      BY <1>5, <2>2, GoFacts DEF IInv, BeStates, Resting
    <3>2. ControlAt(s)'
      BY <1>1, <1>2, <1>3, <2>1, <3>1 DEF ControlAt, Resting
    <3> QED
      BY <1>2, <2>1, <3>1, <3>2, Assemble, Zenon DEF IInv
  <2>3. CASE at[s] # Len(Codecs[s])
    <3>1. at[s] + 1 \in 1 .. Len(Codecs[s]) /\ at[s] + 1 \in Nat
      BY <1>3, <2>3
    <3>2. /\ ControlTypes' /\ ControlOnly(s) /\ be'[s] = "codec"
          /\ at'[s] = at[s] + 1 /\ want'[s] = want[s] /\ from'[s] = from[s]
      BY <1>5, <2>3, <3>1, GoFacts DEF IInv, BeStates, Resting
    <3>3. ControlAt(s)'
      BY <1>1, <1>2, <1>3, <2>1, <3>1, <3>2, Zenon DEF ControlAt, Resting
    <3> QED
      BY <1>2, <2>1, <3>2, <3>3, Assemble, Zenon DEF IInv
  <2> QED
    BY <2>2, <2>3, Zenon
<1>6. ASSUME sdw_stream_add_slave_err(s, x), Go(s, "undo_codec", at[s] - 1)
      PROVE  IInv'
  <2>1. Data' /\ OnlyOf(s) /\ state' = state /\ m_rt_count' = m_rt_count
    BY <1>3, <1>4, <1>6, AddSlaveErrKeeps, Zenon DEF IInv
  <2>2. at[s] - 1 \in 0 .. Len(Codecs[s]) /\ at[s] - 1 \in Nat
    BY <1>3
  <2>3. /\ ControlTypes' /\ ControlOnly(s) /\ be'[s] = "undo_codec"
        /\ at'[s] = at[s] - 1 /\ from'[s] = from[s]
    BY <1>6, <2>2, GoFacts DEF IInv, BeStates, Resting
  <2>4. ControlAt(s)'
    BY <1>1, <1>2, <1>3, <2>1, <2>2, <2>3, Zenon DEF ControlAt, Resting
  <2> QED
    BY <1>2, <2>1, <2>3, <2>4, Assemble, Zenon DEF IInv
<1> QED
  BY <1>5, <1>6, Zenon DEF HwParamsCodec, x

LEMMA HwParamsCpuKeeps ==
  ASSUME IInv, card' = card, NEW s \in Stream, HwParamsCpu(s)
  PROVE  IInv'
<1> DEFINE b == Cpus[s][at[s]]
<1>1. Cpus' = Cpus /\ Codecs' = Codecs
  BY Zenon DEF Cpus, Codecs
<1>2. be[s] = "cpu" /\ bandwidth' = bandwidth
  BY Zenon DEF HwParamsCpu
<1>3. /\ ControlAt(s) /\ Len(Codecs[s]) \in Nat /\ Len(Cpus[s]) \in Nat
      /\ m_rt_count[s] \in Nat /\ at[s] \in 1 .. Len(Cpus[s])
      /\ want[s] \in Configs /\ state[s] = "CONFIGURED"
      /\ m_rt_count[s] >= at[s] - 1
  BY <1>2, DaiFacts, Zenon DEF IInv, ControlAt
<1>4. b \in Bus /\ b \in Range(Cpus[s])
  BY <1>3, CardFacts, Zenon DEF IInv
<1> HIDE DEF b
<1>5. ASSUME sdw_stream_add_master(s, b)
      PROVE  /\ Data' /\ OnlyOf(s) /\ state'[s] = "CONFIGURED"
             /\ m_rt_count'[s] = m_rt_count[s] + 1
  BY <1>3, <1>4, <1>5, AddMasterKeeps, Zenon DEF IInv
<1>6. ASSUME sdw_stream_add_master(s, b), at[s] < Len(Cpus[s]),
             Go(s, "cpu", at[s] + 1)
      PROVE  IInv'
  <2>1. at[s] + 1 \in 1 .. Len(Cpus[s]) /\ at[s] + 1 \in Nat
    BY <1>3, <1>6
  <2>2. /\ ControlTypes' /\ ControlOnly(s) /\ be'[s] = "cpu"
        /\ at'[s] = at[s] + 1 /\ want'[s] = want[s] /\ from'[s] = from[s]
    BY <1>6, <2>1, GoFacts DEF IInv, BeStates, Resting
  <2>3. ControlAt(s)'
    BY <1>1, <1>2, <1>3, <1>5, <1>6, <2>1, <2>2 DEF ControlAt, Resting
  <2> QED
    BY <1>2, <1>5, <1>6, <2>2, <2>3, Assemble, Zenon DEF IInv
<1>7. ASSUME sdw_stream_add_master(s, b), at[s] >= Len(Cpus[s]),
             Go(s, "HW_PARAMS", 1)
      PROVE  IInv'
  <2>1. /\ ControlTypes' /\ ControlOnly(s) /\ be'[s] = "HW_PARAMS"
        /\ from'[s] = "OPEN"
    BY <1>7, GoFacts, Zenon DEF IInv, BeStates, Resting
  <2>2. m_rt_count'[s] >= Len(Cpus[s])
    BY <1>3, <1>5, <1>7
  <2>3. ControlAt(s)'
    BY <1>1, <1>2, <1>3, <2>1, <2>2, Zenon DEF ControlAt
  <2> QED
    BY <1>2, <1>5, <1>7, <2>1, <2>3, Assemble, Zenon DEF IInv
<1>8. ASSUME sdw_stream_add_master(s, b), Go(s, "undo_cpu", at[s])
      PROVE  IInv'
  <2>1. /\ ControlTypes' /\ ControlOnly(s) /\ be'[s] = "undo_cpu"
        /\ at'[s] = at[s] /\ from'[s] = from[s]
    <3>1. at[s] \in Nat
      BY DaiFacts, Zenon
    <3> QED
      BY <1>8, <3>1, GoLoop, Zenon
  <2>2. ControlAt(s)'
    BY <1>1, <1>2, <1>3, <1>5, <1>8, <2>1 DEF ControlAt, Resting
  <2> QED
    BY <1>2, <1>5, <1>8, <2>1, <2>2, Assemble, Zenon DEF IInv
<1>9. ASSUME sdw_stream_add_master_err(s, b)
      PROVE  Data' /\ OnlyOf(s) /\ state' = state /\ m_rt_count' = m_rt_count
  BY <1>3, <1>4, <1>9, AddMasterErrKeeps, Zenon DEF IInv
<1>10. ASSUME sdw_stream_add_master_err(s, b), Go(s, "undo_codec", Len(Codecs[s]))
       PROVE  IInv'
  <2>1. /\ ControlTypes' /\ ControlOnly(s) /\ be'[s] = "undo_codec"
        /\ at'[s] = Len(Codecs[s]) /\ from'[s] = from[s]
    BY <1>3, <1>10, GoFacts DEF IInv, BeStates, Resting
  <2>2. ControlAt(s)'
    BY <1>1, <1>2, <1>3, <1>9, <1>10, <2>1 DEF ControlAt, Resting
  <2> QED
    BY <1>2, <1>9, <1>10, <2>1, <2>2, Assemble, Zenon DEF IInv
<1>11. ASSUME sdw_stream_add_master_err(s, b), at[s] # 1,
              Go(s, "undo_cpu", at[s] - 1)
       PROVE  IInv'
  <2>1. at[s] - 1 \in 1 .. Len(Cpus[s]) /\ at[s] - 1 \in Nat
    BY <1>3, <1>11
  <2>2. /\ ControlTypes' /\ ControlOnly(s) /\ be'[s] = "undo_cpu"
        /\ at'[s] = at[s] - 1 /\ from'[s] = from[s]
    BY <1>11, <2>1, GoFacts DEF IInv, BeStates, Resting
  <2>3. ControlAt(s)'
    BY <1>1, <1>2, <1>3, <1>9, <1>11, <2>1, <2>2, Zenon DEF ControlAt, Resting
  <2> QED
    BY <1>2, <1>9, <1>11, <2>2, <2>3, Assemble, Zenon DEF IInv
<1>12. CASE /\ sdw_stream_add_master(s, b)
            /\ IF at[s] < Len(Cpus[s]) THEN Go(s, "cpu", at[s] + 1)
               ELSE Go(s, "HW_PARAMS", 1) \/ Go(s, "undo_cpu", at[s])
  <2>1. at[s] \in Nat /\ (at[s] < Len(Cpus[s]) \/ at[s] >= Len(Cpus[s]))
    BY <1>3
  <2> QED
    BY <1>6, <1>7, <1>8, <1>12, <2>1, Zenon
<1>13. CASE /\ sdw_stream_add_master_err(s, b)
            /\ IF at[s] = 1 THEN Go(s, "undo_codec", Len(Codecs[s]))
                            ELSE Go(s, "undo_cpu", at[s] - 1)
  BY <1>10, <1>11, <1>13, Zenon
<1> QED
  BY <1>12, <1>13, Zenon DEF HwParamsCpu, b

LEMMA HwParamsUndoKeeps ==
  ASSUME IInv, card' = card, NEW s \in Stream, HwParamsUndo(s)
  PROVE  IInv'
<1>1. Cpus' = Cpus /\ Codecs' = Codecs /\ params' = params
  BY Zenon DEF Cpus, Codecs, HwParamsUndo
<1>2. /\ ControlAt(s) /\ Len(Codecs[s]) \in Nat /\ Len(Cpus[s]) \in Nat
      /\ m_rt_count[s] \in Nat /\ at[s] \in Nat
  BY DaiFacts, Zenon DEF IInv
<1>3. ASSUME be[s] = "undo_cpu", intel_hw_free(s, Cpus[s][at[s]])
      PROVE  /\ Data' /\ OnlyOf(s) /\ bandwidth' \in [Bus -> 0 .. UintMod - 1]
             /\ state' = state /\ m_rt_count' = m_rt_count
             /\ at[s] \in 1 .. Len(Cpus[s]) /\ state[s] = "CONFIGURED"
  <2>1. at[s] \in 1 .. Len(Cpus[s]) /\ state[s] = "CONFIGURED"
    BY <1>2, <1>3, Zenon DEF ControlAt
  <2>2. Cpus[s][at[s]] \in Bus
    BY <2>1, CardFacts, Zenon DEF IInv
  <2> QED
    BY <1>1, <1>3, <2>1, <2>2, IntelHwFreeKeeps, Zenon DEF IInv
<1>4. ASSUME be[s] = "undo_cpu", intel_hw_free(s, Cpus[s][at[s]]),
             Go(s, "undo_codec", Len(Codecs[s]))
      PROVE  IInv'
  <2>1. /\ ControlTypes' /\ ControlOnly(s) /\ be'[s] = "undo_codec"
        /\ at'[s] = Len(Codecs[s]) /\ from'[s] = from[s]
    BY <1>2, <1>4, GoFacts DEF IInv, BeStates, Resting
  <2>2. ControlAt(s)'
    BY <1>1, <1>2, <1>3, <1>4, <2>1 DEF ControlAt, Resting
  <2> QED
    BY <1>3, <1>4, <2>1, <2>2, Assemble, Zenon
<1>5. ASSUME be[s] = "undo_cpu", intel_hw_free(s, Cpus[s][at[s]]), at[s] # 1,
             Go(s, "undo_cpu", at[s] - 1)
      PROVE  IInv'
  <2>1. at[s] - 1 \in 1 .. Len(Cpus[s]) /\ at[s] - 1 \in Nat
    BY <1>2, <1>3, <1>5
  <2>2. /\ ControlTypes' /\ ControlOnly(s) /\ be'[s] = "undo_cpu"
        /\ at'[s] = at[s] - 1 /\ from'[s] = from[s]
    BY <1>5, <2>1, GoFacts DEF IInv, BeStates, Resting
  <2>3. ControlAt(s)'
    BY <1>1, <1>2, <1>3, <1>5, <2>1, <2>2, Zenon DEF ControlAt, Resting
  <2> QED
    BY <1>3, <1>5, <2>2, <2>3, Assemble, Zenon
<1>6. ASSUME be[s] = "undo_codec", at[s] > 0,
             sdw_stream_remove_slave(s, Codecs[s][at[s]]),
             Go(s, "undo_codec", at[s] - 1),
             UNCHANGED <<state, m_rt_count, master_list, m_rt_list, bandwidth, places>>
      PROVE  IInv'
  <2>1. /\ at[s] \in 1 .. Len(Codecs[s]) /\ at[s] - 1 \in 0 .. Len(Codecs[s])
        /\ at[s] - 1 \in Nat
    BY <1>2, <1>6 DEF ControlAt
  <2>2. Data' /\ OnlyOf(s)
    BY <1>1, <1>6, <2>1, RemoveSlaveData, Zenon
  <2>3. /\ ControlTypes' /\ ControlOnly(s) /\ be'[s] = "undo_codec"
        /\ at'[s] = at[s] - 1 /\ from'[s] = from[s]
    BY <1>6, <2>1, GoFacts, Zenon DEF IInv, BeStates, Resting
  <2>4. ControlAt(s)'
    BY <1>1, <1>2, <1>6, <2>1, <2>3, Zenon DEF ControlAt, Resting
  <2> QED
    BY <1>6, <2>2, <2>3, <2>4, Assemble, Zenon DEF IInv
<1>7. ASSUME be[s] = "undo_codec", Go(s, from[s], 1),
             UNCHANGED <<state, m_rt_count, lists, bandwidth, places>>
      PROVE  IInv'
  <2>1. from[s] \in {"OPEN", "HW_PARAMS", "HW_FREE"}
    BY <1>2, Zenon DEF ControlAt
  <2>2. Data' /\ OnlyOf(s)
    BY <1>1, <1>7, SameData, Zenon DEF IInv
  <2>3. from[s] \in BeStates /\ from[s] \in Resting
    BY <2>1, Zenon DEF BeStates, Resting
  <2>4. /\ ControlTypes' /\ ControlOnly(s) /\ be'[s] = from[s]
        /\ from'[s] = "OPEN"
    BY <1>7, <2>3, GoFacts, Zenon DEF IInv
  <2>5. ControlAt(s)'
    BY <1>1, <1>2, <1>7, <2>1, <2>4, Zenon DEF ControlAt, Resting
  <2> QED
    BY <1>7, <2>2, <2>4, <2>5, Assemble, Zenon DEF IInv
<1>8. CASE /\ be[s] = "undo_cpu" /\ intel_hw_free(s, Cpus[s][at[s]])
           /\ IF at[s] = 1 THEN Go(s, "undo_codec", Len(Codecs[s]))
                           ELSE Go(s, "undo_cpu", at[s] - 1)
  BY <1>4, <1>5, <1>8, Zenon
<1> QED
  BY <1>6, <1>7, <1>8, Zenon DEF HwParamsUndo

\* A stream has no more masters than CPU DAIs.
LEMMA MastersNoLonger ==
  ASSUME IInv, NEW s \in Stream
  PROVE  Len(master_list[s]) \in Nat /\ Len(master_list[s]) <= Len(Cpus[s])
<1>1. master_list[s] \in Seq(Bus) /\ Cpus[s] \in Seq(Bus) /\ IsInjective(master_list[s])
  BY CardFacts, Zenon DEF IInv, Data, DataTypes, ListTypes, Lists
<1>2. ASSUME NEW i \in 1 .. Len(master_list[s])
      PROVE  \E j \in 1 .. Len(Cpus[s]) : master_list[s][i] = Cpus[s][j]
  <2>1. master_list[s][i] \in Bus /\ master_list[s][i] \in Range(master_list[s])
    BY <1>1, ElementOfSeq DEF Range
  <2>2. master_list[s][i] \in Range(Cpus[s])
    BY <2>1, Zenon DEF IInv, Data, Lists
  <2> QED
    BY <2>2 DEF Range
<1> QED
  BY <1>1, <1>2, NoLonger, LenProperties, Zenon

LEMMA PrepareKeeps ==
  ASSUME IInv, card' = card, NEW s \in Stream, Prepare(s)
  PROVE  IInv'
<1>1. Cpus' = Cpus /\ Codecs' = Codecs
  BY Zenon DEF Cpus, Codecs
<1>2. /\ be[s] = "HW_PARAMS" /\ bandwidth' = NewBandwidth(s, 1)
      /\ UNCHANGED <<params, m_rt_count, lists>>
  BY Zenon DEF Prepare
<1>3. /\ ControlAt(s) /\ m_rt_count[s] \in Nat /\ Len(Cpus[s]) \in Nat
      /\ m_rt_count[s] >= Len(Cpus[s]) /\ Cpus[s] # <<>>
  BY <1>2, DaiFacts, Zenon DEF IInv, ControlAt
<1>4. bandwidth' \in [Bus -> 0 .. UintMod - 1]
  BY <1>2, BandwidthType, Zenon DEF IInv
<1>5. ASSUME Go(s, "PREPARE", 1), state' = [state EXCEPT ![s] = "PREPARED"]
      PROVE  IInv'
  <2>1. ListTypes' /\ Lists'
    BY <1>2, SameLists, Zenon DEF IInv, Data, DataTypes
  <2>2. DataTypes' /\ OnlyOf(s) /\ RatedAt(s)'
    BY <1>2, <1>5, <2>1, Zenon DEF IInv, Data, DataTypes, OnlyOf, RatedAt, lists
  <2>3. m_rt_count'[s] >= Len(master_list'[s])
    BY <1>2, <1>3, MastersNoLonger DEF lists
  <2>4. CountedAt(s)'
    BY <2>3, Zenon DEF CountedAt
  <2>5. Data'
    BY <2>1, <2>2, <2>4, OneStream, Zenon DEF IInv
  <2>6. /\ ControlTypes' /\ ControlOnly(s) /\ be'[s] = "PREPARE"
        /\ from'[s] = "OPEN"
    BY <1>5, GoFacts, Zenon DEF IInv, BeStates, Resting
  <2>7. ControlAt(s)'
    BY <1>1, <1>2, <1>3, <2>6, Zenon DEF ControlAt
  <2> QED
    BY <1>4, <2>2, <2>5, <2>6, <2>7, Assemble, Zenon
<1>6. ASSUME UNCHANGED <<be, at, want, from, state>>
      PROVE  IInv'
  <2>1. Data' /\ OnlyOf(s)
    BY <1>2, <1>6, SameData, Zenon DEF IInv
  <2>2. ControlTypes' /\ ControlOnly(s)
    BY <1>6, Zenon DEF IInv, ControlTypes, ControlOnly
  <2>3. ControlAt(s)'
    BY <1>1, <1>2, <1>3, <1>6, Zenon DEF ControlAt
  <2> QED
    BY <1>4, <2>1, <2>2, <2>3, Assemble, Zenon
<1> QED
  BY <1>5, <1>6, Zenon DEF Prepare

LEMMA HwFreeKeeps ==
  ASSUME IInv, card' = card, NEW s \in Stream, HwFree(s)
  PROVE  IInv'
<1>1. Cpus' = Cpus /\ Codecs' = Codecs
  BY Zenon DEF Cpus, Codecs
<1>2. /\ be[s] \in {"HW_PARAMS", "PREPARE", "HW_FREE"} /\ Go(s, "free_cpu", 1)
      /\ UNCHANGED <<state, params, m_rt_count, lists, bandwidth, places>>
  BY Zenon DEF HwFree
<1>3. ControlAt(s) /\ Len(Cpus[s]) \in Nat /\ Len(Cpus[s]) > 0
  BY <1>2, DaiFacts, Zenon DEF IInv
<1>4. Data' /\ OnlyOf(s)
  BY <1>2, SameData, Zenon DEF IInv
<1>5. /\ ControlTypes' /\ ControlOnly(s) /\ be'[s] = "free_cpu" /\ at'[s] = 1
      /\ from'[s] = from[s]
  <2>1. 1 \in Nat
    OBVIOUS
  <2> QED
    BY <1>2, <2>1, GoLoop, Zenon
<1>6. ControlAt(s)'
  <2>1. 1 \in 1 .. Len(Cpus[s]) /\ Cpus[s] # <<>>
    BY <1>3
  <2>2. from[s] = "OPEN"
    BY <1>2, <1>3, Zenon DEF ControlAt, Resting
  <2>3. /\ "OPEN" # "HW_PARAMS"
        /\ "free_cpu" \notin {"codec", "free_codec", "undo_codec", "HW_PARAMS", "PREPARE"}
        /\ "free_cpu" \notin {"codec", "cpu"} \cup {"cpu", "undo_cpu"}
    OBVIOUS
  <2> QED
    BY <1>1, <1>5, <2>1, <2>2, <2>3, Zenon DEF ControlAt
<1> QED
  BY <1>2, <1>4, <1>5, <1>6, Assemble, Zenon DEF IInv

LEMMA ShutdownKeeps ==
  ASSUME IInv, card' = card, NEW s \in Stream, Shutdown(s)
  PROVE  IInv'
<1>1. Cpus' = Cpus /\ Codecs' = Codecs
  BY Zenon DEF Cpus, Codecs
<1>2. /\ be[s] \in {"OPEN", "HW_FREE"} /\ Go(s, "CLOSE", 1)
      /\ state' = [state EXCEPT ![s] = "NONE"]
      /\ UNCHANGED <<params, m_rt_count, lists, bandwidth, places>>
  BY Zenon DEF Shutdown
<1>3. ListTypes' /\ Lists'
  BY <1>2, SameLists, Zenon DEF IInv, Data, DataTypes
<1>4. DataTypes' /\ OnlyOf(s) /\ RatedAt(s)' /\ state'[s] = "NONE"
  BY <1>2, <1>3, Zenon DEF IInv, Data, DataTypes, OnlyOf, RatedAt, lists
<1>5. CountedAt(s)'
  BY <1>4, Zenon DEF CountedAt
<1>6. Data'
  BY <1>3, <1>4, <1>5, OneStream, Zenon DEF IInv
<1>7. ControlTypes' /\ ControlOnly(s) /\ be'[s] = "CLOSE" /\ from'[s] = "OPEN"
  BY <1>2, GoFacts, Zenon DEF IInv, BeStates, Resting
<1>8. ControlAt(s)'
  BY <1>7, Zenon DEF ControlAt
<1> QED
  BY <1>2, <1>4, <1>6, <1>7, <1>8, Assemble, Zenon DEF IInv

LEMMA HwFreeDaiKeeps ==
  ASSUME IInv, card' = card, NEW s \in Stream, HwFreeDai(s)
  PROVE  IInv'
<1>1. Cpus' = Cpus /\ Codecs' = Codecs /\ params' = params
  BY Zenon DEF Cpus, Codecs, HwFreeDai
<1>2. /\ ControlAt(s) /\ Len(Codecs[s]) \in Nat /\ Len(Cpus[s]) \in Nat
      /\ at[s] \in Nat
      /\ be[s] # "CLOSE" => Len(Codecs[s]) > 0
  BY DaiFacts, Zenon DEF IInv
<1>3. ASSUME be[s] = "free_cpu", intel_hw_free(s, Cpus[s][at[s]])
      PROVE  /\ Data' /\ OnlyOf(s) /\ bandwidth' \in [Bus -> 0 .. UintMod - 1]
             /\ at[s] \in 1 .. Len(Cpus[s]) /\ Cpus[s] # <<>>
  <2>1. at[s] \in 1 .. Len(Cpus[s]) /\ Cpus[s] # <<>>
    BY <1>2, <1>3, Zenon DEF ControlAt
  <2>2. Cpus[s][at[s]] \in Bus
    BY <2>1, CardFacts, Zenon DEF IInv
  <2> QED
    BY <1>1, <1>3, <2>1, <2>2, IntelHwFreeKeeps, Zenon DEF IInv
<1>4. ASSUME be[s] = "free_cpu", intel_hw_free(s, Cpus[s][at[s]]),
             Go(s, "free_codec", 1)
      PROVE  IInv'
  <2>1. /\ ControlTypes' /\ ControlOnly(s) /\ be'[s] = "free_codec"
        /\ at'[s] = 1 /\ from'[s] = from[s]
    <3>1. 1 \in Nat
      OBVIOUS
    <3> QED
      BY <1>4, <3>1, GoLoop, Zenon
  <2>2. ControlAt(s)'
    BY <1>1, <1>2, <1>3, <1>4, <2>1 DEF ControlAt, Resting
  <2> QED
    BY <1>3, <1>4, <2>1, <2>2, Assemble, Zenon
<1>5. ASSUME be[s] = "free_cpu", intel_hw_free(s, Cpus[s][at[s]]),
             at[s] # Len(Cpus[s]), Go(s, "free_cpu", at[s] + 1)
      PROVE  IInv'
  <2>1. at[s] + 1 \in 1 .. Len(Cpus[s]) /\ at[s] + 1 \in Nat
    BY <1>2, <1>3, <1>5
  <2>2. /\ ControlTypes' /\ ControlOnly(s) /\ be'[s] = "free_cpu"
        /\ at'[s] = at[s] + 1 /\ from'[s] = from[s]
    BY <1>5, <2>1, GoLoop, Zenon
  <2>3. ControlAt(s)'
    BY <1>1, <1>2, <1>3, <1>5, <2>1, <2>2, Zenon DEF ControlAt, Resting
  <2> QED
    BY <1>3, <1>5, <2>2, <2>3, Assemble, Zenon
<1>6. ASSUME be[s] = "free_codec", sdw_stream_remove_slave(s, Codecs[s][at[s]]),
             UNCHANGED <<state, m_rt_count, master_list, m_rt_list, bandwidth, places>>
      PROVE  /\ Data' /\ OnlyOf(s) /\ bandwidth' \in [Bus -> 0 .. UintMod - 1]
             /\ at[s] \in 1 .. Len(Codecs[s])
  <2>1. at[s] \in 1 .. Len(Codecs[s])
    BY <1>2, <1>6, Zenon DEF ControlAt
  <2> QED
    BY <1>1, <1>6, <2>1, RemoveSlaveData, Zenon DEF IInv
<1>7. ASSUME be[s] = "free_codec", sdw_stream_remove_slave(s, Codecs[s][at[s]]),
             UNCHANGED <<state, m_rt_count, master_list, m_rt_list, bandwidth, places>>,
             Go(s, "HW_FREE", 1)
      PROVE  IInv'
  <2>1. /\ ControlTypes' /\ ControlOnly(s) /\ be'[s] = "HW_FREE"
        /\ from'[s] = "OPEN"
    BY <1>7, GoFacts, Zenon DEF IInv, BeStates, Resting
  <2>2. ControlAt(s)'
    BY <1>1, <1>2, <1>7, <2>1, Zenon DEF ControlAt
  <2> QED
    BY <1>6, <1>7, <2>1, <2>2, Assemble, Zenon
<1>8. ASSUME be[s] = "free_codec", sdw_stream_remove_slave(s, Codecs[s][at[s]]),
             UNCHANGED <<state, m_rt_count, master_list, m_rt_list, bandwidth, places>>,
             at[s] # Len(Codecs[s]), Go(s, "free_codec", at[s] + 1)
      PROVE  IInv'
  <2>1. at[s] + 1 \in 1 .. Len(Codecs[s]) /\ at[s] + 1 \in Nat
    BY <1>2, <1>6, <1>8
  <2>2. /\ ControlTypes' /\ ControlOnly(s) /\ be'[s] = "free_codec"
        /\ at'[s] = at[s] + 1 /\ from'[s] = from[s]
    BY <1>8, <2>1, GoFacts, Zenon DEF IInv, BeStates, Resting
  <2>3. ControlAt(s)'
    BY <1>1, <1>2, <1>8, <2>1, <2>2, Zenon DEF ControlAt, Resting
  <2> QED
    BY <1>6, <1>8, <2>2, <2>3, Assemble, Zenon
<1>9. CASE /\ be[s] = "free_cpu" /\ intel_hw_free(s, Cpus[s][at[s]])
           /\ IF at[s] = Len(Cpus[s]) THEN Go(s, "free_codec", 1)
                                      ELSE Go(s, "free_cpu", at[s] + 1)
  BY <1>4, <1>5, <1>9, Zenon
<1>10. CASE /\ be[s] = "free_codec" /\ sdw_stream_remove_slave(s, Codecs[s][at[s]])
            /\ IF at[s] = Len(Codecs[s]) THEN Go(s, "HW_FREE", 1)
                                         ELSE Go(s, "free_codec", at[s] + 1)
            /\ UNCHANGED <<state, m_rt_count, master_list, m_rt_list,
                           bandwidth, places>>
  BY <1>7, <1>8, <1>10, Zenon
<1> QED
  BY <1>9, <1>10, Zenon DEF HwFreeDai

-------------------------------------------------------------------------------
(* The theorems *)

LEMMA InitIInv == Init => IInv
<1> SUFFICES ASSUME Init PROVE IInv
  BY Zenon
<1>1. /\ ControlTypes /\ bandwidth \in [Bus -> 0 .. UintMod - 1]
      /\ \A s \in Stream : be[s] = "CLOSE" /\ from[s] = "OPEN"
  BY RuntimeAssumption DEF Init, ControlTypes, BeStates, Resting
<1>2. \A s \in Stream : ControlAt(s)
  BY <1>1, Zenon DEF ControlAt
<1>3. DataTypes
  <2>1. NoRt \in MasterRt
    BY DEF NoRt, MasterRt
  <2> QED
    BY <2>1 DEF Init, DataTypes, ListTypes, NoParams
<1>4. /\ \A s \in Stream : master_list[s] = <<>> /\ state[s] = "NONE"
      /\ \A b \in Bus : m_rt_list[b] = <<>>
      /\ \A s \in Stream, b \in Bus : rt[s][b] = NoRt
  BY Zenon DEF Init
<1>5. \A x : x \notin Range(<<>>)
  BY DEF Range
<1>6. IsInjective(<<>>)
  BY DEF IsInjective
<1>7. Lists /\ \A s \in Stream : CountedAt(s) /\ RatedAt(s)
  BY <1>4, <1>5, <1>6, Zenon DEF Lists, CountedAt, RatedAt
<1> QED
  BY <1>1, <1>2, <1>3, <1>7, Zenon DEF IInv, Data, Init

LEMMA NextIInv == IInv /\ [Next]_vars => IInv'
<1> SUFFICES ASSUME IInv, [Next]_vars PROVE IInv'
  BY Zenon
<1>1. CASE UNCHANGED vars
  <2>1. UNCHANGED <<card, be, at, want, from, state, params, m_rt_count, lists,
                    bandwidth, places>>
    BY <1>1, Zenon DEF vars
  <2>2. ListTypes' /\ Lists'
    BY <2>1, SameLists, Zenon DEF IInv, Data, DataTypes
  <2>3. Data'
    BY <2>1, <2>2, Zenon DEF IInv, Data, DataTypes, CountedAt, RatedAt, lists
  <2>4. ControlTypes' /\ \A s \in Stream : ControlAt(s)'
    BY <2>1, Zenon DEF IInv, ControlTypes, ControlAt, Codecs, Cpus
  <2> QED
    BY <2>1, <2>3, <2>4, Zenon DEF IInv
<1>2. CASE Next
  <2>1. card' = card
    BY <1>2, Zenon DEF Next
  <2>2. PICK s \in Stream :
          \/ Startup(s) \/ \E c \in Asked[s] : HwParams(s, c)
          \/ HwParamsCodec(s) \/ HwParamsCpu(s) \/ HwParamsUndo(s)
          \/ Prepare(s) \/ HwFree(s) \/ HwFreeDai(s) \/ Shutdown(s)
    BY <1>2, Zenon DEF Next
  <2> QED
    BY Zenon, <2>1, <2>2, StartupKeeps, HwParamsKeeps, HwParamsCodecKeeps,
       HwParamsCpuKeeps, HwParamsUndoKeeps, PrepareKeeps, HwFreeKeeps,
       HwFreeDaiKeeps, ShutdownKeeps
<1> QED
  BY <1>1, <1>2, Zenon

LEMMA IInvHolds == Spec => []IInv
BY InitIInv, NextIInv, PTL DEF Spec

\* The variables of the runtimes keep the types of the fields they model: the
\* count of masters never runs below zero, bus->params.bandwidth stays an
\* unsigned int, and every loop over the DAIs stays inside its array.
THEOREM TypeCorrect == Spec => []TypeOK
<1>1. IInv => TypeOK
  BY Zenon DEF IInv, TypeOK, ControlTypes, BeStates, Data, DataTypes, ListTypes
<1> QED
  BY <1>1, IInvHolds, PTL

\* Through every failure and roll-back of hw_params a master runtime is on the
\* list of its stream exactly when it is on the list of its bus, once on each,
\* and has contents only then.
THEOREM ListsAlwaysAgree == Spec => []ListsAgree
<1>1. IInv => ListsAgree
  BY Zenon DEF IInv, Data, Lists, ListsAgree
<1> QED
  BY <1>1, IInvHolds, PTL

\* Every runtime that the bandwidth allocator finds on a bus has the rate that
\* it divides by.
THEOREM RateAlwaysKnown == Spec => []RateKnown
<1>1. ASSUME IInv, NEW b \in Bus, NEW i \in DOMAIN m_rt_list[b]
      PROVE  params[m_rt_list[b][i]].rate > 0
  <2>1. m_rt_list[b] \in Seq(Stream)
    BY <1>1, Zenon DEF IInv, Data, DataTypes, ListTypes
  <2>2. m_rt_list[b][i] \in Stream /\ m_rt_list[b][i] \in Range(m_rt_list[b])
    BY <2>1 DEF Range
  <2>3. b \in Range(master_list[m_rt_list[b][i]])
    BY <1>1, <2>2, Zenon DEF IInv, Data, Lists
  <2> QED
    BY <1>1, <2>2, <2>3, Zenon DEF IInv, Data, RatedAt
<1>2. IInv => RateKnown
  BY <1>1, Zenon DEF RateKnown
<1> QED
  BY <1>2, IInvHolds, PTL

\* A stream that hw_params succeeded for has counted every master on its list,
\* whatever was configured, released or rolled back before.
THEOREM CountAlwaysEnough == Spec => []CountEnough
<1>1. ASSUME IInv, NEW s \in Stream, be[s] \in {"HW_PARAMS", "PREPARE"}
      PROVE  m_rt_count[s] >= Len(master_list[s])
  <2>1. m_rt_count[s] \in Nat /\ Len(Cpus[s]) \in Nat /\ m_rt_count[s] >= Len(Cpus[s])
    BY <1>1, DaiFacts, Zenon DEF IInv, ControlAt
  <2> QED
    BY <1>1, <2>1, MastersNoLonger
<1>2. IInv => CountEnough
  BY <1>1, Zenon DEF CountEnough
<1> QED
  BY <1>2, IInvHolds, PTL
===============================================================================
