----------------------------- MODULE SdwSlotProofs -----------------------------
(***************************************************************************)
(* SdwRuntime never lets two prepared streams own the same slots of a bus, *)
(* for every sound card, every set of faults and every order of calls.     *)
(***************************************************************************)
EXTENDS SdwRuntimeProofs, SdwLayoutProofs

-------------------------------------------------------------------------------
(* What sdw_compute_params leaves on a bus *)

\* The allocator is asked only for rates that every clock can carry.
RateFits ==
  \A s \in Stream : \A i \in DOMAIN ClkFreq : params[s].rate <= ClkFreq[i]

\* The allocator sees a list of runtimes that the clock it chose can carry.
LEMMA ListCarried ==
  ASSUME Data, RateFits, NEW b \in Bus, NEW bw, Fits(bw)
  PROVE  /\ Carried(ListOf(b), sdw_compute_bus_params(bw))
         /\ DOMAIN ListOf(b) = DOMAIN m_rt_list[b]
<1> DEFINE m == m_rt_list[b]  list == ListOf(b)
<1>1. m \in Seq(Stream) /\ DOMAIN m = 1 .. Len(m) /\ Len(m) \in Nat
  BY LenProperties, Zenon DEF Data, DataTypes, ListTypes
<1>2. DOMAIN list = DOMAIN m
  BY Zenon DEF ListOf
<1>3. PICK i \in DOMAIN ClkFreq : sdw_compute_bus_params(bw) = ClkFreq[i]
  BY Zenon DEF Fits, sdw_compute_bus_params, NoFreq
<1>4. ClkFreq[i] \in Nat
  BY ClockAssumption
<1>5. ASSUME NEW k \in DOMAIN m
      PROVE  list[k] \in Runtime /\ list[k].rate <= ClkFreq[i]
  <2> DEFINE s == m[k]  r == rt[s][b]
             sl == [j \in DOMAIN r.slaves |-> r.slaves[j].ports]
  <2>1. s \in Stream /\ s \in Range(m)
    BY <1>1, ElementOfSeq, Zenon DEF Range
  <2>2. b \in Range(master_list[s])
    BY <2>1, Zenon DEF Data, Lists
  <2>3. params[s].rate \in Nat \ {0}
    <3>1. params[s].rate \in Nat /\ params[s].rate > 0
      BY <2>1, <2>2, Zenon DEF Data, DataTypes, RatedAt
    <3> QED
      BY <3>1
  <2>4. params[s].bps \in Nat /\ r \in MasterRt
    BY <2>1, Zenon DEF Data, DataTypes, ListTypes
  <2>5. r.ch \in Nat /\ r.ports \in Seq(Nat) /\ r.slaves \in Seq(SlaveRt)
    BY <2>4, Zenon DEF MasterRt
  <2>6. sl \in Seq(Seq(Nat))
    <3>1. DOMAIN r.slaves = 1 .. Len(r.slaves) /\ Len(r.slaves) \in Nat
      BY <2>5, LenProperties, Zenon
    <3>2. ASSUME NEW j \in DOMAIN r.slaves PROVE r.slaves[j].ports \in Seq(Nat)
      <4>1. r.slaves[j] \in SlaveRt
        BY <2>5, <3>1, ElementOfSeq, Zenon
      <4> QED
        BY <4>1, Zenon DEF SlaveRt
    <3>3. sl \in [1 .. Len(r.slaves) -> Seq(Nat)]
      BY <3>1, <3>2, Zenon
    <3> HIDE DEF sl
    <3> QED
      BY <3>1, <3>3, ListOfAny, Zenon
  <2>7. list[k] = [rate |-> params[s].rate, bps |-> params[s].bps, ch |-> r.ch,
                   mirror |-> s \in Playback, ports |-> r.ports, slaves |-> sl]
    BY Zenon DEF ListOf
  <2>8. (s \in Playback) \in BOOLEAN
    OBVIOUS
  <2> HIDE DEF s, r, sl, list
  <2>9. list[k] \in Runtime
    BY <2>3, <2>4, <2>5, <2>6, <2>7, <2>8 DEF Runtime
  <2>10. params[s].rate <= ClkFreq[i]
    BY <2>1, Zenon DEF RateFits, s
  <2> QED
    BY <2>7, <2>9, <2>10
<1>6. list = [k \in DOMAIN m |-> list[k]]
  BY Zenon DEF ListOf
<1> HIDE DEF list, m
<1>7. list \in [1 .. Len(m) -> Runtime]
  BY <1>1, <1>5, <1>6, Zenon
<1>8. list \in Seq(Runtime)
  BY <1>1, <1>7
<1> QED
  BY <1>2, <1>3, <1>4, <1>5, <1>8, Zenon DEF Carried, list, m

\* The places of b are those of a successful sdw_compute_params, and the
\* runtimes are what it saw.
Recomputed(b, bw) ==
  /\ ComputeOk(b, bw)
  /\ \A u \in Stream : Placed(u, b)' =>
       /\ b \in Range(master_list[u]) /\ places'[b][u] = Computed(b, bw)[u]
       /\ rt'[u][b] = rt[u][b] /\ params'[u] = params[u]

\* The entry k of the list that the places of u were computed from.
EntryOf(list, freq, b, u, k) ==
  /\ k \in DOMAIN list /\ m_rt_list[b][k] = u
  /\ places'[b][u] = sdw_compute_port_params(list, freq, k)
  /\ list[k].rate = params'[u].rate /\ list[k].ch = rt'[u][b].ch
  /\ list[k].ports = rt'[u][b].ports /\ list[k].mirror = (u \in Playback)
  /\ list[k].slaves = [j \in DOMAIN rt'[u][b].slaves |-> rt'[u][b].slaves[j].ports]
  /\ Len(list[k].slaves) = Len(rt'[u][b].slaves)

LEMMA HasEntry ==
  ASSUME Data, RateFits, NEW b \in Bus, NEW bw, Recomputed(b, bw),
         NEW u \in Stream, Placed(u, b)'
  PROVE  \E k : EntryOf(ListOf(b), sdw_compute_bus_params(bw), b, u, k)
<1> DEFINE m == m_rt_list[b]  list == ListOf(b)
           k == CHOOSE i \in DOMAIN m : m[i] = u
<1>1. /\ b \in Range(master_list[u]) /\ places'[b][u] = Computed(b, bw)[u]
      /\ rt'[u][b] = rt[u][b] /\ params'[u] = params[u]
  BY Zenon DEF Recomputed
<1>2. u \in Range(m)
  BY <1>1, Zenon DEF Data, Lists
<1>3. k \in DOMAIN m /\ m[k] = u
  BY <1>2, Zenon DEF Range
<1>4. places'[b][u] = sdw_compute_port_params(list, sdw_compute_bus_params(bw), k)
  BY <1>1, <1>2, Zenon DEF Computed
<1> HIDE DEF k
<1>5. /\ DOMAIN list = DOMAIN m
      /\ list[k] = [rate |-> params[u].rate, bps |-> params[u].bps,
                    ch |-> rt[u][b].ch, mirror |-> u \in Playback,
                    ports |-> rt[u][b].ports,
                    slaves |-> [j \in DOMAIN rt[u][b].slaves |-> rt[u][b].slaves[j].ports]]
  BY <1>3, Zenon DEF ListOf
<1> HIDE DEF list
<1>6. EntryOf(list, sdw_compute_bus_params(bw), b, u, k)
  <2>1. /\ list[k].rate = params[u].rate /\ list[k].ch = rt[u][b].ch
        /\ list[k].ports = rt[u][b].ports /\ list[k].mirror = (u \in Playback)
        /\ list[k].slaves = [j \in DOMAIN rt[u][b].slaves |-> rt[u][b].slaves[j].ports]
    BY <1>5
  <2>2. rt[u][b].slaves \in Seq(SlaveRt)
    <3>1. rt[u][b] \in MasterRt
      BY Zenon DEF Data, DataTypes, ListTypes
    <3> QED
      BY <3>1, Zenon DEF MasterRt
  <2>3. Len(list[k].slaves) = Len(rt[u][b].slaves)
    <3> DEFINE l == rt[u][b].slaves
    <3> HIDE DEF l
    <3>1. l \in Seq(SlaveRt) /\ list[k].slaves = [j \in DOMAIN l |-> l[j].ports]
      BY <2>1, <2>2, Zenon DEF l
    <3>2. Len(list[k].slaves) = Len(l)
      BY <3>1
    <3> QED
      BY <3>2, Zenon DEF l
  <2>4. /\ list[k].rate = params'[u].rate /\ list[k].ch = rt'[u][b].ch
        /\ list[k].ports = rt'[u][b].ports
        /\ list[k].slaves = [j \in DOMAIN rt'[u][b].slaves |-> rt'[u][b].slaves[j].ports]
        /\ Len(list[k].slaves) = Len(rt'[u][b].slaves)
    BY <1>1, <2>1, <2>3, Zenon
  <2>5. k \in DOMAIN list
    BY <1>3, <1>5, Zenon
  <2> QED
    BY <1>3, <1>4, <2>1, <2>4, <2>5, Zenon DEF EntryOf
<1> QED
  BY <1>6, Zenon DEF list


\* SlotsDisjoint and ColumnsOwned, for two streams on a bus.
SlotsOf(b, s, t) ==
  s # t /\ Placed(s, b) /\ OnePort(s, b) /\ Placed(t, b) /\ OnePort(t, b)
    => \A p \in Held(s, b), q \in Held(t, b) : BitsApart(p, q)
Ports(s, b) == AllPorts(places[b][s])
ColumnsOfBoth(b, s, t) ==
  Placed(s, b) /\ Placed(t, b) => \A p \in Ports(s, b) :
    /\ 1 <= p.hstart /\ p.hstop <= Cols - 1
    /\ params[s].rate # params[t].rate
       => \A q \in Ports(t, b) : ColumnsApart(p, q)
OnBus(b, s, t) == SlotsOf(b, s, t) /\ ColumnsOfBoth(b, s, t)

\* The port has the whole block of entry k.
OwnBlock(p, list, k) ==
  p.bo = BlockOffset(list, k) /\ p.len = list[k].bps * list[k].ch

\* A prepared stream with one port for its channels holds one block.
LEMMA HoldsBlock ==
  ASSUME Data, RateFits, NEW b \in Bus, NEW bw, Fits(bw),
         NEW u \in Stream, NEW k,
         EntryOf(ListOf(b), sdw_compute_bus_params(bw), b, u, k),
         OnePort(u, b)', NEW p \in Held(u, b)'
  PROVE  OwnBlock(p, ListOf(b), k)
<1> DEFINE list == ListOf(b)  freq == sdw_compute_bus_params(bw)  r == list[k]
           R == rt'[u][b]
<1>1. list \in Seq(Runtime) /\ k \in DOMAIN list
  BY ListCarried, Zenon DEF Carried, EntryOf
<1>2. /\ places'[b][u] = sdw_compute_port_params(list, freq, k)
      /\ r.ch = R.ch /\ r.ports = R.ports /\ r.mirror = (u \in Playback)
      /\ r.slaves = [j \in DOMAIN R.slaves |-> R.slaves[j].ports]
      /\ Len(r.slaves) = Len(R.slaves)
  BY Zenon DEF EntryOf
<1>3. r.ports = <<r.ch>>
  BY <1>2, Zenon DEF OnePort
<1> HIDE DEF list, freq
<1>4. CASE p \in places'[b][u].master
  <2>1. p \in sdw_compute_port_params(list, freq, k).master
    BY <1>2, <1>4, Zenon
  <2> QED
    BY <1>1, <1>3, <2>1, MasterBlock, Zenon DEF list, OwnBlock
<1>5. CASE p \in places'[b][u].slave /\ Mirrored(u, b)'
  <2>1. /\ \A j \in DOMAIN R.slaves : R.slaves[j].ports \in {<<>>, <<R.ch>>}
        /\ u \in Playback \/ Len(R.slaves) <= 1
    BY <1>5, Zenon DEF Mirrored
  <2>2. \A j \in DOMAIN r.slaves : r.slaves[j] \in {<<>>, <<r.ch>>}
    BY <1>2, <2>1, Zenon
  <2>3. OneBlock(r)
    BY <1>2, <1>3, <2>1, <2>2, Zenon DEF OneBlock
  <2>4. p \in sdw_compute_port_params(list, freq, k).slave
    BY <1>2, <1>5, Zenon
  <2> QED
    BY <1>1, <2>3, <2>4, SlaveBlock, Zenon DEF list, OwnBlock
<1> QED
  BY <1>4, <1>5, Zenon DEF Held

\* After sdw_compute_params no two streams on the bus are in each other's way.
LEMMA FreshOnBus ==
  ASSUME Data, RateFits, NEW b \in Bus, NEW bw, Recomputed(b, bw),
         NEW s \in Stream, NEW t \in Stream
  PROVE  OnBus(b, s, t)'
<1> DEFINE list == ListOf(b)  freq == sdw_compute_bus_params(bw)
<1>1. Fits(bw) /\ sdw_compute_group_params(list, freq)
  BY Zenon DEF Recomputed, ComputeOk
<1>2. Carried(list, freq) /\ list \in Seq(Runtime)
  BY <1>1, ListCarried, Zenon DEF Carried
<1>3. ASSUME Placed(s, b)', Placed(t, b)'
      PROVE  \E k, m : EntryOf(list, freq, b, s, k) /\ EntryOf(list, freq, b, t, m)
  BY <1>3, HasEntry, Zenon
<1>4. SlotsOf(b, s, t)'
  <2> SUFFICES ASSUME s # t, Placed(s, b)', OnePort(s, b)', Placed(t, b)',
                      OnePort(t, b)', NEW p \in Held(s, b)', NEW q \in Held(t, b)'
               PROVE  BitsApart(p, q)
    BY Zenon DEF SlotsOf, BitsApart
  <2>1. PICK k, m : EntryOf(list, freq, b, s, k) /\ EntryOf(list, freq, b, t, m)
    BY <1>3, Zenon
  <2>2. k \in DOMAIN list /\ m \in DOMAIN list /\ k # m
    BY <2>1, Zenon DEF EntryOf
  <2>3. OwnBlock(p, list, k)
    BY <1>1, <2>1, HoldsBlock, Zenon
  <2>4. OwnBlock(q, list, m)
    BY <1>1, <2>1, HoldsBlock, Zenon
  <2> HIDE DEF list
  <2> QED
    BY <1>2, <2>2, <2>3, <2>4, BlocksApart, Zenon DEF BitsApart, OwnBlock
<1>5. ColumnsOfBoth(b, s, t)'
  <2> SUFFICES ASSUME Placed(s, b)', Placed(t, b)', NEW p \in Ports(s, b)'
               PROVE  /\ 1 <= p.hstart /\ p.hstop <= Cols - 1
                      /\ params'[s].rate # params'[t].rate
                         => \A q \in Ports(t, b)' : ColumnsApart(p, q)
    BY Zenon DEF ColumnsOfBoth, ColumnsApart
  <2>1. PICK k, m : EntryOf(list, freq, b, s, k) /\ EntryOf(list, freq, b, t, m)
    BY <1>3, Zenon
  <2>2. /\ k \in DOMAIN list /\ m \in DOMAIN list
        /\ list[k].rate = params'[s].rate /\ list[m].rate = params'[t].rate
        /\ places'[b][s] = sdw_compute_port_params(list, freq, k)
        /\ places'[b][t] = sdw_compute_port_params(list, freq, m)
    BY <2>1, Zenon DEF EntryOf
  <2> HIDE DEF list, freq
  <2> DEFINE last(r) == Hstop(list, freq, r)
             first(r) == last(r) - hwidth(list, freq, r) + 1
  <2>3. /\ 1 <= first(list[k].rate) /\ last(list[k].rate) <= Cols - 1
        /\ list[k].rate # list[m].rate =>
              \/ last(list[k].rate) < first(list[m].rate)
              \/ last(list[m].rate) < first(list[k].rate)
    BY <1>1, <1>2, <2>2, ColumnsDisjoint, Zenon
  <2>4. p.hstop = last(list[k].rate) /\ p.hstart = first(list[k].rate)
    <3>1. p \in AllPorts(sdw_compute_port_params(list, freq, k))
      BY <2>2, Zenon DEF Ports
    <3> QED
      BY <3>1, PortsInColumns, Zenon
  <2>5. ASSUME NEW q \in Ports(t, b)'
        PROVE  q.hstop = last(list[m].rate) /\ q.hstart = first(list[m].rate)
    <3>1. q \in AllPorts(sdw_compute_port_params(list, freq, m))
      BY <2>2, Zenon DEF Ports
    <3> QED
      BY <3>1, PortsInColumns, Zenon
  <2> HIDE DEF first, last
  <2> QED
    BY <2>2, <2>3, <2>4, <2>5, Zenon DEF ColumnsApart
<1> QED
  BY <1>4, <1>5, Zenon DEF OnBus


-------------------------------------------------------------------------------
(* The inductive invariant *)

PlacesAt(p) == DOMAIN p = Bus /\ \A b \in Bus : DOMAIN p[b] = Stream

SlotInv ==
  /\ RateFits /\ PlacesAt(places)
  /\ \A b \in Bus : \A s, t \in Stream : OnBus(b, s, t)

\* What a prepared stream has on a bus after a step, it had before.
Kept(b, u) ==
  Placed(u, b)' =>
    /\ Placed(u, b) /\ places'[b][u] = places[b][u]
    /\ params'[u].rate = params[u].rate
    /\ rt'[u][b].ports = rt[u][b].ports /\ rt'[u][b].ch = rt[u][b].ch
    /\ be'[u] = "PREPARE" => be[u] = "PREPARE" /\ rt'[u][b] = rt[u][b]

\* A step leaves the places of a bus, or computes all of them together.
Moved ==
  \A b \in Bus : (\A u \in Stream : Kept(b, u)) \/ (\E bw : Recomputed(b, bw))

LEMMA KeptOnBus ==
  ASSUME NEW b \in Bus, NEW s \in Stream, NEW t \in Stream, OnBus(b, s, t),
         Kept(b, s), Kept(b, t)
  PROVE  OnBus(b, s, t)'
<1>1. SlotsOf(b, s, t)'
  <2> SUFFICES ASSUME s # t, Placed(s, b)', OnePort(s, b)', Placed(t, b)',
                      OnePort(t, b)'
               PROVE  \A p \in Held(s, b)', q \in Held(t, b)' : BitsApart(p, q)
    BY Zenon DEF SlotsOf, BitsApart
  <2>1. /\ Placed(s, b) /\ OnePort(s, b) /\ Placed(t, b) /\ OnePort(t, b)
    BY Zenon DEF Kept, OnePort
  <2>2. \A p \in Held(s, b)' : p \in Held(s, b)
    BY Zenon DEF Kept, Held, Mirrored
  <2>3. \A q \in Held(t, b)' : q \in Held(t, b)
    BY Zenon DEF Kept, Held, Mirrored
  <2>4. \A p \in Held(s, b), q \in Held(t, b) : BitsApart(p, q)
    BY <2>1, Zenon DEF OnBus, SlotsOf
  <2> QED
    BY <2>2, <2>3, <2>4, Zenon
<1>2. ColumnsOfBoth(b, s, t)'
  <2> SUFFICES ASSUME Placed(s, b)', Placed(t, b)'
               PROVE  (\A p \in Ports(s, b) :
                         /\ 1 <= p.hstart /\ p.hstop <= Cols - 1
                         /\ params[s].rate # params[t].rate
                            => \A q \in Ports(t, b) : ColumnsApart(p, q))'
    BY Zenon DEF ColumnsOfBoth
  <2>1. /\ Placed(s, b) /\ Placed(t, b)
        /\ params'[s].rate = params[s].rate /\ params'[t].rate = params[t].rate
        /\ Ports(s, b)' = Ports(s, b) /\ Ports(t, b)' = Ports(t, b)
    BY Zenon DEF Kept, Ports
  <2>2. \A p \in Ports(s, b) :
          /\ 1 <= p.hstart /\ p.hstop <= Cols - 1
          /\ params[s].rate # params[t].rate
             => \A q \in Ports(t, b) : ColumnsApart(p, q)
    BY <2>1, Zenon DEF OnBus, ColumnsOfBoth
  <2> QED
    BY <2>1, <2>2, Zenon DEF ColumnsApart
<1> QED
  BY <1>1, <1>2, Zenon DEF OnBus

LEMMA MovedKeeps ==
  ASSUME Data, SlotInv, Moved, RateFits', PlacesAt(places)'
  PROVE  SlotInv'
<1>1. ASSUME NEW b \in Bus, NEW s \in Stream, NEW t \in Stream
      PROVE  OnBus(b, s, t)'
  <2>1. OnBus(b, s, t) /\ RateFits
    BY Zenon DEF SlotInv
  <2>2. CASE \A u \in Stream : Kept(b, u)
    BY <2>1, <2>2, KeptOnBus, Zenon
  <2>3. CASE \E bw : Recomputed(b, bw)
    BY <2>1, <2>3, FreshOnBus, Zenon
  <2> QED
    BY <2>2, <2>3, Zenon DEF Moved
<1> QED
  BY <1>1, Zenon DEF SlotInv

\* A step of s leaves the runtimes of the other streams.
Alone(s) ==
  /\ OnlyOf(s) /\ ControlOnly(s)
  /\ \A t \in Stream \ {s} : rt'[t] = rt[t]

LEMMA OthersKept ==
  ASSUME NEW s \in Stream, Alone(s), NEW t \in Stream \ {s}, NEW b \in Bus,
         places'[b][t] = places[b][t]
  PROVE  Kept(b, t)
BY Zenon DEF Alone, OnlyOf, ControlOnly, Kept, Placed

LEMMA AloneMoves ==
  ASSUME NEW s \in Stream, Alone(s), \A b \in Bus : Kept(b, s),
         \A b \in Bus : \A t \in Stream \ {s} : places'[b][t] = places[b][t]
  PROVE  Moved
<1>1. ASSUME NEW b \in Bus, NEW u \in Stream PROVE Kept(b, u)
  <2>1. CASE u = s
    BY <2>1, Zenon
  <2>2. CASE u # s
    BY <2>2, OthersKept, Zenon
  <2> QED
    BY <2>1, <2>2, Zenon
<1> QED
  BY <1>1, Zenon DEF Moved

\* A stream that is not prepared after the step has nothing to keep.
LEMMA NotPrepared ==
  ASSUME NEW s \in Stream, state'[s] # "PREPARED"
  PROVE  \A b \in Bus : Kept(b, s)
BY Zenon DEF Kept, Placed

\* sdw_release_master_stream.
LEMMA ReleaseMoves ==
  ASSUME Data, NEW s \in Stream, NEW b \in Bus, NEW p, PlacesAt(p),
         sdw_release_master_stream(s, b, p)
  PROVE  /\ PlacesAt(places')
         /\ \A t \in Stream \ {s} : rt'[t] = rt[t] /\ master_list'[t] = master_list[t]
         /\ \A c \in Bus : \A t \in Stream : t # s \/ c # b =>
              places'[c][t] = p[c][t] /\ rt'[t][c] = rt[t][c]
         /\ \A c \in Bus : c \in Range(master_list'[s]) =>
              c # b /\ c \in Range(master_list[s])
<1>1. /\ master_list' = [master_list EXCEPT ![s] = list_del(master_list[s], b)]
      /\ rt' = [rt EXCEPT ![s][b] = NoRt]
      /\ places' = [p EXCEPT ![b][s] = NoPlaces]
  BY Zenon DEF sdw_release_master_stream
<1>2. /\ master_list \in [Stream -> Seq(Bus)] /\ rt \in [Stream -> [Bus -> MasterRt]]
      /\ master_list[s] \in Seq(Bus) /\ IsInjective(master_list[s])
  BY Zenon DEF Data, DataTypes, ListTypes, Lists
<1>3. PlacesAt(places')
  BY <1>1, Zenon DEF PlacesAt
<1>4. ASSUME NEW c \in Bus, NEW t \in Stream, t # s \/ c # b
      PROVE  places'[c][t] = p[c][t] /\ rt'[t][c] = rt[t][c]
  <2>1. rt'[t][c] = rt[t][c]
    BY <1>1, <1>2, <1>4, Zenon
  <2>2. places'[c][t] = p[c][t]
    BY <1>1, <1>4, Zenon DEF PlacesAt
  <2> QED
    BY <2>1, <2>2, Zenon
<1>5. \A t \in Stream \ {s} : rt'[t] = rt[t] /\ master_list'[t] = master_list[t]
  BY <1>1, <1>2, Zenon
<1>6. master_list'[s] = list_del(master_list[s], b)
  BY <1>1, <1>2, Zenon
<1>7. \A x : x \in Range(list_del(master_list[s], b))
               <=> x \in Range(master_list[s]) /\ x # b
  BY <1>2, DelList, Zenon
<1> QED
  BY <1>3, <1>4, <1>5, <1>6, <1>7, Zenon


\* The hw_params of a call keep every rate within the clocks.
LEMMA ConfigFits ==
  ASSUME Data, RateFits, NEW s \in Stream, NEW c \in Configs,
         sdw_config_stream(s, c)
  PROVE  /\ RateFits' /\ params'[s].rate = c.rate
         /\ \A t \in Stream \ {s} : params'[t] = params[t]
<1>1. \A i \in DOMAIN ClkFreq : c.rate <= ClkFreq[i]
  BY RuntimeAssumption, Zenon DEF Configs
<1>2. params' = [params EXCEPT ![s] = [rate |-> c.rate, bps |-> c.bps]]
  BY Zenon DEF sdw_config_stream
<1>3. params'[s] = [rate |-> c.rate, bps |-> c.bps]
  BY <1>2, Zenon DEF Data, DataTypes
<1>4. params'[s].rate = c.rate
  BY <1>3
<1>5. \A t \in Stream \ {s} : params'[t] = params[t]
  BY <1>2, Zenon DEF Data, DataTypes
<1>6. ASSUME NEW t \in Stream, NEW i \in DOMAIN ClkFreq
      PROVE  params'[t].rate <= ClkFreq[i]
  BY <1>1, <1>4, <1>5, Zenon DEF RateFits
<1> QED
  BY <1>4, <1>5, <1>6, Zenon DEF RateFits

\* An error path of add_slave or add_master: the runtime on b goes.  A stream
\* that still has others does not change its rate.
LEMMA ErrMoves ==
  ASSUME Data, SlotInv, NEW s \in Stream, NEW b \in Bus, NEW c \in Configs,
         sdw_release_master_stream(s, b, places),
         params' = params \/ (Matches(s, c) /\ sdw_config_stream(s, c)),
         state' = state, m_rt_count' = m_rt_count, ControlOnly(s),
         be'[s] # "PREPARE"
  PROVE  Moved /\ RateFits' /\ PlacesAt(places)'
<1>1. PlacesAt(places) /\ RateFits
  BY Zenon DEF SlotInv
<1>2. /\ PlacesAt(places')
      /\ \A t \in Stream \ {s} : rt'[t] = rt[t] /\ master_list'[t] = master_list[t]
      /\ \A d \in Bus : \A t \in Stream : t # s \/ d # b =>
           places'[d][t] = places[d][t] /\ rt'[t][d] = rt[t][d]
      /\ \A d \in Bus : d \in Range(master_list'[s]) =>
           d # b /\ d \in Range(master_list[s])
  BY <1>1, ReleaseMoves, Zenon
<1>3. RateFits' /\ \A t \in Stream \ {s} : params'[t] = params[t]
  BY <1>1, ConfigFits, Zenon DEF RateFits
<1>4. ASSUME NEW d \in Bus, d \in Range(master_list[s])
      PROVE  params'[s].rate = params[s].rate
  <2>1. params[s].rate > 0 /\ params[s].rate \in Nat
    BY <1>4, Zenon DEF Data, DataTypes, RatedAt
  <2>2. params[s].rate # 0
    BY <2>1
  <2>3. Matches(s, c) => params[s].rate = c.rate
    BY <2>2, Zenon DEF Matches
  <2> QED
    BY <1>1, <2>3, ConfigFits, Zenon
<1>5. Alone(s)
  BY <1>2, <1>3, Zenon DEF Alone, OnlyOf
<1>6. ASSUME NEW d \in Bus PROVE Kept(d, s)
  BY <1>2, <1>4, Zenon DEF Kept, Placed
<1>7. Moved
  BY <1>2, <1>5, <1>6, AloneMoves, Zenon
<1> QED
  BY <1>2, <1>3, <1>7, Zenon

\* A step that leaves the lists, the parameters and the places.
LEMMA SameMoves ==
  ASSUME Data, SlotInv, NEW s \in Stream, ControlOnly(s), params' = params,
         UNCHANGED <<lists, places>>,
         \A t \in Stream \ {s} : /\ state'[t] = state[t]
                                 /\ m_rt_count'[t] = m_rt_count[t],
         state'[s] = "PREPARED" => state[s] = "PREPARED",
         be'[s] = "PREPARE" => be[s] = "PREPARE"
  PROVE  Moved /\ RateFits' /\ PlacesAt(places)'
<1>1. Alone(s)
  BY Zenon DEF Alone, OnlyOf, lists
<1>2. ASSUME NEW b \in Bus PROVE Kept(b, s)
  BY Zenon DEF Kept, Placed, lists
<1>3. Moved
  BY <1>1, <1>2, AloneMoves, Zenon
<1>4. RateFits' /\ PlacesAt(places)'
  BY Zenon DEF SlotInv, RateFits, PlacesAt
<1> QED
  BY <1>3, <1>4, Zenon

\* sdw_compute_params over the buses of a stream: a bus is left, or all of its
\* runtimes get their places together.  If every bus fits, none of the buses of
\* the stream is left.
LeftOrComputed(b, s, sign) ==
  \/ /\ NewPlaces(s, sign)[b] = places[b]
     /\ AllFit(s, sign) => b \notin Range(master_list[s])
  \/ \E bw : ComputeOk(b, bw) /\ NewPlaces(s, sign)[b] = Computed(b, bw)

LEMMA NewPlacesFacts ==
  ASSUME Data, PlacesAt(places), NEW s \in Stream, NEW sign
  PROVE  PlacesAt(NewPlaces(s, sign)) /\ \A b \in Bus : LeftOrComputed(b, s, sign)
<1> DEFINE l == master_list[s]
           Hit(b) == \E i \in Done(s, sign) : l[i] = b
<1>1. ASSUME NEW b \in Bus
      PROVE  NewPlaces(s, sign)[b] =
               IF Hit(b) THEN Computed(b, Changed(s, sign, b)) ELSE places[b]
  BY Zenon DEF NewPlaces
<1>2. DOMAIN NewPlaces(s, sign) = Bus
  BY Zenon DEF NewPlaces
<1>3. ASSUME NEW b \in Bus PROVE DOMAIN NewPlaces(s, sign)[b] = Stream
  <2>1. DOMAIN Computed(b, Changed(s, sign, b)) = Stream
    BY Zenon DEF Computed
  <2> QED
    BY <1>1, <2>1, Zenon DEF PlacesAt
<1>4. ASSUME NEW b \in Bus, Hit(b) PROVE ComputeOk(b, Changed(s, sign, b))
  <2>1. PICK i \in Done(s, sign) : l[i] = b
    BY <1>4, Zenon
  <2>2. i \in DOMAIN l /\ \A j \in 1 .. i : ComputeOk(l[j], Changed(s, sign, l[j]))
    BY <2>1, Zenon DEF Done
  <2>3. i \in 1 .. i
    BY <2>2, LenProperties DEF Data, DataTypes, ListTypes
  <2> QED
    BY <2>1, <2>2, <2>3, Zenon
<1>5. ASSUME NEW b \in Bus, ~Hit(b), AllFit(s, sign) PROVE b \notin Range(l)
  BY <1>5, Zenon DEF AllFit, Range
<1>6. ASSUME NEW b \in Bus PROVE LeftOrComputed(b, s, sign)
  BY <1>1, <1>4, <1>5, Zenon DEF LeftOrComputed
<1> QED
  BY <1>2, <1>3, <1>6, Zenon DEF PlacesAt


LEMMA GoAlone ==
  ASSUME ControlTypes, NEW s \in Stream, NEW to, NEW i, Go(s, to, i)
  PROVE  ControlOnly(s) /\ be'[s] = to
<1>1. /\ be' = [be EXCEPT ![s] = to] /\ at' = [at EXCEPT ![s] = i]
      /\ \/ /\ want' = [want EXCEPT ![s] = NoWant]
            /\ from' = [from EXCEPT ![s] = "OPEN"]
         \/ want' = want /\ from' = from
  BY Zenon DEF Go
<1> QED
  BY <1>1, Zenon DEF ControlTypes, ControlOnly

LEMMA StartupMoves ==
  ASSUME IInv, SlotInv, NEW s \in Stream, Startup(s)
  PROVE  Moved /\ RateFits' /\ PlacesAt(places)'
<1>1. /\ Go(s, "OPEN", 1) /\ state' = [state EXCEPT ![s] = "ALLOCATED"]
      /\ params' = [params EXCEPT ![s] = NoParams]
      /\ m_rt_count' = [m_rt_count EXCEPT ![s] = 0]
      /\ lists' = lists /\ places' = places
  BY Zenon DEF Startup
<1>2. ControlOnly(s)
  BY <1>1, GoAlone, Zenon DEF IInv
<1>3. Alone(s) /\ state'[s] # "PREPARED"
  BY <1>1, <1>2, Zenon DEF Alone, OnlyOf, lists, IInv, Data, DataTypes
<1>4. Moved
  BY <1>1, <1>3, NotPrepared, AloneMoves, Zenon
<1>5. ASSUME NEW t \in Stream, NEW i \in DOMAIN ClkFreq
      PROVE  params'[t].rate <= ClkFreq[i]
  <2>1. CASE t = s
    <3>1. params'[s] = NoParams
      BY <1>1, Zenon DEF IInv, Data, DataTypes
    <3>2. params'[s].rate = 0
      BY <3>1 DEF NoParams
    <3>3. ClkFreq[i] \in Nat
      BY ClockAssumption
    <3> QED
      BY <2>1, <3>2, <3>3
  <2>2. CASE t # s
    BY <1>1, <2>2, Zenon DEF SlotInv, RateFits, IInv, Data, DataTypes
  <2> QED
    BY <2>1, <2>2, Zenon
<1> QED
  BY <1>1, <1>4, <1>5, Zenon DEF RateFits, PlacesAt, SlotInv

LEMMA HwParamsMoves ==
  ASSUME IInv, SlotInv, NEW s \in Stream, NEW c, HwParams(s, c)
  PROVE  Moved /\ RateFits' /\ PlacesAt(places)'
<1>1. /\ be' = [be EXCEPT ![s] = "codec"] /\ at' = [at EXCEPT ![s] = 1]
      /\ want' = [want EXCEPT ![s] = c] /\ from' = [from EXCEPT ![s] = be[s]]
      /\ UNCHANGED <<state, params, m_rt_count, lists, places>>
  BY Zenon DEF HwParams
<1>2. ControlOnly(s) /\ be'[s] = "codec"
  BY <1>1, Zenon DEF ControlOnly, IInv, ControlTypes
<1> QED
  BY <1>1, <1>2, SameMoves, Zenon DEF IInv

LEMMA HwParamsCodecMoves ==
  ASSUME IInv, SlotInv, NEW s \in Stream, HwParamsCodec(s)
  PROVE  Moved /\ RateFits' /\ PlacesAt(places)'
<1> DEFINE x == Codecs[s][at[s]]  b == BusOf[x]  c == want[s]
<1>1. be[s] = "codec" /\ ControlAt(s) /\ Data /\ RateFits
  BY Zenon DEF HwParamsCodec, IInv, SlotInv
<1>2. want[s] \in Configs /\ b \in Bus
  <2>1. at[s] \in 1 .. Len(Codecs[s]) /\ want[s] \in Configs
    BY <1>1, Zenon DEF ControlAt
  <2> QED
    BY <2>1, CardFacts, Zenon DEF IInv
<1>3. ControlOnly(s) /\ be'[s] # "PREPARE"
  <2>1. \E i : \E to \in {"cpu", "codec", "undo_codec"} : Go(s, to, i)
    BY Zenon DEF HwParamsCodec
  <2>2. ControlOnly(s) /\ be'[s] \in {"cpu", "codec", "undo_codec"}
    BY <2>1, GoAlone, Zenon DEF IInv
  <2> QED
    BY <2>2, Zenon
<1>4. CASE sdw_stream_add_slave(s, x)
  <2>1. /\ \E r : With(s, b, r)
        /\ sdw_config_stream(s, c) /\ state' = [state EXCEPT ![s] = "CONFIGURED"]
        /\ m_rt_count' = m_rt_count /\ places' = places
    BY <1>4, Zenon DEF sdw_stream_add_slave
  <2>2. \A t \in Stream \ {s} : rt'[t] = rt[t] /\ master_list'[t] = master_list[t]
    BY <1>1, <2>1, Zenon DEF With, Data, DataTypes, ListTypes
  <2>3. RateFits' /\ \A t \in Stream \ {s} : params'[t] = params[t]
    BY <1>1, <1>2, <2>1, ConfigFits, Zenon
  <2>4. /\ state'[s] = "CONFIGURED"
        /\ \A t \in Stream \ {s} : state'[t] = state[t]
    BY <1>1, <2>1, Zenon DEF Data, DataTypes
  <2>5. Alone(s)
    BY <1>3, <2>1, <2>2, <2>3, <2>4, Zenon DEF Alone, OnlyOf
  <2>6. state'[s] # "PREPARED"
    BY <2>4, Zenon
  <2>7. Moved
    BY <2>1, <2>5, <2>6, NotPrepared, AloneMoves, Zenon
  <2> QED
    BY <2>1, <2>3, <2>7, Zenon DEF SlotInv, PlacesAt
<1>5. CASE sdw_stream_add_slave_err(s, x)
  <2>1. state' = state /\ m_rt_count' = m_rt_count
    BY <1>5, Zenon DEF sdw_stream_add_slave_err
  <2>2. CASE UNCHANGED <<lists, params, places>>
    BY <1>1, <1>3, <2>1, <2>2, SameMoves, Zenon
  <2>3. CASE /\ sdw_release_master_stream(s, b, places)
             /\ params' = params \/ (Matches(s, c) /\ sdw_config_stream(s, c))
    BY <1>1, <1>2, <1>3, <2>1, <2>3, ErrMoves, Zenon
  <2> QED
    BY <1>5, <2>2, <2>3, Zenon DEF sdw_stream_add_slave_err
<1> QED
  BY <1>4, <1>5, Zenon DEF HwParamsCodec

LEMMA HwParamsCpuMoves ==
  ASSUME IInv, SlotInv, NEW s \in Stream, HwParamsCpu(s)
  PROVE  Moved /\ RateFits' /\ PlacesAt(places)'
<1> DEFINE b == Cpus[s][at[s]]  c == want[s]
<1>1. be[s] = "cpu" /\ ControlAt(s) /\ Data /\ RateFits
  BY Zenon DEF HwParamsCpu, IInv, SlotInv
<1>2. want[s] \in Configs /\ b \in Bus /\ state[s] = "CONFIGURED"
  <2>1. /\ at[s] \in 1 .. Len(Cpus[s]) /\ want[s] \in Configs
        /\ state[s] = "CONFIGURED"
    BY <1>1, Zenon DEF ControlAt
  <2> QED
    BY <2>1, CardFacts, Zenon DEF IInv
<1>3. ControlOnly(s) /\ be'[s] # "PREPARE"
  <2>1. \E i : \E to \in {"cpu", "HW_PARAMS", "undo_cpu", "undo_codec"} : Go(s, to, i)
    BY Zenon DEF HwParamsCpu
  <2>2. ControlOnly(s) /\ be'[s] \in {"cpu", "HW_PARAMS", "undo_cpu", "undo_codec"}
    BY <2>1, GoAlone, Zenon DEF IInv
  <2> QED
    BY <2>2, Zenon
<1>4. CASE sdw_stream_add_master(s, b)
  <2>1. /\ \E r : With(s, b, r)
        /\ sdw_config_stream(s, c) /\ state' = state
        /\ \E n : m_rt_count' = [m_rt_count EXCEPT ![s] = n]
        /\ places' = places
    BY <1>4, Zenon DEF sdw_stream_add_master
  <2>2. \A t \in Stream \ {s} : rt'[t] = rt[t] /\ master_list'[t] = master_list[t]
    BY <1>1, <2>1, Zenon DEF With, Data, DataTypes, ListTypes
  <2>3. RateFits' /\ \A t \in Stream \ {s} : params'[t] = params[t]
    BY <1>1, <1>2, <2>1, ConfigFits, Zenon
  <2>4. \A t \in Stream \ {s} : m_rt_count'[t] = m_rt_count[t]
    BY <1>1, <2>1, Zenon DEF Data, DataTypes
  <2>5. Alone(s)
    BY <1>3, <2>1, <2>2, <2>3, <2>4, Zenon DEF Alone, OnlyOf
  <2>6. state'[s] # "PREPARED"
    BY <1>2, <2>1, Zenon
  <2>7. Moved
    BY <2>1, <2>5, <2>6, NotPrepared, AloneMoves, Zenon
  <2> QED
    BY <2>1, <2>3, <2>7, Zenon DEF SlotInv, PlacesAt
<1>5. CASE sdw_stream_add_master_err(s, b)
  <2>1. state' = state /\ m_rt_count' = m_rt_count
    BY <1>5, Zenon DEF sdw_stream_add_master_err
  <2>2. CASE UNCHANGED <<lists, params, places>>
    BY <1>1, <1>3, <2>1, <2>2, SameMoves, Zenon
  <2>3. CASE /\ sdw_release_master_stream(s, b, places)
             /\ params' = params \/ (Matches(s, c) /\ sdw_config_stream(s, c))
    BY <1>1, <1>2, <1>3, <2>1, <2>3, ErrMoves, Zenon
  <2> QED
    BY <1>5, <2>2, <2>3, Zenon DEF sdw_stream_add_master_err
<1> QED
  BY <1>4, <1>5, Zenon DEF HwParamsCpu


\* intel_hw_free, in a loop over the CPU DAIs.
LEMMA IntelHwFreeMoves ==
  ASSUME IInv, SlotInv, NEW s \in Stream, NEW b \in Bus, params' = params,
         ControlOnly(s), be'[s] # "PREPARE", intel_hw_free(s, b)
  PROVE  Moved /\ RateFits' /\ PlacesAt(places)'
<1>1. Data /\ PlacesAt(places) /\ RateFits
  BY Zenon DEF IInv, SlotInv
<1>2. RateFits'
  BY <1>1, Zenon DEF RateFits
<1> DEFINE P == NewPlaces(s, -1)
<1>3. /\ PlacesAt(P)
      /\ \A d \in Bus :
           P[d] = places[d] \/ \E bw : ComputeOk(d, bw) /\ P[d] = Computed(d, bw)
  <2>1. PlacesAt(NewPlaces(s, -1)) /\ \A d \in Bus : LeftOrComputed(d, s, -1)
    BY <1>1, NewPlacesFacts, Zenon
  <2> QED
    BY <2>1, Zenon DEF LeftOrComputed
<1> HIDE DEF P
\* The runtime on b goes, from places p on.
<1>4. ASSUME NEW p, PlacesAt(p), sdw_stream_remove_master(s, b, "DEPREPARED", p),
             \A d \in Bus :
               p[d] = places[d] \/ \E bw : ComputeOk(d, bw) /\ p[d] = Computed(d, bw)
      PROVE  Moved /\ PlacesAt(places)'
  <2>0. sdw_release_master_stream(s, b, p) /\ PlacesAt(p)
    BY <1>4, Zenon DEF sdw_stream_remove_master
  <2>1. /\ \E n : m_rt_count' = [m_rt_count EXCEPT ![s] = n]
        /\ \E st \in {"RELEASED", "DEPREPARED"} : state' = [state EXCEPT ![s] = st]
    BY <1>4, Zenon DEF sdw_stream_remove_master
  <2>2. /\ PlacesAt(places')
        /\ \A t \in Stream \ {s} : rt'[t] = rt[t] /\ master_list'[t] = master_list[t]
        /\ \A d \in Bus : \A t \in Stream \ {s} : places'[d][t] = p[d][t]
    <3>1. \A d \in Bus : \A t \in Stream : t # s \/ d # b =>
            places'[d][t] = p[d][t] /\ rt'[t][d] = rt[t][d]
      BY <1>1, <2>0, ReleaseMoves, Zenon
    <3>2. /\ PlacesAt(places')
          /\ \A t \in Stream \ {s} : rt'[t] = rt[t] /\ master_list'[t] = master_list[t]
      BY <1>1, <2>0, ReleaseMoves, Zenon
    <3> QED
      BY <3>1, <3>2, Zenon
  <2>3. /\ state'[s] \in {"RELEASED", "DEPREPARED"}
        /\ \A t \in Stream \ {s} :
             state'[t] = state[t] /\ m_rt_count'[t] = m_rt_count[t]
    BY <1>1, <2>1, Zenon DEF Data, DataTypes
  <2>4. state'[s] # "PREPARED"
    BY <2>3, Zenon
  <2>5. Alone(s)
    BY <2>2, <2>3, Zenon DEF Alone, OnlyOf
  <2>6. ASSUME NEW d \in Bus
        PROVE  (\A u \in Stream : Kept(d, u)) \/ (\E bw : Recomputed(d, bw))
    <3>1. CASE p[d] = places[d]
      <4>1. ASSUME NEW u \in Stream PROVE Kept(d, u)
        <5>1. CASE u = s
          BY <2>4, <5>1, NotPrepared, Zenon
        <5>2. CASE u # s
          <6>1. u \in Stream \ {s} /\ places'[d][u] = places[d][u]
            BY <2>2, <3>1, <5>2, Zenon
          <6> QED
            BY <2>5, <6>1, OthersKept, Zenon
        <5> QED
          BY <5>1, <5>2, Zenon
      <4> QED
        BY <4>1, Zenon
    <3>2. ASSUME NEW bw, ComputeOk(d, bw), p[d] = Computed(d, bw)
          PROVE  Recomputed(d, bw)
      <4>1. ASSUME NEW u \in Stream, Placed(u, d)'
            PROVE  /\ d \in Range(master_list[u])
                   /\ places'[d][u] = Computed(d, bw)[u]
                   /\ rt'[u][d] = rt[u][d] /\ params'[u] = params[u]
        <5>1. u \in Stream \ {s} /\ d \in Range(master_list'[u])
          BY <2>4, <4>1, Zenon DEF Placed
        <5> QED
          BY <2>2, <3>2, <5>1, Zenon
      <4> QED
        BY <3>2, <4>1, Zenon DEF Recomputed
    <3> QED
      BY <1>4, <3>1, <3>2, Zenon
  <2>7. Moved
    BY <2>6, Zenon DEF Moved
  <2> QED
    BY <2>2, <2>7, Zenon
<1>5. CASE /\ state[s] = "PREPARED" /\ places' = P
           /\ UNCHANGED <<state, m_rt_count, lists>>
  <2>1. Alone(s)
    BY <1>5, Zenon DEF Alone, OnlyOf, lists
  <2>2. ASSUME NEW d \in Bus
        PROVE  (\A u \in Stream : Kept(d, u)) \/ (\E bw : Recomputed(d, bw))
    <3>1. CASE P[d] = places[d]
      BY <1>5, <3>1, Zenon DEF Kept, Placed, lists, ControlOnly
    <3>2. ASSUME NEW bw, ComputeOk(d, bw), P[d] = Computed(d, bw)
          PROVE  Recomputed(d, bw)
      BY <1>5, <3>2, Zenon DEF Recomputed, Placed, lists
    <3> QED
      BY <1>3, <3>1, <3>2, Zenon
  <2>3. Moved
    BY <2>2, Zenon DEF Moved
  <2>4. PlacesAt(places)'
    BY <1>3, <1>5, Zenon DEF PlacesAt
  <2> QED
    BY <1>2, <2>3, <2>4, Zenon
<1>6. CASE UNCHANGED <<state, m_rt_count, lists, places>>
  BY <1>1, <1>6, SameMoves, Zenon
<1>7. CASE sdw_stream_remove_master(s, b, "DEPREPARED", P)
  BY <1>2, <1>3, <1>4, <1>7, Zenon
<1>8. CASE sdw_stream_remove_master(s, b, "DEPREPARED", places)
  BY <1>1, <1>2, <1>4, <1>8, Zenon
<1> QED
  BY <1>2, <1>5, <1>6, <1>7, <1>8, Zenon DEF intel_hw_free, P

\* sdw_stream_remove_slave: only the slaves of a runtime change.
LEMMA RemoveSlaveMoves ==
  ASSUME IInv, SlotInv, NEW s \in Stream, NEW i \in 1 .. Len(Codecs[s]),
         sdw_stream_remove_slave(s, Codecs[s][i]), ControlOnly(s),
         be'[s] # "PREPARE",
         UNCHANGED <<params, state, m_rt_count, master_list, m_rt_list, places>>
  PROVE  Moved /\ RateFits' /\ PlacesAt(places)'
<1> DEFINE b == BusOf[Codecs[s][i]]
           e == sdw_release_slave_stream(rt[s][b].slaves, Codecs[s][i])
<1>1. b \in Bus /\ rt \in [Stream -> [Bus -> MasterRt]]
  BY CardFacts, Zenon DEF IInv, Data, DataTypes, ListTypes
<1>2. rt' = [rt EXCEPT ![s][b].slaves = e]
  BY Zenon DEF sdw_stream_remove_slave
<1> HIDE DEF b, e
<1>3. \A t \in Stream \ {s} : rt'[t] = rt[t]
  BY <1>1, <1>2, Zenon
<1>4. ASSUME NEW d \in Bus
      PROVE  rt'[s][d].ports = rt[s][d].ports /\ rt'[s][d].ch = rt[s][d].ch
  <2>1. CASE d # b
    BY <1>1, <1>2, <2>1, Zenon
  <2>2. CASE d = b
    <3>1. rt'[s][b] = [rt[s][b] EXCEPT !.slaves = e] /\ rt[s][b] \in MasterRt
      BY <1>1, <1>2, Zenon
    <3>2. rt'[s][b].ports = rt[s][b].ports /\ rt'[s][b].ch = rt[s][b].ch
      BY <3>1, Zenon DEF MasterRt
    <3> QED
      BY <2>2, <3>2, Zenon
  <2> QED
    BY <2>1, <2>2, Zenon
<1>5. Alone(s)
  BY <1>3, Zenon DEF Alone, OnlyOf
<1>6. ASSUME NEW d \in Bus PROVE Kept(d, s)
  BY <1>4, Zenon DEF Kept, Placed
<1>7. Moved
  BY <1>5, <1>6, AloneMoves, Zenon
<1> QED
  BY <1>7, Zenon DEF SlotInv, RateFits, PlacesAt


LEMMA HwParamsUndoMoves ==
  ASSUME IInv, SlotInv, NEW s \in Stream, HwParamsUndo(s)
  PROVE  Moved /\ RateFits' /\ PlacesAt(places)'
<1>1. ControlAt(s) /\ Data /\ params' = params /\ ControlTypes
  BY Zenon DEF HwParamsUndo, IInv
<1>2. ASSUME NEW to \in {"undo_cpu", "undo_codec", "OPEN", "HW_PARAMS", "HW_FREE"},
             NEW i, Go(s, to, i)
      PROVE  ControlOnly(s) /\ be'[s] # "PREPARE"
  <2>1. ControlOnly(s) /\ be'[s] = to
    BY <1>1, <1>2, GoAlone, Zenon
  <2> QED
    BY <2>1, Zenon
<1>3. CASE /\ be[s] = "undo_cpu" /\ intel_hw_free(s, Cpus[s][at[s]])
           /\ Go(s, "undo_codec", Len(Codecs[s])) \/ Go(s, "undo_cpu", at[s] - 1)
  <2>1. at[s] \in 1 .. Len(Cpus[s])
    BY <1>1, <1>3, Zenon DEF ControlAt
  <2>2. Cpus[s][at[s]] \in Bus
    BY <2>1, CardFacts, Zenon DEF IInv
  <2>3. ControlOnly(s) /\ be'[s] # "PREPARE"
    BY <1>2, <1>3, Zenon
  <2> QED
    BY <1>1, <1>3, <2>2, <2>3, IntelHwFreeMoves, Zenon
<1>4. CASE /\ be[s] = "undo_codec" /\ at[s] > 0
           /\ sdw_stream_remove_slave(s, Codecs[s][at[s]])
           /\ Go(s, "undo_codec", at[s] - 1)
           /\ UNCHANGED <<state, m_rt_count, master_list, m_rt_list, places>>
  <2>1. at[s] \in 0 .. Len(Codecs[s])
    BY <1>1, <1>4, Zenon DEF ControlAt
  <2>2. Len(Codecs[s]) \in Nat
    BY DaiFacts, Zenon
  <2>3. at[s] \in 1 .. Len(Codecs[s])
    BY <1>4, <2>1, <2>2
  <2>4. ControlOnly(s) /\ be'[s] # "PREPARE"
    BY <1>2, <1>4, Zenon
  <2> QED
    BY <1>1, <1>4, <2>3, <2>4, RemoveSlaveMoves, Zenon
<1>5. CASE /\ be[s] = "undo_codec" /\ Go(s, from[s], 1)
           /\ UNCHANGED <<state, m_rt_count, lists, places>>
  <2>1. from[s] \in {"OPEN", "HW_PARAMS", "HW_FREE"}
    BY <1>1, Zenon DEF ControlAt
  <2>2. ControlOnly(s) /\ be'[s] # "PREPARE"
    BY <1>2, <1>5, <2>1, Zenon
  <2> QED
    BY <1>1, <1>5, <2>2, SameMoves, Zenon
<1> QED
  BY <1>3, <1>4, <1>5, Zenon DEF HwParamsUndo

\* sdw_prepare_stream: a stream that gets prepared has new places on all of
\* its buses.
LEMMA PrepareMoves ==
  ASSUME IInv, SlotInv, NEW s \in Stream, Prepare(s)
  PROVE  Moved /\ RateFits' /\ PlacesAt(places)'
<1> DEFINE P == NewPlaces(s, 1)
<1>1. Data /\ RateFits /\ PlacesAt(places) /\ ControlTypes
  BY Zenon DEF IInv, SlotInv
<1>2. places' = P /\ UNCHANGED <<params, m_rt_count, lists>>
  BY Zenon DEF Prepare
<1>3. /\ PlacesAt(P)
      /\ \A d \in Bus :
           \/ P[d] = places[d] /\ (AllFit(s, 1) => d \notin Range(master_list[s]))
           \/ \E bw : ComputeOk(d, bw) /\ P[d] = Computed(d, bw)
  <2>1. PlacesAt(NewPlaces(s, 1)) /\ \A d \in Bus : LeftOrComputed(d, s, 1)
    BY <1>1, NewPlacesFacts, Zenon
  <2> QED
    BY <2>1, Zenon DEF LeftOrComputed
<1> HIDE DEF P
<1>4. RateFits' /\ PlacesAt(places)'
  BY <1>1, <1>2, <1>3, Zenon DEF RateFits, PlacesAt
<1>5. \/ /\ AllFit(s, 1) /\ ControlOnly(s)
         /\ state' = [state EXCEPT ![s] = "PREPARED"]
      \/ be' = be /\ state' = state
  <2>1. Go(s, "PREPARE", 1) => ControlOnly(s)
    BY <1>1, GoAlone, Zenon
  <2> QED
    BY <2>1, Zenon DEF Prepare
<1>6. ASSUME NEW d \in Bus
      PROVE  (\A u \in Stream : Kept(d, u)) \/ (\E bw : Recomputed(d, bw))
  <2>1. ASSUME P[d] = places[d], AllFit(s, 1) => d \notin Range(master_list[s]),
               NEW u \in Stream
        PROVE  Kept(d, u)
    <3>1. /\ places'[d][u] = places[d][u] /\ params'[u] = params[u]
          /\ rt' = rt /\ master_list' = master_list
      BY <1>2, <2>1, Zenon DEF lists
    <3>2. CASE be' = be /\ state' = state
      BY <3>1, <3>2, Zenon DEF Kept, Placed
    <3>3. CASE /\ AllFit(s, 1) /\ ControlOnly(s)
               /\ state' = [state EXCEPT ![s] = "PREPARED"]
      <4>1. CASE u = s
        BY <2>1, <3>1, <3>3, <4>1, Zenon DEF Kept, Placed
      <4>2. CASE u # s
        <5>1. be'[u] = be[u] /\ state'[u] = state[u]
          BY <1>1, <3>3, <4>2, Zenon DEF ControlOnly, Data, DataTypes
        <5> QED
          BY <3>1, <5>1, Zenon DEF Kept, Placed
      <4> QED
        BY <4>1, <4>2, Zenon
    <3> QED
      BY <1>5, <3>2, <3>3, Zenon
  <2>2. ASSUME NEW bw, ComputeOk(d, bw), P[d] = Computed(d, bw)
        PROVE  Recomputed(d, bw)
    BY <1>2, <2>2, Zenon DEF Recomputed, Placed, lists
  <2> QED
    BY <1>3, <2>1, <2>2, Zenon
<1>7. Moved
  BY <1>6, Zenon DEF Moved
<1> QED
  BY <1>4, <1>7, Zenon

LEMMA HwFreeMoves ==
  ASSUME IInv, SlotInv, NEW s \in Stream, HwFree(s)
  PROVE  Moved /\ RateFits' /\ PlacesAt(places)'
<1>1. /\ Go(s, "free_cpu", 1)
      /\ UNCHANGED <<state, params, m_rt_count, lists, places>>
  BY Zenon DEF HwFree
<1>2. ControlOnly(s) /\ be'[s] = "free_cpu"
  BY <1>1, GoAlone, Zenon DEF IInv
<1> QED
  BY <1>1, <1>2, SameMoves, Zenon DEF IInv

LEMMA HwFreeDaiMoves ==
  ASSUME IInv, SlotInv, NEW s \in Stream, HwFreeDai(s)
  PROVE  Moved /\ RateFits' /\ PlacesAt(places)'
<1>1. ControlAt(s) /\ Data /\ params' = params /\ ControlTypes
  BY Zenon DEF HwFreeDai, IInv
<1>2. ControlOnly(s) /\ be'[s] # "PREPARE"
  <2>1. \E i : \E to \in {"free_cpu", "free_codec", "HW_FREE"} : Go(s, to, i)
    BY Zenon DEF HwFreeDai
  <2>2. ControlOnly(s) /\ be'[s] \in {"free_cpu", "free_codec", "HW_FREE"}
    BY <1>1, <2>1, GoAlone, Zenon
  <2> QED
    BY <2>2, Zenon
<1>3. CASE be[s] = "free_cpu" /\ intel_hw_free(s, Cpus[s][at[s]])
  <2>1. at[s] \in 1 .. Len(Cpus[s])
    BY <1>1, <1>3, Zenon DEF ControlAt
  <2>2. Cpus[s][at[s]] \in Bus
    BY <2>1, CardFacts, Zenon DEF IInv
  <2> QED
    BY <1>1, <1>2, <1>3, <2>2, IntelHwFreeMoves, Zenon
<1>4. CASE /\ be[s] = "free_codec"
           /\ sdw_stream_remove_slave(s, Codecs[s][at[s]])
           /\ UNCHANGED <<state, m_rt_count, master_list, m_rt_list, places>>
  <2>1. at[s] \in 1 .. Len(Codecs[s])
    BY <1>1, <1>4, Zenon DEF ControlAt
  <2> QED
    BY <1>1, <1>2, <1>4, <2>1, RemoveSlaveMoves, Zenon
<1> QED
  BY <1>3, <1>4, Zenon DEF HwFreeDai

LEMMA ShutdownMoves ==
  ASSUME IInv, SlotInv, NEW s \in Stream, Shutdown(s)
  PROVE  Moved /\ RateFits' /\ PlacesAt(places)'
<1>1. /\ Go(s, "CLOSE", 1) /\ state' = [state EXCEPT ![s] = "NONE"]
      /\ UNCHANGED <<params, m_rt_count, lists, places>>
  BY Zenon DEF Shutdown
<1>2. ControlOnly(s) /\ be'[s] = "CLOSE"
  BY <1>1, GoAlone, Zenon DEF IInv
<1>3. /\ state'[s] = "NONE" /\ \A t \in Stream \ {s} : state'[t] = state[t]
  BY <1>1, Zenon DEF IInv, Data, DataTypes
<1> QED
  BY <1>1, <1>2, <1>3, SameMoves, Zenon DEF IInv


LEMMA NextSlotInv ==
  ASSUME IInv, SlotInv, [Next]_vars
  PROVE  SlotInv'
<1>1. Data
  BY Zenon DEF IInv
<1>2. CASE Next
  <2>1. PICK s \in Stream :
          \/ Startup(s)
          \/ \E c \in Asked[s] : HwParams(s, c)
          \/ HwParamsCodec(s) \/ HwParamsCpu(s) \/ HwParamsUndo(s)
          \/ Prepare(s)
          \/ HwFree(s) \/ HwFreeDai(s)
          \/ Shutdown(s)
    BY <1>2, Zenon DEF Next
  <2>2. Moved /\ RateFits' /\ PlacesAt(places)'
    BY Zenon, <2>1, StartupMoves, HwParamsMoves, HwParamsCodecMoves, HwParamsCpuMoves,
       HwParamsUndoMoves, PrepareMoves, HwFreeMoves, HwFreeDaiMoves, ShutdownMoves,
       Zenon
  <2> QED
    BY <1>1, <2>2, MovedKeeps, Zenon
<1>3. CASE UNCHANGED vars
  <2>1. UNCHANGED <<be, state, params, master_list, rt, places>>
    BY <1>3, Zenon DEF vars, lists
  <2>2. Moved
    BY <2>1, Zenon DEF Moved, Kept, Placed
  <2>3. RateFits' /\ PlacesAt(places)'
    BY <2>1, Zenon DEF SlotInv, RateFits, PlacesAt
  <2> QED
    BY <1>1, <2>2, <2>3, MovedKeeps, Zenon
<1> QED
  BY <1>2, <1>3, Zenon

LEMMA InitSlotInv ==
  ASSUME Init
  PROVE  SlotInv
<1>1. RateFits
  <2>1. ASSUME NEW s \in Stream, NEW i \in DOMAIN ClkFreq
        PROVE  params[s].rate <= ClkFreq[i]
    <3>1. params[s].rate = 0
      BY Zenon DEF Init, NoParams
    <3>2. ClkFreq[i] \in Nat
      BY ClockAssumption
    <3> QED
      BY <3>1, <3>2
  <2> QED
    BY <2>1, Zenon DEF RateFits
<1>2. PlacesAt(places)
  BY Zenon DEF Init, PlacesAt
<1>3. ASSUME NEW b \in Bus, NEW s \in Stream PROVE ~Placed(s, b)
  BY Zenon DEF Init, Placed
<1>4. ASSUME NEW b \in Bus, NEW s \in Stream, NEW t \in Stream PROVE OnBus(b, s, t)
  BY <1>3, Zenon DEF OnBus, SlotsOf, ColumnsOfBoth
<1> QED
  BY <1>1, <1>2, <1>4, Zenon DEF SlotInv

LEMMA SlotInvImplies ==
  ASSUME SlotInv
  PROVE  SlotsDisjoint /\ ColumnsOwned
<1>1. SlotsDisjoint
  <2> SUFFICES ASSUME NEW b \in Bus, NEW s \in Stream, NEW t \in Stream, s # t,
                      \A u \in {s, t} : Placed(u, b) /\ OnePort(u, b)
               PROVE  \A p \in Held(s, b), q \in Held(t, b) : BitsApart(p, q)
    BY Zenon DEF SlotsDisjoint
  <2>1. SlotsOf(b, s, t)
    BY Zenon DEF SlotInv, OnBus
  <2> QED
    BY <2>1, Zenon DEF SlotsOf
<1>2. ColumnsOwned
  <2> SUFFICES ASSUME NEW b \in Bus, NEW s \in Stream, NEW t \in Stream,
                      Placed(s, b), Placed(t, b)
               PROVE  \A p \in Ports(s, b) :
                        /\ 1 <= p.hstart /\ p.hstop <= Cols - 1
                        /\ params[s].rate # params[t].rate
                           => \A q \in Ports(t, b) : ColumnsApart(p, q)
    BY Zenon DEF ColumnsOwned, Ports, AllPorts
  <2>1. ColumnsOfBoth(b, s, t)
    BY Zenon DEF SlotInv, OnBus
  <2> QED
    BY <2>1, Zenon DEF ColumnsOfBoth
<1> QED
  BY <1>1, <1>2, Zenon

-------------------------------------------------------------------------------
(* Theorems *)

\* Two prepared streams never own the same bit slot of a bus, whatever came and
\* went on it since sdw_compute_params gave them their places: SlotsDisjoint for
\* every card, any number of streams and buses, all rates, sample sizes and
\* channel counts, and every failure of hw_params and hw_free.
THEOREM SlotsAlwaysDisjoint == Spec => []SlotsDisjoint
<1>1. Init => IInv /\ SlotInv
  BY InitIInv, InitSlotInv, Zenon
<1>2. IInv /\ SlotInv /\ [Next]_vars => (IInv /\ SlotInv)'
  BY NextIInv, NextSlotInv, Zenon
<1>3. IInv /\ SlotInv => SlotsDisjoint
  BY SlotInvImplies, Zenon
<1> QED
  BY <1>1, <1>2, <1>3, PTL DEF Spec

\* Column 0, which carries the control word, is never given to a port of a
\* prepared stream, and ports of different rates have no column in common.
THEOREM ColumnsAlwaysOwned == Spec => []ColumnsOwned
<1>1. Init => IInv /\ SlotInv
  BY InitIInv, InitSlotInv, Zenon
<1>2. IInv /\ SlotInv /\ [Next]_vars => (IInv /\ SlotInv)'
  BY NextIInv, NextSlotInv, Zenon
<1>3. IInv /\ SlotInv => ColumnsOwned
  BY SlotInvImplies, Zenon
<1> QED
  BY <1>1, <1>2, <1>3, PTL DEF Spec
===============================================================================
