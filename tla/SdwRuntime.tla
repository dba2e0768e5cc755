------------------------------ MODULE SdwRuntime ------------------------------
(***************************************************************************)
(* The runtimes of the streams (soundwire/stream.c): the lists that tie a  *)
(* stream to its buses and slaves, how soc_pcm_hw_params and               *)
(* soc_pcm_hw_free (soc/soc-pcm.c) build them and take them down, DAI by   *)
(* DAI and with their roll-back, and the places that sdw_compute_params    *)
(* gives to the ports of the runtimes it finds on a bus.                   *)
(*                                                                         *)
(* card->pcm_mutex is held over hw_params and hw_free, so only one back    *)
(* end is inside them.  The register writes, bank switches and triggers of *)
(* a stream are those of SdwStream; they do not touch the lists.           *)
(***************************************************************************)
EXTENDS SdwLayout, Functions

CONSTANTS
  Stream, Bus, Slave,
  Cards,        \* the sound cards to consider: for every stream the slaves of
                \* its codec DAIs and the buses of its CPU DAIs, in their order,
                \* and the buses with multi_link
  BusOf,        \* slave->bus
  Playback,     \* the streams with direction TX
  Asked,        \* the hw_params that a stream may be asked for: rate, bps, ch
  Faults,       \* what may fail, by stream: "nomem": an allocation, "dai":
                \* a CPU DAI before add_master, "component": one after the DAIs
  UintMod,      \* 2^32, the width of bus->params.bandwidth
  MaxParams     \* bound on the calls of hw_params without hw_free

ASSUME RuntimeAssumption ==
  /\ Cards \subseteq [codecs : [Stream -> Seq(Slave)],
                      cpus : [Stream -> Seq(Bus)], multi_link : SUBSET Bus]
  /\ BusOf \in [Slave -> Bus]
  /\ \A c \in Cards : \A s \in Stream :
       /\ c.codecs[s] = <<>> <=> c.cpus[s] = <<>>
       /\ \A i \in DOMAIN c.codecs[s] : BusOf[c.codecs[s][i]] \in Range(c.cpus[s])
  /\ Playback \subseteq Stream
  /\ Asked \in [Stream -> SUBSET [rate : Nat \ {0}, bps : Nat \ {0}, ch : Nat \ {0}]]
  \* The allocator divides by full_bw.
  /\ \A s \in Stream : \A c \in Asked[s] : \A i \in DOMAIN ClkFreq : c.rate <= ClkFreq[i]
  /\ Faults \in [Stream -> SUBSET {"nomem", "dai", "component"}]
  /\ MaxParams \in Nat /\ UintMod \in Nat \ {0}

VARIABLES
  card,         \* the sound card at hand
  be,           \* the back end: between calls, or in a loop over its DAIs
  at,           \* the DAI that loop has got to
  want,         \* the hw_params of the call
  from,         \* where the back end was before the call
  state,        \* stream->state
  params,       \* stream->params, rate and bps; zero is not set
  master_list,  \* stream->master_list, as buses
  m_rt_count,   \* stream->m_rt_count
  m_rt_list,    \* bus->m_rt_list, as streams
  rt,           \* the master runtime of a stream on a bus
  bandwidth,    \* bus->params.bandwidth
  places        \* the transport parameters computed last for the ports

lists == <<master_list, m_rt_list, rt>>
vars == <<card, be, at, want, from, state, params, m_rt_count, lists, bandwidth, places>>

Configs == UNION {Asked[s] : s \in Stream}
Codecs == card.codecs
Cpus == card.cpus

Resting == {"CLOSE", "OPEN", "HW_PARAMS", "PREPARE", "HW_FREE"}
\* struct sdw_master_runtime; a port is its number of channels.
SlaveRt == [slave : Slave, ports : Seq(Nat)]
MasterRt == [ch : Nat, ports : Seq(Nat), slaves : Seq(SlaveRt)]
NoRt == [ch |-> 0, ports |-> <<>>, slaves |-> <<>>]
NoWant == [rate |-> 0, bps |-> 0, ch |-> 0]
NoParams == [rate |-> 0, bps |-> 0]
NoPlaces == [master |-> {}, slave |-> {}]

\* What a call was for is gone when it returns.
Go(s, to, i) ==
  /\ be' = [be EXCEPT ![s] = to] /\ at' = [at EXCEPT ![s] = i]
  /\ IF to \in Resting
     THEN /\ want' = [want EXCEPT ![s] = NoWant]
          /\ from' = [from EXCEPT ![s] = "OPEN"]
     ELSE UNCHANGED <<want, from>>

-------------------------------------------------------------------------------
(* The lists *)

\* list_del of the entry at position i, and of the entry e, if it is there.
Without(l, i) == SubSeq(l, 1, i - 1) \o SubSeq(l, i + 1, Len(l))
list_del(l, e) ==
  IF e \in Range(l) THEN Without(l, CHOOSE i \in DOMAIN l : l[i] = e) ELSE l

sdw_find_master_rt(s, b) == b \in Range(master_list[s])

\* The lists with the runtime of s on b, its contents replaced by r.
With(s, b, r) ==
  /\ IF sdw_find_master_rt(s, b) THEN UNCHANGED <<master_list, m_rt_list>>
     ELSE /\ master_list' = [master_list EXCEPT ![s] = Append(@, b)]
          /\ m_rt_list' = [m_rt_list EXCEPT ![b] = Append(@, s)]
  /\ rt' = [rt EXCEPT ![s][b] = r]

\* Variant: the runtime stays on the list of its bus.
sdw_release_master_stream_half(s, b, p) ==
  /\ master_list' = [master_list EXCEPT ![s] = list_del(@, b)]
  /\ rt' = [rt EXCEPT ![s][b] = NoRt]
  /\ places' = [p EXCEPT ![b][s] = NoPlaces]
  /\ UNCHANGED m_rt_list

\* Without it, from the places p on; its ports and its slave runtimes go with
\* it.
sdw_release_master_stream(s, b, p) ==
  /\ master_list' = [master_list EXCEPT ![s] = list_del(@, b)]
  /\ m_rt_list' = [m_rt_list EXCEPT ![b] = list_del(@, s)]
  /\ rt' = [rt EXCEPT ![s][b] = NoRt]
  /\ places' = [p EXCEPT ![b][s] = NoPlaces]

\* A stream has one rate and one sample size, whoever sets them first.
Matches(s, c) ==
  /\ params[s].rate \in {0, c.rate}
  /\ params[s].bps \in {0, c.bps}
sdw_config_stream(s, c) ==
  params' = [params EXCEPT ![s] = [rate |-> c.rate, bps |-> c.bps]]

sdw_stream_add_slave(s, x) ==
  LET b == BusOf[x] c == want[s] IN
  /\ Matches(s, c)
  /\ With(s, b, [rt[s][b] EXCEPT !.ch = c.ch,
       !.slaves = Append(@, [slave |-> x, ports |-> <<c.ch>>])])
  /\ sdw_config_stream(s, c)
  /\ state' = [state EXCEPT ![s] = "CONFIGURED"]
  /\ UNCHANGED <<m_rt_count, places>>

\* Variant: a failed allocation of the slave runtime keeps the master.
sdw_stream_add_slave_err_keep(s, x) ==
  /\ "nomem" \in Faults[s]
  /\ With(s, BusOf[x], [rt[s][BusOf[x]] EXCEPT !.ch = want[s].ch])
  /\ UNCHANGED <<params, places, state, m_rt_count>>

\* Variant: the master is taken from the count that add_slave never raised.
sdw_stream_add_slave_err_uncount(s, x) ==
  /\ "nomem" \in Faults[s]
  /\ sdw_release_master_stream(s, BusOf[x], places)
  /\ m_rt_count' = [m_rt_count EXCEPT ![s] = @ - 1]
  /\ UNCHANGED <<params, state>>

\* Every error but the first drops the whole master runtime, one that an
\* earlier call made included.
sdw_stream_add_slave_err(s, x) ==
  LET b == BusOf[x] c == want[s] IN
  /\ \/ /\ "nomem" \in Faults[s] /\ ~sdw_find_master_rt(s, b)
        /\ UNCHANGED <<lists, params, places>>
     \/ /\ "nomem" \in Faults[s] \/ ~Matches(s, c)
        /\ sdw_release_master_stream(s, b, places)
        /\ UNCHANGED params
     \/ /\ "nomem" \in Faults[s] /\ Matches(s, c)
        /\ sdw_release_master_stream(s, b, places)
        /\ sdw_config_stream(s, c)
  /\ UNCHANGED <<state, m_rt_count>>

\* The first slave runtime of x goes; its ports are taken from all of them.
sdw_release_slave_stream(q, x) ==
  LET empty == [i \in DOMAIN q |->
        IF q[i].slave = x THEN [q[i] EXCEPT !.ports = <<>>] ELSE q[i]]
      found == {i \in DOMAIN q : q[i].slave = x}
  IN IF found = {} THEN q
     ELSE Without(empty, CHOOSE i \in found : \A j \in found : i <= j)

sdw_stream_remove_slave(s, x) ==
  rt' = [rt EXCEPT ![s][BusOf[x]].slaves = sdw_release_slave_stream(@, x)]

\* Only a bus with multi_link takes a stream that has a master already.
Second(s, b) == b \notin card.multi_link /\ m_rt_count[s] > 0

\* Variant: a master that a slave added first is not counted.
sdw_stream_add_master_uncounted(s, b) ==
  LET c == want[s] IN
  /\ ~Second(s, b) /\ Matches(s, c)
  /\ With(s, b, [rt[s][b] EXCEPT !.ch = c.ch, !.ports = Append(@, c.ch)])
  /\ sdw_config_stream(s, c)
  /\ m_rt_count' = [m_rt_count EXCEPT ![s] =
       IF sdw_find_master_rt(s, b) THEN @ ELSE @ + 1]
  /\ UNCHANGED <<state, places>>

\* One port per CPU DAI (intel_hw_params).
sdw_stream_add_master(s, b) ==
  LET c == want[s] IN
  /\ ~Second(s, b) /\ Matches(s, c)
  /\ With(s, b, [rt[s][b] EXCEPT !.ch = c.ch, !.ports = Append(@, c.ch)])
  /\ sdw_config_stream(s, c)
  /\ m_rt_count' = [m_rt_count EXCEPT ![s] = @ + 1]
  /\ UNCHANGED <<state, places>>

\* intel_hw_params may fail before the call; the call fails as above.
sdw_stream_add_master_err(s, b) ==
  LET c == want[s] IN
  /\ \/ /\ \/ "dai" \in Faults[s]
           \/ Second(s, b)
           \/ "nomem" \in Faults[s] /\ ~sdw_find_master_rt(s, b)
        /\ UNCHANGED <<lists, params, places>>
     \/ /\ ~Second(s, b) /\ ~Matches(s, c)
        /\ sdw_release_master_stream(s, b, places)
        /\ UNCHANGED params
     \/ /\ "nomem" \in Faults[s] /\ ~Second(s, b) /\ Matches(s, c)
        /\ sdw_release_master_stream(s, b, places)
        /\ sdw_config_stream(s, c)
  /\ UNCHANGED <<state, m_rt_count>>

sdw_stream_remove_master(s, b, after, p) ==
  /\ sdw_release_master_stream(s, b, p)
  /\ m_rt_count' = [m_rt_count EXCEPT ![s] =
       IF sdw_find_master_rt(s, b) THEN @ - 1 ELSE @]
  /\ state' = [state EXCEPT ![s] = IF list_del(master_list[s], b) = <<>>
                                   THEN "RELEASED" ELSE after]

-------------------------------------------------------------------------------
(* sdw_compute_params *)

\* The runtimes that the allocator finds on a bus.
ListOf(b) ==
  [i \in DOMAIN m_rt_list[b] |->
    LET s == m_rt_list[b][i] r == rt[s][b] IN
    [rate |-> params[s].rate, bps |-> params[s].bps, ch |-> r.ch,
     mirror |-> s \in Playback, ports |-> r.ports,
     slaves |-> [j \in DOMAIN r.slaves |-> r.slaves[j].ports]]]

ComputeOk(b, bw) ==
  /\ Fits(bw)
  /\ sdw_compute_group_params(ListOf(b), sdw_compute_bus_params(bw))

\* The places on b after the bandwidth became bw.
Computed(b, bw) ==
  [s \in Stream |->
    IF s \in Range(m_rt_list[b])
    THEN sdw_compute_port_params(ListOf(b), sdw_compute_bus_params(bw),
           CHOOSE i \in DOMAIN m_rt_list[b] : m_rt_list[b][i] = s)
    ELSE places[b][s]]

DemandOn(s, b) == params[s].rate * rt[s][b].ch * params[s].bps

\* bandwidth + sign * demand on every bus of the stream, in the order of the
\* list; the first bus where the computation fails ends the loop.
Changed(s, sign, b) == (bandwidth[b] + sign * DemandOn(s, b)) % UintMod
Done(s, sign) ==
  LET l == master_list[s] IN
  {i \in DOMAIN l : \A j \in 1 .. i : ComputeOk(l[j], Changed(s, sign, l[j]))}

AllFit(s, sign) == Done(s, sign) = DOMAIN master_list[s]
NewBandwidth(s, sign) ==
  [b \in Bus |-> IF \E i \in DOMAIN master_list[s] :
                      master_list[s][i] = b /\ i - 1 \in Done(s, sign) \cup {0}
                 THEN Changed(s, sign, b) ELSE bandwidth[b]]
NewPlaces(s, sign) ==
  [b \in Bus |-> IF \E i \in Done(s, sign) : master_list[s][i] = b
                 THEN Computed(b, Changed(s, sign, b)) ELSE places[b]]

-------------------------------------------------------------------------------
(* The back end *)

\* card->pcm_mutex is free, and no freed stream is on the lists of the buses.
CanEnter(s) ==
  /\ \A t \in Stream \ {s} : be[t] \in Resting
  /\ \A b \in Range(Cpus[s]) : \A i \in DOMAIN m_rt_list[b] :
       be[m_rt_list[b][i]] # "CLOSE"

\* sdw_startup_stream.
Startup(s) ==
  /\ be[s] = "CLOSE" /\ CanEnter(s) /\ Cpus[s] # <<>>
  /\ Go(s, "OPEN", 1)
  /\ state' = [state EXCEPT ![s] = "ALLOCATED"]
  /\ params' = [params EXCEPT ![s] = NoParams]
  /\ m_rt_count' = [m_rt_count EXCEPT ![s] = 0]
  /\ UNCHANGED <<lists, bandwidth, places>>

\* dpcm_be_dai_hw_params; again without hw_free, if the user asks again.
HwParams(s, c) ==
  /\ be[s] \in {"OPEN", "HW_PARAMS", "HW_FREE"} /\ CanEnter(s)
  /\ m_rt_count[s] < MaxParams * Len(Cpus[s])
  /\ be' = [be EXCEPT ![s] = "codec"] /\ at' = [at EXCEPT ![s] = 1]
  /\ want' = [want EXCEPT ![s] = c] /\ from' = [from EXCEPT ![s] = be[s]]
  /\ UNCHANGED <<state, params, m_rt_count, lists, bandwidth, places>>

HwParamsCodec(s) ==
  LET x == Codecs[s][at[s]] IN
  /\ be[s] = "codec"
  /\ \/ /\ sdw_stream_add_slave(s, x)
        /\ IF at[s] = Len(Codecs[s]) THEN Go(s, "cpu", 1)
                                     ELSE Go(s, "codec", at[s] + 1)
     \/ /\ sdw_stream_add_slave_err(s, x)
        /\ Go(s, "undo_codec", at[s] - 1)
  /\ UNCHANGED bandwidth

HwParamsCpu(s) ==
  LET b == Cpus[s][at[s]] IN
  /\ be[s] = "cpu"
  /\ \/ /\ sdw_stream_add_master(s, b)
        /\ IF at[s] < Len(Cpus[s]) THEN Go(s, "cpu", at[s] + 1)
           ELSE \/ Go(s, "HW_PARAMS", 1)
                \/ "component" \in Faults[s] /\ Go(s, "undo_cpu", at[s])
     \/ /\ sdw_stream_add_master_err(s, b)
        /\ IF at[s] = 1 THEN Go(s, "undo_codec", Len(Codecs[s]))
                        ELSE Go(s, "undo_cpu", at[s] - 1)
  /\ UNCHANGED bandwidth

\* intel_hw_free: the master runtime goes only if the stream is deprepared.
intel_hw_free(s, b) ==
  \/ /\ state[s] = "PREPARED" /\ AllFit(s, -1)
     /\ bandwidth' = NewBandwidth(s, -1)
     /\ sdw_stream_remove_master(s, b, "DEPREPARED", NewPlaces(s, -1))
  \/ /\ state[s] = "PREPARED" /\ ~AllFit(s, -1)
     /\ bandwidth' = NewBandwidth(s, -1) /\ places' = NewPlaces(s, -1)
     /\ UNCHANGED <<state, m_rt_count, lists>>
  \/ /\ state[s] = "DEPREPARED"
     /\ sdw_stream_remove_master(s, b, "DEPREPARED", places)
     /\ UNCHANGED bandwidth
  \/ /\ state[s] \notin {"PREPARED", "DEPREPARED"}
     /\ UNCHANGED <<state, m_rt_count, lists, bandwidth, places>>

\* The roll-back of soc_pcm_hw_params runs backwards from the DAI that failed;
\* the back end is then where it was before the call.
HwParamsUndo(s) ==
  /\ \/ /\ be[s] = "undo_cpu"
        /\ intel_hw_free(s, Cpus[s][at[s]])
        /\ IF at[s] = 1 THEN Go(s, "undo_codec", Len(Codecs[s]))
                        ELSE Go(s, "undo_cpu", at[s] - 1)
     \/ /\ be[s] = "undo_codec" /\ at[s] > 0
        /\ sdw_stream_remove_slave(s, Codecs[s][at[s]])
        /\ Go(s, "undo_codec", at[s] - 1)
        /\ UNCHANGED <<state, m_rt_count, master_list, m_rt_list, bandwidth,
                       places>>
     \/ /\ be[s] = "undo_codec" /\ at[s] = 0
        /\ Go(s, from[s], 1)
        /\ UNCHANGED <<state, m_rt_count, lists, bandwidth, places>>
  /\ UNCHANGED <<params>>

\* dpcm_be_dai_prepare, sdw_prepare_stream.  A stream that a failed hw_params
\* left without masters is refused.
Prepare(s) ==
  /\ be[s] = "HW_PARAMS" /\ CanEnter(s)
  /\ bandwidth' = NewBandwidth(s, 1) /\ places' = NewPlaces(s, 1)
  /\ \/ /\ AllFit(s, 1) /\ master_list[s] # <<>>
        /\ Go(s, "PREPARE", 1)
        /\ state' = [state EXCEPT ![s] = "PREPARED"]
     \/ /\ ~AllFit(s, 1) \/ master_list[s] = <<>>
        /\ UNCHANGED <<be, at, want, from, state>>
  /\ UNCHANGED <<params, m_rt_count, lists>>

\* dpcm_be_dai_hw_free: the CPU DAIs, then the codec DAIs.
HwFree(s) ==
  /\ be[s] \in {"HW_PARAMS", "PREPARE", "HW_FREE"} /\ CanEnter(s)
  /\ Go(s, "free_cpu", 1)
  /\ UNCHANGED <<state, params, m_rt_count, lists, bandwidth, places>>

HwFreeDai(s) ==
  /\ \/ /\ be[s] = "free_cpu"
        /\ intel_hw_free(s, Cpus[s][at[s]])
        /\ IF at[s] = Len(Cpus[s]) THEN Go(s, "free_codec", 1)
                                   ELSE Go(s, "free_cpu", at[s] + 1)
     \/ /\ be[s] = "free_codec"
        /\ sdw_stream_remove_slave(s, Codecs[s][at[s]])
        /\ IF at[s] = Len(Codecs[s]) THEN Go(s, "HW_FREE", 1)
                                     ELSE Go(s, "free_codec", at[s] + 1)
        /\ UNCHANGED <<state, m_rt_count, master_list, m_rt_list, bandwidth,
                       places>>
  /\ UNCHANGED <<params>>

\* soc_pcm_close, sdw_shutdown_stream: the stream is freed, its runtimes are
\* not.
Shutdown(s) ==
  /\ be[s] \in {"OPEN", "HW_FREE"} /\ CanEnter(s)
  /\ Go(s, "CLOSE", 1)
  /\ state' = [state EXCEPT ![s] = "NONE"]
  /\ UNCHANGED <<params, m_rt_count, lists, bandwidth, places>>

-------------------------------------------------------------------------------
Init ==
  /\ card \in Cards
  /\ be = [s \in Stream |-> "CLOSE"] /\ at = [s \in Stream |-> 1]
  /\ want = [s \in Stream |-> NoWant] /\ from = [s \in Stream |-> "OPEN"]
  /\ state = [s \in Stream |-> "NONE"]
  /\ params = [s \in Stream |-> NoParams]
  /\ master_list = [s \in Stream |-> <<>>]
  /\ m_rt_count = [s \in Stream |-> 0]
  /\ m_rt_list = [b \in Bus |-> <<>>]
  /\ rt = [s \in Stream |-> [b \in Bus |-> NoRt]]
  /\ bandwidth = [b \in Bus |-> 0]
  /\ places = [b \in Bus |-> [s \in Stream |-> NoPlaces]]

Next ==
  /\ \E s \in Stream :
       \/ Startup(s)
       \/ \E c \in Asked[s] : HwParams(s, c)
       \/ HwParamsCodec(s) \/ HwParamsCpu(s) \/ HwParamsUndo(s)
       \/ Prepare(s)
       \/ HwFree(s) \/ HwFreeDai(s)
       \/ Shutdown(s)
  /\ UNCHANGED card

Spec == Init /\ [][Next]_vars

-------------------------------------------------------------------------------
(* Properties *)

\* The variables have the types of the fields they model.
TypeOK ==
  /\ card \in Cards
  /\ be \in [Stream -> Resting \cup {"codec", "cpu", "undo_cpu", "undo_codec",
                                     "free_cpu", "free_codec"}]
  /\ at \in [Stream -> Nat] /\ want \in [Stream -> Configs \cup {NoWant}]
  /\ from \in [Stream -> Resting]
  /\ state \in [Stream -> {"NONE", "ALLOCATED", "CONFIGURED", "PREPARED",
                           "DEPREPARED", "RELEASED"}]
  /\ params \in [Stream -> [rate : Nat, bps : Nat]]
  /\ master_list \in [Stream -> Seq(Bus)] /\ m_rt_list \in [Bus -> Seq(Stream)]
  /\ m_rt_count \in [Stream -> Nat] /\ bandwidth \in [Bus -> 0 .. UintMod - 1]
  /\ rt \in [Stream -> [Bus -> MasterRt]]

\* A runtime is on the list of its stream exactly when it is on the list of
\* its bus, once on each, and has contents only then, through every error and
\* roll-back of hw_params.
ListsAgree ==
  \A s \in Stream, b \in Bus :
    /\ b \in Range(master_list[s]) <=> s \in Range(m_rt_list[b])
    /\ IsInjective(master_list[s]) /\ IsInjective(m_rt_list[b])
    /\ b \notin Range(master_list[s]) => rt[s][b] = NoRt

\* The allocator divides by the rate of every runtime it finds on a bus: it
\* is set, however far the hw_params of that stream got.
RateKnown ==
  \A b \in Bus : \A i \in DOMAIN m_rt_list[b] : params[m_rt_list[b][i]].rate > 0

\* Every bus of a configured stream is counted, so that do_bank_switch takes
\* the synchronized path for a stream of hw_sync_min_links links.
CountEnough ==
  \A s \in Stream : be[s] \in {"HW_PARAMS", "PREPARE"}
    => m_rt_count[s] >= Len(master_list[s])

\* The bits of two blocks do not overlap, or their columns do not.
BitsApart(p, q) == p.bo + p.len <= q.bo \/ q.bo + q.len <= p.bo
ColumnsApart(p, q) == p.hstop < q.hstart \/ q.hstop < p.hstart

\* A prepared stream has transport parameters on its buses.
Placed(s, b) == state[s] = "PREPARED" /\ b \in Range(master_list[s])

\* The master has one port for all the channels, as one hw_params leaves it; a
\* second one adds a port, or another number of channels.
OnePort(s, b) == rt[s][b].ports = <<rt[s][b].ch>>
\* So do the slaves of a playback stream, which mirror one another, or the one
\* slave of a capture stream.
Mirrored(s, b) ==
  LET r == rt[s][b] IN
  /\ \A j \in DOMAIN r.slaves : r.slaves[j].ports \in {<<>>, <<r.ch>>}
  /\ s \in Playback \/ Len(r.slaves) <= 1

\* The places of the ports that the stream has on a bus; hw_free takes those of
\* the slaves away even if it cannot deprepare the stream.
Held(s, b) ==
  places[b][s].master \cup
    IF be[s] = "PREPARE" /\ Mirrored(s, b) THEN places[b][s].slave ELSE {}

\* Two prepared streams never own the same bit slot of a bus, master or slave
\* ports, whatever came and went on the bus since their places were computed.
SlotsDisjoint ==
  \A b \in Bus : \A s, t \in Stream :
    /\ s # t
    /\ \A u \in {s, t} : Placed(u, b) /\ OnePort(u, b)
    => \A p \in Held(s, b), q \in Held(t, b) : BitsApart(p, q)

\* No port of a prepared stream reaches into column 0, which carries the
\* control word, and ports of different rates have no column in common, however
\* often their streams were configured.
ColumnsOwned ==
  \A b \in Bus : \A s, t \in Stream :
    /\ Placed(s, b) /\ Placed(t, b)
    => \A p \in places[b][s].master \cup places[b][s].slave :
         /\ 1 <= p.hstart /\ p.hstop <= Cols - 1
         /\ params[s].rate # params[t].rate
            => \A q \in places[b][t].master \cup places[b][t].slave :
                 ColumnsApart(p, q)
===============================================================================
