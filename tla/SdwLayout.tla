------------------------------ MODULE SdwLayout -------------------------------
(***************************************************************************)
(* The port parameters of generic_bandwidth_allocation.c: which columns    *)
(* and which bits of them the ports of a bus own in every sample interval. *)
(* The runtimes of a bus are a sequence of records in the order of         *)
(* bus->m_rt_list:                                                         *)
(*   rate, bps, ch   the parameters the stream and the runtime carry       *)
(*   mirror          direction is TX                                       *)
(*   ports           channels of every port of the master                  *)
(*   slaves          for every slave runtime, channels of every port       *)
(* A place is a block of len bits at offset bo of the columns              *)
(* hstart .. hstop.                                                        *)
(***************************************************************************)
EXTENDS SdwClock

CONSTANT Cols   \* default_col, the columns of a frame

ASSUME LayoutAssumption == Cols \in Nat \ {0, 1}

\* A counter of a loop over q: it starts at start, every entry adds to it, and
\* the entries in back reset it.  At 0 it has not seen any entry.
Running(q, start, back) ==
  LET sum[i \in 0 .. Len(q)] ==
        IF i = 0 \/ i \in back THEN start ELSE sum[i - 1] + q[i]
  IN sum

Total(q) == Running(q, 0, {})[Len(q)]

\* The rates of the runtimes, each by the position of its first appearance.
\* The code also compares with the element after the last one: up to two rates
\* that is the zeroed rest of the smallest allocation, and no rate.
sdw_get_group_count(list) ==
  {i \in DOMAIN list : \A j \in 1 .. (i - 1) : list[j].rate # list[i].rate}

full_bw(freq, rate) == freq \div rate
payload_bw(list, rate) ==
  Total([i \in DOMAIN list |->
          IF list[i].rate = rate THEN list[i].bps * list[i].ch ELSE 0])

\* The columns of a rate, rounded up.
hwidth(list, freq, rate) ==
  (Cols * payload_bw(list, rate) + full_bw(freq, rate) - 1)
    \div full_bw(freq, rate)

\* The columns of the rates, each where it first appears.
Columns(list, freq) ==
  [i \in DOMAIN list |-> IF i \in sdw_get_group_count(list)
                         THEN hwidth(list, freq, list[i].rate) ELSE 0]

\* Variant: the column of the control word is given away as well.
sdw_compute_group_params_all(list, freq) == Total(Columns(list, freq)) <= Cols

\* Column 0 carries the control word.
sdw_compute_group_params(list, freq) == Total(Columns(list, freq)) <= Cols - 1

Place(first, last, bo, len) ==
  [hstart |-> first, hstop |-> last, bo |-> bo, len |-> len]

\* The ports of the slaves of a runtime from offset start on, one slave after
\* the other.  The slave after one that carries all the channels of a playback
\* stream mirrors it: it starts over.
sdw_compute_slave_ports(r, first, last, start) ==
  LET bo == Running([j \in DOMAIN r.slaves |-> r.bps * Total(r.slaves[j])], start,
              {j \in DOMAIN r.slaves : r.mirror /\ r.ch = Total(r.slaves[j])})
      port_bo(j) == Running([p \in DOMAIN r.slaves[j] |-> r.bps * r.slaves[j][p]],
                      bo[j - 1], {})
  IN UNION {{Place(first, last, port_bo(j)[p - 1], r.bps * r.slaves[j][p]) :
               p \in DOMAIN r.slaves[j]} : j \in DOMAIN r.slaves}

\* The ports of a master from offset bo on; its slaves start where its first
\* port does.
sdw_compute_master_ports(r, width, bo, last) ==
  LET first == last - width + 1 IN
  [master |-> {Place(first, last, bo + (p - 1) * r.bps * r.ch, r.bps * r.ports[p]) :
                 p \in DOMAIN r.ports},
   slave |-> sdw_compute_slave_ports(r, first, last,
     IF r.ports = <<>> THEN 0 ELSE bo)]

\* Columns are given to the rates from the right.
Hstop(list, freq, rate) ==
  LET first == CHOOSE i \in sdw_get_group_count(list) : list[i].rate = rate IN
  Cols - 1 - Running(Columns(list, freq), 0, {})[first - 1]

\* Variant: every runtime starts at the first bit of its columns.
BlockOffset_first(list, k) == 1
\* Blocks follow one another over all the runtimes of the bus, whatever their
\* rate.
BlockOffset(list, k) ==
  Running([i \in DOMAIN list |-> list[i].ch * list[i].bps], 1, {})[k - 1]

\* The places of the k-th runtime.
sdw_compute_port_params(list, freq, k) ==
  LET rate == list[k].rate IN
  sdw_compute_master_ports(list[k], hwidth(list, freq, rate),
                           BlockOffset(list, k), Hstop(list, freq, rate))
===============================================================================
