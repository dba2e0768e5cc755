------------------------------- MODULE SdwStream -------------------------------
(***************************************************************************)
(* The stream state machine of soundwire/stream.c over a set of buses: the *)
(* stream calls, the channel-enable bits they write into the two register  *)
(* banks of a bus, the bank switch that makes a bank active, and the       *)
(* cumulative bandwidth of the bus.  The caller is an ASoC DPCM back end   *)
(* (soc/soc-pcm.c) through the DAI operations of soundwire/intel.c.        *)
(*                                                                         *)
(* A stream call holds the bus_lock of every bus of the stream from its    *)
(* first to its last access (sdw_acquire_bus_lock), so one call is one     *)
(* step.  soc_pcm_hw_free calls into the bus once per CPU DAI; each of     *)
(* those is a step.  Every call may fail at each point where the code      *)
(* returns an error, if Faults names the kind of failure.                  *)
(*                                                                         *)
(* A use of a freed stream (see Dangling) ends the behaviour of the bus.   *)
(***************************************************************************)
EXTENDS SdwClock, FiniteSets

CONSTANTS
  Stream, Bus,
  MasterList,   \* the buses of a stream, in the order of stream->master_list
  Demand,       \* rate * ch_count * bps of a stream
  UintMod,      \* 2^32, the width of bus->params.bandwidth
  Faults        \* the kinds of failure that may happen

FaultKinds == {"async", "compute", "write", "prep", "bank", "late"}

ASSUME StreamAssumption ==
  /\ MasterList \in [Stream -> Seq(Bus)]
  /\ \A s \in Stream : \A i, j \in DOMAIN MasterList[s] :
       MasterList[s][i] = MasterList[s][j] => i = j
  /\ UintMod \in Nat \ {0}
  /\ Demand \in [Stream -> 0 .. (UintMod - 1)]
  /\ Faults \subseteq FaultKinds

VARIABLES
  be,          \* state of the DPCM back end that owns the stream
  dais,        \* buses whose CPU DAI soc_pcm_hw_free has still to visit
  state,       \* stream->state; "NONE" when there is no stream object
  m_rt_list,   \* streams with a master runtime on bus->m_rt_list
  curr_bank,   \* bus->params.curr_bank; next_bank is always the other one
  hw_bank,     \* the bank the bus is really running from
  ch_en,       \* channel-enable bits set in each bank of the bus
  bandwidth,   \* bus->params.bandwidth
  last         \* history: the outcome of the last enable or disable call

busVars == <<m_rt_list, curr_bank, hw_bank, ch_en, bandwidth>>
vars == <<be, dais, state, busVars, last>>

Bank == {0, 1}
Side == {"slave", "master"}   \* enable bits of the slave and the master port

BeState == {"CLOSE", "OPEN", "HW_PARAMS", "PREPARE", "START", "START_ERR",
            "STOP", "PAUSED", "SUSPEND", "HW_FREE", "FREEING", "CLOSING"}
StreamState == {"NONE", "ALLOCATED", "CONFIGURED", "PREPARED", "ENABLED",
                "DISABLED", "DEPREPARED", "RELEASED"}

\* "skipped" is a stop that was reported as done because the state was DISABLED
\* already, without anything being done.
Outcome == {"ok", "failed", "skipped"}

Buses(s) == {MasterList[s][i] : i \in DOMAIN MasterList[s]}
Masters(s) == {b \in Buses(s) : s \in m_rt_list[b]}

\* Position of a bus in the master list: the order of every loop over it.
Pos(s, b) == CHOOSE i \in DOMAIN MasterList[s] : MasterList[s][i] = b
Before(s, b) == {c \in Masters(s) : Pos(s, c) < Pos(s, b)}
IsLast(s, b) == \A c \in Masters(s) : Pos(s, c) <= Pos(s, b)
IsFirst(s, b, B) == b \in B /\ \A c \in B : Pos(s, b) <= Pos(s, c)

\* Variant: the current bank is written.
next_bank_current(b) == curr_bank[b]
next_bank(b) == 1 - curr_bank[b]
Ports(S) == S \X Side

\* A master runtime of a stream that sdw_release_stream has freed.
Dangling(b) == \E t \in m_rt_list[b] : state[t] = "NONE"
Usable(s) == \A b \in Buses(s) : ~Dangling(b)

-------------------------------------------------------------------------------
(* Register programming *)

\* Ports that sdw_program_params turns on: those of every enabled stream.
EnabledOn(b) == Ports({t \in m_rt_list[b] : state[t] = "ENABLED"})

\* Variant: the other enabled streams are not enabled in the alternate bank.
sdw_program_params_own(done, own) ==
  ch_en' = [b \in Bus |->
    IF b \in done
    THEN [ch_en[b] EXCEPT ![next_bank(b)] = @ \cup own] ELSE ch_en[b]]

\* The buses in done are programmed; own is what the caller turns on as well.
sdw_program_params(done, own) ==
  ch_en' = [b \in Bus |->
    IF b \in done
    THEN [ch_en[b] EXCEPT ![next_bank(b)] = @ \cup EnabledOn(b) \cup own]
    ELSE ch_en[b]]

\* The same, but a write fails on bus bad after any part of its enables.
sdw_program_params_err(done, bad, own) ==
  /\ "write" \in Faults
  /\ \E P \in SUBSET (EnabledOn(bad) \cup own) :
       ch_en' = [b \in Bus |->
         IF b \in done
         THEN [ch_en[b] EXCEPT ![next_bank(b)] = @ \cup EnabledOn(b) \cup own]
         ELSE IF b = bad THEN [ch_en[b] EXCEPT ![next_bank(b)] = @ \cup P]
         ELSE ch_en[b]]

\* Variant: the bank number is counted up instead of toggled.
do_bank_switch_count(B) ==
  /\ curr_bank' = [b \in Bus |-> IF b \in B THEN curr_bank[b] + 1 ELSE curr_bank[b]]
  /\ hw_bank' = curr_bank'

do_bank_switch(B) ==
  /\ curr_bank' = [b \in Bus |-> IF b \in B THEN next_bank(b) ELSE curr_bank[b]]
  /\ hw_bank' = [b \in Bus |-> IF b \in B THEN next_bank(b) ELSE hw_bank[b]]

\* The switch is reported as failed on bus bad.  The frame-control write names
\* its target bank; when only the response is late ("late"), the buses from
\* bad on may have switched all the same.
do_bank_switch_err(s) ==
  /\ "bank" \in Faults
  /\ \E bad \in Masters(s) :
     LET done == Before(s, bad) IN
     \E H \in IF "late" \in Faults THEN SUBSET (Masters(s) \ done) ELSE {{}} :
       /\ curr_bank' = [b \in Bus |->
            IF b \in done THEN next_bank(b) ELSE curr_bank[b]]
       /\ hw_bank' = [b \in Bus |->
            IF b \in done \cup H THEN next_bank(b) ELSE hw_bank[b]]

NoBankSwitch == UNCHANGED <<curr_bank, hw_bank>>
SetState(s, v) == state' = [state EXCEPT ![s] = v]

-------------------------------------------------------------------------------
(* sdw_prepare_stream *)

\* Bandwidth the call adds: none when it only re-applies the parameters.
Added(s) == IF state[s] = "DISABLED" THEN 0 ELSE Demand[s]
Raised(s, b) == (bandwidth[b] + Added(s)) % UintMod
RaisedFits(s, B) == state[s] = "DISABLED" \/ \A b \in B : Fits(Raised(s, b))
RaiseOn(s, B) ==
  bandwidth' = [b \in Bus |-> IF b \in B THEN Raised(s, b) ELSE bandwidth[b]]

CanPrepare(s) ==
  /\ state[s] \in {"CONFIGURED", "DEPREPARED", "DISABLED"}
  /\ Masters(s) # {}

sdw_prepare_stream(s) ==
  /\ CanPrepare(s)
  /\ RaisedFits(s, Masters(s))
  /\ RaiseOn(s, Masters(s))
  /\ sdw_program_params(Masters(s), {})
  /\ do_bank_switch(Masters(s))
  /\ SetState(s, "PREPARED")

\* A rate that does not divide the clock, found on bus bad.
PrepareAsync(s) ==
  /\ "async" \in Faults
  /\ \E bad \in Masters(s) :
       LET done == Before(s, bad) IN
       /\ RaisedFits(s, done)
       /\ RaiseOn(s, done)
       /\ sdw_program_params(done, {})
  /\ NoBankSwitch

\* compute_params refuses on bus bad: the raised bandwidth stays.
PrepareNoFit(s) ==
  /\ state[s] # "DISABLED"
  /\ \E bad \in Masters(s) :
       LET done == Before(s, bad) IN
       /\ RaisedFits(s, done)
       /\ "compute" \in Faults \/ ~Fits(Raised(s, bad))
       /\ RaiseOn(s, done \cup {bad})
       /\ sdw_program_params(done, {})
  /\ NoBankSwitch

\* Programming fails on bus bad: restore_params restores that bus only.
PrepareProgramErr(s) ==
  /\ \E bad \in Masters(s) :
       LET done == Before(s, bad) IN
       /\ RaisedFits(s, done \cup {bad})
       /\ RaiseOn(s, done)
       /\ sdw_program_params_err(done, bad, {})
  /\ NoBankSwitch

\* The bank switch fails: restore_params restores the last bus only.
PrepareBankErr(s) ==
  /\ RaisedFits(s, Masters(s))
  /\ RaiseOn(s, {b \in Masters(s) : ~IsLast(s, b)})
  /\ sdw_program_params(Masters(s), {})
  /\ do_bank_switch_err(s)

\* The ports are not ready after the switch: nothing is undone.
PreparePortErr(s) ==
  /\ "prep" \in Faults
  /\ RaisedFits(s, Masters(s))
  /\ RaiseOn(s, Masters(s))
  /\ sdw_program_params(Masters(s), {})
  /\ do_bank_switch(Masters(s))

sdw_prepare_stream_err(s) ==
  /\ CanPrepare(s)
  /\ \/ PrepareAsync(s)
     \/ PrepareNoFit(s)
     \/ PrepareProgramErr(s)
     \/ PrepareBankErr(s)
     \/ PreparePortErr(s)
  /\ UNCHANGED state

-------------------------------------------------------------------------------
(* sdw_enable_stream *)

CanEnable(s) == state[s] \in {"PREPARED", "DISABLED"} /\ Masters(s) # {}

\* Variant: only the last bus of the stream is switched.
sdw_enable_stream_last(s) ==
  /\ CanEnable(s)
  /\ sdw_program_params(Masters(s), Ports({s}))
  /\ do_bank_switch({b \in Masters(s) : IsLast(s, b)})
  /\ SetState(s, "ENABLED")
  /\ UNCHANGED bandwidth

sdw_enable_stream(s) ==
  /\ CanEnable(s)
  /\ sdw_program_params(Masters(s), Ports({s}))
  /\ do_bank_switch(Masters(s))
  /\ SetState(s, "ENABLED")
  /\ UNCHANGED bandwidth

sdw_enable_stream_err(s) ==
  /\ CanEnable(s)
  /\ \/ /\ \E bad \in Masters(s) :
             sdw_program_params_err(Before(s, bad), bad, Ports({s}))
        /\ NoBankSwitch
     \/ /\ sdw_program_params(Masters(s), Ports({s}))
        /\ do_bank_switch_err(s)
  /\ UNCHANGED <<state, bandwidth>>

-------------------------------------------------------------------------------
(* sdw_disable_stream *)

\* Variant: the bank the call leaves is not cleaned.
Disabled_once(s, b, off) ==
  [k \in Bank |-> IF k = next_bank(b)
                  THEN (ch_en[b][k] \cup EnabledOn(b)) \ Ports({s})
                  ELSE ch_en[b][k]]

\* Enables of bus b once the call has turned s off in the next bank, programmed
\* the streams that stay enabled and, after the switch, turned the ports off
\* (if it gets there) off in the bank it leaves.
Disabled(s, b, off) ==
  [k \in Bank |-> IF k = next_bank(b)
                  THEN (ch_en[b][k] \cup EnabledOn(b)) \ Ports({s})
                  ELSE ch_en[b][k] \ off]

sdw_disable_stream(s) ==
  /\ state[s] = "ENABLED"
  /\ ch_en' = [b \in Bus |->
       IF b \in Masters(s) THEN Disabled(s, b, Ports({s})) ELSE ch_en[b]]
  /\ do_bank_switch(Masters(s))
  /\ SetState(s, "DISABLED")
  /\ UNCHANGED bandwidth

\* A disable write fails on bus bad before the state has changed.
DisableWriteErr(s) ==
  /\ "write" \in Faults
  /\ \E bad \in Masters(s), Q \in SUBSET Ports({s}) :
       ch_en' = [b \in Bus |->
         IF b \in Before(s, bad)
         THEN [ch_en[b] EXCEPT ![next_bank(b)] = @ \ Ports({s})]
         ELSE IF b = bad THEN [ch_en[b] EXCEPT ![next_bank(b)] = @ \ Q]
         ELSE ch_en[b]]
  /\ NoBankSwitch
  /\ UNCHANGED state

\* Programming the remaining streams fails on bus bad; the state is DISABLED.
DisableProgramErr(s) ==
  /\ "write" \in Faults
  /\ \E bad \in Masters(s), P \in SUBSET Ports(Stream \ {s}) :
       /\ P \subseteq EnabledOn(bad)
       /\ ch_en' = [b \in Bus |->
            IF b \in Before(s, bad) THEN Disabled(s, b, {})
            ELSE IF b = bad
            THEN [ch_en[b] EXCEPT ![next_bank(b)] = (@ \ Ports({s})) \cup P]
            ELSE IF b \in Masters(s)
            THEN [ch_en[b] EXCEPT ![next_bank(b)] = @ \ Ports({s})]
            ELSE ch_en[b]]
  /\ NoBankSwitch
  /\ SetState(s, "DISABLED")

DisableBankErr(s) ==
  /\ ch_en' = [b \in Bus |->
       IF b \in Masters(s) THEN Disabled(s, b, {}) ELSE ch_en[b]]
  /\ do_bank_switch_err(s)
  /\ SetState(s, "DISABLED")

\* After the switch, turning s off in the bank just left fails on bus bad.
DisableOtherBankErr(s) ==
  /\ "write" \in Faults
  /\ \E bad \in Masters(s), Q \in SUBSET Ports({s}) :
       ch_en' = [b \in Bus |->
         IF b \in Before(s, bad) THEN Disabled(s, b, Ports({s}))
         ELSE IF b = bad THEN Disabled(s, b, Q)
         ELSE IF b \in Masters(s) THEN Disabled(s, b, {})
         ELSE ch_en[b]]
  /\ do_bank_switch(Masters(s))
  /\ SetState(s, "DISABLED")

sdw_disable_stream_err(s) ==
  /\ state[s] = "ENABLED"
  /\ \/ DisableWriteErr(s)
     \/ DisableProgramErr(s)
     \/ DisableBankErr(s)
     \/ DisableOtherBankErr(s)
  /\ UNCHANGED bandwidth

-------------------------------------------------------------------------------
(* sdw_deprepare_stream *)

Lowered(s, b) == (bandwidth[b] + UintMod - Demand[s]) % UintMod
LowerOn(s, B) ==
  bandwidth' = [b \in Bus |-> IF b \in B THEN Lowered(s, b) ELSE bandwidth[b]]
LoweredFits(s, B) == \A b \in B : Fits(Lowered(s, b))

CanDeprepare(s) == state[s] \in {"PREPARED", "DISABLED"}

_sdw_deprepare_stream(s) ==
  /\ CanDeprepare(s)
  /\ LoweredFits(s, Masters(s))
  /\ LowerOn(s, Masters(s))
  /\ sdw_program_params(Masters(s), {})
  /\ do_bank_switch(Masters(s))

\* An error on bus bad, before the state changes.
DeprepareBusErr(s) ==
  /\ \E bad \in Masters(s) :
       LET done == Before(s, bad) IN
       /\ LoweredFits(s, done)
       /\ \/ /\ "prep" \in Faults
             /\ LowerOn(s, done)
             /\ sdw_program_params(done, {})
          \/ /\ "compute" \in Faults \/ ~Fits(Lowered(s, bad))
             /\ LowerOn(s, done \cup {bad})
             /\ sdw_program_params(done, {})
          \/ /\ Fits(Lowered(s, bad))
             /\ LowerOn(s, done \cup {bad})
             /\ sdw_program_params_err(done, bad, {})
  /\ NoBankSwitch
  /\ UNCHANGED state

\* The state is DEPREPARED before the bank switch that then fails.
DeprepareBankErr(s) ==
  /\ LoweredFits(s, Masters(s))
  /\ LowerOn(s, Masters(s))
  /\ sdw_program_params(Masters(s), {})
  /\ do_bank_switch_err(s)
  /\ SetState(s, "DEPREPARED")

sdw_deprepare_stream_err(s) ==
  /\ CanDeprepare(s)
  /\ DeprepareBusErr(s) \/ DeprepareBankErr(s)

-------------------------------------------------------------------------------
(* The DPCM back end and the DAI operations it calls *)

SetBe(s, v) == be' = [be EXCEPT ![s] = v]
SetLast(s, o) == last' = [last EXCEPT ![s] = o]

\* dpcm_be_dai_startup, sdw_startup_stream.
Startup(s) ==
  /\ be[s] = "CLOSE"
  /\ Masters(s) = {}
  /\ SetBe(s, "OPEN")
  /\ SetState(s, "ALLOCATED")
  /\ UNCHANGED <<dais, busVars, last>>

\* dpcm_be_dai_hw_params: sdw_stream_add_slave by every codec DAI, then
\* sdw_stream_add_master by every CPU DAI.
HwParams(s) ==
  /\ be[s] \in {"OPEN", "HW_PARAMS", "HW_FREE"}
  /\ SetBe(s, "HW_PARAMS")
  /\ SetState(s, "CONFIGURED")
  /\ m_rt_list' = [b \in Bus |->
       IF b \in Buses(s) THEN m_rt_list[b] \cup {s} ELSE m_rt_list[b]]
  /\ UNCHANGED <<dais, curr_bank, hw_bank, ch_en, bandwidth, last>>

\* Variant: the result of sdw_prepare_stream is ignored.
Prepare_unchecked(s) ==
  /\ be[s] \in {"HW_PARAMS", "STOP", "SUSPEND", "PAUSED"}
  /\ Usable(s)
  /\ sdw_prepare_stream(s) \/ sdw_prepare_stream_err(s)
  /\ SetBe(s, "PREPARE")
  /\ UNCHANGED <<dais, m_rt_list, last>>

\* dpcm_be_dai_prepare, intel_prepare.
Prepare(s) ==
  /\ be[s] \in {"HW_PARAMS", "STOP", "SUSPEND", "PAUSED"}
  /\ Usable(s)
  /\ \/ sdw_prepare_stream(s) /\ SetBe(s, "PREPARE")
     \/ sdw_prepare_stream_err(s) /\ UNCHANGED be
  /\ UNCHANGED <<dais, m_rt_list, last>>

\* dpcm_be_dai_trigger with START, RESUME or PAUSE_RELEASE.
TriggerStart(s) ==
  /\ be[s] \in {"PREPARE", "STOP", "SUSPEND", "PAUSED"}
  /\ Usable(s)
  /\ \/ /\ sdw_enable_stream(s)
        /\ SetBe(s, "START")
        /\ SetLast(s, "ok")
     \/ /\ sdw_enable_stream_err(s)
        /\ SetLast(s, "failed")
        /\ UNCHANGED be
  /\ UNCHANGED <<dais, m_rt_list>>

\* dpcm_be_dai_trigger with STOP, SUSPEND or PAUSE_PUSH.  On an error the back
\* end stays in START; START_ERR is START with a failed stop behind it.
TriggerStop(s, stopped) ==
  /\ be[s] \in {"START", "START_ERR"}
  /\ stopped \in {"STOP", "SUSPEND", "PAUSED"}
  /\ Usable(s)
  /\ \/ /\ sdw_disable_stream(s)
        /\ SetBe(s, stopped)
        /\ SetLast(s, "ok")
     \/ /\ state[s] = "DISABLED"   \* nothing to do
        /\ SetBe(s, stopped)
        /\ SetLast(s, "skipped")
        /\ UNCHANGED <<state, curr_bank, hw_bank, ch_en, bandwidth>>
     \/ /\ sdw_disable_stream_err(s)
        /\ SetBe(s, "START_ERR")
        /\ SetLast(s, "failed")
  /\ UNCHANGED <<dais, m_rt_list>>

\* dpcm_be_dai_hw_free, or dpcm_be_dai_shutdown on a back end that could not
\* be stopped: soc_pcm_hw_free starts its loop over the DAIs.
HwFree(s) ==
  /\ \/ /\ be[s] \in {"HW_PARAMS", "PREPARE", "HW_FREE", "PAUSED", "STOP",
                      "SUSPEND"}
        /\ SetBe(s, "FREEING")
     \/ /\ be[s] = "START_ERR"
        /\ SetBe(s, "CLOSING")
  /\ dais' = [dais EXCEPT ![s] = Buses(s)]
  /\ UNCHANGED <<state, busVars, last>>

\* sdw_stream_remove_master.
RemoveMaster(s, b, stateBefore) ==
  /\ m_rt_list' = [m_rt_list EXCEPT ![b] = @ \ {s}]
  /\ SetState(s, IF Masters(s) \ {b} = {} THEN "RELEASED" ELSE stateBefore)

\* intel_hw_free of the next CPU DAI: it removes the master runtime only when
\* sdw_deprepare_stream reports success.
HwFreeDai(s) ==
  /\ be[s] \in {"FREEING", "CLOSING"}
  /\ Usable(s)
  /\ \E b \in dais[s] :
       /\ IsFirst(s, b, dais[s])
       /\ dais' = [dais EXCEPT ![s] = @ \ {b}]
       /\ IF be[s] = "FREEING" /\ dais[s] = {b}
          THEN SetBe(s, "HW_FREE") ELSE UNCHANGED be
       /\ \/ /\ _sdw_deprepare_stream(s)
             /\ RemoveMaster(s, b, "DEPREPARED")
          \/ /\ state[s] = "DEPREPARED"   \* nothing to do
             /\ RemoveMaster(s, b, "DEPREPARED")
             /\ UNCHANGED <<curr_bank, hw_bank, ch_en, bandwidth>>
          \/ /\ sdw_deprepare_stream_err(s)
             /\ UNCHANGED m_rt_list
          \/ /\ ~CanDeprepare(s) /\ state[s] # "DEPREPARED"   \* -EINVAL
             /\ UNCHANGED <<state, busVars>>
  /\ UNCHANGED last

\* soc_pcm_close, sdw_shutdown_stream: the stream object is freed.
Shutdown(s) ==
  /\ \/ be[s] \in {"OPEN", "HW_FREE"}
     \/ be[s] = "CLOSING" /\ dais[s] = {}
  /\ SetBe(s, "CLOSE")
  /\ SetState(s, "NONE")
  /\ UNCHANGED <<dais, busVars, last>>

-------------------------------------------------------------------------------

Init ==
  /\ be = [s \in Stream |-> "CLOSE"]
  /\ dais = [s \in Stream |-> {}]
  /\ state = [s \in Stream |-> "NONE"]
  /\ m_rt_list = [b \in Bus |-> {}]
  /\ curr_bank = [b \in Bus |-> 0]
  /\ hw_bank = [b \in Bus |-> 0]
  /\ ch_en = [b \in Bus |-> [k \in Bank |-> {}]]
  /\ bandwidth = [b \in Bus |-> 0]
  /\ last = [s \in Stream |-> "ok"]

Next ==
  \E s \in Stream :
    \/ Startup(s)
    \/ HwParams(s)
    \/ Prepare(s)
    \/ TriggerStart(s)
    \/ \E v \in {"STOP", "SUSPEND", "PAUSED"} : TriggerStop(s, v)
    \/ HwFree(s)
    \/ HwFreeDai(s)
    \/ Shutdown(s)

Spec == Init /\ [][Next]_vars

-------------------------------------------------------------------------------
(* Properties *)

\* Every variable stays in its type: among them, the bandwidth in the width of
\* an unsigned int and the bank numbers of do_bank_switch in 0 and 1.
TypeOK ==
  /\ be \in [Stream -> BeState]
  /\ dais \in [Stream -> SUBSET Bus]
  /\ state \in [Stream -> StreamState]
  /\ m_rt_list \in [Bus -> SUBSET Stream]
  /\ curr_bank \in [Bus -> Bank]
  /\ hw_bank \in [Bus -> Bank]
  /\ ch_en \in [Bus -> [Bank -> SUBSET Ports(Stream)]]
  /\ bandwidth \in [Bus -> 0 .. (UintMod - 1)]
  /\ last \in [Stream -> Outcome]

\* Streams that transmit on bus b: the enables of the bank it runs from.
Live(b) == ch_en[b][hw_bank[b]]

\* Every port of an enabled stream is on in the active bank of every bus of
\* the stream, whatever other streams did in between and whichever of their
\* calls failed, as long as the driver knows which bank is active.
EnabledIsLive ==
  \A s \in Stream : state[s] = "ENABLED" =>
    \A b \in Buses(s) : hw_bank[b] = curr_bank[b] => Ports({s}) \subseteq Live(b)

\* A port is on in the active bank only when its stream is enabled: no other
\* stream's bank switch turns it on.  Excepted is a stream whose own last enable
\* or disable call failed, or was a stop that only found the state a failed one
\* had left (for that one see StopIsSilent).
LiveIsEnabled ==
  \A b \in Bus : \A p \in Live(b) :
    state[p[1]] = "ENABLED" \/ last[p[1]] # "ok"

\* A stop that is reported as done leaves the stream silent on all its buses.
\* sdw_disable_stream has "nothing to do" for a stream in state DISABLED, also
\* when a disable that failed half-way has set that state.
StopIsSilent ==
  [][\A s \in Stream :
       be[s] \in {"START", "START_ERR"} /\ be'[s] \in {"STOP", "SUSPEND", "PAUSED"}
         => \A b \in Bus : Ports({s}) \cap Live(b)' = {}]_vars

\* prepare, trigger start and trigger stop of the DPCM back end find the stream
\* in a state their guards accept, and only a stop after a failed one finds it
\* DISABLED already.  (The deprepare of hw_free is refused: see NoDangling.)
CallsConsistent ==
  \A s \in Stream :
    /\ be[s] = "HW_PARAMS" => state[s] = "CONFIGURED"
    /\ be[s] = "PREPARE" => state[s] = "PREPARED"
    /\ be[s] = "START" => state[s] = "ENABLED"
    /\ be[s] = "START_ERR" => state[s] \in {"ENABLED", "DISABLED"}
    /\ be[s] \in {"STOP", "SUSPEND", "PAUSED"} => state[s] = "DISABLED"

\* While driver and bus agree on the active bank, a call that does not switch
\* bank leaves the active bank's enables as they are.
ActiveBankUntouched ==
  [][\A b \in Bus :
       hw_bank[b] = curr_bank[b] /\ hw_bank'[b] = hw_bank[b] =>
         ch_en'[b][hw_bank[b]] = Live(b)]_vars

\* The stream layer implements StreamService: what a caller may rely on for a
\* stream is changed by that stream's own calls only, and by one atomic switch
\* on all its buses, whichever calls of whichever streams fail (as long as no
\* bank switch takes effect after it was reported as failed).  A stop that was
\* skipped maps to a stop the service ignores.
Service == INSTANCE StreamService WITH
  BusesOf <- [s \in Stream |-> Buses(s)],
  promise <- [s \in Stream |->
                IF last[s] = "failed" THEN "unknown"
                ELSE IF last[s] = "skipped" THEN "ignored"
                ELSE IF state[s] = "ENABLED" THEN "on" ELSE "off"],
  live <- [b \in Bus |-> Live(b)]

ImplementsService == Service!Spec

\* bus->m_rt_list holds master runtimes of existing streams only.
NoDangling == \A b \in Bus : ~Dangling(b)
===============================================================================
