# SoundWire bus: a TLA+ verification project

This directory models the SoundWire bus driver under `src/soundwire/`, checks
the models with TLC on small instances and proves the central invariants with
TLAPS for every instance. Paths below are relative to the repository; `bus.c`,
`stream.c` and so on are files of `src/soundwire/`.

## The system

SoundWire connects a controller (the Master) to audio devices (the Slaves). A
machine has one to four links, each a bus of its own. The driver has these
parts.

| Part | Code | State | Operations |
|---|---|---|---|
| Streams | `stream.c` | stream state, runtime lists, two register banks per bus, bandwidth | add/remove, prepare, enable, disable, deprepare |
| Bank switch | `stream.c` 659-866, `intel.c` 814-865 | current bank, deferred message, `msg_lock` | switch one bus, or several in the same frame |
| Bandwidth allocation | `generic_bandwidth_allocation.c` | clock, frame shape, place of each port in the frame | compute_params |
| Enumeration | `bus.c` 501-716, 1412-1543 | `assigned`, `dev_num`, `status`, completions | handle a status array, assign numbers, clear status |
| Status interrupt | `cadence_master.c` 646-824 | sticky bits, mask, work item | interrupt, work item |
| Alerts | `bus.c` 1082-1377 | interrupt status of a Slave and its ports | handle an alert |
| Transfers | `bus.c` 157-495, `cadence_master.c` 389-644 | command FIFO, completions, deferred message | transfer, deferred transfer |
| Clock stop | `bus.c` 718-1015, `cadence_master.c` 1275-1415 | clock-stop state of Slaves and Master | prepare, stop, exit |
| Power management | `intel.c` 300-600, 1581-2030 | shim registers shared by links, link power | suspend, resume, wake |
| DAI operations | `intel.c` 871-1190, `src/soc/soc-pcm.c` | back-end state, PDIs | startup, hw_params, prepare, trigger, hw_free, shutdown |
| Slave drivers | `src/soc/codecs/rt711-sdw.c` and its four siblings | runtime PM state, `hw_init` | update_status, suspend, resume |

Four kinds of activity run at the same time: PCM calls from user space (one
stream each, under the bus locks), the status interrupt with its work item,
power management, and the resume of Slave drivers, which waits for the work
item. Beside them the controllers run the commands of all the links and
interrupt when one is answered. The devices attach, drop off and raise alerts
when they like.

What makes this hard, and what the properties are about:

- A stream is reconfigured by writing the inactive register bank and switching
  banks. The switch takes effect for *all* streams of the bus, so each call has
  to carry along what the other streams have, in both banks, whichever of its
  own writes fail.
- Each stream call has several points of failure with different clean-up.
- The status interrupt masks itself and hands a snapshot to a work item that
  talks to the bus; meanwhile the bus changes, or is reset by power management.
- Device numbers are handed out by a read-then-write dialogue with whichever
  device wins arbitration on number 0; it may drop off in the middle.
- Slave drivers wait on completions that belong to an attachment which may end
  before the completion is signalled.
- A bank switch on several links leaves a message with each controller, takes
  its answer from an interrupt and is triggered through one register that all
  links share.
- The runtimes of a stream are built DAI by DAI, and each error return takes
  down a different part of them.
- A stream waits, with the bus locked, for an interrupt whose handler needs the
  lock.

`PROJECT.json` lists each of these as a hazard at the line where it bites, with
the properties that cover it, or why none does.

## Modules

| Module | Contents |
|---|---|
| `SdwClock`, `SdwLayout` | choice of clock and frame shape, places of the ports in the frame, as operators |
| `SdwStream` | the stream state machine and its caller, over several buses |
| `StreamService` | what the stream layer promises to its users (abstract) |
| `SdwRuntime` | the lists of runtimes, hw_params and hw_free DAI by DAI, and the bit slots the allocator gives out |
| `SdwBankSwitch` | message transfer and bank switch over several links, lock by lock |
| `SdwEnumeration` | status interrupt, work item, enumeration, bus reset, Slave drivers |
| `SdwAlert` | the alert handler next to a stream that prepares a port |
| `MCSdwStream`, `MCSdwRuntime`, `MCSdwBankSwitch`, `MCSdwEnumeration` | instances for TLC |
| `SdwStreamProofs`, `SdwEnumerationProofs`, `SdwAlertProofs`, `SdwBankSwitchProofs`, `SdwBankSwitchSteps`, `SdwRuntimeProofs`, `SdwLayoutProofs`, `SdwSlotProofs` | proofs |

The stream layer appears three times at three grains. `SdwStream` takes a call
as one step and asks what it leaves in the banks; `SdwBankSwitch` opens the
bank switch inside that step; `SdwRuntime` opens hw_params and hw_free, which
build what `SdwStream` takes as given. In the same way `SdwAlert` opens the
step `SlaveAlert` of `SdwEnumeration`.

`PROJECT.json` maps each definition to the lines it models. A definition that a
comment introduces as "Variant" is a deliberately wrong form of the one that
follows it; it is used by no specification and shows that a property notices
the mistake.

### SdwStream

A stream call holds the `bus_lock` of every bus of its stream from its first to
its last access (`sdw_acquire_bus_lock`), so a call is one step. Its failures are
alternatives of the same step: `sdw_prepare_stream_err` and the like are the
union of the error returns in the code, each with exactly the state the code
leaves behind (buses before the failing one programmed, bandwidth added or
restored, state already changed or not). `soc_pcm_hw_free` calls the driver
once per CPU DAI; each of these is a step of its own (`HwFreeDai`).

State: `state`, `m_rt_list`, `curr_bank` and `bandwidth` are the fields of the
code. `hw_bank` is the bank the hardware really uses: it differs from
`curr_bank` when a switch that was reported as timed out happens all the same.
`ch_en` holds the channel-enable bits of each bank, those of the Master and of
the Slave port apart, since a write may fail between them. `be` and `dais` are
the state of the ASoC back end, which decides the calls that can come.
`last` is a history variable: whether the last enable or disable call of a
stream succeeded, failed, or was a stop that `sdw_disable_stream` skipped because
a failed one had set the state to DISABLED already.

Abstractions: the channel count, rate and word length of a stream are one
number (`Demand`); the ports of a stream are one Master and one Slave port per
bus; the transport parameters are left out. `Faults` names the kinds of failure
that may happen:

| Fault | Where |
|---|---|
| `async` | rate does not divide the clock, `stream.c` 1501 |
| `compute` | compute_params fails for a reason other than bandwidth |
| `write` | a register write fails |
| `prep` | port (de)preparation fails |
| `bank` | the bank switch is reported as failed |
| `late` | ... and takes effect nevertheless |

### StreamService

The abstract specification has a promise per stream ("on", "off", "unknown",
"ignored") and the set of live ports per bus. A step changes the promise of at
most one stream and has to leave every promise kept on all buses. Nothing is
promised after a call that failed ("unknown"), and nothing after a stop that was
repeated after a failed one and skipped ("ignored"): the service says openly what
`stream_retry` shows of the code. `SdwStream` implements it under the mapping at
the end of that module.

### SdwEnumeration

One link. The work item is cut at every point where something else can get in:
the read of the sticky bits, each transfer, and the gaps between sections under
`bus_lock`. `pc` names the point and `ack`, `seen`, `cur`, `num`, `count` and
`todo` are its local variables. The other actors are the devices (`Attach`,
`Drop`, `Alert`), the interrupt (`sdw_cdns_irq`), power management
(`intel_suspend_runtime`, `intel_resume_runtime`: the branches for a link that
is torn down and enumerated again) and the Slave drivers (`CodecResume`,
`CodecResumed`, `CodecTimeout`).

The controller's status registers are hardware and are modelled from how the
code uses them: a bit per device number and status, set when the status in
the PING frames changes, cleared by writing it back.

`Events` names what may happen besides devices attaching, each of them at any
moment. One deserves a word. Without `midwork`, power management resets the bus
only while no work item is queued or running; the code does not enforce this
(`intel_suspend_runtime` does not wait for `cdns->work`; see "Known
disagreements without a run"). `owed` is a history variable, the Slaves that were
not initialized since the bus was reset; a reset that overtakes a work item takes
the Slaves out of it until their next initialization.

Left out: the RESERVED status, `sdw_delete_slave`, the wait of
`sdw_drv_probe`, `enumeration_complete`, and the clock-stop branches of suspend
and resume. A device and its entry are one: the wildcard
`SDW_IGNORED_UNIQUE_ID` (`bus.c` 519), by which an entry stands for any device of
its part number and two devices on one link could match it, is not modelled.

### SdwRuntime and SdwLayout

`master_list`, `m_rt_list`, `m_rt_count`, `params`, `state` and `bandwidth` are
the fields of the code; `rt[s][b]` holds the channels, ports and Slaves of a
master runtime. `soc_pcm_hw_params` visits the codec DAIs and then the CPU DAIs
of a stream; each visit is a step (`HwParamsCodec`, `HwParamsCpu`) that succeeds or
fails in one of the ways its function has, and `HwParamsUndo` is the roll-back.
`card->pcm_mutex` is held throughout, so one back end at a time is inside; that
is the guard `CanEnter`. Prepare and deprepare run the allocator over
`m_rt_list` in its order and store the place of every port: first and last
column, offset and length in bits. The order matters, since offsets are
computed by walking the list. `Asked` says which parameters each stream may be
asked for. `SdwLayout` has the arithmetic of `generic_bandwidth_allocation.c`,
divisions and roundings included. The loops of that file keep running totals
(bits of the blocks so far, columns given away, channels of a Slave); all are
`Running`, a counter over a list that some entries reset.

### SdwBankSwitch

Per link: the two mutexes with their holders, `bus->defer_msg` (the memory of
the message and its completion), `cdns->defer`, `cdns->tx_complete`, the command
in the controller and the transfer that `msg_lock` covers (its length, chunk,
page, attempt and what was acknowledged). Common to the links: `multi_link` and
the CMDSYNC bits of the SYNC register. A stream thread walks its masters three
times: take `bus_lock`; pre_bank_switch and `sdw_bank_switch`; post_bank_switch
and `sdw_ml_sync_bank_switch`. `pc` and `at` say where it is. The controller
holds a command back while its CMDSYNC bit is set, runs it on SYNCGO, and
answers it by the interrupt `RxIrq` or not at all; which of these is chosen when
the command starts to run.

A link that is probed or resumes arms itself and triggers SYNCGO too, under
`shim_lock` only (`intel.c` 1476-1491, 1814-1829, 1898-1913, 1956-1985). This is
`intel_shim_sync_go`, enabled by the fault kind `start`: no stream is at work on
that link and it holds no command, so arming it has no effect on others and the
SYNCGO is the whole of it.

The error path of `do_bank_switch` frees the message of every master, whether or
not it is allocated, and unlocks `msg_lock` whoever holds it. What follows is not
defined, so `do_bank_switch_err` sets `failed` and ends the behaviour. Each
property says what holds up to that point.

Two things are assumed of the caller. A stream is on a link at most once, and
all streams take the links in the same order (the order of the DAIs of the
card; `stream.c` 1449 expects "that a global lock is held", which would serve
the same end).

### SdwAlert

One Slave. Every register access of `sdw_handle_slave_alerts`,
`sdw_handle_port_interrupt` and `sdw_handle_dp0_interrupt` is a step, since the
Slave raises interrupts at any moment. The handler is entered for a sticky report
(`alerted`), which is set when the Slave goes into ALERT, as in `SdwEnumeration`,
and written back by the work item when the handler has returned (`WriteBack`).
`first`, `again`, `missed` and `told` are history variables: what the handler
found on entry, what of it was raised again or given up after a failed access
since, and whether the driver was called. The stream side is `sdw_prep_deprep_slave_ports` for one port with a prepare state
machine, in both directions: it enables the interrupts of a port that is
prepared, writes PREPARECTRL, waits for `port_ready` or the timeout, reads
PREPARESTATUS, and disables the interrupts of a port that was deprepared. A
failed read returns an error code that the code masks like a
status; `Errors` has the bits of the codes. A resume of the Slave that fails
drops the reference from the bus device, as the code does.

## What is checked

The numbers are those of TLC with two workers. "Caught by" names the variant
that breaks the property.

### Runs that pass

| Run | Instance | Properties | States |
|---|---|---|---|
| `stream_faults` | two streams on one bus, all six faults | `TypeOK`, `EnabledIsLive`, `LiveIsEnabled`, `ActiveBankUntouched` | 454,836 |
| `stream_links` | a stream on two links next to one on the second link; faults `bank`, `prep` | `CallsConsistent`, `ImplementsService` | 200,440 |
| `runtime_lists` | four cards: a playback and a capture stream on one link, the first with two codecs, two rates and every failure of hw_params, or with one codec, another number of channels as well and failed allocations; a playback stream on two links, with and without `multi_link` | `TypeOK`, `ListsAgree`, `RateKnown`, `CountEnough`, `SlotsDisjoint`, `ColumnsOwned` | 702,819 |
| `switch_path` | two streams on one or both of two links, ordinary messages on the second, a link that starts; refused, lost and missing everything | `TypeOK`, `BankInStep`, `AnswerGoesHome`, `MessageLive`, `SwitchTogether`, `Returns` | 283,056 |
| `enum_numbers` | two Slaves and a device without an entry, numbers up to 2; drop-outs, resets, failing power sequences and transfers | `RightAddressee` | 780,709 |
| `enum_alone` | one Slave; alerts, resets at any moment, failing callbacks | `TypeOK`, `ResumedIsInitialized`, `Numbered`, `Noticed` | 7,148 |
| `alert_loop` | ports 1 and 4, two interrupts, two preparations, one failure | `TypeOK`, `FirstServed`, `PmBalanced`, `PreparedIsReady`, `Returns` | 245,939 |

- **`EnabledIsLive`** An enabled stream is on, on all its buses, in the bank the
  hardware runs from, whatever other streams did and wherever their calls
  failed. (Caught by `sdw_program_params_own`: the other streams are not
  carried over into the alternate bank.)
- **`LiveIsEnabled`** A stream that is not enabled is off in the active bank,
  whatever other streams do. Excepted is one whose own last enable or disable
  failed, or was a stop skipped after a failed one. (`Disabled_once`: only one of
  the two banks is cleaned.)
- **`ActiveBankUntouched`** Without a switch, the active bank is not
  written. (`next_bank_current`.)
- **`CallsConsistent`** prepare, start and stop of the back end find the stream in
  a state they accept, and a stop finds it DISABLED only after one that failed.
  (`Prepare_unchecked`.) The deprepare of hw_free is not among them: it is
  refused for a stream that was only configured, see `stream_dangling`.
- **`ImplementsService`** Refinement of `StreamService`.
  (`sdw_enable_stream_last`: only the last bus is switched.)
- **`ListsAgree`** A runtime is on the list of its stream exactly when it is on
  that of its bus, through every failure and roll-back of hw_params.
  (`sdw_release_master_stream_half`.)
- **`RateKnown`** Every runtime the allocator finds on a bus has a rate, by which
  it divides. (`sdw_stream_add_slave_err_keep`.)
- **`CountEnough`** `m_rt_count` covers every link of a configured stream, so its
  bank switch is synchronized. (`sdw_stream_add_master_uncounted`.)
- **`SlotsDisjoint`** Two prepared streams have no bit slot of a bus in common,
  whatever came and went since their places were computed.
  (`BlockOffset_first`.) It speaks of streams whose ports fit their block
  (`OnePort`, `Mirrored`); the known disagreements below say which do not.
- **`ColumnsOwned`** No port of a prepared stream reaches into the column of the
  control word, and streams of different rates share no column, however often
  they were configured. (`sdw_compute_group_params_all`: the comparison with
  `sel_col - 1` forgets the 1.)
- **`BankInStep`** When no switch is under way on a link, the driver's bank is
  the link's. (`sdw_ml_sync_bank_switch_same`.)
- **`AnswerGoesHome`** The interrupt hands an answer to the message it answers,
  the deferred one or that of `msg_lock`. (`intel_pre_bank_switch_unlocked`.)
- **`MessageLive`** The deferred message is allocated whenever it may be filled
  in and when it is freed. (`sdw_bank_switch_defer_free`.)
- **`SwitchTogether`** The links of a stream are triggered in one step.
  (`intel_post_bank_switch_own`.) It holds on two links, where a stream of both
  leaves none to another stream or to start; see `switch_shared`.
- **`Returns`** (`SdwBankSwitch`) A call that starts a bank switch gets its locks
  and returns. (`Unlocked_first`: only one lock is released.)
- **`FirstServed`** When the alert handler looks at the status again, what it
  found in INT1 on entry is no longer pending in the Slave, unless it was raised
  again or an access to its port failed; the driver was told of an
  implementation-defined interrupt. (`Round_else`.)
- **`PmBalanced`** While no resume of the Slave has failed, its usage count is one
  while the handler is at work and zero otherwise, on every error path.
  (`io_err_leak`.)
- **`PreparedIsReady`** A call to prepare or deprepare that returns 0 leaves a port
  that has finished, though the completion it consumed may be that of an earlier call.
  (`Ready_left`: PREPARESTATUS is not looked at.)
- **`Returns`** (`SdwAlert`) The handler and the preparation both return, though
  each holds what the other waits for. (`TimedOut_never`: only the timeout
  breaks that wait.)
- **`RightAddressee`** A message to a Slave entry reaches the device of that
  entry or none. (`Taken_unset`: the bit of an assigned number is not set.)
- **`ResumedIsInitialized`** A Slave driver that resumes after a bus reset finds
  its Slave initialized again. Excepted is a Slave whose bus was reset under a
  running work item, until its next initialization: the harm goes no further.
  (`Requested_none`.)
- **`Numbered`**, **`Noticed`** A device on number 0 gets a number, with the same
  exception; a numbered device is noticed. (`FirstLoop_else`, `Acked_all`.)

### Runs that show a disagreement

Each checks one property that a comment of the repository states and that the
code does not keep; `PROJECT.json` quotes the comment.

| Run | Property | What happens |
|---|---|---|
| `stream_dangling` | `NoDangling` | open, hw_params, hw_free, close: the freed stream stays on the bus list |
| `stream_retry` | `StopIsSilent` | a stop fails after the state was set to DISABLED; the next one finds "nothing to do" and returns 0, and the stream is still live |
| `switch_shared` | `SwitchTogether` | SYNCGO for a stream on a third link triggers the first of two links of another stream before the second is armed |
| `xfer_chunks` | `TransferComplete` | the second chunk of a long message goes to the registers of the first |
| `alert_ports` | `CascadeServed` | the interrupt of port 4 is looked for in the register of port 3 |

### Known disagreements without a run

Seen while modelling and left in the models, which follow the code. The
passing runs are narrowed by them.

- A prepare that is refused for lack of bandwidth keeps its demand on the bus
  (`stream.c` 1511), and a deprepare that fails in `compute_params` has already
  given its share back (`stream.c` 1802). No run states the exact sum.
- The block of a stream has room for `m_rt->ch_count` channels once, and three
  ways lead to ports that do not fit it. A second hw_params without hw_free puts
  a second port on the list, placed behind the first (`stream.c` 1291). One that
  asks for another number of channels and fails at a later DAI leaves the
  new `ch_count` with the old, wider port; the stream is still configured and can
  be prepared. Two codecs of a capture stream on one link are placed behind one
  another (`generic_bandwidth_allocation.c` 75 starts over for TX only).
  Each overlaps the block of the next stream; `SlotsDisjoint` leaves these ports
  out by `OnePort` and `Mirrored`.
- The columns of a rate are computed from its payload, but block offsets start at
  1 and run on over runtimes of other rates (`generic_bandwidth_allocation.c`
  150, 157). That blocks are apart is proved; that each ends within the bits
  its columns have in a sample interval does not follow, and is not stated.
- A work item overtaken by a suspend completes an initialization that the next
  resume waits for (`bus.c` 1486), and writes back reports of the bus that came
  after it, so that a device stays on number 0: `ResumedIsInitialized` and
  `Numbered` except the Slaves of such a reset. `enum_alone` has no
  `drop` and no `io`: initialization of a Slave that drops off, or that a
  transfer to fails, ends early, and `sdw_handle_slave_status` signals the
  completion regardless.
- A device number without a report counts as UNATTACHED (`cadence_master.c`
  662): the report of a second device detaches the first one for a while.
  A report in the same snapshot as that of device 0 is acknowledged unhandled
  (`cadence_master.c` 816). `enum_alone` therefore has one Slave, and no
  drop-outs, since a device that drops off between the read of its id and the
  write of its number ends the enumeration of all devices on 0.
- A message that times out has its length set to zero (`cadence_master.c` 463);
  a retry would send nothing and succeed. `ErrThreshold` is 0 in the runs, the
  value the Intel controller sets.
- The error code of a failed PREPARESTATUS read is masked with the channels
  (`stream.c` 489); for channel 0 alone, -ETIMEDOUT passes as ready.
  `PreparedIsReady` is checked with two channels.
- The acknowledgements of the alert loop accumulate (`bus.c` 1328): an interrupt
  raised again after it was serviced may be acknowledged unserviced.
- An interrupt that rises while the handler is in its loop is filtered out by
  `buf &= _buf` (`bus.c` 1355), and if the Slave never left ALERT meanwhile there
  is no new report of it: it stays pending. In the same way the work item writes
  back the report of an alert after it was handled (`cadence_master.c` 812-817),
  and one that is raised again in between is lost with it. No property claims
  that every alert is serviced in the end.
- After a failed resume the reference taken on the Slave stays and one of the bus
  device is dropped (`bus.c` 1232-1237): neither count balances from there on.
- A link that resumes while a stream switches the banks of other links lets go of
  those armed so far (`intel.c` 1913). The switch ends well, but its links do not
  switch together; with a third link TLC finds it as readily as `switch_shared`.
- Two streams that list the same links in opposite orders block each other in
  `sdw_acquire_bus_lock`; the instances have one order.

### Bounds and why they are enough

Two streams and two buses: the stream properties relate a stream to one other
stream, on one bus or across two. `switch_shared` needs a third link for the
stream that interferes. `CmdLen` 2 and `MaxLen` 1 or 3 stand for the 32 registers
of a command buffer: messages that fit and messages of two chunks. The streams of
`stream_faults` are alike, so that run uses their symmetry. In
`alert_loop` port 1 is reported in INT1 itself and port 4 through the cascade, and
two interrupts are one that is found and one that rises meanwhile; `Retry` 2 is the first value
at which a round is repeated. In `runtime_lists` one clock of 6 and frames of 4
columns make a format fill a bus almost alone or leave room, and `MaxParams` 2
lets hw_params run again over its own runtimes. A playback stream asks for one
channel at rate 1 or at rate 2, the rate of the capture stream, so two streams
share a group of columns or have one each; the one with a single codec also asks
for three channels, which leaves demand behind on the bus when hw_params is
repeated. Two codecs together with a changing number of channels are left to the
proofs. Two Slaves: numbers and completions relate a
Slave to one other; the third device of `enum_numbers` is one without an
entry. With numbers up to 2, of which the code hands out one
(`find_first_zero_bit` looks at `SDW_MAX_DEVICES` bits, 0 included), the second Slave
of `enum_numbers` is refused. `FrameInt` and the clock
of the stream runs are small numbers in the proportion that makes both outcomes of
`sdw_select_row_col` happen. The runs about enables have zero demand: bandwidth
does not influence them except through a refused prepare, which the fault
`compute` provides. `UintMod` stands for 2^32. The loop of
`sdw_program_device_num` is bounded by twice the largest number as in the code.

`CHECK_DEADLOCK FALSE` is used for the stream runs, where a use of freed memory
(a dangling runtime) ends the behaviour of its buses, in `runtime_lists` for the
same reason, and for the alert runs, in which nothing is left to do once the
bounded interrupts and preparations are used up.

### Fairness

`SdwStream` is used without fairness: all its properties are safety properties.
`FairSpec` of `SdwEnumeration` assumes weak fairness of the interrupt (it is
level-triggered and stays pending while a sticky bit is set and not masked) and
of the steps of the work item (the workqueue runs what is queued, and each
transfer in it ends by a timeout at the latest). Nothing is assumed of devices,
power management and Slave drivers.

`SdwAlert` assumes weak fairness of the handler and of the preparation: both are
threads that run when they can, and a wait ends by its completion or its
timeout. Nothing is assumed of the Slave. `FairSpec` of `SdwBankSwitch` assumes
weak fairness of transfers, controllers and interrupts, and strong fairness of
each stream thread inside a call: a kernel mutex hands itself to a waiter that
has spun or slept long enough, so a thread is not overtaken for ever by others
that take the same lock again and again. Nothing obliges anyone to start a call
or a message.

## What is proved

TLAPS checks these for all values of the constants that satisfy the named
assumptions of the modules (`ClockAssumption`, `LayoutAssumption`,
`StreamAssumption`, `RuntimeAssumption`, `EnumAssumption`,
`BankSwitchAssumption`, `AlertAssumption`). Where a property does not hold of all
of them, the theorem has a hypothesis on the configuration or on what may fail;
each is named below, with what goes wrong without it.

`SdwStreamProofs`: `TypeCorrect`, `EnabledStreamsAreLive` (`EnabledIsLive`) and
`OnlyEnabledStreamsAreLive` (`LiveIsEnabled`), for any streams, buses and faults.
Neither invariant is inductive. `LiveIsEnabled` speaks of the active bank, but a
forgotten bit in the alternate one comes alive with the next switch, so
`EnabledBitsOwned` says it of both banks. `EnabledIsLive` speaks of all buses of
a stream while programming goes over `m_rt_list`, so `OnItsBuses` says that a
stream has a runtime on each of its buses as long as it is configured, and
`StartedBackEnd` ties the stream state to the back end that keeps it from being
freed. Every call is first reduced to what it can do to the banks (`Effect`):
it turns on only enabled or its own ports, and a bus either keeps its active
bank without a loss or moves to one that has all enabled streams.

`SdwEnumerationProofs`: `NumbersAreOwned`, `EnumTypeCorrect` and
`MessagesReachTheirSlave` (`RightAddressee`) for any devices and all events.
`RightAddressee` needs `NumbersOwned`: the sticky number of an entry is its own for good, the device
answers to it or to 0, and while the write of a number is in flight it is the
number of the entry that answered.

`ResumedAfterInit` (`ResumedIsInitialized`) is for any devices, with alerts,
attachments at any moment, resets, failing power sequences and failing
notifications, but under `Calm`: no `drop`, no `io`, no `midwork`. Each of the first two breaks the
property: `sdw_handle_slave_status` signals the completion whether or not
`sdw_initialize_slave` reached the device. The third is left to `enum_alone`.
The action property needs `RInv`, which has `NumbersOwned` and four parts more.
`CompletionIsCurrent` and `CInv`: a completion is there only while the entry of its
Slave is not UNATTACHED, the Slave about to be completed has not been marked UNATTACHED, and no
work item is pending while the link is down. `SeenInv`: what was reported, read or
combined since the reset is about devices that are still there, and an alert
comes from an initialized one; so the Slave the loop comes to is the device its
status was read from (`LoopFindsDevice`, with `RightAddressee`).
`InitializedInv`: exactly the Slaves initialized since the reset have their interrupts
enabled, and no codec waits while the link is down. `OwedInv`: on a bus that is
up, a Slave that was not initialized since the reset is UNATTACHED and its codec,
if it ever ran, has an `unattach_request` to wait for. `sdw_clear_slave_status`
skips Slaves whose `dev_num` is 0; the first conjunct of `OwedInv` says that
those never ran (`OwedResume`).

The second half of `SdwStreamProofs`, on top of the same invariant:
`CallsWriteTheOtherBank` (`ActiveBankUntouched`), `CallsAreConsistent`
(`CallsConsistent`) and
`StreamRefinesService` (`ImplementsService`), the last one as long as no bank
switch takes effect after it was reported as failed. For each, one lemma
says what a call of stream `s` does (`StepAgrees`, `StepUntouched`,
`StepConsistent`, `StepRefines`). The refinement rests on `PromisesHold`: every
promise is kept on every bus of its stream. It follows from the invariant and
`BankAgreement` (the lemma `DriverKnowsTheBank`), and a call that changes nothing
but the promise of its own stream and keeps all promises is a step of the service.

`SdwBankSwitchProofs`: `SwitchTypeCorrect`,
`AnswersGoHome` (`AnswerGoesHome`) and `MessagesAreLive` (`MessageLive`), for
any links, streams, orders of links, message lengths, thresholds and failures.
Neither of the two invariants is inductive: whether the interrupt may touch a
message depends on who holds `msg_lock`, and that on where each thread is in its
walk. `SInv` says it link by link. A thread owns `bus_lock` of the links it has
claimed; a transfer under way has `msg_lock` in its name; a message that is out
or answered (`Pending`) is allocated, belongs to one synchronized switch that
holds both locks of the link, and the link is among those that switch has
started and not yet collected (`Out`: the masters behind it on the first walk,
the ones ahead of it on the last). `Answering` ties the command in the controller
to `cdns->defer`. All of it is claimed up to the first error path (`IInv`). A
step of a stream thread is first reduced to what it does to its own links
(`StreamStepKeeps`), so each step only has to account for those.

`ShortMessagesComplete` (`TransferComplete`, for which no passing run is needed: it
takes messages of more than one chunk to go wrong), in the same module, holds under
`MaxLen <= CmdLen`, every message fits the command buffer; `xfer_chunks` is the
counterexample without it. Its invariant `InOneGo` follows such a message through
the page write, its only chunk and the retries: nothing counts as sent before the
answer to that chunk, and a length once zeroed stays zero, so a retry that sends
nothing is never taken for one that sent everything.

`SdwBankSwitchSteps`, on top of that invariant, has the two properties of the
switch itself.

- `BanksInStep` (`BankInStep`) under `Reliable`: a deferred command is not
  refused, and either nothing is retried (`err_threshold` 0, `intel.c` 1407) or no
  answer is lost. Without the first, `RxIrq` completes the deferred message
  without a look at its code; without the second, a retry finds the length zeroed
  and reports success. TLC finds both with these faults switched on. Between
  two switches the banks agree, but during one they differ as soon as the link
  moves. `KnownAt` says when exactly: iff the command was executed and the
  switch has not taken note of it (`Moved`). `OneChunk` follows the message
  through the attempts of `sdw_transfer`, `OnceAt` says that an answer is
  under way only for a transfer that waits.
- `LinksSwitchTogether` (`SwitchTogether`) under `OneGroup`: every stream of
  several links has at least `hw_sync_min_links` (Intel sets 1, `intel.c` 1449) and
  shares a link with every other stream; and if links may start meanwhile, it has
  all the links, so that none is left that could. `switch_shared` is the
  counterexample without the second part: the locks of a stream do not cover the
  SYNC register, and a link that starts takes none. The invariant is `Armed`:
  before SYNCGO every link the call is done with has its CMDSYNC bit and holds its command, after it none holds one. With
  `OneGroup` the bus locks keep all other calls waiting meanwhile (`LongAlone`).

`SdwRuntimeProofs`: `TypeCorrect`, `ListsAlwaysAgree` (`ListsAgree`),
`RateAlwaysKnown` (`RateKnown`) and `CountAlwaysEnough` (`CountEnough`), for any
cards, streams, formats, failures and any number of repeated hw_params. The
lemmas about `list_del` and `list_add_tail` (`WithoutList`, `DelList`,
`AppendList`) say what they do to a list without repetitions; each add and remove
changes both lists in step (`EditLists`). `RateKnown` needs `RatedAt` for every
runtime on a list, including that of a stream whose hw_params stopped half way.
`CountEnough` does not follow from counting what is on the list:
`sdw_stream_add_slave` puts runtimes there that only `sdw_stream_add_master`
counts, and a repeated hw_params counts them again. It needs
`ControlAt`: inside hw_params the count covers the CPU DAIs visited so far,
so it reaches their number at the end; and the list, whose members are CPU DAIs
without repetition, is no longer than that (`NoLonger`, by the pigeonhole
principle). `CountedAt` keeps the count from going below zero when it is lowered
for each runtime removed.

`SdwAlertProofs`: `AlertTypeCorrect`, `FoundIsServed` (`FirstServed`),
`ReferencesBalance` (`PmBalanced`), and `PreparedPortsAreReady`
(`PreparedIsReady`) under the hypothesis `ErrorsSeen`, that every error code meets
the channel mask. `FirstServed` needs `OnItsWay`: at every point of a round, what
was found on entry is gone from the Slave, still to be visited, or noted in
`clear`, unless it was raised again or given up. `PmBalanced` needs `BusUsage`: the
counts of the Slave and of the bus device add up to one while the handler is at
work and to zero otherwise, failed resumes included.

`SdwSlotProofs`, on top of the invariant of `SdwRuntimeProofs` and the lemmas of
`SdwLayoutProofs` about the arithmetic:
`SlotsAlwaysDisjoint` (`SlotsDisjoint`) and `ColumnsAlwaysOwned`
(`ColumnsOwned`), for any cards, streams, buses, frame widths, clocks, rates,
sample sizes, channel counts and failures. The assumption on the formats is that no
rate exceeds a clock of the table (`RuntimeAssumption`): `full_bw` is the
quotient of the two and the code divides by it. The argument has three parts.

- *Arithmetic* (`SdwLayoutProofs`). `Running` is a recursive function, and that it counts
  (`RunningCounts`) and grows (`RunningGrows`) holds for lists of any length. The
  induction goes by the least position at which it would fail (`Least`,
  from the well-foundedness of the naturals). It follows that
  the columns of two rates do not meet and leave column 0 alone if the
  comparison of `sdw_compute_group_params` succeeds (`ColumnsDisjoint`,
  `PortsInColumns`), and that the blocks of two runtimes do not meet
  (`BlocksFollow`, `BlocksApart`); mirrored Slaves stay in the block
  of their master (`SlavesMirror`).
- *One computation.* What a successful `sdw_compute_params` stores on a bus
  are the places of one and the same list (`Recomputed`, `SlotsOf`,
  `ColumnsOfBoth`).
- *What happens after it.* Places are stored and used much later, when the list of
  the bus has changed: runtimes were added without a computation, removed, or
  configured again. So `SlotInv` has no list in it: it says of every two streams
  prepared on a bus that their stored places are apart, of their rates
  that they fit the clocks, and which entries `places` has. That is enough because of the
  lemma behind every action (`Moved`): it leaves the places of all prepared
  streams of a bus and what they depend on alone (`Kept`), or it has run the
  allocator for that bus, which places all of them anew from one list
  (`Recomputed`). The invariant of `SdwRuntimeProofs` is needed for that list: its
  entries are the runtimes of the bus without repetition.

The property was first stated for every stream that went through hw_params once
since hw_free. That is not invariant: the failed proof led to the second of
the three ways listed among the known disagreements, a failed hw_params with
other channels.

Only model-checked are the liveness properties (`Numbered`, `Noticed`,
both `Returns`), which are out of the prover's
reach. Every safety property of a passing run has a theorem.

## Not modelled

- Clock stop (`bus.c` 718-1015, `cadence_master.c` 1275-1415) and the clock-stop
  branches of suspend and resume: one thread, ordered by the driver core, whose
  outcome is decided by the hardware. What the driver does about a bus that
  comes back with or without its state is the reset of `SdwEnumeration`.
- The shim power sequence (`intel.c` 300-540): registers shared by links, each
  access under `shim_lock`. The SYNC register, which is shared in the same way
  and used across several sections under that lock, is in `SdwBankSwitch`.
- PDI allocation and stream binding of the Cadence IP, IPC to the DSP.
- Answers that arrive after the driver has given up waiting for them
  (`cadence_master.c` 458): `SdwBankSwitch` loses answers, it does not delay them.
- The RESERVED status, `sdw_delete_slave`, `enumeration_complete`.
- Reading firmware tables (`mipi_disco.c`), device-model glue (`bus_type.c`,
  `master.c`), debugfs, link discovery (`intel_init.c`): sequential code that runs
  once or only formats.
- Running out of memory inside `sdw_compute_params`
  (`generic_bandwidth_allocation.c` 228, 284): the allocator fails when the
  demand does not fit, and stores nothing then either. Its sums are integers
  without a width; a demand that fits a frame is far below 2^31.
- The element that `sdw_get_group_count` reads behind the rates it has stored
  (`generic_bandwidth_allocation.c` 213). For up to two rates on a bus it
  is the zeroed rest of the allocation; for more it lies outside, and the model
  takes it to be no rate of a stream.
- The Qualcomm controller (`qcom.c`): a second controller behind the same
  operations.
- The rest of the tree (regmap, HDA, SOF, other codec drivers): clients of the
  bus, and by far the largest part of the sources shipped here.

## Running

`tlc -config <Name>.cfg <Module>` for each run of `PROJECT.json` (at most about
three minutes each), and `tlapm <Module>.tla` for each of the eight modules with
proofs (about half an hour together).
